------------------------------ MODULE Daemons ------------------------------
(***************************************************************************)
(* What the master runs beside its workers (core/daemons.c and             *)
(* core/gateway.c): gateways, dumb daemons, control daemons, and smart     *)
(* daemons, which put themselves into the background and are found by      *)
(* their pidfile.  One of them per behaviour.                              *)
(*                                                                         *)
(* The child that is forked for a smart daemon, its starter, leaves the    *)
(* daemon behind and ends; the daemon is no child of the master, and       *)
(* outlives it.  It writes its pidfile when it likes, or never.  A pid is  *)
(* not used again while the pidfile names it.                              *)
(***************************************************************************)
EXTENDS Bench, Integers, FiniteSetsExt

CONSTANTS DmFreq,       \* checks before a missing pidfile counts
          DmForkFails,  \* how many forks may fail
          DmMost        \* bound: instances that run at once

DmWhats == {"gateway", "dumb", "control", "smart"}
DmPids == 1..4
NoProc == 0
NewDaemon == [registered |-> FALSE, pid |-> NoProc, status |-> 0, daemonized |-> FALSE, checks |-> 0]

\* starters, alive and zombies are processes.  The rest is not the code's: the
\* checks made while nothing was running and those without a pidfile since the
\* last spawn, whether a master has ever passed over an instance that ran, and
\* the forks that failed.
DaemonInit ==
    /\ kind = "daemon"
    /\ \E w \in DmWhats, left \in BOOLEAN :
        /\ left => w = "smart"
        /\ st = [what |-> w, d |-> NewDaemon, mode |-> "start", starters |-> {}, zombies |-> {},
                 alive |-> IF left THEN {1} ELSE {}, pidfile |-> IF left THEN 1 ELSE NoProc,
                 gone |-> 0, unseen |-> 0, passed |-> FALSE, fails |-> 0]

Smart == st.what = "smart"
Running(s) == s.alive \cup s.starters
FreshPids(s) == DmPids \ (Running(s) \cup s.zombies \cup {s.pidfile, s.d.pid})
FreshPid(s) == Min(FreshPids(s))

\* upsgi_check_pidfile: the process the file names, if it is there
CheckPidfile == IF st.pidfile \in st.alive THEN st.pidfile ELSE NoProc

\* upsgi_spawn_daemon and gateway_respawn, when the fork succeeds.  The starter
\* may sleep first (throttle), as long as it takes to have its next step.
Spawned(s) ==
    LET p == FreshPid(s)
    IN  IF ~s.d.registered THEN s
        ELSE [s EXCEPT !.starters = @ \cup {p}, !.gone = 0, !.unseen = 0,
                       !.passed = @ \/ (s.mode = "start" /\ Running(s) # {}) \/ (s.unseen >= DmFreq /\ s.alive # {}),
                       !.d.pid = p, !.d.status = 1, !.d.daemonized = FALSE, !.d.checks = 0]

NotSpawned(s) == [s EXCEPT !.fails = @ + 1, !.gone = 0]

Spawns(s) ==
    (IF Cardinality(Running(s)) < DmMost /\ FreshPids(s) # {} THEN {Spawned(s)} ELSE {})
    \cup (IF s.fails < DmForkFails THEN {NotSpawned(s)} ELSE {})

\* upsgi_daemons_spawn_all, when the master starts
DaemonStart ==
    /\ At("daemon") /\ st.mode = "start"
    /\ LET s == [st EXCEPT !.d.registered = TRUE]
       IN  \E t \in IF Smart /\ CheckPidfile # NoProc THEN {[s EXCEPT !.d.pid = CheckPidfile]} ELSE Spawns(s) :
               st' = [t EXCEPT !.mode = "run"]

-----------------------------------------------------------------------------
\* upsgi_daemons_smart_check, of a daemon whose pidfile names no process
CheckRespawns(d) == d.status = 2 \/ (d.checks + 1 >= DmFreq /\ d.daemonized)

CheckCounts(d) ==
    [d EXCEPT !.checks = CASE d.status = 2 -> @
                           [] d.status # 2 /\ @ + 1 >= DmFreq /\ ~d.daemonized -> 0
                           [] OTHER -> @ + 1]

Nothing == Running(st) = {} /\ st.zombies = {}

\* Every second of the master, also while the server stops.
DaemonCheck ==
    /\ At("daemon") /\ st.mode \in {"run", "dying"} /\ Smart
    /\ LET p == CheckPidfile
           s == [st EXCEPT !.d = CheckCounts(@), !.unseen = Min({@ + 1, DmFreq}),
                           !.gone = IF Nothing THEN Min({@ + 1, DmFreq + 2}) ELSE 0]
       IN  CASE p = NoProc /\ CheckRespawns(st.d) -> st' \in Spawns(s)
             [] p = NoProc /\ ~CheckRespawns(st.d) -> st' = s
             [] p # NoProc /\ p # st.d.pid ->
                    st' = [st EXCEPT !.d.pid = p]
             [] OTHER -> st' = [st EXCEPT !.d.status = 2]

-----------------------------------------------------------------------------
\* The starter leaves the daemon behind.
StarterForks ==
    /\ At("daemon") /\ Smart /\ FreshPids(st) # {}
    /\ \E p \in st.starters :
        st' = [st EXCEPT !.alive = @ \cup {FreshPid(st)}, !.zombies = @ \cup {p}, !.starters = @ \ {p}]

DaemonWritesPidfile ==
    /\ At("daemon") /\ Smart
    /\ \E p \in st.alive : p # st.pidfile /\ st' = [st EXCEPT !.pidfile = p]

StarterDies ==
    /\ At("daemon")
    /\ \E p \in st.starters : st' = [st EXCEPT !.zombies = @ \cup {p}, !.starters = @ \ {p}]

DaemonDies ==
    /\ At("daemon")
    /\ \E p \in st.alive : st' = [st EXCEPT !.alive = @ \ {p}]

\* The master reaps a child: upsgi_daemon_check_pid_reload and
\* gateway_respawn, or upsgi_daemon_check_pid_death
DaemonReap ==
    /\ At("daemon") /\ st.mode \in {"run", "dying"}
    /\ \E p \in st.zombies :
        LET s == [st EXCEPT !.zombies = @ \ {p}]
            mine == p = st.d.pid
        IN  CASE mine /\ Smart -> st' = [s EXCEPT !.d.daemonized = TRUE]
              [] mine /\ st.mode = "run" /\ st.what = "control" -> st' = [s EXCEPT !.mode = "dying"]
              [] mine /\ st.mode = "run" /\ st.what \in {"dumb", "gateway"} -> st' \in Spawns(s)
              [] mine /\ st.mode = "dying" /\ ~Smart -> st' = [s EXCEPT !.d.pid = NoProc]
              [] OTHER -> st' = s

\* The server stops or reloads: until its workers are gone it goes on.
DaemonDying ==
    /\ At("daemon") /\ st.mode = "run"
    /\ st' = [st EXCEPT !.mode = "dying"]

\* upsgi_detach_daemons and the end of the gateways: a process that is no smart
\* daemon is stopped, with SIGKILL in the end, and may not be spawned again; a
\* smart one stays, and so does its starter
Detached(s) ==
    IF Smart \/ s.d.pid = NoProc THEN [s EXCEPT !.mode = "down"]
    ELSE [s EXCEPT !.mode = "down", !.starters = @ \ {s.d.pid}, !.zombies = @ \ {s.d.pid}, !.d.registered = FALSE]

DaemonDetach ==
    /\ At("daemon") /\ st.mode = "dying"
    /\ st' = Detached(st)

\* The next master: it knows what the pidfile says and nothing else.
DaemonRestart ==
    /\ At("daemon") /\ st.mode = "down"
    /\ st' = [st EXCEPT !.mode = "start", !.d = NewDaemon, !.zombies = {}, !.gone = 0, !.unseen = 0]

DaemonNext ==
    \/ DaemonStart \/ DaemonCheck \/ StarterForks \/ DaemonWritesPidfile \/ StarterDies \/ DaemonDies
    \/ DaemonReap \/ DaemonDying \/ DaemonDetach \/ DaemonRestart

-----------------------------------------------------------------------------
DaemonTypeOK ==
    kind = "daemon" =>
        /\ Running(st) \cup st.zombies \subseteq DmPids
        /\ {st.pidfile, st.d.pid} \subseteq DmPids \cup {NoProc}
        /\ st.d.checks \in 0..DmFreq /\ st.d.status \in 0..2

\* daemons.c, gateway.c: whatever dies when, a gateway and a daemon that is
\* not smart never run twice.  Of a smart daemon a second instance is started
\* only when the first had no pidfile although its starter was gone and DmFreq
\* checks had passed since the last spawn, or when a new master started.  (Then it is: the code starts
\* it again over a pidfile that is late.  From there on more may follow, since
\* either instance may write the one pidfile and die.)
OneInstance ==
    kind = "daemon" =>
        /\ ~st.passed => Cardinality(Running(st)) <= 1
        /\ st.passed => Smart

\* When the server has stopped, nothing is left of a gateway and of a daemon
\* that is not smart.
StoppedWithServer ==
    kind = "daemon" /\ st.mode \in {"down", "start"} /\ ~Smart => Running(st) = {}

\* A smart daemon that is gone is back after at most DmFreq checks once it
\* has been monitored or its starter has been reaped as such.  (Before that it
\* may never be: when the first fork fails, and when its pidfile is seen before
\* its starter is reaped and the daemon dies before the next check.)
DaemonBack ==
    kind = "daemon" /\ st.mode = "run" /\ (st.d.status = 2 \/ st.d.daemonized) => st.gone <= DmFreq
=============================================================================
