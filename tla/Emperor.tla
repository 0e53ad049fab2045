------------------------------ MODULE Emperor ------------------------------
(***************************************************************************)
(* The Emperor (core/emperor.c): a process that keeps one vassal, an upsgi *)
(* instance of its own, for every configuration file its imperial monitors *)
(* find. The list of instances, the blacklist and the loop (events, scan,  *)
(* heartbeats, waitpid) are modelled with their order of steps; vassals    *)
(* are processes that answer, hang, exit or lose the Emperor at any time.  *)
(*                                                                         *)
(* Times are ages: Tick makes everything one second older, so the model    *)
(* keeps no absolute clock. The modification time of a file matters only   *)
(* through "newer than the instance's last_mod" (field mod) and "last_mod  *)
(* is the current second" (field tie): a file written in that same second  *)
(* is not newer.                                                           *)
(***************************************************************************)
EXTENDS Integers, FiniteSets, SequencesExt

CONSTANTS
    Names,        \* configuration files
    MaxPid,       \* pids in use at the same time
    Tolerance,    \* emperor_curse_tolerance
    Mercy,        \* reload_mercy, once death is evoked
    Heartbeat,    \* emperor_heartbeat
    Throttle,     \* emperor_throttle: the first throttle level
    Scale,        \* a later level adds Throttle * Scale
    MaxThrottle,  \* emperor_max_throttle, compared after scaling
    MaxFaults,    \* bound on failed forks, binds and hooks
    Modes         \* option sets of the run

ASSUME EmperorConstants ==
    /\ MaxPid \in Nat \ {0} /\ Tolerance \in Nat /\ Mercy \in Nat
    /\ Heartbeat \in Nat /\ Throttle \in Nat \ {0} /\ Scale \in Nat \ {0}
    /\ MaxThrottle \in Nat \ {0} /\ MaxFaults \in Nat

Pids == 1 .. MaxPid
NoPid == 0
Vassals == [file : Names, zerg : BOOLEAN]
MaxLevel == (MaxThrottle + Throttle) * Scale

\* The options the code tests: on-demand sockets (and whether they are TCP),
\* wait-for-command, the stop hook, broodlord, heartbeats, blacklisting, the
\* fork server, die-on-idle, tyrant mode; the files of the run, and whether
\* they come and go; whether vassals can be reaped by somebody else.
Options ==
    [names : SUBSET Names, demand : SUBSET Names, tcp : BOOLEAN, wait : BOOLEAN, hook : BOOLEAN,
     brood : Nat, beat : BOOLEAN, black : BOOLEAN, fork : BOOLEAN,
     idle : BOOLEAN, tyrant : BOOLEAN, files : BOOLEAN, stolen : BOOLEAN]

VARIABLES
    mode,     \* the options
    file,     \* [Names -> {"absent", "old", "now"}]: mtime is this second
    ui,       \* the list of instances
    proc,     \* the vassals' processes, as the kernel has them
    black,    \* emperor_blacklist
    brood,    \* emperor_broodlord_count
    faults,   \* failures left
    pc,       \* where emperor_loop() is
    batch,    \* events still to be handled
    todo,     \* files still to be scanned
    dying,    \* seconds since on_royal_death, 0 if not evoked
    massacre  \* kill(-1, SIGKILL) was called

empVars == <<ui, proc, black, brood, faults>>
loopVars == <<pc, batch, todo, dying, massacre>>
vars == <<mode, file, empVars, loopVars>>

\* What the functions below read and change, as one value.
S == [ui |-> ui, proc |-> proc, black |-> black, brood |-> brood,
      faults |-> faults]
Becomes(s) ==
    /\ ui' = s.ui /\ proc' = s.proc /\ black' = s.black
    /\ brood' = s.brood /\ faults' = s.faults

NoProc == [st |-> "none", told |-> FALSE, msg |-> "none", code |-> "none"]
NotListed == [level |-> 0, wait |-> 0]

Init ==
    /\ mode \in Modes
    /\ file = [n \in Names |-> IF n \in mode.names THEN "old" ELSE "absent"]
    /\ ui = <<>> /\ proc = [p \in Pids |-> NoProc]
    /\ black = [v \in Vassals |-> NotListed]
    /\ brood = 0 /\ faults = MaxFaults
    /\ pc = "wait" /\ batch = {} /\ todo = {} /\ dying = 0 /\ massacre = FALSE

-----------------------------------------------------------------------------
\* The blacklist.

BlacklistAdd(b, v) ==
    LET level == IF b[v].level = 0 THEN Throttle
                 ELSE IF b[v].level < MaxThrottle * Scale
                      THEN b[v].level + Throttle * Scale
                      ELSE b[v].level \div 2
    IN  [b EXCEPT ![v] = [level |-> level, wait |-> level]]

BlacklistRemove(b, v) == [b EXCEPT ![v] = NotListed]

-----------------------------------------------------------------------------
\* The list of instances. Operators take and return states s like S; those
\* with several outcomes return the set of them.

Where(s, P(_)) == {i \in DOMAIN s.ui : P(s.ui[i])}
EmperorGet(s, v) == Where(s, LAMBDA c : c.name = v)
GetByPid(s, p) == Where(s, LAMBDA c : c.pid = p)
GetBySocket(s, n) == Where(s, LAMBDA c : c.od /\ c.name.file = n)

\* Mutant: the blacklist is not updated when an instance goes.
EmperorDelForgets(s, i) ==
    [s EXCEPT !.ui = RemoveAt(@, i),
              !.brood = IF s.ui[i].name.zerg THEN @ - 1 ELSE @]

\* Closes the pipes (the vassal sees its Emperor gone) and the on-demand
\* socket; a vassal that never became loyal is blacklisted.
EmperorDel(s, i) ==
    LET c == s.ui[i]
    IN  [s EXCEPT !.ui = RemoveAt(@, i),
                  !.black = IF c.loyal \/ ~mode.black THEN @
                            ELSE BlacklistAdd(@, c.name),
                  !.brood = IF c.name.zerg THEN @ - 1 ELSE @]

\* The stop byte is written to the vassal's pipe.
Told(s, i) ==
    IF s.ui[i].pid = NoPid \/ s.proc[s.ui[i].pid].st # "run" THEN s.proc
    ELSE [s.proc EXCEPT ![s.ui[i].pid].told = TRUE]

BackToOnDemand(s, i) ==
    IF s.ui[i].st > 0 THEN s
    ELSE [s EXCEPT !.ui[i].st = 2, !.ui[i].curse = 1, !.proc = Told(s, i)]

EmperorStop(s, i) ==
    IF s.ui[i].st = 1 THEN s
    ELSE [s EXCEPT !.ui[i].st = 1, !.ui[i].curse = 1, !.proc = Told(s, i)]

EmperorCurse(s, i) ==
    IF s.ui[i].st = 1 THEN s
    ELSE [s EXCEPT !.ui[i].st = IF @ = 0 THEN 1 ELSE @, !.ui[i].curse = 1]

\* last_mod := the given time; it is the current second or not.
Dated(s, i, now) == [s EXCEPT !.ui[i].mod = FALSE, !.ui[i].tie = now]

\* A reload: ignored for a vassal going away or not started, except that an
\* on-demand one remembers the date; the write fails if the vassal is gone.
EmperorRespawn(s, i, now) ==
    LET c == s.ui[i]
    IN  IF c.st > 0 \/ (c.pid = NoPid /\ c.susp) THEN s
        ELSE IF c.pid = NoPid /\ c.od THEN Dated(s, i, now)
        ELSE IF c.pid = NoPid \/ s.proc[c.pid].st # "run"
        THEN EmperorCurse(s, i)
        ELSE Dated(s, i, now)

FreePids(s) == {p \in Pids : s.proc[p].st = "none" /\ GetByPid(s, p) = {}}
Forked(s) == LET p == Min(FreePids(s))
             IN  [p |-> p, proc |-> [s.proc EXCEPT ![p].st = "run"]]

\* upsgi_emperor_vassal_start(), and emperor_del() by each of its callers if
\* it fails. With the fork server the answer can come too late: the vassal
\* runs, and its instance is gone.
VassalStart(s, i) ==
    LET f == Forked(s)
    IN  IF FreePids(s) = {} THEN {EmperorDel(s, i)}
        ELSE {[s EXCEPT !.ui[i].pid = f.p, !.ui[i].seen = TRUE,
                        !.ui[i].susp = FALSE, !.proc = f.proc]}
             \cup (IF s.faults = 0 THEN {}
                   ELSE {[EmperorDel(s, i) EXCEPT !.faults = @ - 1]})
             \cup (IF s.faults = 0 \/ ~mode.fork THEN {}
                   ELSE {[EmperorDel(s, i) EXCEPT !.faults = @ - 1,
                                                  !.proc = f.proc]})

NewInstance(v, sock, mod, tie, perm) ==
    [name |-> v, st |-> 0, pid |-> NoPid, sock |-> sock, od |-> FALSE,
     odw |-> FALSE, susp |-> FALSE, loyal |-> FALSE, curse |-> 0, hb |-> 0,
     mod |-> mod, tie |-> tie, seen |-> FALSE, perm |-> perm]

\* The socket can be bound. A Unix socket is unlinked first; a TCP address
\* another instance still listens on is refused.
OnDemandBind(s, n) == ~mode.tcp \/ GetBySocket(s, n) = {}

\* emperor_add_with_attrs() with the fields of the new instance.
EmperorAdd(s, c) ==
    LET i == Len(s.ui) + 1
        t == [s EXCEPT !.ui = Append(@, c),
                       !.brood = IF c.name.zerg THEN @ + 1 ELSE @]
        bound == [t EXCEPT !.ui[i].od = TRUE, !.ui[i].odw = TRUE]
    IN  IF s.black[c.name].wait > 0 THEN {s}
        ELSE IF mode.wait THEN {[t EXCEPT !.ui[i].susp = TRUE]}
        ELSE IF ~c.sock THEN VassalStart(t, i)
        ELSE IF ~OnDemandBind(s, c.name.file) THEN {EmperorDel(t, i)}
        ELSE {bound} \cup (IF s.faults = 0 THEN {}
                           ELSE {[EmperorDel(t, i) EXCEPT !.faults = @ - 1]})
-----------------------------------------------------------------------------
\* The world: files, owners, time, and the vassals' side of the pipes. What
\* happens while the Emperor works through one turn is first looked at in the
\* next one, except by the scan: so files and vassals change while it waits
\* or scans, and bytes come and seconds pass while it waits.

Waits == pc = "wait"
WaitsOrScans == pc \in {"wait", "scan", "buried"}

Loop(from, to) == pc = from /\ pc' = to

WriteFile(n) ==
    /\ WaitsOrScans /\ mode.files /\ n \in mode.names /\ file[n] # "now"
    /\ file' = [file EXCEPT ![n] = "now"]
    /\ ui' = [i \in DOMAIN ui |->
                IF ui[i].name = [file |-> n, zerg |-> FALSE]
                THEN [ui[i] EXCEPT !.mod = ~ui[i].tie] ELSE ui[i]]
    /\ UNCHANGED <<mode, proc, black, brood, faults, loopVars>>

RemoveFile(n) ==
    /\ WaitsOrScans /\ mode.files /\ n \in mode.names /\ file[n] # "absent"
    /\ file' = [file EXCEPT ![n] = "absent"]
    /\ UNCHANGED <<mode, empVars, loopVars>>

\* The file gets another owner than the instance was started with.
Chown(n) ==
    /\ Waits /\ mode.tyrant /\ file[n] # "absent"
    /\ ui' = [i \in DOMAIN ui |->
                IF ui[i].name = [file |-> n, zerg |-> FALSE]
                THEN [ui[i] EXCEPT !.perm = TRUE] ELSE ui[i]]
    /\ UNCHANGED <<mode, file, proc, black, brood, faults, loopVars>>

Older(age, limit) == IF age = 0 \/ age > limit THEN age ELSE age + 1

Tick ==
    /\ Waits
    /\ file' = [n \in Names |-> IF file[n] = "now" THEN "old" ELSE file[n]]
    /\ ui' = [i \in DOMAIN ui |->
                [ui[i] EXCEPT !.tie = FALSE,
                              !.curse = Older(@, Tolerance),
                              !.hb = Older(@, Heartbeat + 1)]]
    /\ black' = [v \in Vassals |->
                   [black[v] EXCEPT !.wait = IF @ = 0 THEN 0 ELSE @ - 1]]
    /\ dying' = Older(dying, Mercy)
    /\ UNCHANGED <<mode, proc, brood, faults, pc, batch, todo, massacre>>

\* A vassal writes a byte to its Emperor: 17, 22, 26 or 30.
VassalSends(p) ==
    /\ Waits /\ proc[p].st = "run" /\ proc[p].msg = "none"
    /\ \E i \in GetByPid(S, p) :
         \E m \in (IF ui[i].loyal THEN {} ELSE {"loyal"})
                  \cup (IF mode.idle THEN {"idle"} ELSE {})
                  \cup (IF mode.beat THEN {"beat"} ELSE {})
                  \cup (IF mode.brood > 0 /\ ~ui[i].name.zerg
                        THEN {"zerg"} ELSE {}) :
           proc' = [proc EXCEPT ![p].msg = m]
    /\ UNCHANGED <<mode, file, ui, black, brood, faults, loopVars>>

\* upsgi_master_manage_emperor(): the stop byte closes the vassal's end and
\* the vassal begins to go down.
VassalStops(p) ==
    /\ Waits /\ proc[p].st = "run" /\ proc[p].told
    /\ proc' = [proc EXCEPT ![p].st = "closing", ![p].told = FALSE]
    /\ UNCHANGED <<mode, file, ui, black, brood, faults, loopVars>>

\* ... and so does the loss of the Emperor.
VassalIsLost(p) ==
    /\ WaitsOrScans /\ proc[p].st = "run" /\ (pc = "buried" \/ GetByPid(S, p) = {})
    /\ proc' = [proc EXCEPT ![p] = [NoProc EXCEPT !.st = "zombie",
                                                  !.code = "other"]]
    /\ UNCHANGED <<mode, file, ui, black, brood, faults, loopVars>>

\* A vassal exits, for any reason; what it wrote before stays in the pipe.
VassalExits(p) ==
    /\ pc \in {"wait", "scan"} /\ proc[p].st \in {"run", "closing"}
    /\ \E code \in {"exile", "other"} :
         proc' = [proc EXCEPT ![p].st = "zombie", ![p].told = FALSE,
                              ![p].code = code]
    /\ UNCHANGED <<mode, file, ui, black, brood, faults, loopVars>>

\* Somebody else reaps it (no sub-reaper, or the out-of-memory killer).
VassalIsStolen(p) ==
    /\ Waits /\ mode.stolen /\ faults > 0 /\ proc[p].st = "zombie"
    /\ proc' = [proc EXCEPT ![p] = NoProc] /\ faults' = faults - 1
    /\ UNCHANGED <<mode, file, ui, black, brood, loopVars>>

-----------------------------------------------------------------------------
\* The signal handlers of the Emperor. They run between two steps.

Each(F(_, _), s) == FoldLeft(F, s, [i \in DOMAIN s.ui |-> i])

\* royal_death(): with a stop hook the first walk of the list leaves nothing
\* for the second, and no vassal is stopped.
RoyalDeath ==
    /\ pc \in {"wait", "scan"} /\ dying = 0 /\ dying' = 1
    /\ Becomes(IF mode.hook THEN S ELSE Each(EmperorStop, S))
    /\ UNCHANGED <<mode, file, pc, batch, todo, massacre>>

MassiveReload ==
    /\ Waits /\ mode.files
    /\ Becomes(Each(LAMBDA s, i : EmperorRespawn(s, i, TRUE), S))
    /\ UNCHANGED <<mode, file, loopVars>>

Cleanup ==
    /\ Waits /\ mode.black
    /\ black' = [v \in Vassals |-> NotListed]
    /\ UNCHANGED <<mode, file, ui, proc, brood, faults, loopVars>>

-----------------------------------------------------------------------------
\* emperor_loop(): the events.

PipeReady(p) ==
    /\ proc[p].msg # "none" \/ proc[p].st # "run"
    /\ \E i \in GetByPid(S, p) : ui[i].seen
Events ==
    {<<"pipe", p>> : p \in {q \in Pids : PipeReady(q)}}
    \cup {<<"sock", n>> : n \in {m \in Names :
                                   \E i \in GetBySocket(S, m) : ui[i].odw}}
    \cup (IF mode.wait THEN {<<"cmd", 0>>} ELSE {})

\* The wait returns what is ready, or its timeout. Connections and commands
\* may come or not.
WaitMulti ==
    /\ dying = 0 /\ Loop("wait", "events")
    /\ \E quiet \in SUBSET {e \in Events : e[1] # "pipe"} :
         batch' = Events \ quiet
    /\ UNCHANGED <<mode, file, empVars, todo, dying, massacre>>

Handled(e) ==
    /\ pc = "events" /\ e \in batch /\ batch' = batch \ {e}
    /\ UNCHANGED <<mode, file, pc, todo, dying, massacre>>

\* What the Emperor does with a byte of instance i.
Message(s, i, m) ==
    CASE m = "loyal" -> {[s EXCEPT !.ui[i].loyal = TRUE,
                                   !.black = BlacklistRemove(@, s.ui[i].name)]}
      [] m = "beat" -> {[s EXCEPT !.ui[i].hb = 1]}
      [] m = "idle" -> {IF s.ui[i].od THEN BackToOnDemand(s, i)
                        ELSE EmperorStop(s, i)}
      [] m = "zerg" -> IF s.brood < mode.brood
                       THEN EmperorAdd(s, NewInstance(
                              [s.ui[i].name EXCEPT !.zerg = TRUE],
                              FALSE, FALSE, TRUE, FALSE))
                       ELSE {s}

PipeEvent(p) ==
    /\ Handled(<<"pipe", p>>)
    /\ LET t == [S EXCEPT !.proc[p].msg = "none"]
       IN  \E i \in GetByPid(S, p) :
             IF proc[p].msg # "none"
             THEN \E u \in Message(t, i, proc[p].msg) : Becomes(u)
             ELSE Becomes(EmperorCurse([S EXCEPT !.ui[i].seen = FALSE], i))

\* A connection on the socket of an on-demand instance.
SocketEvent(n) ==
    /\ Handled(<<"sock", n>>)
    /\ IF GetBySocket(S, n) = {} THEN UNCHANGED empVars
       ELSE \E i \in GetBySocket(S, n) :
              \E t \in VassalStart([S EXCEPT !.ui[i].odw = FALSE], i) : Becomes(t)

\* A datagram on the command socket: spawn, respawn or stop one vassal.
CommandEvent(n) ==
    /\ Handled(<<"cmd", 0>>)
    /\ \E i \in EmperorGet(S, [file |-> n, zerg |-> FALSE]) :
         \/ ui[i].susp /\ \E t \in VassalStart(S, i) : Becomes(t)
         \/ Becomes(EmperorRespawn(S, i, TRUE))
         \/ Becomes(EmperorStop(S, i))

CommandIgnored ==
    /\ Handled(<<"cmd", 0>>)
    /\ UNCHANGED empVars

EventsDone ==
    /\ Loop("events", "scan") /\ batch = {} /\ todo' = Names
    /\ UNCHANGED <<mode, file, empVars, batch, dying, massacre>>

-----------------------------------------------------------------------------
\* The imperial monitor: every file, then the instances without one.

\* emperor_check_on_demand_socket(): the vassal has a socket of its own.
OnDemandSocket(n) == n \in mode.demand

\* A file that cannot be read (emperor_force_config_pipe) makes no instance, and
\* stops the one that was to read it again.
Unreadable(s, v) == {s} \cup {EmperorStop(s, i) : i \in {j \in EmperorGet(s, v) : s.ui[j].mod}}

\* What a monitor does with a file it finds: the one that reads a directory and
\* the one that expands a pattern have the same loop.
Scanned(s, n) ==
    LET v == [file |-> n, zerg |-> FALSE]
        now == file[n] = "now"
    IN  (IF EmperorGet(s, v) = {}
         THEN EmperorAdd(s, NewInstance(v, OnDemandSocket(n), FALSE, now, FALSE))
         ELSE {IF mode.tyrant /\ s.ui[i].perm THEN EmperorStop(s, i)
               ELSE IF s.ui[i].mod THEN EmperorRespawn(s, i, now)
               ELSE s : i \in EmperorGet(s, v)})
        \cup (IF s.faults = 0 THEN {} ELSE Unreadable([s EXCEPT !.faults = @ - 1], v))

ScanFile(n) ==
    /\ pc = "scan" /\ n \in todo /\ todo' = todo \ {n}
    /\ IF file[n] = "absent" THEN UNCHANGED empVars ELSE \E t \in Scanned(S, n) : Becomes(t)
    /\ UNCHANGED <<mode, file, pc, batch, dying, massacre>>

\* An instance, or a zerg of it, whose file is gone.
StopRemoved(s, i) == IF file[s.ui[i].name.file] = "absent" THEN EmperorStop(s, i) ELSE s

ScanRemoved ==
    /\ Loop("scan", "beat") /\ todo = {}
    /\ Becomes(Each(StopRemoved, S))
    /\ UNCHANGED <<mode, file, batch, todo, dying, massacre>>

-----------------------------------------------------------------------------
\* Heartbeats, dead children and cursed instances.

Killed(pr, ps) ==
    [p \in Pids |-> IF p \in ps /\ pr[p].st \in {"run", "closing"}
                    THEN [pr[p] EXCEPT !.st = "zombie", !.told = FALSE,
                                       !.code = "other"]
                    ELSE pr[p]]
Late(c) == c.hb > Heartbeat + 1

\* A vassal that sends heartbeats and stopped to is killed; the walk ends at
\* the first one that cannot be.
CheckHeartbeat ==
    /\ Loop("beat", "reap")
    /\ LET late == {i \in DOMAIN ui : Late(ui[i])}
           gone == {i \in late : ui[i].pid # NoPid /\ proc[ui[i].pid].st = "none"}
           stop == IF gone = {} THEN Len(ui) + 1 ELSE Min(gone)
           t == [S EXCEPT !.ui = [i \in DOMAIN ui |->
                                    IF i \in late /\ i <= stop
                                    THEN [ui[i] EXCEPT !.hb = 0] ELSE ui[i]],
                          !.proc = Killed(@, {ui[i].pid : i \in
                                              {j \in late : j < stop}})]
       IN  Becomes(IF gone = {} THEN t ELSE EmperorDel(t, stop))
    /\ UNCHANGED <<mode, file, batch, todo, dying, massacre>>
\* The first instance the walk after waitpid() stops at: the dead one, or one
\* that is cursed and has no process or no more time.
Stops(c, died) ==
    \/ died # NoPid /\ c.pid = died
    \/ c.curse > 0 /\ (c.pid = NoPid \/ c.curse > Tolerance)

\* A vassal that went idle: its socket is watched again.
Back(s, i) ==
    [s EXCEPT !.ui[i].odw = TRUE, !.ui[i].seen = FALSE, !.ui[i].pid = NoPid,
              !.ui[i].st = 0, !.ui[i].curse = 0]

\* An instance whose process died by itself is replaced, unless it was
\* exiled; one that was stopped goes; one that went idle waits again.
Died(s, i, code) ==
    LET c == s.ui[i]
    IN  IF c.st = 1 \/ (c.st = 0 /\ code = "exile") THEN {EmperorDel(s, i)}
        ELSE IF c.st = 0
        THEN {EmperorDel(t, i) :
                t \in EmperorAdd(s, NewInstance(c.name, c.sock, c.mod, c.tie,
                                                c.perm))}
        ELSE {Back(s, i)}
             \cup (IF s.faults = 0 THEN {}
                   ELSE {[EmperorDel(Back(s, i), i) EXCEPT !.faults = @ - 1]})

\* Mutant: a cursed vassal is forgotten instead of being killed.
CursedForgets(s, i) == EmperorDel(s, i)

\* A cursed instance: removed if it has no process, killed otherwise.
Cursed(s, i) ==
    LET p == s.ui[i].pid
    IN  IF p = NoPid \/ s.proc[p].st = "none" THEN EmperorDel(s, i)
        ELSE [s EXCEPT !.ui[i].curse = 1, !.proc = Killed(@, {p})]

AfterWait(s, died, code) ==
    LET at == {i \in DOMAIN s.ui : Stops(s.ui[i], died)}
    IN  IF at = {} THEN {s}
        ELSE IF died # NoPid /\ s.ui[Min(at)].pid = died
        THEN Died(s, Min(at), code)
        ELSE {Cursed(s, Min(at))}

HasChildren == \E i \in DOMAIN ui : ui[i].pid # NoPid
Zombies == {p \in Pids : proc[p].st = "zombie"}
Children == {p \in Pids : proc[p].st # "none"}
Reaped(p) == [S EXCEPT !.proc[p] = NoProc]

\* waitpid() returned a child: look for another one after it.
Reap(p) ==
    /\ pc = "reap" /\ HasChildren /\ p \in Zombies
    /\ \E t \in AfterWait(Reaped(p), p, proc[p].code) : Becomes(t)
    /\ UNCHANGED <<mode, file, loopVars>>

\* It returned 0: children are alive, or there are no vassals and whatever
\* was dead is gone.
ReapNothing ==
    /\ Loop("reap", "wait")
    /\ IF HasChildren
       THEN Zombies = {} /\ Children # {}
            /\ \E t \in AfterWait(S, NoPid, "none") : Becomes(t)
       ELSE \E t \in (IF Zombies = {} THEN {S} ELSE {Reaped(p) : p \in Zombies}) :
              \E u \in AfterWait(t, NoPid, "none") : Becomes(u)
    /\ UNCHANGED <<mode, file, batch, todo, dying, massacre>>

\* It failed: vassals are listed and there is no child. All are removed.
Mutiny ==
    /\ Loop("reap", "wait") /\ HasChildren /\ Children = {}
    /\ Becomes(FoldLeft(LAMBDA s, c : EmperorDel(s, 1), S, ui))
    /\ UNCHANGED <<mode, file, batch, todo, dying, massacre>>

-----------------------------------------------------------------------------
\* The end of the Emperor.

\* One turn of the wait: an instance is dropped when waitpid() for its pid
\* returns anything but 0. The pid of one that was never started is -1: that
\* call reaps any child.
RoyalWaitFor(s, c) ==
    LET i == CHOOSE j \in DOMAIN s.ui : s.ui[j] = c
        kids == {p \in Pids : s.proc[p].st # "none"}
        dead == {p \in kids : s.proc[p].st = "zombie"}
        mine == IF c.pid = NoPid THEN kids ELSE kids \cap {c.pid}
    IN  IF mine = {} THEN EmperorDel(s, i)
        ELSE IF mine \cap dead = {} THEN s
        ELSE EmperorDel([s EXCEPT !.proc[Min(mine \cap dead)] = NoProc], i)

RoyalWait ==
    /\ pc = "wait" /\ dying > 0 /\ dying <= Mercy /\ ui # <<>>
    /\ Becomes(FoldLeft(RoyalWaitFor, S, ui))
    /\ UNCHANGED <<mode, file, loopVars>>

\* No more mercy: SIGKILL to the pid of every instance, -1 included.
NoMercy ==
    /\ Loop("wait", "buried") /\ dying > Mercy /\ ui # <<>>
    /\ LET gone == {i \in DOMAIN ui : ui[i].pid # NoPid
                                      /\ proc[ui[i].pid].st = "none"}
           stop == IF gone = {} THEN Len(ui) + 1 ELSE Min(gone)
           shot == {ui[i].pid : i \in 1 .. (stop - 1)}
       IN  /\ massacre' = (massacre \/ NoPid \in shot)
           /\ proc' = Killed(proc, IF NoPid \in shot THEN Pids ELSE shot)
    /\ ui' = <<>>
    /\ UNCHANGED <<mode, file, black, brood, faults, batch, todo, dying>>

Buried ==
    /\ Loop("wait", "buried") /\ dying > 0 /\ ui = <<>>
    /\ UNCHANGED <<mode, file, empVars, batch, todo, dying, massacre>>

Next ==
    \/ Tick \/ RoyalDeath \/ MassiveReload \/ Cleanup
    \/ WaitMulti \/ CommandIgnored \/ EventsDone \/ ScanRemoved
    \/ CheckHeartbeat \/ ReapNothing \/ Mutiny
    \/ RoyalWait \/ NoMercy \/ Buried
    \/ \E n \in Names : \/ WriteFile(n) \/ RemoveFile(n) \/ Chown(n)
                        \/ SocketEvent(n) \/ CommandEvent(n) \/ ScanFile(n)
    \/ \E p \in Pids : \/ VassalSends(p) \/ VassalStops(p) \/ VassalIsLost(p)
                       \/ VassalExits(p) \/ VassalIsStolen(p)
                       \/ PipeEvent(p) \/ Reap(p)

Spec == Init /\ [][Next]_vars

\* The Emperor works and time passes (seconds pass only while it waits, which
\* it does again and again). Nothing is asked of a vassal: it may hang. Every
\* step of a turn changes pc, batch or todo, except Reap, which ends for lack
\* of dead children, and RoyalWait, which ends with its mercy: so the second
\* conjunct says that turns go on.
Works ==
    /\ pc # "buried"
    /\ pc = "wait" => dying = 0 \/ dying > Mercy \/ ui = <<>>
FairSpec ==
    /\ Spec
    /\ []<>(~Works) \/ []<><<Works>>_<<pc, batch, todo>>
    /\ SF_vars(Tick)

-----------------------------------------------------------------------------
\* Files, instances, blacklist, vassals and the step of the loop keep their
\* types.
TypeOK ==
    /\ file \in [Names -> {"absent", "old", "now"}]
    /\ \A i \in DOMAIN ui :
         /\ ui[i].name \in Vassals /\ ui[i].st \in 0 .. 2
         /\ ui[i].pid \in Pids \cup {NoPid}
         /\ ui[i].curse \in 0 .. Tolerance + 1 /\ ui[i].hb \in 0 .. Heartbeat + 2
    /\ \A p \in Pids : proc[p].st \in {"none", "run", "closing", "zombie"}
    /\ \A v \in Vassals : /\ black[v].level \in 0 .. MaxLevel
                          /\ black[v].wait \in 0 .. black[v].level
    /\ brood \in Nat /\ faults \in 0 .. MaxFaults
    /\ pc \in {"wait", "events", "scan", "beat", "reap", "buried"}
    /\ todo \subseteq Names /\ dying \in 0 .. Mercy + 1

\* A configuration file has one instance, whatever path added it (the scan,
\* the replacement of a dead vassal): two would fight for the same sockets.
\* The broodlord count is that of the zergs, and never above its limit.
OneInstancePerFile ==
    /\ \A i, j \in DOMAIN ui :
         ui[i].name = ui[j].name => i = j \/ ui[i].name.zerg
    /\ pc # "buried" => brood = Cardinality({i \in DOMAIN ui : ui[i].name.zerg})
    /\ brood <= mode.brood

\* Every vassal process that is alive is listed, once: an instance is only
\* forgotten after its process died. The exceptions are a vassal the fork
\* server started too late, and those the Emperor leaves when it ends.
LiveVassalsAreGoverned ==
    \A p \in Pids :
      /\ Cardinality(GetByPid(S, p)) <= 1
      /\ proc[p].st \in {"run", "closing"} /\ GetByPid(S, p) = {}
           => mode.fork \/ pc = "buried"

\* An on-demand instance waits for its first connection exactly when it has
\* no process: no connection is left without a vassal, and none starts a
\* second one.
OnDemandIsArmed ==
    \A i \in DOMAIN ui : ui[i].od => (ui[i].odw <=> ui[i].pid = NoPid)

\* The mark of a vassal on its way out and the time it was cursed at go
\* together, or its tolerance would never run out (or run out at once).
CursedHasDate ==
    \A i \in DOMAIN ui : ui[i].st > 0 <=> ui[i].curse > 0

\* SIGKILL goes to the vassals' pids only. The one exception is the end of
\* mercy with an instance that was never started: its pid is -1.
KillsOnlyVassals ==
    massacre => pc = "buried" /\ (mode.demand # {} \/ mode.wait)

\* An instance that leaves the list before its vassal was loyal is put on the
\* blacklist with a delay to wait, whoever saw the vassal's death first and
\* whichever mode the instance was in.
UnloyalIsThrottled ==
    [][\A v \in Vassals :
         /\ mode.black /\ pc \notin {"buried"} /\ pc' # "buried"
         /\ \E i \in DOMAIN ui : ui[i].name = v /\ ~ui[i].loyal
         /\ \A i \in DOMAIN ui' : ui'[i].name # v
         => black'[v].level > 0 /\ black'[v].wait > 0]_vars

\* A file has an instance that runs, or waits to be asked for.
Governed(n) == \E i \in EmperorGet(S, [file |-> n, zerg |-> FALSE]) :
                 ui[i].pid # NoPid \/ ui[i].od \/ ui[i].susp

\* A file that stays is governed again and again: no order of deaths,
\* curses, throttles and failed starts leaves it without an instance.
FilesAreGoverned ==
    \A n \in Names : []<>(file[n] = "absent" \/ dying > 0 \/ Governed(n))

\* A vassal on its way out goes, even if it hangs, or was reaped without its
\* instance being noticed.
CursedGoes ==
    \A p \in Pids :
      []<>(~\E i \in DOMAIN ui : ui[i].pid = p /\ ui[i].st > 0)

\* The Emperor ends once its death was evoked.
DeathEnds == (dying > 0) ~> (pc = "buried")

\* The Emperor governs its vassals: one instance per file, every process that
\* runs has its instance, who waits for a connection can be started, and a
\* signal is meant for a vassal.
VassalsGoverned ==
    /\ TypeOK /\ OneInstancePerFile /\ LiveVassalsAreGoverned
    /\ OnDemandIsArmed /\ CursedHasDate /\ KillsOnlyVassals

\* The Emperor goes on whatever its vassals do: those that fail at once are
\* started later and later, every file gets its vassal, the cursed go, and the
\* Emperor ends when it is told to.
EmperorGoesOn == UnloyalIsThrottled /\ FilesAreGoverned /\ CursedGoes /\ DeathEnds
=============================================================================
