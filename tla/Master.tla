-------------------------------- MODULE Master --------------------------------
(***************************************************************************)
(* The master process and the life of its workers: master_loop() and       *)
(* upsgi_master_check_*(), upsgi_respawn_worker(), the stop and reload     *)
(* handlers of core/upsgi.c, chain reload, cheap and cheaper mode, and the *)
(* part of a worker that matters to the master: boot, signal handlers,     *)
(* leaving the request loop.                                               *)
(*                                                                         *)
(* Processes are numbered in the order of their fork; the kernel side of a *)
(* process (st, sig) is kept apart from what the shared memory says of its *)
(* slot (pid, cursed, accepting...), so that the two can disagree.         *)
(***************************************************************************)
EXTENDS Integers, FiniteSets, FiniteSetsExt

CONSTANTS
    NumProc,       \* upsgi.numproc
    Setups,        \* how the server may be started (see Setup)
    MaxRequests,   \* bound: commands and signals
    MaxDeaths      \* bound: deaths nobody asked for

Workers == 1..NumProc

\* The options that matter here, the inputs the instance gets, and its bounds.
Setup ==
    [cheaperCount : 0..(NumProc - 1), \* upsgi.cheaper_count, 0 when cheaper mode is off
     lazy : BOOLEAN,                  \* upsgi.lazy
     needApp : BOOLEAN,               \* upsgi.lazy_apps && upsgi.need_app
     otherChildren : BOOLEAN,         \* gateways or an Emperor are children of the master too
     commands : SUBSET {"Q", "q", "r", "R", "c", "C", "w", "W", "+", "-", "idle"},
                                      \* letters the master fifo may deliver, and "idle"
     signals : SUBSET {"TERM", "HUP", "QUIT"},
     exitCodes : SUBSET {"died", "failed-app", "brutal-reload", "go-cheap"},
     maxForkFails : Nat,              \* bound: failed fork()
     maxCheaper : Nat,                \* bound: processes from which cheaper adds no more
     maxPids : Nat]                   \* bound: processes ever forked

ASSUME SizeAssumption == NumProc \in Nat \ {0} /\ MaxRequests \in Nat /\ MaxDeaths \in Nat
ASSUME SetupAssumption == \A s \in Setups : s \in Setup /\ s.maxPids >= NumProc

VARIABLES
    setup,      \* the options of this instance
    pid,        \* workers[w].pid
    cheaped,    \* workers[w].cheaped
    cursed,     \* workers[w].cursed_at > 0
    late,       \* upsgi_now() > workers[w].no_mercy_at
    accepting,  \* workers[w].accepting
    manage,     \* workers[w].manage_next_request
    busy,       \* upsgi_worker_is_busy(w)
    lastPid,    \* processes forked so far
    slot,       \* the worker a process was forked for
    st,         \* what the process is doing
    sig,        \* signals pending for the process
    saw,        \* its own copy of upsgi.status: stop requests it knows of
    code,       \* how it exited
    dying,      \* upsgi_instance_is_dying
    reloading,  \* upsgi_instance_is_reloading
    chain,      \* upsgi.status.chain_reloading
    paced,      \* chain_reload_delay has not passed since the last curse
    isCheap,    \* upsgi.status.is_cheap
    delta,      \* upsgi.cheaper_fifo_delta
    others,     \* children that are not workers are running
    mpc,        \* step of master_loop()
    died,       \* diedpid
    todo,       \* slots still to respawn in this step
    ret,        \* where upsgi_respawn_worker() returns to
    requests, deaths, forkFails, \* counters of the bounded inputs
    out         \* history: chain victims not accepting again yet

slotVars == <<pid, cheaped, cursed, late, accepting, manage, busy>>
procVars == <<lastPid, slot, st, sig, saw, code>>
statusVars == <<dying, reloading, chain, paced, isCheap, delta, others>>
masterVars == <<mpc, died, todo, ret>>
boundVars == <<requests, deaths, forkFails>>
vars == <<setup, slotVars, procVars, statusVars, masterVars, boundVars, out>>

-----------------------------------------------------------------------------
Procs == 1..lastPid
Live == {"forked", "boot", "ready", "run"}
States == Live \cup {"zombie", "reaped"}

Recorded == {w \in Workers : pid[w] # 0}
Active == {w \in Recorded : ~cheaped[w]}
Stopping == dying \/ reloading
Over == {"exited", "reloaded"}

\* kill(2): a signal reaches a process that still runs.
Send(P, s) ==
    [p \in Procs |-> IF p \in P /\ st[p] \in Live THEN sig[p] \cup {s}
                     ELSE sig[p]]

\* upsgi_curse() of every worker in S; SIGWINCH only wakes a worker up.
Curse(S, s) ==
    /\ cursed' = [w \in Workers |-> cursed[w] \/ w \in S]
    /\ late' = [w \in Workers |-> late[w] /\ w \notin S]
    /\ sig' = IF s = "WINCH" THEN sig ELSE Send({pid[w] : w \in S}, s)

Unasked == UNCHANGED <<cursed, late, sig>>

\* The initial workers were spawned before master_loop() and are up; with
\* cheaper, only the first cheaper_count of them.
Init ==
    \E s \in Setups :
    LET n == IF s.cheaperCount > 0 THEN s.cheaperCount ELSE NumProc IN
    /\ setup = s
    /\ lastPid = n
    /\ pid = [w \in Workers |-> IF w <= n THEN w ELSE 0]
    /\ cheaped = [w \in Workers |-> w > n]
    /\ cursed = [w \in Workers |-> FALSE]
    /\ late = [w \in Workers |-> FALSE]
    /\ accepting = [w \in Workers |-> w <= n]
    /\ manage = [w \in Workers |-> w <= n]
    /\ busy = [w \in Workers |-> FALSE]
    /\ slot = [p \in 1..n |-> p]
    /\ st = [p \in 1..n |-> "run"]
    /\ sig = [p \in 1..n |-> {}]
    /\ saw = [p \in 1..n |-> {}]
    /\ code = [p \in 1..n |-> "died"]
    /\ dying = FALSE /\ reloading = FALSE
    /\ chain = 0 /\ paced = FALSE
    /\ isCheap = FALSE /\ delta = 0 /\ others = setup.otherChildren
    /\ mpc = "death" /\ died = 0 /\ todo = {} /\ ret = "death"
    /\ requests = 0 /\ deaths = 0 /\ forkFails = 0
    /\ out = {}

-----------------------------------------------------------------------------
\* Mutant: the workers are not told.
KillThemAllSilently ==
    \/ dying /\ Unasked /\ UNCHANGED <<dying, others>>
    \/ ~dying /\ dying' = TRUE /\ Unasked /\ others' = FALSE

\* kill_them_all(), for SIGINT and SIGTERM and for fifo Q.  Here and in the
\* two below upsgi_destroy_processes() leaves no gateway and no Emperor.
KillThemAll ==
    \/ dying /\ Unasked /\ UNCHANGED <<dying, others>>
    \/ ~dying /\ dying' = TRUE /\ Curse(Recorded, "INT") /\ others' = FALSE

\* grace_them_all(), for SIGHUP and for fifo r: in lazy mode the instance
\* stays up and only the workers are told to go.
GraceThemAll ==
    \/ Stopping /\ Unasked /\ UNCHANGED <<reloading, others>>
    \/ /\ ~Stopping
       /\ Curse(Recorded, "HUP")
       /\ reloading' = ~setup.lazy
       /\ others' = (others /\ setup.lazy)

\* reap_them_all(), for SIGQUIT and for fifo R.
ReapThemAll ==
    \/ reloading /\ Unasked /\ UNCHANGED <<reloading, others>>
    \/ ~reloading /\ reloading' = TRUE /\ Curse(Recorded, "INT")
       /\ others' = FALSE

\* The handlers interrupt master_loop() between any two of its steps.
SignalMaster(s) ==
    /\ s \in setup.signals /\ requests < MaxRequests /\ mpc \notin Over
    /\ requests' = requests + 1
    /\ \/ s = "TERM" /\ KillThemAll /\ UNCHANGED reloading
       \/ s = "HUP" /\ GraceThemAll /\ UNCHANGED dying
       \/ s = "QUIT" /\ ReapThemAll /\ UNCHANGED dying
    /\ UNCHANGED <<pid, cheaped, accepting, manage, busy, lastPid, slot, st,
                   saw, code, chain, paced, isCheap, delta, masterVars,
                   deaths, forkFails, out, setup>>

-----------------------------------------------------------------------------
\* Mutant: the master does not wait for its workers.
CheckDeathAtOnce ==
    /\ mpc = "death"
    /\ mpc' = IF dying THEN "exited" ELSE "reload"
    /\ UNCHANGED <<slotVars, procVars, statusVars, died, todo, ret,
                   boundVars, out, setup>>

\* upsgi_master_check_death()
CheckDeath ==
    /\ mpc = "death"
    /\ mpc' = IF dying /\ Recorded = {} THEN "exited" ELSE "reload"
    /\ UNCHANGED <<slotVars, procVars, statusVars, died, todo, ret,
                   boundVars, out, setup>>

\* upsgi_master_check_reload(); upsgi_reload() executes the binary again.
CheckReload ==
    /\ mpc = "reload"
    /\ mpc' = IF reloading /\ Recorded = {} THEN "reloaded" ELSE "chain"
    /\ UNCHANGED <<slotVars, procVars, statusVars, died, todo, ret,
                   boundVars, out, setup>>

\* Mutant: the previous worker only has to be there.
ChainWaitsForPid == chain > 1 /\ pid[chain - 1] = 0 /\ ~cheaped[chain - 1]

\* upsgi_master_check_chain(): is the previous worker still on its way up?
ChainWaits ==
    /\ chain > 1
    /\ pid[chain - 1] # 0 /\ ~cheaped[chain - 1] /\ ~accepting[chain - 1]

ChainCandidates ==
    {w \in Active : w >= chain /\ accepting[w]}

ChainNext ==
    IF ChainCandidates = {} THEN NumProc + 1 ELSE Min(ChainCandidates)

CheckChainIdle ==
    /\ mpc = "chain"
    /\ \/ chain = 0 /\ paced' = FALSE
       \/ chain # 0 /\ ChainWaits /\ UNCHANGED paced
       \/ chain \in Workers /\ ~ChainWaits /\ paced /\ UNCHANGED paced
    /\ mpc' = "mercy"
    /\ UNCHANGED <<slotVars, procVars, dying, reloading, chain, isCheap,
                   delta, others, died, todo, ret, boundVars, out, setup>>

CheckChainOver ==
    /\ mpc = "chain" /\ chain > NumProc /\ ~ChainWaits
    /\ chain' = 0 /\ paced' = FALSE
    /\ mpc' = "mercy"
    /\ UNCHANGED <<slotVars, procVars, dying, reloading, isCheap, delta,
                   others, died, todo, ret, boundVars, out, setup>>

\* Skip the slots with nothing to recycle and curse the next victim, unless
\* it is cursed already.
CheckChainVictim ==
    /\ mpc = "chain" /\ chain \in Workers /\ ~ChainWaits /\ ~paced
    /\ chain' = ChainNext
    /\ \/ /\ ChainNext \in Workers /\ ~cursed[ChainNext]
          /\ Curse({ChainNext}, "HUP")
          /\ paced' = TRUE
          /\ out' = out \cup {ChainNext}
       \/ /\ ChainNext \in Workers => cursed[ChainNext]
          /\ Unasked /\ UNCHANGED <<paced, out>>
    /\ mpc' = "mercy"
    /\ UNCHANGED <<pid, cheaped, accepting, manage, busy, lastPid, slot, st,
                   saw, code, dying, reloading, isCheap, delta, others, died,
                   todo, ret, boundVars, setup>>

\* chain_reload_delay seconds have passed since the last victim.
PacingOver ==
    /\ paced /\ paced' = FALSE
    /\ UNCHANGED <<slotVars, procVars, dying, reloading, chain, isCheap,
                   delta, others, masterVars, boundVars, out, setup>>

\* upsgi_master_check_mercy()
CheckMercy ==
    /\ mpc = "mercy"
    /\ Curse({w \in Recorded : cursed[w] /\ late[w]}, "KILL")
    /\ mpc' = "cheaper"
    /\ UNCHANGED <<pid, cheaped, accepting, manage, busy, lastPid, slot, st,
                   saw, code, statusVars, died, todo, ret, boundVars, out, setup>>

MercyExpires(w) ==
    /\ cursed[w] /\ ~late[w] /\ pid[w] # 0 /\ mpc \notin Over
    /\ late' = [late EXCEPT ![w] = TRUE]
    /\ UNCHANGED <<pid, cheaped, cursed, accepting, manage, busy, procVars,
                   statusVars, masterVars, boundVars, out, setup>>

-----------------------------------------------------------------------------
\* Mutant: one worker too few is enough.
AlgoAnswersOffByOne ==
    (IF Cardinality(Active) >= setup.cheaperCount THEN {-1} ELSE {})
        \cup 0..(NumProc - Cardinality(Active))

\* Mutant: a cheaped worker on its way out counts as gone.
FreeSlotsCheaped == {w \in Workers : cheaped[w]}

\* What the cheaper algorithms (spare, spare2, backlog) may ask for: fewer
\* workers only above cheaper_count, more only when one is not active.
AlgoAnswers ==
    (IF Cardinality(Active) > setup.cheaperCount THEN {-1} ELSE {})
        \cup 0..(NumProc - Cardinality(Active))

FreeSlots == {w \in Workers : cheaped[w] /\ pid[w] = 0}
IdleWorkers == {w \in Active : ~busy[w]}

\* The n lowest members of S, or all of them.
Lowest(S, n) ==
    {w \in S : Cardinality({v \in S : v < w}) < n}

CheaperRuns == setup.cheaperCount > 0 /\ ~isCheap /\ ~Stopping

\* upsgi_calc_cheaper(), without limits on memory: a pending request of the
\* fifo, or else the algorithm.
CheaperSpawn ==
    /\ mpc = "cheaper" /\ CheaperRuns /\ lastPid < setup.maxCheaper
    /\ \E n \in IF delta # 0 THEN {delta} ELSE AlgoAnswers :
          n > 0 /\ todo' = Lowest(FreeSlots, n)
    /\ delta' = 0
    /\ mpc' = "spawn" /\ ret' = "waitpid"
    /\ UNCHANGED <<slotVars, procVars, dying, reloading, chain, paced,
                   isCheap, others, died, boundVars, out, setup>>

\* Fewer workers: idle ones go; requests nobody can satisfy are kept.
CheaperStop ==
    /\ mpc = "cheaper" /\ CheaperRuns
    /\ \E n \in IF delta # 0 THEN {delta} ELSE AlgoAnswers :
          /\ n < 0
          /\ \E S \in SUBSET IdleWorkers :
                /\ Cardinality(S) = Min({-n, Cardinality(IdleWorkers)})
                /\ cheaped' = [w \in Workers |-> cheaped[w] \/ w \in S]
                /\ manage' = [w \in Workers |-> manage[w] /\ w \notin S]
                /\ Curse(S, "WINCH")
                /\ delta' = n + Cardinality(S)
    /\ mpc' = "waitpid"
    /\ UNCHANGED <<pid, accepting, busy, lastPid, slot, st, saw, code, dying,
                   reloading, chain, paced, isCheap, others, died, todo, ret,
                   boundVars, out, setup>>

\* No cheaper mode, nothing to change, or check_interval has not passed.
CheaperNothing ==
    /\ mpc = "cheaper"
    /\ mpc' = "waitpid"
    /\ UNCHANGED <<slotVars, procVars, statusVars, died, todo, ret,
                   boundVars, out, setup>>

-----------------------------------------------------------------------------
Zombies == {p \in Procs : st[p] = "zombie"}
Children == {p \in Procs : st[p] # "reaped"}

\* waitpid() returns a worker.
WaitpidDead(p) ==
    /\ mpc = "waitpid" /\ p \in Zombies
    /\ st' = [st EXCEPT ![p] = "reaped"]
    /\ died' = p
    /\ mpc' = "bury"
    /\ UNCHANGED <<slotVars, lastPid, slot, sig, saw, code, statusVars, todo,
                   ret, boundVars, out, setup>>

\* waitpid() returns a child that is not a worker: the last of them, or one
\* of several.
Outsider == setup.maxPids + 1

WaitpidOther ==
    /\ mpc = "waitpid" /\ others
    /\ others' \in BOOLEAN
    /\ died' = Outsider
    /\ mpc' = "bury"
    /\ UNCHANGED <<slotVars, procVars, dying, reloading, chain, paced,
                   isCheap, delta, todo, ret, boundVars, out, setup>>

\* waitpid() finds nobody dead; without children upsgi_master_commit_status()
\* assumes that all of the workers are gone.
WaitpidNobody ==
    /\ mpc = "waitpid" /\ Zombies = {}
    /\ pid' = IF Children = {} /\ ~others THEN [w \in Workers |-> 0] ELSE pid
    /\ mpc' = "events"
    /\ UNCHANGED <<cheaped, cursed, late, accepting, manage, busy, procVars,
                   statusVars, died, todo, ret, boundVars, out, setup>>

\* A worker died: the answers of master_loop(), in the order of its tests.
BuryUnknown ==
    /\ mpc = "bury" /\ \A w \in Workers : pid[w] # died
    /\ mpc' = "death" /\ died' = 0
    /\ UNCHANGED <<slotVars, procVars, statusVars, todo, ret,
                   boundVars, out, setup>>

BuryNeedApp(w) ==
    /\ mpc = "bury" /\ pid[w] = died
    /\ code[died] = "failed-app" /\ setup.needApp
    /\ pid' = [pid EXCEPT ![w] = 0]
    /\ \/ dying /\ Unasked /\ UNCHANGED <<dying, others>>
       \/ /\ ~dying /\ dying' = TRUE /\ others' = FALSE
          /\ Curse(Recorded \ {w}, "INT")
    /\ mpc' = "death" /\ died' = 0
    /\ UNCHANGED <<cheaped, accepting, manage, busy, lastPid, slot, st, saw,
                   code, reloading, chain, paced, isCheap, delta, todo,
                   ret, boundVars, out, setup>>

WantsNeedApp == code[died] = "failed-app" /\ setup.needApp

\* Mutant: the pid of the dead worker stays.
BuryStoppingKeepsPid(w) ==
    /\ mpc = "bury" /\ pid[w] = died /\ ~WantsNeedApp
    /\ Stopping
    /\ cursed' = [cursed EXCEPT ![w] = FALSE]
    /\ mpc' = "death" /\ died' = 0
    /\ UNCHANGED <<pid, cheaped, late, accepting, manage, busy, procVars,
                   statusVars, todo, ret, boundVars, out, setup>>

BuryStopping(w) ==
    /\ mpc = "bury" /\ pid[w] = died /\ ~WantsNeedApp
    /\ Stopping
    /\ pid' = [pid EXCEPT ![w] = 0]
    /\ cursed' = [cursed EXCEPT ![w] = FALSE]
    /\ mpc' = "death" /\ died' = 0
    /\ UNCHANGED <<cheaped, late, accepting, manage, busy, procVars,
                   statusVars, todo, ret, boundVars, out, setup>>

BuryBrutal(w) ==
    /\ mpc = "bury" /\ pid[w] = died /\ ~WantsNeedApp /\ ~Stopping
    /\ code[died] = "brutal-reload"
    /\ pid' = [pid EXCEPT ![w] = 0]
    /\ reloading' = TRUE /\ others' = FALSE
    /\ Curse(Recorded \ {w}, "INT")
    /\ mpc' = "death" /\ died' = 0
    /\ UNCHANGED <<cheaped, accepting, manage, busy, lastPid, slot, st, saw,
                   code, dying, chain, paced, isCheap, delta, todo, ret,
                   boundVars, out, setup>>

\* A worker that was cheaped, or asks to be, is not replaced.
BuryCheaped(w) ==
    /\ mpc = "bury" /\ pid[w] = died /\ ~WantsNeedApp /\ ~Stopping
    /\ code[died] = "go-cheap" \/ (cheaped[w] /\ code[died] # "brutal-reload")
    /\ pid' = [pid EXCEPT ![w] = 0]
    /\ cheaped' = [cheaped EXCEPT ![w] = TRUE]
    /\ out' = out \ {w}
    /\ mpc' = "death" /\ died' = 0
    /\ UNCHANGED <<cursed, late, accepting, manage, busy, procVars,
                   statusVars, todo, ret, boundVars, setup>>

\* Mutant: a worker that dies while the instance stops is replaced.
BuryRespawnAlways(w) ==
    /\ mpc = "bury" /\ pid[w] = died /\ ~WantsNeedApp
    /\ code[died] \notin {"go-cheap", "brutal-reload"} /\ ~cheaped[w]
    /\ pid' = [pid EXCEPT ![w] = 0]
    /\ todo' = {w} /\ ret' = "death"
    /\ mpc' = "sleep" /\ died' = 0
    /\ UNCHANGED <<cheaped, cursed, late, accepting, manage, busy, procVars,
                   statusVars, boundVars, out, setup>>

BuryRespawn(w) ==
    /\ mpc = "bury" /\ pid[w] = died /\ ~WantsNeedApp /\ ~Stopping
    /\ code[died] \notin {"go-cheap", "brutal-reload"} /\ ~cheaped[w]
    /\ pid' = [pid EXCEPT ![w] = 0]
    /\ todo' = {w} /\ ret' = "death"
    /\ mpc' = "sleep" /\ died' = 0
    /\ UNCHANGED <<cheaped, cursed, late, accepting, manage, busy, procVars,
                   statusVars, boundVars, out, setup>>

\* The fork bomb delay is over; a chain reload moves past this worker.
ForkBombDelay ==
    /\ mpc = "sleep"
    /\ chain' = IF chain \in todo THEN chain + 1 ELSE chain
    /\ mpc' = "spawn"
    /\ UNCHANGED <<slotVars, procVars, dying, reloading, paced, isCheap,
                   delta, others, died, todo, ret, boundVars, out, setup>>

-----------------------------------------------------------------------------
\* upsgi_respawn_worker(): reset the slot, fork, record the pid.
RespawnReset ==
    /\ mpc = "spawn" /\ todo # {}
    /\ LET w == Min(todo) IN
          /\ accepting' = [accepting EXCEPT ![w] = FALSE]
          /\ cursed' = [cursed EXCEPT ![w] = FALSE]
          /\ late' = [late EXCEPT ![w] = FALSE]
          /\ cheaped' = [cheaped EXCEPT ![w] = FALSE]
    /\ mpc' = "fork"
    /\ UNCHANGED <<pid, manage, busy, procVars, statusVars, died, todo, ret,
                   boundVars, out, setup>>

RespawnReturn ==
    /\ mpc = "spawn" /\ todo = {}
    /\ mpc' = ret /\ ret' = "death"
    /\ UNCHANGED <<slotVars, procVars, statusVars, died, todo, boundVars,
                   out, setup>>

\* The child runs with the handlers and the status the master has right now.
Extend(f, v) == [p \in 1..(lastPid + 1) |-> IF p = lastPid + 1 THEN v ELSE f[p]]

Fork ==
    /\ mpc = "fork" /\ lastPid < setup.maxPids
    /\ lastPid' = lastPid + 1
    /\ slot' = Extend(slot, Min(todo))
    /\ st' = Extend(st, "forked")
    /\ sig' = Extend(sig, {})
    /\ saw' = Extend(saw, {s \in {"dying", "reloading"} :
                              \/ s = "dying" /\ dying
                              \/ s = "reloading" /\ reloading})
    /\ code' = Extend(code, "died")
    /\ mpc' = "setpid"
    /\ UNCHANGED <<slotVars, statusVars, died, todo, ret, boundVars, out, setup>>

ForkFails ==
    /\ mpc = "fork" /\ forkFails < setup.maxForkFails
    /\ forkFails' = forkFails + 1
    /\ todo' = todo \ {Min(todo)}
    /\ mpc' = "spawn"
    /\ UNCHANGED <<slotVars, procVars, statusVars, died, ret, requests,
                   deaths, out, setup>>

\* Mutant: the pid is recorded before it is known.
SetPidNext ==
    /\ mpc = "setpid"
    /\ pid' = [pid EXCEPT ![Min(todo)] = lastPid + 1]
    /\ todo' = todo \ {Min(todo)}
    /\ mpc' = "spawn"
    /\ UNCHANGED <<cheaped, cursed, late, accepting, manage, busy, procVars,
                   statusVars, died, ret, boundVars, out, setup>>

SetPid ==
    /\ mpc = "setpid"
    /\ pid' = [pid EXCEPT ![Min(todo)] = lastPid]
    /\ todo' = todo \ {Min(todo)}
    /\ mpc' = "spawn"
    /\ UNCHANGED <<cheaped, cursed, late, accepting, manage, busy, procVars,
                   statusVars, died, ret, boundVars, out, setup>>

-----------------------------------------------------------------------------
\* One round of event_queue_wait() and upsgi_master_manage_events().
EventsNothing ==
    /\ mpc = "events"
    /\ mpc' = "death"
    /\ UNCHANGED <<slotVars, procVars, statusVars, died, todo, ret,
                   boundVars, out, setup>>

FifoCommand(c) ==
    /\ mpc = "events" /\ c \in setup.commands /\ requests < MaxRequests
    /\ requests' = requests + 1

FifoStop ==
    /\ \/ FifoCommand("Q") /\ KillThemAll /\ UNCHANGED reloading
       \/ FifoCommand("r") /\ GraceThemAll /\ UNCHANGED dying
       \/ FifoCommand("R") /\ ReapThemAll /\ UNCHANGED dying
    /\ mpc' = "death"
    /\ UNCHANGED <<pid, cheaped, accepting, manage, busy, lastPid, slot, st,
                   saw, code, chain, paced, isCheap, delta, died, todo, ret,
                   deaths, forkFails, out, setup>>

\* upsgi_reload_workers() and upsgi_brutally_reload_workers()
FifoReloadWorkers ==
    /\ \/ FifoCommand("w") /\ Curse(Recorded, "HUP")
       \/ FifoCommand("W") /\ Curse(Recorded, "INT")
    /\ mpc' = "death"
    /\ UNCHANGED <<pid, cheaped, accepting, manage, busy, lastPid, slot, st,
                   saw, code, statusVars, died, todo, ret, deaths, forkFails,
                   out, setup>>

\* gracefully_kill_them_all() does not return before its wait is over.
FifoGracefulKill ==
    /\ FifoCommand("q") /\ ~dying
    /\ dying' = TRUE
    /\ Curse(Recorded, "HUP")
    /\ mpc' = "gwait"
    /\ UNCHANGED <<pid, cheaped, accepting, manage, busy, lastPid, slot, st,
                   saw, code, reloading, chain, paced, isCheap, delta, others,
                   died, todo, ret, deaths, forkFails, out, setup>>

\* One pass over the workers: bury the dead; go on when nobody is left or
\* waitpid() fails for some worker.
GracefulWait ==
    LET dead == {w \in Recorded : st[pid[w]] = "zombie"}
        error == \E w \in Recorded : st[pid[w]] = "reaped"
        done == error \/ \A w \in Recorded : st[pid[w]] = "zombie"
    IN
    /\ mpc = "gwait"
    /\ pid' = [w \in Workers |-> IF w \in dead THEN 0 ELSE pid[w]]
    /\ st' = [p \in Procs |-> IF \E w \in dead : pid[w] = p THEN "reaped"
                              ELSE st[p]]
    /\ mpc' = IF done THEN "death" ELSE "gwait"
    /\ others' = (others /\ ~done)
    /\ UNCHANGED <<cheaped, cursed, late, accepting, manage, busy, lastPid,
                   slot, sig, saw, code, dying, reloading, chain, paced,
                   isCheap, delta, died, todo, ret, boundVars, out, setup>>

\* upsgi_chain_reload()
FifoChainReload ==
    /\ FifoCommand("c")
    /\ chain' = IF chain = 0 THEN 1 ELSE chain
    /\ mpc' = "death"
    /\ UNCHANGED <<slotVars, procVars, dying, reloading, paced, isCheap,
                   delta, others, died, todo, ret, deaths, forkFails, out, setup>>

\* upsgi_cheaper_increase() and upsgi_cheaper_decrease()
FifoCheaper ==
    /\ \/ FifoCommand("+") /\ delta' = delta + 1
       \/ FifoCommand("-") /\ delta' = delta - 1
    /\ mpc' = "death"
    /\ UNCHANGED <<slotVars, procVars, dying, reloading, chain, paced,
                   isCheap, others, died, todo, ret, deaths, forkFails,
                   out, setup>>

\* Every recorded worker is killed and waited for.
KillAndWait ==
    LET gone == {pid[w] : w \in Recorded} IN
    /\ isCheap' = TRUE
    /\ cheaped' = [w \in Workers |-> TRUE]
    /\ st' = [p \in Procs |-> IF p \in gone THEN "reaped" ELSE st[p]]
    /\ sig' = [p \in Procs |-> IF p \in gone THEN {} ELSE sig[p]]
    /\ saw' = [p \in Procs |-> IF p \in gone THEN {} ELSE saw[p]]
    /\ out' = {}
    /\ mpc' = "death"
    /\ UNCHANGED <<cursed, late, accepting, manage, busy, lastPid, slot, code,
                   dying, reloading, chain, paced, delta, others, died, todo,
                   ret, deaths, forkFails, setup>>

\* upsgi_go_cheap()
FifoGoCheap ==
    /\ FifoCommand("C") /\ ~isCheap
    /\ KillAndWait
    /\ UNCHANGED pid

\* upsgi_master_check_idle(): nobody was busy for upsgi.idle seconds.  A pid
\* waitpid() no longer knows keeps its slot.
CheckIdle ==
    /\ FifoCommand("idle") /\ ~isCheap
    /\ \A w \in Active : ~busy[w]
    /\ KillAndWait
    /\ pid' = [w \in Workers |-> IF pid[w] # 0 /\ st[pid[w]] = "reaped"
                                THEN pid[w] ELSE 0]

\* A connection wakes the instance up from cheap mode.
WakeFromCheap ==
    /\ mpc = "events" /\ isCheap
    /\ isCheap' = FALSE
    /\ todo' = 1..(IF setup.cheaperCount > 0 THEN setup.cheaperCount ELSE NumProc)
    /\ mpc' = "spawn" /\ ret' = "death"
    /\ UNCHANGED <<slotVars, procVars, dying, reloading, chain, paced, delta,
                   others, died, boundVars, out, setup>>

-----------------------------------------------------------------------------
\* The worker.  A pending signal is delivered before the process goes on.
Quiet(p) == p \in Procs /\ sig[p] = {}

\* The child half of upsgi_respawn_worker()
ChildInit(p) ==
    /\ Quiet(p) /\ st[p] = "forked"
    /\ manage' = [manage EXCEPT ![slot[p]] = TRUE]
    /\ busy' = [busy EXCEPT ![slot[p]] = FALSE]
    /\ st' = [st EXCEPT ![p] = "boot"]
    /\ UNCHANGED <<pid, cheaped, cursed, late, accepting, lastPid, slot, sig,
                   saw, code, statusVars, masterVars, boundVars, out, setup>>

\* upsgi_worker_run(): applications are loaded, the worker's own signal
\* handlers replace the master's.
WorkerRun(p) ==
    /\ Quiet(p) /\ st[p] = "boot"
    /\ st' = [st EXCEPT ![p] = "ready"]
    /\ saw' = [saw EXCEPT ![p] = {}]
    /\ UNCHANGED <<slotVars, lastPid, slot, sig, code, statusVars, masterVars,
                   boundVars, out, setup>>

\* upsgi_ignition()
Ignition(p) ==
    /\ Quiet(p) /\ st[p] = "ready"
    /\ accepting' = [accepting EXCEPT ![slot[p]] = TRUE]
    /\ st' = [st EXCEPT ![p] = "run"]
    /\ out' = out \ {slot[p]}
    /\ UNCHANGED <<pid, cheaped, cursed, late, manage, busy, lastPid, slot,
                   sig, saw, code, statusVars, masterVars, boundVars, setup>>

\* A request comes in, and ends.
RequestStart(p) ==
    /\ Quiet(p) /\ st[p] = "run" /\ manage[slot[p]] /\ ~busy[slot[p]]
    /\ busy' = [busy EXCEPT ![slot[p]] = TRUE]
    /\ UNCHANGED <<pid, cheaped, cursed, late, accepting, manage, procVars,
                   statusVars, masterVars, boundVars, out, setup>>

RequestEnd(p) ==
    /\ Quiet(p) /\ st[p] = "run" /\ busy[slot[p]]
    /\ busy' = [busy EXCEPT ![slot[p]] = FALSE]
    /\ UNCHANGED <<pid, cheaped, cursed, late, accepting, manage, procVars,
                   statusVars, masterVars, boundVars, out, setup>>

\* goodbye_cruel_world(): the worker curses itself (max-requests and alike).
Goodbye(p) ==
    /\ Quiet(p) /\ st[p] = "run" /\ deaths < MaxDeaths
    /\ deaths' = deaths + 1
    /\ manage' = [manage EXCEPT ![slot[p]] = FALSE]
    /\ cursed' = [cursed EXCEPT ![slot[p]] = TRUE]
    /\ late' = [late EXCEPT ![slot[p]] = FALSE]
    /\ UNCHANGED <<pid, cheaped, accepting, busy, procVars, statusVars,
                   masterVars, requests, forkFails, out, setup>>

\* The process is gone, the master does not know yet.
Exits(p, c) ==
    /\ st' = [st EXCEPT ![p] = "zombie"]
    /\ sig' = [sig EXCEPT ![p] = {}]
    /\ saw' = [saw EXCEPT ![p] = {}]
    /\ code' = [code EXCEPT ![p] = c]
    /\ UNCHANGED <<lastPid, slot>>

\* The request loop is left and end_me() called.
LeaveLoop(p) ==
    /\ Quiet(p) /\ st[p] = "run" /\ ~manage[slot[p]] /\ ~busy[slot[p]]
    /\ Exits(p, "died")
    /\ UNCHANGED <<slotVars, statusVars, masterVars, boundVars, out, setup>>

\* A fault, an exit of its own or a SIGKILL (harakiri, evil reload, OOM).
WorkerDies(p, c) ==
    /\ p \in Procs /\ st[p] \in Live /\ deaths < MaxDeaths
    /\ c \in setup.exitCodes
    /\ deaths' = deaths + 1
    /\ Exits(p, c)
    /\ UNCHANGED <<slotVars, statusVars, masterVars, requests, forkFails,
                   out, setup>>

Pending(p, s) == p \in Procs /\ s \in sig[p] /\ "KILL" \notin sig[p]

Killed(p) ==
    /\ p \in Procs /\ "KILL" \in sig[p]
    /\ Exits(p, "died")
    /\ UNCHANGED <<slotVars, statusVars, masterVars, boundVars, out, setup>>

\* end_me()
WorkerInt(p) ==
    /\ Pending(p, "INT") /\ st[p] \in {"ready", "run"}
    /\ Exits(p, "died")
    /\ UNCHANGED <<slotVars, statusVars, masterVars, boundVars, out, setup>>

\* gracefully_kill(): a single-threaded worker without a request exits in the
\* handler, any other leaves its loop later.
WorkerHup(p) ==
    /\ Pending(p, "HUP") /\ st[p] \in {"ready", "run"}
    /\ manage' = [manage EXCEPT ![slot[p]] = FALSE]
    /\ \/ ~busy[slot[p]] /\ Exits(p, "died")
       \/ /\ sig' = [sig EXCEPT ![p] = @ \ {"HUP"}]
          /\ UNCHANGED <<lastPid, slot, st, saw, code>>
    /\ UNCHANGED <<pid, cheaped, cursed, late, accepting, busy, statusVars,
                   masterVars, boundVars, out, setup>>

\* Until upsgi_worker_run() a child still has the handlers of the master, and
\* its own copy of upsgi.status: kill_them_all() and grace_them_all() run in
\* the child and curse the workers again. The gateways they kill are waited
\* for by the master (WaitpidOther).
BootSignal(p, s) ==
    LET known == IF s = "INT" THEN "dying" \in saw[p] ELSE saw[p] # {}
        told == {pid[w] : w \in Recorded}
    IN
    /\ Pending(p, s) /\ st[p] \in {"forked", "boot"}
    /\ saw' = [saw EXCEPT ![p] = IF known \/ (s = "HUP" /\ setup.lazy) THEN @
                                 ELSE @ \cup {IF s = "INT" THEN "dying"
                                              ELSE "reloading"}]
    /\ sig' = [q \in Procs |->
                  (IF q = p THEN sig[q] \ {s} ELSE sig[q])
                  \cup (IF ~known /\ q \in told /\ st[q] \in Live THEN {s}
                        ELSE {})]
    /\ cursed' = [w \in Workers |-> cursed[w] \/ (~known /\ w \in Recorded)]
    /\ late' = [w \in Workers |-> late[w] /\ (known \/ w \notin Recorded)]
    /\ UNCHANGED <<pid, cheaped, accepting, manage, busy, lastPid, slot, st,
                   code, statusVars, masterVars, boundVars, out, setup>>

-----------------------------------------------------------------------------
MasterStep ==
    \/ CheckDeath \/ CheckReload
    \/ CheckChainIdle \/ CheckChainOver \/ CheckChainVictim
    \/ CheckMercy
    \/ CheaperSpawn \/ CheaperStop \/ CheaperNothing
    \/ \E p \in Procs : WaitpidDead(p)
    \/ WaitpidOther \/ WaitpidNobody
    \/ BuryUnknown
    \/ \E w \in Workers : \/ BuryNeedApp(w) \/ BuryStopping(w)
                          \/ BuryBrutal(w) \/ BuryCheaped(w) \/ BuryRespawn(w)
    \/ ForkBombDelay \/ RespawnReset \/ RespawnReturn \/ Fork \/ SetPid
    \/ EventsNothing \/ GracefulWait

\* What reaches the master from outside.
Input ==
    \/ \E s \in setup.signals : SignalMaster(s)
    \/ FifoStop \/ FifoReloadWorkers \/ FifoGracefulKill \/ FifoChainReload
    \/ FifoCheaper \/ FifoGoCheap \/ CheckIdle \/ WakeFromCheap
    \/ ForkFails

\* What a worker does sooner or later: take its signals and come up.
WorkerStep(p) ==
    \/ ChildInit(p) \/ WorkerRun(p) \/ Ignition(p)
    \/ Killed(p) \/ WorkerInt(p) \/ WorkerHup(p)
    \/ \E s \in {"INT", "HUP"} : BootSignal(p, s)

\* What nobody can count on.
WorkerMay(p) ==
    \/ RequestStart(p) \/ RequestEnd(p) \/ Goodbye(p) \/ LeaveLoop(p)
    \/ \E c \in setup.exitCodes : WorkerDies(p, c)

Next ==
    \/ MasterStep \/ Input \/ PacingOver
    \/ \E w \in Workers : MercyExpires(w)
    \/ \E p \in Procs : WorkerStep(p) \/ WorkerMay(p)

Spec == Init /\ [][Next]_vars

\* The master and the processes are scheduled, signals are delivered, time
\* passes.  A request need not end and a worker need not leave its loop.
Fairness ==
    /\ WF_vars(MasterStep)
    /\ WF_vars(PacingOver)
    /\ \A w \in Workers :
          /\ WF_vars(MercyExpires(w))
          /\ WF_vars(\E p \in Procs : slot[p] = w /\ WorkerStep(p))

FairSpec == Spec /\ Fairness

-----------------------------------------------------------------------------
\* Slots, processes, flags of the instance and the step of master_loop() keep
\* their types; a slot only ever records a pid that fork() returned.
TypeOK ==
    /\ setup \in Setups
    /\ pid \in [Workers -> 0..lastPid]
    /\ cheaped \in [Workers -> BOOLEAN]
    /\ cursed \in [Workers -> BOOLEAN]
    /\ late \in [Workers -> BOOLEAN]
    /\ accepting \in [Workers -> BOOLEAN]
    /\ manage \in [Workers -> BOOLEAN]
    /\ busy \in [Workers -> BOOLEAN]
    /\ lastPid \in Nat
    /\ slot \in [Procs -> Workers]
    /\ st \in [Procs -> States]
    /\ sig \in [Procs -> SUBSET {"INT", "HUP", "KILL"}]
    /\ saw \in [Procs -> SUBSET {"dying", "reloading"}]
    /\ code \in [Procs -> setup.exitCodes \cup {"died"}]
    /\ dying \in BOOLEAN /\ reloading \in BOOLEAN
    /\ chain \in 0..(NumProc + 1) /\ paced \in BOOLEAN
    /\ isCheap \in BOOLEAN /\ delta \in Int /\ others \in BOOLEAN
    /\ mpc \in Over \cup {"death", "reload", "chain", "mercy", "cheaper",
                           "waitpid", "bury", "sleep", "spawn", "fork",
                           "setpid", "events", "gwait"}
    /\ died \in 0..lastPid \cup {Outsider}
    /\ todo \subseteq Workers
    /\ ret \in {"death", "waitpid"}
    /\ requests \in Nat /\ deaths \in Nat /\ forkFails \in Nat
    /\ out \subseteq Workers

\* No worker escapes the master: every process that runs is the one its slot
\* records, except for the instant between fork() and the assignment of the
\* pid.  A second process in a slot, or a slot reset while its process is
\* alive, would leave a worker nobody stops.
EveryWorkerKnown ==
    \A p \in Procs :
        st[p] # "reaped"
        => \/ pid[slot[p]] = p
           \/ mpc = "setpid" /\ p = lastPid

\* An instance that exits or reloads leaves no worker behind.
NothingLeftBehind ==
    mpc \in Over => \A p \in Procs : st[p] = "reaped"

\* The pid of a slot belongs to a child that was not waited for yet: it is
\* never the pid of a process that is long gone, which the master would
\* signal, wait for and count as a running worker.
PidIsAChild ==
    \A w \in Workers :
        pid[w] # 0 /\ pid[w] # died => st[pid[w]] # "reaped"

\* The processes that run although their slot was not told to go.
Untold == {p \in Procs : st[p] \in Live /\ ~cursed[slot[p]]}

\* A stop or a reload of the instance misses one worker at most, wherever in
\* master_loop() its signal comes: the one that upsgi_respawn_worker() was
\* just replacing. Whoever dies later is not replaced. (Cheaper mode, and
\* the return from cheap mode, replace several at a time.)
StopMissesOne ==
    Stopping /\ setup.cheaperCount = 0 /\ setup.commands \cap {"C", "idle"} = {}
        => \A p, q \in Untold : p = q

\* A chain reload takes the workers down one at a time: the next one is not
\* touched before the previous one accepts again.  A worker that dies unasked
\* just where the chain is moves it on, past the one that is still coming up.
ChainOneAtATime ==
    deaths = 0 => Cardinality({w \in out : ~cheaped[w]}) <= 1

\* The workers that are not cheaped, whether up or being respawned.
Floor == Cardinality({w \in Workers : ~cheaped[w]}) >= setup.cheaperCount

\* Left alone (no command, no worker that asked for cheap mode) the cheaper
\* algorithms never go below cheaper_count, whoever dies in between.
CheaperFloor ==
    requests = 0 /\ todo = {} /\ (\A p \in Procs : code[p] # "go-cheap")
        => Floor

\* An instance told to stop or to reload does so in the end.
StopCompletes == []<>(Stopping => mpc \in Over)

\* The mercy given to a worker is bounded: a worker told to go is gone in the
\* end, whatever its request does, and again and again nobody is waited for.
MercyBounds == []<>(\A w \in Workers : pid[w] = 0 \/ ~cursed[w])

\* A chain reload comes to its end, unless the whole instance stops first.
ChainCompletes == []<>(chain = 0 \/ Stopping)

\* A slot that is meant to be served does not stay empty: unless the instance
\* stops, all of them are served again and again.
EverySlotServed == []<>(Stopping \/ \A w \in Workers : pid[w] # 0 \/ cheaped[w])

\* The master goes on whatever its workers do: it stops when it is told to,
\* workers that were told to go are gone in the end, a chain reload ends, and
\* no slot stays empty.
MasterGoesOn == StopCompletes /\ MercyBounds /\ ChainCompletes /\ EverySlotServed
===============================================================================
