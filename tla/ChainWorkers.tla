---------------------------- MODULE ChainWorkers ----------------------------
(***************************************************************************)
(* Chain reloading, part 3: the commands of the fifo, and what the workers *)
(* do by themselves or because they were told.                             *)
(***************************************************************************)
EXTENDS ChainRespawn

\* So does what the fifo delivers.
LEMMA ChainInput == IInv /\ Input => CInv'
<1> SUFFICES ASSUME IInv, Input PROVE CInv'
  OBVIOUS
<1>i. TypeOK /\ Control /\ SlotOfPid /\ PendingIsLive /\ EveryWorkerKnown /\ FreshIsLast /\ TodoVacant /\ BuriedIsReaped
  BY DEF IInv, TInv, KInv
<1>j. StoppedAreTold /\ TodoEmpty /\ UpAccepts /\ OnlyVictimsGo /\ VictimIsLast /\ OneVictim /\ ~isCheap
  BY DEF IInv, CInv
<1>t. /\ slot \in [Procs -> Workers] /\ st \in [Procs -> States] /\ pid \in [Workers -> 0..lastPid]
      /\ out \subseteq Workers /\ todo \subseteq Workers
  BY <1>i DEF TypeOK
<1> USE <1>i, <1>j
<1>o. setup.signals = {} /\ setup.maxForkFails = 0 /\ setup.commands \cap {"C", "idle", "w", "W"} = {} /\ ("r" \in setup.commands => ~setup.lazy)
  BY DEF IInv, Ordered
<1>1. ASSUME NEW s \in setup.signals, SignalMaster(s) PROVE CInv'
  BY <1>1, <1>o
<1>2. CASE FifoStop
  <2>1. /\ UNCHANGED <<setup, pid, cheaped, accepting, manage, lastPid, slot, st, chain, isCheap, died, todo, deaths, out>>
        /\ mpc = "events" /\ mpc' = "death"
    BY <1>2 DEF FifoStop, FifoCommand, slotVars, procVars, statusVars, masterVars, boundVars
  <2>a. Stopping' /\ ((Stopping /\ cursed' = cursed) \/ \E s : Curse(Recorded, s))
    <3>1. CASE KillThemAll /\ UNCHANGED reloading
      BY <3>1 DEF KillThemAll, Unasked, Stopping
    <3>2. CASE ~setup.lazy /\ GraceThemAll /\ UNCHANGED dying
      <4>1. CASE Stopping
        BY <3>2, <4>1 DEF GraceThemAll, Unasked, Stopping
      <4>2. CASE ~Stopping
        <5>1. Curse(Recorded, "HUP") /\ reloading' = ~setup.lazy
          BY <3>2, <4>2 DEF GraceThemAll
        <5>2. (~setup.lazy) = TRUE
          BY <3>2
        <5>3. reloading' = TRUE
          BY Zenon, <5>1, <5>2
        <5> QED
          BY <5>1, <5>3 DEF Stopping
      <4> QED
        BY <4>1, <4>2
    <3>3. CASE ReapThemAll /\ UNCHANGED dying
      BY <3>3 DEF ReapThemAll, Unasked, Stopping
    <3> QED
      BY <1>2, <1>o, <3>1, <3>2, <3>3 DEF FifoStop, FifoCommand
  <2>b. \A w \in Recorded : cursed'[w]
    BY Zenon, <2>a, CurseTells DEF StoppedAreTold, Recorded
  <2>2. StoppedAreTold'
    BY <2>1, <2>a, <2>b DEF StoppedAreTold, Stopping, Recorded, Spawning
  <2>3. TodoEmpty'
    BY <1>t, <2>1 DEF TodoEmpty, Procs, Control, Spawning
  <2>4. UpAccepts'
    BY <2>1, UpFrame
  <2>5. OnlyVictimsGo'
    BY <1>t, <2>1, <2>a DEF OnlyVictimsGo, Untouched, Calm, Stopping, Procs, Live
  <2>6. VictimIsLast'
    BY <1>t, <2>1, <2>a DEF VictimIsLast, Tracked, Calm, Stopping, Spawning, Control
  <2>7. OneVictim'
    BY <2>1, OneFrame
  <2> QED
    BY <2>1, <2>2, <2>3, <2>4, <2>5, <2>6, <2>7 DEF CInv
<1>3. CASE FifoReloadWorkers
  BY <1>3, <1>o DEF FifoReloadWorkers, FifoCommand
<1>4. CASE FifoGracefulKill
  <2>1. /\ UNCHANGED <<setup, pid, cheaped, accepting, manage, lastPid, slot, st, reloading, chain, isCheap, died, todo, deaths, out>>
        /\ mpc = "events" /\ mpc' = "gwait" /\ dying' /\ Curse(Recorded, "HUP")
    BY <1>4 DEF FifoGracefulKill, FifoCommand, slotVars, procVars, statusVars, masterVars, boundVars
  <2>b. \A w \in Recorded : cursed'[w]
    BY <2>1, CurseTells DEF Recorded
  <2>2. StoppedAreTold'
    BY <2>1, <2>b DEF StoppedAreTold, Stopping, Recorded, Spawning
  <2>3. TodoEmpty'
    BY <1>t, <2>1 DEF TodoEmpty, Procs, Control, Spawning
  <2>4. UpAccepts'
    BY <2>1, UpFrame
  <2>5. OnlyVictimsGo'
    BY <1>t, <2>1 DEF OnlyVictimsGo, Untouched, Calm, Stopping, Procs, Live
  <2>6. VictimIsLast'
    BY <1>t, <2>1 DEF VictimIsLast, Tracked, Calm, Stopping, Spawning, Control
  <2>7. OneVictim'
    BY <2>1, OneFrame
  <2> QED
    BY <2>1, <2>2, <2>3, <2>4, <2>5, <2>6, <2>7 DEF CInv
<1>5. CASE FifoChainReload
  <2>1. /\ UNCHANGED <<setup, pid, cheaped, cursed, accepting, manage, lastPid, slot, st, sig, dying, reloading, isCheap, died, todo, deaths, out>>
        /\ mpc = "events" /\ mpc' = "death"
        /\ chain' = IF chain = 0 THEN 1 ELSE chain
    BY <1>5 DEF FifoChainReload, FifoCommand, slotVars, procVars, statusVars, masterVars, boundVars
  <2>a. ASSUME Calm, NEW u \in out, ~cheaped[u] PROVE chain # 0
    <3>1. Tracked(u) /\ u \in 1..NumProc
      BY <1>t, <2>a DEF VictimIsLast, Workers
    <3>2. chain = u \/ chain = u + 1
      BY <3>1, <2>a DEF Tracked
    <3> QED
      BY <3>1, <3>2
  <2>2. StoppedAreTold'
    BY <2>1, StoppedFrame DEF Spawning
  <2>3. TodoEmpty'
    BY <2>1, TodoFrame
  <2>4. UpAccepts'
    BY <2>1, UpFrame
  <2>5. OnlyVictimsGo'
    BY <2>1, GoFrame
  <2>6. VictimIsLast'
    BY <1>t, <2>1, <2>a DEF VictimIsLast, Tracked, Calm, Stopping, Spawning, Control
  <2>7. OneVictim'
    BY <2>1, OneFrame
  <2> QED
    BY <2>1, <2>2, <2>3, <2>4, <2>5, <2>6, <2>7 DEF CInv
<1>6. CASE FifoCheaper
  BY <1>6, ChainFrame DEF FifoCheaper, FifoCommand, Spawning, slotVars, procVars, statusVars, masterVars, boundVars
<1>7. CASE FifoGoCheap
  BY <1>7, <1>o DEF FifoGoCheap, FifoCommand
<1>8. CASE CheckIdle
  BY <1>8, <1>o DEF CheckIdle, FifoCommand
<1>9. CASE WakeFromCheap
  BY <1>9 DEF WakeFromCheap
<1>10. CASE ForkFails
  <2>1. forkFails \in Nat
    BY DEF TypeOK
  <2>2. forkFails < 0
    BY <1>10, <1>o DEF ForkFails
  <2> QED
    BY <2>1, <2>2
<1> QED
  BY <1>1, <1>2, <1>3, <1>4, <1>5, <1>6, <1>7, <1>8, <1>9, <1>10 DEF Input

\* Two processes of a slot are never there together, also when the death of
\* one is being answered.
LEMMA OneInASlot ==
    ASSUME IInv, NEW p \in Procs, NEW q \in Procs, slot[q] = slot[p], st[p] # "reaped", st[q] # "reaped" \/ q = died
    PROVE  q = p
<1>1. TypeOK /\ Control /\ EveryWorkerKnown /\ TodoVacant /\ FreshIsLast /\ BuriedIsReaped /\ TodoEmpty
  BY DEF IInv, TInv, KInv, CInv
<1>2. mpc = "setpid" => Min(todo) \in todo
  <2>1. todo \in SUBSET Nat
    BY <1>1 DEF TypeOK, Workers
  <2> QED
    BY <2>1, <1>1, MinInSet DEF Control
<1>3. CASE mpc # "setpid"
  <2>1. pid[slot[p]] = p
    BY <1>1, <1>3 DEF EveryWorkerKnown
  <2>2. pid[slot[q]] = q
    BY <1>1, <1>3 DEF EveryWorkerKnown, TodoEmpty
  <2> QED
    BY <2>1, <2>2
<1>4. CASE mpc = "setpid"
  <2>1. died = 0 /\ 0 \notin Procs /\ st[q] # "reaped"
    BY <1>1, <1>4 DEF Control, Procs
  <2>2. (p = lastPid \/ pid[slot[p]] = p) /\ (q = lastPid \/ pid[slot[q]] = q)
    BY <1>1, <2>1 DEF EveryWorkerKnown
  <2>3. slot[lastPid] \in todo
    BY <1>1, <1>2, <1>4 DEF FreshIsLast
  <2> QED
    BY <1>1, <2>1, <2>2, <2>3 DEF TodoVacant
<1> QED
  BY <1>3, <1>4

\* upsgi_respawn_worker() runs for a slot that is to be respawned.
LEMMA TodoHasMin == TypeOK /\ todo # {} => Min(todo) \in todo
<1>1. TypeOK => todo \in SUBSET Nat
  BY DEF TypeOK, Workers
<1> QED
  BY <1>1, MinInSet

\* A worker that goes because it was told to.
LEMMA ChainExit ==
    ASSUME IInv, NEW p \in Procs, st[p] \in Live, sig[p] # {} \/ (st[p] = "run" /\ ~manage[slot[p]]),
           Exits(p, "died"),
           UNCHANGED <<setup, pid, cheaped, cursed, accepting, dying, reloading, chain, isCheap, mpc, died, todo, deaths, out>>,
           manage' = manage \/ manage' = [manage EXCEPT ![slot[p]] = FALSE]
    PROVE  CInv'
<1>i. TypeOK /\ Control /\ SlotOfPid /\ PendingIsLive /\ EveryWorkerKnown /\ FreshIsLast /\ TodoVacant /\ BuriedIsReaped
  BY DEF IInv, TInv, KInv
<1>j. StoppedAreTold /\ TodoEmpty /\ UpAccepts /\ OnlyVictimsGo /\ VictimIsLast /\ OneVictim /\ ~isCheap
  BY DEF IInv, CInv
<1>t. /\ slot \in [Procs -> Workers] /\ st \in [Procs -> States] /\ sig \in [Procs -> SUBSET {"INT", "HUP", "KILL"}]
      /\ manage \in [Workers -> BOOLEAN]
  BY <1>i DEF TypeOK
<1> USE <1>i, <1>j
<1>1. /\ UNCHANGED <<lastPid, slot>>
      /\ st' = [st EXCEPT ![p] = "zombie"] /\ sig' = [sig EXCEPT ![p] = {}]
  BY SMTT(30) DEF Exits
<1>2. StoppedAreTold' /\ TodoEmpty' /\ OneVictim'
  BY <1>1 DEF StoppedAreTold, TodoEmpty, OneVictim, Stopping, Recorded, Procs
<1>3. UpAccepts'
  BY <1>t, <1>1 DEF UpAccepts, Procs
<1>4. VictimIsLast'
  BY DEF VictimIsLast, Tracked, Calm, Stopping
<1>5. Calm => cheaped[slot[p]] \/ (slot[p] \in out /\ accepting[slot[p]])
  BY DEF OnlyVictimsGo, Untouched, Live
<1>6. ASSUME Calm, NEW q \in Procs PROVE Untouched(q)'
  <2>1. CASE slot[q] = slot[p]
    <3>1. CASE q = p
      <4>1. st'[q] = "zombie"
        BY <1>t, <3>1, <1>1
      <4> QED
        BY <4>1, <2>1, <1>1, <1>5, <1>6 DEF Untouched
    <3>2. CASE q # p
      <4>1. st'[q] = st[q] /\ sig'[q] = sig[q] /\ Untouched(q)
        BY <1>t, <3>2, <1>1, <1>6 DEF OnlyVictimsGo
      <4> QED
        BY Zenon, <4>1, <2>1, <1>1, <1>5, <1>6 DEF Untouched
    <3> QED
      BY <3>1, <3>2
  <2>2. CASE slot[q] # slot[p]
    <3>1. st'[q] = st[q] /\ sig'[q] = sig[q] /\ manage'[slot[q]] = manage[slot[q]]
      BY <1>t, <2>2, <1>1
    <3> QED
      BY <3>1, <1>1, <1>6 DEF OnlyVictimsGo, Untouched
  <2> QED
    BY <2>1, <2>2
<1>7. OnlyVictimsGo'
  BY SMTT(30), <1>1, <1>6 DEF OnlyVictimsGo, Calm, Stopping, Procs
<1> QED
  BY <1>2, <1>3, <1>4, <1>7 DEF CInv

\* The workers do not disturb the chain: who was not told stays.
LEMMA ChainWorkerStep == ASSUME IInv, NEW p \in Procs, WorkerStep(p) \/ WorkerMay(p) PROVE CInv'
<1>i. TypeOK /\ Control /\ SlotOfPid /\ PendingIsLive /\ EveryWorkerKnown /\ FreshIsLast /\ TodoVacant /\ BuriedIsReaped
  BY DEF IInv, TInv, KInv
<1>j. StoppedAreTold /\ TodoEmpty /\ UpAccepts /\ OnlyVictimsGo /\ VictimIsLast /\ OneVictim /\ ~isCheap
  BY DEF IInv, CInv
<1>t. /\ slot \in [Procs -> Workers] /\ st \in [Procs -> States] /\ pid \in [Workers -> 0..lastPid]
      /\ out \subseteq Workers /\ todo \subseteq Workers
  BY <1>i DEF TypeOK
<1>b. /\ accepting \in [Workers -> BOOLEAN] /\ cursed \in [Workers -> BOOLEAN] /\ manage \in [Workers -> BOOLEAN]
      /\ sig \in [Procs -> SUBSET {"INT", "HUP", "KILL"}]
  BY <1>i DEF TypeOK
<1> USE <1>i, <1>j
<1>u. \A q \in Procs : slot[q] = slot[p] /\ st[p] # "reaped" /\ (st[q] # "reaped" \/ q = died) => q = p
  BY OneInASlot
<1>1. CASE ChildInit(p)
  <2>1. /\ UNCHANGED <<setup, pid, cheaped, cursed, accepting, lastPid, slot, sig, dying, reloading, chain, isCheap, mpc, died, todo, deaths, out>>
        /\ st[p] = "forked" /\ sig[p] = {}
        /\ manage' = [manage EXCEPT ![slot[p]] = TRUE] /\ st' = [st EXCEPT ![p] = "boot"]
    BY <1>1 DEF ChildInit, Quiet, slotVars, procVars, statusVars, masterVars, boundVars
  <2>2. StoppedAreTold'
    BY Zenon, <2>1, StoppedFrame
  <2>3. TodoEmpty'
    BY Zenon, <2>1, TodoFrame
  <2>4. UpAccepts'
    BY ZenonT(30), <1>t, <2>1 DEF UpAccepts, Procs
  <2>5. OnlyVictimsGo'
    <3>1. ASSUME Calm, NEW q \in Procs PROVE Untouched(q)'
      <4>1. Untouched(q) /\ slot[q] \in Workers
        BY <1>t, <3>1 DEF OnlyVictimsGo
      <4>2. manage[slot[q]] => manage'[slot[q]]
        BY <1>b, <4>1, <2>1
      <4>3. CASE q = p
        <5>1. st'[q] = "boot" /\ manage'[slot[q]]
          BY <1>t, <1>b, <4>1, <4>3, <2>1
        <5> QED
          BY Zenon, <5>1, <4>1, <4>3, <2>1 DEF Untouched, Live
      <4>4. CASE q # p
        <5>1. st'[q] = st[q]
          BY <1>t, <4>4, <2>1
        <5> QED
          BY Zenon, <5>1, <4>1, <4>2, <2>1 DEF Untouched
      <4> QED
        BY <4>3, <4>4
    <3> QED
      BY <3>1, <2>1 DEF OnlyVictimsGo, Calm, Stopping, Procs
  <2>6. VictimIsLast'
    BY <2>1, LastFrame
  <2>7. OneVictim'
    BY <2>1, OneFrame
  <2> QED
    BY <2>1, <2>2, <2>3, <2>4, <2>5, <2>6, <2>7 DEF CInv
<1>2. CASE WorkerRun(p)
  <2>1. /\ UNCHANGED <<setup, pid, cheaped, cursed, accepting, manage, lastPid, slot, sig, dying, reloading, chain, isCheap, mpc, died, todo, deaths, out>>
        /\ st[p] = "boot" /\ sig[p] = {}
        /\ st' = [st EXCEPT ![p] = "ready"]
    BY SMTT(30), <1>2 DEF WorkerRun, Quiet, slotVars, procVars, statusVars, masterVars, boundVars
  <2>2. StoppedAreTold'
    BY <2>1, StoppedFrame
  <2>3. TodoEmpty'
    BY <2>1, TodoFrame
  <2>4. UpAccepts'
    BY <1>t, <2>1 DEF UpAccepts, Procs
  <2>5. OnlyVictimsGo'
    <3>1. ASSUME Calm, NEW q \in Procs PROVE Untouched(q)'
      <4>1. Untouched(q)
        BY <3>1 DEF OnlyVictimsGo
      <4> QED
        BY <1>t, <4>1, <3>1, <2>1 DEF Untouched, Procs, Live
    <3> QED
      BY <3>1, <2>1 DEF OnlyVictimsGo, Calm, Stopping, Procs
  <2>6. VictimIsLast'
    BY ZenonT(30), <2>1, LastFrame
  <2>7. OneVictim'
    BY <2>1, OneFrame
  <2> QED
    BY <2>1, <2>2, <2>3, <2>4, <2>5, <2>6, <2>7 DEF CInv
<1>3. CASE Ignition(p)
  <2>1. /\ UNCHANGED <<setup, pid, cheaped, cursed, manage, lastPid, slot, sig, dying, reloading, chain, isCheap, mpc, died, todo, deaths>>
        /\ st[p] = "ready" /\ sig[p] = {}
        /\ accepting' = [accepting EXCEPT ![slot[p]] = TRUE] /\ st' = [st EXCEPT ![p] = "run"] /\ out' = out \ {slot[p]}
    BY <1>3 DEF Ignition, Quiet, slotVars, procVars, statusVars, masterVars, boundVars
  <2>a. mpc = "fork" => slot[p] # Min(todo)
    <3>1. mpc = "fork" => Min(todo) \in todo
      BY TodoHasMin DEF Control
    <3> QED
      BY Zenon, <3>1, <2>1 DEF TodoVacant
  <2>b. ASSUME mpc = "sleep", Calm, NEW v \in todo PROVE slot[p] # v
    BY Zenon, <2>b, <2>1 DEF TodoVacant
  <2>2. StoppedAreTold'
    BY <2>1, StoppedFrame
  <2>3. TodoEmpty'
    <3>0. mpc = "fork" => Min(todo) \in Workers
      BY <1>t, TodoHasMin DEF Control
    <3>1. mpc = "fork" => accepting'[Min(todo)] = accepting[Min(todo)]
      <4>1. \A w \in Workers : w # slot[p] => accepting'[w] = accepting[w]
        BY Zenon, <1>b, <2>1
      <4> QED
        BY Zenon, <4>1, <3>0, <2>a
    <3>2. \A v \in todo' : pid'[v] = 0 /\ (v = Min(todo') \/ cheaped'[v])
      BY Zenon, <2>1 DEF TodoEmpty
    <3>3. mpc' = "fork" => ~accepting'[Min(todo')] /\ ~cursed'[Min(todo')] /\ ~cheaped'[Min(todo')]
      BY Zenon, <3>1, <2>1 DEF TodoEmpty
    <3>4. died' \in Procs' => pid'[slot'[died']] = died'
      BY Zenon, <2>1 DEF TodoEmpty, Procs
    <3> QED
      BY Zenon, <3>2, <3>3, <3>4 DEF TodoEmpty
  <2>4. UpAccepts'
    BY <1>t, <2>1, <1>u DEF UpAccepts, Procs, Live
  <2>5. OnlyVictimsGo'
    <3>1. ASSUME Calm, NEW q \in Procs PROVE Untouched(q)'
      <4>1. Untouched(q)
        BY <3>1 DEF OnlyVictimsGo
      <4> QED
        BY SMTT(30), <1>t, <4>1, <3>1, <2>1, <1>u DEF Untouched, Procs, Live, UpAccepts
    <3> QED
      BY SMTT(30), <3>1, <2>1 DEF OnlyVictimsGo, Calm, Stopping, Procs
  <2>6. VictimIsLast'
    <3>1. ASSUME Calm, NEW u \in out, u # slot[p] PROVE Tracked(u)'
      <4>1. Tracked(u) /\ u \in Workers
        BY Zenon, <1>t, <3>1 DEF VictimIsLast
      <4>2. accepting'[u] = accepting[u]
        BY <1>b, <4>1, <3>1, <2>1
      <4> QED
        BY <4>1, <4>2, <2>1 DEF Tracked
    <3>2. ASSUME Calm, mpc = "sleep", NEW v \in todo PROVE v \in out' /\ accepting'[v] /\ ~cheaped[v]
      <4>1. v \in out /\ accepting[v] /\ ~cheaped[v] /\ v # slot[p] /\ v \in Workers
        BY Zenon, <1>t, <3>2, <2>b DEF VictimIsLast
      <4> QED
        BY <1>b, <4>1, <2>1
    <3> QED
      BY <3>1, <3>2, <2>1 DEF VictimIsLast, Calm, Stopping
  <2>7. OneVictim'
    BY Zenon, <1>t, <2>1 DEF OneVictim
  <2> QED
    BY <2>1, <2>2, <2>3, <2>4, <2>5, <2>6, <2>7 DEF CInv
<1>4. CASE RequestStart(p)
  BY <1>4, ChainFrame DEF RequestStart, slotVars, procVars, statusVars, masterVars, boundVars
<1>5. CASE RequestEnd(p)
  BY SMTT(30), <1>5, ChainFrame DEF RequestEnd, slotVars, procVars, statusVars, masterVars, boundVars
<1>6. CASE Killed(p)
  <2>1. st[p] \in Live
    BY <1>6 DEF Killed, PendingIsLive
  <2> QED
    BY <1>6, <2>1, ChainExit DEF Killed, slotVars, statusVars, masterVars, boundVars
<1>7. CASE WorkerInt(p)
  BY Zenon, <1>7, ChainExit DEF WorkerInt, Pending, Live, slotVars, statusVars, masterVars, boundVars
<1>8. CASE WorkerHup(p) /\ Exits(p, "died")
  BY Zenon, <1>8, ChainExit DEF WorkerHup, Pending, Live, statusVars, masterVars, boundVars
<1>9. CASE WorkerHup(p) /\ ~Exits(p, "died")
  <2>1. /\ UNCHANGED <<setup, pid, cheaped, cursed, accepting, lastPid, slot, st, dying, reloading, chain, isCheap, mpc, died, todo, deaths, out>>
        /\ st[p] \in {"ready", "run"} /\ "HUP" \in sig[p]
        /\ manage' = [manage EXCEPT ![slot[p]] = FALSE] /\ sig' = [sig EXCEPT ![p] = sig[p] \ {"HUP"}]
    BY <1>9 DEF WorkerHup, Pending, slotVars, procVars, statusVars, masterVars, boundVars
  <2>a. Calm => cheaped[slot[p]] \/ (slot[p] \in out /\ accepting[slot[p]])
    BY <2>1 DEF OnlyVictimsGo, Untouched
  <2>2. StoppedAreTold'
    BY Zenon, <2>1, StoppedFrame
  <2>3. TodoEmpty'
    BY <2>1, TodoFrame
  <2>4. UpAccepts'
    BY <2>1, UpFrame
  <2>5. OnlyVictimsGo'
    <3>1. ASSUME Calm, NEW q \in Procs PROVE Untouched(q)'
      <4>1. CASE slot[q] = slot[p]
        <5>1. st[q] \in {"forked", "boot"} => sig'[q] \subseteq {"KILL"}
          BY SMTT(30), <1>b, <3>1, <2>1 DEF Untouched, OnlyVictimsGo
        <5> QED
          BY ZenonT(20), <5>1, <4>1, <3>1, <2>1, <2>a DEF Untouched
      <4>2. CASE slot[q] # slot[p]
        <5>1. sig'[q] = sig[q] /\ manage'[slot[q]] = manage[slot[q]]
          BY <1>t, <1>b, <4>2, <2>1
        <5> QED
          BY <5>1, <3>1, <2>1 DEF Untouched, OnlyVictimsGo
      <4> QED
        BY <4>1, <4>2
    <3> QED
      BY <3>1, <2>1 DEF OnlyVictimsGo, Calm, Stopping, Procs
  <2>6. VictimIsLast'
    BY <2>1, LastFrame
  <2>7. OneVictim'
    BY <2>1, OneFrame
  <2> QED
    BY ZenonT(30), <2>1, <2>2, <2>3, <2>4, <2>5, <2>6, <2>7 DEF CInv
<1>10. ASSUME NEW s \in {"INT", "HUP"}, BootSignal(p, s) PROVE CInv'
  <2>1. /\ UNCHANGED <<setup, pid, cheaped, accepting, manage, lastPid, slot, st, dying, reloading, chain, isCheap, mpc, died, todo, deaths, out>>
        /\ st[p] \in {"forked", "boot"} /\ s \in sig[p] /\ "KILL" \notin sig[p]
    BY SMTT(30), <1>10 DEF BootSignal, Pending, slotVars, procVars, statusVars, masterVars, boundVars
  <2>a. ~Calm
    BY <2>1 DEF OnlyVictimsGo, Untouched
  <2>b. \A w \in Workers : (cursed[w] => cursed'[w]) /\ (pid[w] = 0 => (cursed'[w] <=> cursed[w]))
    BY <1>10, Zenon DEF BootSignal, Recorded
  <2>c. mpc = "fork" => Min(todo) \in todo
    BY TodoHasMin DEF Control
  <2>2. StoppedAreTold'
    BY <2>1, <2>b DEF StoppedAreTold, Stopping, Recorded, Spawning
  <2>3. TodoEmpty'
    BY Zenon, <1>t, <2>1, <2>b, <2>c DEF TodoEmpty, Procs, Control, Spawning
  <2>4. UpAccepts'
    BY ZenonT(30), <2>1, UpFrame
  <2>5. OnlyVictimsGo'
    BY SMTT(30), <1>t, <2>1, <2>a DEF OnlyVictimsGo, Untouched, Calm, Stopping, Procs, Live
  <2>6. VictimIsLast'
    BY <1>t, <2>1, <2>a DEF VictimIsLast, Tracked, Calm, Stopping, Spawning, Control
  <2>7. OneVictim'
    BY Zenon, <2>1, OneFrame
  <2> QED
    BY SMTT(30), <2>1, <2>2, <2>3, <2>4, <2>5, <2>6, <2>7 DEF CInv
<1>11. CASE Goodbye(p)
  <2>1. /\ UNCHANGED <<setup, pid, cheaped, accepting, lastPid, slot, st, sig, dying, reloading, chain, isCheap, mpc, died, todo, out>>
        /\ st[p] = "run"
        /\ deaths' = deaths + 1 /\ cursed' = [cursed EXCEPT ![slot[p]] = TRUE]
    BY Zenon, <1>11 DEF Goodbye, Quiet, slotVars, procVars, statusVars, masterVars, boundVars
  <2>d. deaths \in Nat
    BY DEF TypeOK
  <2>e. deaths' = deaths + 1
    BY <2>1
  <2>a. deaths' # 0
    BY <2>d, <2>e
  <2>b. mpc = "fork" => slot[p] # Min(todo) /\ Min(todo) \in todo
    BY <2>1, TodoHasMin DEF TodoVacant, Control
  <2>2. StoppedAreTold'
    BY SMTT(30), <1>t, <2>1 DEF StoppedAreTold, Stopping, Recorded, Spawning
  <2>3. TodoEmpty'
    <3>0. mpc = "fork" => Min(todo) \in Workers
      BY <1>t, <2>b
    <3>1. mpc = "fork" => cursed'[Min(todo)] = cursed[Min(todo)]
      <4>1. \A w \in Workers : w # slot[p] => cursed'[w] = cursed[w]
        BY Zenon, <1>b, <2>1
      <4> QED
        BY Zenon, <4>1, <3>0, <2>b
    <3>2. \A v \in todo' : pid'[v] = 0 /\ (v = Min(todo') \/ cheaped'[v])
      BY Zenon, <2>1 DEF TodoEmpty
    <3>3. (mpc = "fork" => LET w == Min(todo) IN ~accepting[w] /\ ~cursed[w] /\ ~cheaped[w])'
      BY Zenon, <2>1, <3>1 DEF TodoEmpty
    <3>4. (died \in Procs => pid[slot[died]] = died)'
      BY Zenon, <2>1 DEF TodoEmpty, Procs
    <3> QED
      BY Zenon, <3>2, <3>3, <3>4 DEF TodoEmpty
  <2>4. UpAccepts'
    BY ZenonT(30), <2>1, UpFrame
  <2>5. OnlyVictimsGo'
    BY SMTT(30), <1>t, <2>1, <2>a DEF OnlyVictimsGo, Untouched, Calm, Stopping, Procs, Live
  <2>6. VictimIsLast'
    BY <1>t, <2>1, <2>a DEF VictimIsLast, Tracked, Calm, Stopping, Spawning, Control
  <2>7. OneVictim'
    BY SMTT(30), <1>t, <2>1, <2>a DEF OneVictim
  <2> QED
    BY ZenonT(30), <2>1, <2>2, <2>3, <2>4, <2>5, <2>6, <2>7 DEF CInv
<1>12. CASE LeaveLoop(p)
  BY <1>12, ChainExit DEF LeaveLoop, Live, slotVars, statusVars, masterVars, boundVars
<1>13. ASSUME NEW c \in setup.exitCodes, WorkerDies(p, c) PROVE CInv'
  <2>1. /\ UNCHANGED <<setup, pid, cheaped, cursed, accepting, manage, lastPid, slot, dying, reloading, chain, isCheap, mpc, died, todo, out>>
        /\ deaths' = deaths + 1 /\ st' = [st EXCEPT ![p] = "zombie"]
    BY Zenon, <1>13 DEF WorkerDies, Exits, slotVars, procVars, statusVars, masterVars, boundVars
  <2>d. deaths \in Nat
    BY DEF TypeOK
  <2>e. deaths' = deaths + 1
    BY <2>1
  <2>a. deaths' # 0
    BY <2>d, <2>e
  <2>2. StoppedAreTold'
    BY <2>1, StoppedFrame
  <2>3. TodoEmpty'
    BY <2>1, TodoFrame
  <2>4. UpAccepts'
    BY ZenonT(30), <1>t, <2>1 DEF UpAccepts, Procs
  <2>5. OnlyVictimsGo'
    BY <1>t, <2>1, <2>a DEF OnlyVictimsGo, Untouched, Calm, Stopping, Procs, Live
  <2>6. VictimIsLast'
    BY ZenonT(30), <1>t, <2>1, <2>a DEF VictimIsLast, Tracked, Calm, Stopping, Spawning, Control
  <2>7. OneVictim'
    BY <1>t, <2>1, <2>a DEF OneVictim
  <2> QED
    BY ZenonT(30), <2>1, <2>2, <2>3, <2>4, <2>5, <2>6, <2>7 DEF CInv
<1> QED
  BY <1>1, <1>2, <1>3, <1>4, <1>5, <1>6, <1>7, <1>8, <1>9, <1>10, <1>11, <1>12, <1>13 DEF WorkerStep, WorkerMay
=============================================================================
