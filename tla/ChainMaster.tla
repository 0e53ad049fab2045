---------------------------- MODULE ChainMaster ----------------------------
(***************************************************************************)
(* Chain reloading, part 1: the inductive invariant CInv of the setups in  *)
(* which the chain is in order (Ordered), and the steps of the master that *)
(* neither bury a worker nor respawn one.                                  *)
(***************************************************************************)
EXTENDS MasterKnown

\* Nobody is respawned once the instance is told to stop, and then every
\* worker is told.
StoppedAreTold ==
    /\ Stopping => mpc \notin Spawning /\ \A w \in Recorded : cursed[w]
    /\ mpc = "gwait" => dying

\* A slot to respawn records no pid, the one that was reset does not accept and
\* is not cursed, the dead worker is still the one of its slot.
TodoEmpty ==
    /\ \A v \in todo : pid[v] = 0 /\ (v = Min(todo) \/ cheaped[v])
    /\ mpc = "fork" => LET w == Min(todo) IN ~accepting[w] /\ ~cursed[w] /\ ~cheaped[w]
    /\ died \in Procs => pid[slot[died]] = died

\* A worker accepts when it has come up.
UpAccepts == \A p \in Procs : st[p] \in {"forked", "boot", "ready"} => ~accepting[slot[p]]

\* As long as nobody dies of his own, and the instance is not stopped ...
Calm == deaths = 0 /\ ~Stopping

\* ... only the victim of the chain, and workers that are cheaped, are
\* signalled and go,
Untouched(p) ==
    /\ (st[p] # "reaped" \/ p = died) /\ ~cheaped[slot[p]] /\ ~(slot[p] \in out /\ accepting[slot[p]])
       => st[p] \in Live /\ sig[p] = {} /\ ~cursed[slot[p]] /\ (st[p] # "forked" => manage[slot[p]])
    /\ st[p] \in {"forked", "boot"} => sig[p] \subseteq {"KILL"}

OnlyVictimsGo == Calm => \A p \in Procs : Untouched(p)

\* ... the victim is at the position of the chain until it is respawned and
\* just before it afterwards,
Tracked(v) ==
    \/ cheaped[v] /\ pid[v] # 0
    \/ /\ ~cheaped[v] /\ chain = v /\ accepting[v] /\ cursed[v]
       /\ pid[v] # 0 \/ (mpc = "sleep" /\ v \in todo)
    \/ /\ ~cheaped[v] /\ chain = v + 1 /\ (~accepting[v] \/ (mpc = "spawn" /\ v \in todo))
       /\ pid[v] # 0 \/ (mpc \in Spawning /\ v \in todo)

VictimIsLast ==
    Calm => /\ \A v \in out : Tracked(v)
            /\ mpc = "sleep" => \A v \in todo : v \in out /\ accepting[v] /\ ~cheaped[v]

\* ... and it is the only one.
OneVictim == deaths = 0 => \A u, v \in out : ~cheaped[u] /\ ~cheaped[v] => u = v

\* The chain is in order, and cheap mode, which Ordered excludes, is off.
CInv == StoppedAreTold /\ TodoEmpty /\ UpAccepts /\ OnlyVictimsGo /\ VictimIsLast /\ OneVictim /\ ~isCheap

\* The setups of these theorems: stop, reload, chain reload and cheaper mode by
\* the fifo.  A signal may come between the steps of upsgi_respawn_worker(),
\* cheap mode respawns while the instance stops, and the reloads of all workers
\* (fifo w and W, and r in lazy mode) take them down together.
Ordered(s) ==
    /\ s.signals = {} /\ s.maxForkFails = 0
    /\ s.commands \cap {"C", "idle", "w", "W"} = {}
    /\ "r" \in s.commands => ~s.lazy

\* The inductive invariant of the chain.
IInv == TInv /\ KInv /\ CInv /\ Ordered(setup)

\* No chain runs, nobody is respawned and nobody was told when it starts.
LEMMA ChainInit == Init => CInv
<1> USE SizeAssumption, SetupAssumption
<1> SUFFICES ASSUME Init PROVE CInv
  OBVIOUS
<1>1. PICK s \in Setups : 
         LET n == IF s.cheaperCount > 0 THEN s.cheaperCount ELSE NumProc IN
         /\ setup = s /\ lastPid = n /\ n \in 1..NumProc
         /\ pid = [w \in Workers |-> IF w <= n THEN w ELSE 0]
         /\ slot = [p \in 1..n |-> p]
         /\ st = [p \in 1..n |-> "run"]
         /\ sig = [p \in 1..n |-> {}]
         /\ manage = [w \in Workers |-> w <= n]
  BY DEF Init, Setup
<1>2. /\ mpc = "death" /\ died = 0 /\ todo = {} /\ isCheap = FALSE /\ out = {}
      /\ dying = FALSE /\ reloading = FALSE
  BY Zenon DEF Init
<1>3. cursed = [w \in Workers |-> FALSE]
  BY Zenon DEF Init
<1>4. ASSUME NEW p \in Procs
      PROVE  p \in Workers /\ slot[p] = p /\ st[p] = "run" /\ sig[p] = {} /\ ~cursed[slot[p]] /\ manage[slot[p]]
  <2>1. p \in Workers /\ slot[p] = p /\ st[p] = "run" /\ sig[p] = {}
    BY <1>1 DEF Procs, Workers
  <2>2. ~cursed[p]
    BY <2>1, <1>3
  <2>3. p <= lastPid /\ manage = [w \in Workers |-> w <= lastPid]
    BY <1>1 DEF Procs
  <2>4. manage[p]
    BY <2>1, <2>3, Zenon
  <2> QED
    BY <2>1, <2>2, <2>4
<1> QED
  BY Zenon, <1>1, <1>2, <1>4 DEF CInv, StoppedAreTold, TodoEmpty, UpAccepts, OnlyVictimsGo, VictimIsLast, OneVictim,
     Stopping, Procs, Live, Calm, Spawning, Untouched

\* upsgi_curse() curses whom it is given.
LEMMA CurseTells ==
    ASSUME TypeOK, NEW S, NEW s, Curse(S, s)
    PROVE  \A v \in Workers : cursed'[v] <=> (cursed[v] \/ v \in S)
  BY Zenon DEF Curse

\* What leaves each part of the invariant alone.
LEMMA StoppedFrame ==
    ASSUME StoppedAreTold, UNCHANGED <<pid, cursed, dying, reloading>>,
           mpc' = mpc \/ mpc' \notin Spawning \cup {"gwait"} \/ (mpc \in Spawning /\ mpc' # "gwait")
    PROVE  StoppedAreTold'
  BY DEF StoppedAreTold, Stopping, Recorded

\* A slot to respawn stays empty while slots, pids and the dead one stay.
LEMMA TodoFrame ==
    ASSUME TodoEmpty, UNCHANGED <<pid, slot, died, lastPid, todo, cheaped, accepting, cursed>>,
           mpc' = mpc \/ mpc' # "fork"
    PROVE  TodoEmpty'
  BY DEF TodoEmpty, Procs

\* Who is coming up does not accept while no flag and no state changes.
LEMMA UpFrame ==
    ASSUME UpAccepts, UNCHANGED <<lastPid, slot, st, accepting>>
    PROVE  UpAccepts'
  BY DEF UpAccepts, Procs

\* Nobody else goes while no worker is signalled, cheaped or cursed.
LEMMA GoFrame ==
    ASSUME OnlyVictimsGo, UNCHANGED <<lastPid, slot, st, sig, cheaped, out, accepting, cursed, manage, deaths, dying, reloading, died>>
    PROVE  OnlyVictimsGo'
  BY DEF OnlyVictimsGo, Untouched, Calm, Stopping, Procs

\* The victim stays where it is while the chain and its slot do.
LEMMA LastFrame ==
    ASSUME VictimIsLast, UNCHANGED <<deaths, dying, reloading, out, cheaped, pid, chain, accepting, cursed, todo>>,
           mpc' = mpc \/ (mpc \notin Spawning /\ mpc' \notin Spawning)
    PROVE  VictimIsLast'
  BY DEF VictimIsLast, Tracked, Calm, Stopping, Spawning

\* There is one victim while nobody goes out of service.
LEMMA OneFrame ==
    ASSUME OneVictim, UNCHANGED <<deaths, out, cheaped>>
    PROVE  OneVictim'
  BY DEF OneVictim

\* What leaves the workers and the chain alone.
LEMMA ChainFrame ==
    ASSUME IInv,
           UNCHANGED <<setup, pid, cheaped, cursed, accepting, manage, lastPid, slot, st, sig, dying, reloading, chain,
                       isCheap, died, todo, deaths, out>>,
           mpc' = mpc \/ (mpc \notin Spawning /\ mpc' \notin Spawning \cup {"gwait"})
    PROVE  CInv'
<1>i. TypeOK /\ Control /\ SlotOfPid /\ PendingIsLive /\ EveryWorkerKnown /\ FreshIsLast /\ TodoVacant /\ BuriedIsReaped
  BY DEF IInv, TInv, KInv
<1>j. StoppedAreTold /\ TodoEmpty /\ UpAccepts /\ OnlyVictimsGo /\ VictimIsLast /\ OneVictim /\ ~isCheap
  BY DEF IInv, CInv
<1>t. /\ slot \in [Procs -> Workers] /\ st \in [Procs -> States] /\ pid \in [Workers -> 0..lastPid]
      /\ out \subseteq Workers /\ todo \subseteq Workers
  BY <1>i DEF TypeOK
<1> USE <1>i, <1>j
<1>1. StoppedAreTold'
  BY StoppedFrame DEF Spawning
<1>2. TodoEmpty'
  BY TodoFrame DEF Spawning
<1>3. UpAccepts'
  BY UpFrame
<1>4. OnlyVictimsGo'
  BY GoFrame
<1>5. VictimIsLast'
  BY LastFrame
<1>6. OneVictim'
  BY OneFrame
<1> QED
  BY <1>1, <1>2, <1>3, <1>4, <1>5, <1>6 DEF CInv

\* The checks of the master, and its waitpid(), keep the chain in order.
LEMMA ChainChecks ==
    ASSUME IInv,
           CheckDeath \/ CheckReload \/ CheckChainIdle \/ CheckChainOver \/ CheckChainVictim \/ CheckMercy
           \/ CheaperSpawn \/ CheaperStop \/ CheaperNothing
           \/ (\E p \in Procs : WaitpidDead(p)) \/ WaitpidOther \/ WaitpidNobody
    PROVE  CInv'
<1>i. TypeOK /\ Control /\ SlotOfPid /\ PendingIsLive /\ EveryWorkerKnown /\ FreshIsLast /\ TodoVacant /\ BuriedIsReaped
  BY DEF IInv, TInv, KInv
<1>j. StoppedAreTold /\ TodoEmpty /\ UpAccepts /\ OnlyVictimsGo /\ VictimIsLast /\ OneVictim /\ ~isCheap
  BY DEF IInv, CInv
<1>t. /\ slot \in [Procs -> Workers] /\ st \in [Procs -> States] /\ pid \in [Workers -> 0..lastPid]
      /\ out \subseteq Workers /\ todo \subseteq Workers /\ lastPid \in Nat
  BY <1>i DEF TypeOK
<1> USE <1>i, <1>j
<1>1. CASE CheckDeath
  BY <1>1, ChainFrame DEF CheckDeath, Over, Spawning, slotVars, procVars, statusVars, masterVars, boundVars
<1>2. CASE CheckReload
  BY <1>2, ChainFrame DEF CheckReload, Over, Spawning, slotVars, procVars, statusVars, masterVars, boundVars
<1>3. CASE CheckChainIdle
  BY <1>3, ChainFrame DEF CheckChainIdle, Spawning, slotVars, procVars, statusVars, masterVars, boundVars
<1>4. CASE CheckChainOver
  <2>1. /\ UNCHANGED <<setup, pid, cheaped, cursed, accepting, manage, lastPid, slot, st, sig, dying, reloading, isCheap, died, todo, deaths, out>>
        /\ mpc = "chain" /\ mpc' = "mercy" /\ chain > NumProc /\ ~ChainWaits
    BY <1>4 DEF CheckChainOver, slotVars, procVars, statusVars, masterVars, boundVars
  <2>a. ASSUME Calm, NEW u \in out, ~cheaped[u] PROVE FALSE
    <3>1. Tracked(u) /\ u \in 1..NumProc
      BY <1>t, <2>a DEF VictimIsLast, Workers
    <3>2. chain = u + 1 /\ ~accepting[u] /\ pid[u] # 0
      BY SizeAssumption, <3>1, <2>1, <2>a DEF Tracked, Spawning
    <3>3. chain - 1 = u /\ chain > 1
      BY <3>1, <3>2
    <3> QED
      BY <3>2, <3>3, <2>1, <2>a DEF ChainWaits
  <2>2. StoppedAreTold'
    BY <2>1, StoppedFrame DEF Spawning
  <2>3. TodoEmpty'
    BY <2>1, TodoFrame
  <2>4. UpAccepts'
    BY <2>1, UpFrame
  <2>5. OnlyVictimsGo'
    BY <2>1, GoFrame
  <2>6. VictimIsLast'
    BY <1>t, <2>1, <2>a DEF VictimIsLast, Tracked, Calm, Stopping, Spawning, Control
  <2>7. OneVictim'
    BY <2>1, OneFrame
  <2> QED
    BY <2>1, <2>2, <2>3, <2>4, <2>5, <2>6, <2>7 DEF CInv
<1>5. CASE CheckChainVictim
  <2>v. PICK v : v = ChainNext
    OBVIOUS
  <2>1. /\ UNCHANGED <<setup, pid, cheaped, accepting, manage, lastPid, slot, st, dying, reloading, isCheap, deaths, died, todo>>
        /\ mpc = "chain" /\ mpc' = "mercy" /\ chain \in Workers /\ ~ChainWaits /\ chain' = v
    BY <1>5, <2>v DEF CheckChainVictim, procVars, boundVars
  <2>2. ChainCandidates \in SUBSET Nat /\ ChainCandidates \subseteq Workers
    <3>1. ChainCandidates \subseteq Workers
      BY DEF ChainCandidates, Active, Recorded
    <3>2. Workers \subseteq Nat
      BY DEF Workers
    <3> QED
      BY <3>1, <3>2, Zenon
  <2>3. v \in Workers => v \in ChainCandidates
    <3>1. ChainCandidates = {} => v \notin Workers
      BY SizeAssumption, <2>v DEF ChainNext, Workers
    <3> QED
      BY <3>1, <2>2, <2>v, MinInSet DEF ChainNext
  <2>4. \A u \in ChainCandidates : v <= u /\ v \in Workers
    BY <2>2, <2>v, <2>3, MinInSet DEF ChainNext
  <2>5. ASSUME Calm, NEW u \in out, ~cheaped[u]
        PROVE  v = u /\ accepting[u] /\ cursed[u] /\ pid[u] # 0
    <3>1. Tracked(u) /\ u \in Workers /\ u \in Nat /\ u >= 1
      BY <1>t, <2>5 DEF VictimIsLast, Workers
    <3>2. chain # u + 1
      <4>1. SUFFICES ASSUME chain = u + 1 PROVE ChainWaits
        BY <2>1
      <4>2. chain - 1 = u /\ chain > 1 /\ chain # u
        BY <3>1, <4>1
      <4>3. ~accepting[u] /\ pid[u] # 0
        BY <3>1, <2>1, <2>5, <4>2 DEF Tracked, Spawning
      <4> QED
        BY <4>2, <4>3, <2>5 DEF ChainWaits
    <3>3. chain = u /\ accepting[u] /\ cursed[u] /\ pid[u] # 0
      BY <3>1, <3>2, <2>1, <2>5 DEF Tracked
    <3>4. u \in ChainCandidates
      BY <3>1, <3>3, <2>5 DEF ChainCandidates, Active, Recorded
    <3>5. v >= chain /\ v <= u /\ v \in Nat
      BY <3>4, <2>2, <2>3, <2>4 DEF ChainCandidates
    <3> QED
      BY <3>1, <3>3, <3>5
  <2>6. CASE v \in Workers /\ ~cursed[v] /\ Curse({v}, "HUP") /\ out' = out \cup {v}
    <3>1. accepting[v] /\ ~cheaped[v] /\ pid[v] # 0
      BY <2>6, <2>3 DEF ChainCandidates, Active, Recorded
    <3>2. ~Stopping
      BY <3>1, <2>6 DEF StoppedAreTold, Recorded
    <3>3. Calm => \A u \in out : cheaped[u]
      BY <2>5, <2>6
    <3>4. \A w \in Workers : cursed'[w] <=> (cursed[w] \/ w = v)
      BY <2>6, CurseTells
    <3>5. \A p \in Procs : p # pid[v] => sig'[p] = sig[p]
      BY <2>6 DEF Curse, Send
    <3>6. pid[v] \in Procs /\ slot[pid[v]] = v /\ st[pid[v]] \notin {"forked", "boot", "ready"}
      BY <1>t, <3>1, <2>6 DEF Procs, SlotOfPid, UpAccepts
    <3>7. OnlyVictimsGo'
      <4>1. ASSUME Calm, NEW p \in Procs, slot[p] # v PROVE Untouched(p)'
        <5>1. sig'[p] = sig[p] /\ (cursed'[slot[p]] <=> cursed[slot[p]]) /\ (slot[p] \in out' <=> slot[p] \in out)
          BY <1>t, <4>1, <3>4, <3>5, <3>6, <2>6
        <5>2. Untouched(p)
          BY <4>1 DEF OnlyVictimsGo
        <5> QED
          BY <5>1, <5>2, <2>1 DEF Untouched
      <4>2. ASSUME Calm, NEW p \in Procs, slot[p] = v PROVE Untouched(p)'
        <5>1. v \in out' /\ accepting'[v]
          BY <2>6, <2>1, <3>1
        <5>2. st[p] \in {"forked", "boot"} => sig'[p] \subseteq {"KILL"}
          BY <4>2, <3>5, <3>6 DEF OnlyVictimsGo, Untouched
        <5> QED
          BY <5>1, <5>2, <4>2, <2>1 DEF Untouched
      <4> QED
        BY <4>1, <4>2, <2>1 DEF OnlyVictimsGo, Calm, Stopping, Procs
    <3>8. VictimIsLast'
      <4>1. ASSUME Calm, NEW u \in out PROVE Tracked(u)'
        BY SMTT(30), <4>1, <2>1, <3>3 DEF Tracked, VictimIsLast
      <4>2. cursed'[v] /\ chain' = v /\ accepting'[v] /\ pid'[v] # 0 /\ ~cheaped'[v]
        BY <2>1, <2>6, <3>1, <3>4
      <4>3. Tracked(v)'
        BY <4>2 DEF Tracked
      <4> QED
        BY <4>1, <4>3, <2>1, <2>6 DEF VictimIsLast, Calm, Stopping
    <3>9. OneVictim'
      BY SMTT(30), <2>1, <2>6, <3>2, <3>3 DEF OneVictim, Calm
    <3>10. StoppedAreTold' /\ TodoEmpty' /\ UpAccepts'
      BY <2>1, <3>2 DEF StoppedAreTold, TodoEmpty, UpAccepts, Stopping, Procs, Control, Spawning
    <3> QED
      BY <2>1, <3>7, <3>8, <3>9, <3>10 DEF CInv
  <2>7. CASE UNCHANGED <<cursed, sig, out>>
    <3>1. OnlyVictimsGo' /\ OneVictim'
      BY Zenon, <2>1, <2>7 DEF OnlyVictimsGo, OneVictim, Untouched, Calm, Stopping, Procs
    <3>2. ASSUME Calm, NEW u \in out PROVE Tracked(u)'
      BY SMTT(30), <3>2, <2>1, <2>5, <2>7 DEF VictimIsLast, Tracked
    <3>3. VictimIsLast'
      BY <3>2, <2>1, <2>7 DEF VictimIsLast, Calm, Stopping
    <3>4. StoppedAreTold' /\ TodoEmpty' /\ UpAccepts'
      BY <2>1, <2>7 DEF StoppedAreTold, TodoEmpty, UpAccepts, Stopping, Procs, Control, Spawning, Recorded
    <3> QED
      BY <2>1, <3>1, <3>3, <3>4 DEF CInv
  <2> QED
    BY <1>5, <2>v, <2>6, <2>7 DEF CheckChainVictim, Unasked
<1>6. CASE CheckMercy
  <2> DEFINE S == {w \in Recorded : cursed[w] /\ late[w]}
  <2>1. /\ UNCHANGED <<setup, pid, cheaped, accepting, manage, lastPid, slot, st, dying, reloading, chain, isCheap, died, todo, deaths, out>>
        /\ mpc = "mercy" /\ mpc' = "cheaper"
        /\ Curse(S, "KILL")
    BY <1>6 DEF CheckMercy, slotVars, procVars, statusVars, masterVars, boundVars
  <2>a. \A w \in Workers : cursed'[w] <=> cursed[w]
    BY <2>1, CurseTells DEF Recorded
  <2>b. ASSUME NEW p \in Procs PROVE (~cursed[slot[p]] => sig'[p] = sig[p]) /\ (sig[p] \subseteq {"KILL"} => sig'[p] \subseteq {"KILL"})
    <3>1. sig'[p] = IF p \in {pid[w] : w \in S} /\ st[p] \in Live THEN sig[p] \cup {"KILL"} ELSE sig[p]
      BY <2>1, Zenon DEF Curse, Send
    <3>2. ASSUME NEW w \in S, p = pid[w] PROVE cursed[slot[p]]
      <4>1. w \in Workers /\ pid[w] # 0 /\ cursed[w]
        BY <3>2 DEF Recorded
      <4>2. slot[p] = w
        BY <4>1, <3>2 DEF SlotOfPid
      <4> QED
        BY <4>1, <4>2
    <3> QED
      BY <3>1, <3>2, Zenon
  <2> HIDE DEF S
  <2>2. StoppedAreTold'
    BY <2>1, <2>a DEF StoppedAreTold, Stopping, Recorded, Spawning
  <2>3. TodoEmpty'
    BY <1>t, <2>1 DEF TodoEmpty, Procs, Control, Spawning
  <2>4. UpAccepts'
    BY <2>1, UpFrame
  <2>5. OnlyVictimsGo'
    BY Zenon, <1>t, <2>1, <2>a, <2>b DEF OnlyVictimsGo, Untouched, Calm, Stopping, Procs, Live
  <2>6. VictimIsLast'
    BY <1>t, <2>1, <2>a DEF VictimIsLast, Tracked, Calm, Stopping, Spawning, Control
  <2>7. OneVictim'
    BY <2>1, OneFrame
  <2> QED
    BY SMTT(30), <2>1, <2>2, <2>3, <2>4, <2>5, <2>6, <2>7 DEF CInv
<1>7. CASE CheaperSpawn
  <2>1. /\ UNCHANGED <<setup, pid, cheaped, cursed, accepting, manage, lastPid, slot, st, sig, dying, reloading, chain, isCheap, died, deaths, out>>
        /\ mpc = "cheaper" /\ mpc' = "spawn" /\ ~Stopping
        /\ \A v \in todo' : v \in Workers /\ cheaped[v] /\ pid[v] = 0
    BY <1>7 DEF CheaperSpawn, Lowest, FreeSlots, CheaperRuns, slotVars, procVars, statusVars, masterVars, boundVars
  <2>2. StoppedAreTold'
    BY <2>1 DEF StoppedAreTold, Stopping, Recorded, Spawning
  <2>3. TodoEmpty'
    BY <1>t, <2>1 DEF TodoEmpty, Procs, Control, Spawning
  <2>4. UpAccepts'
    BY Zenon, <2>1, UpFrame
  <2>5. OnlyVictimsGo'
    BY ZenonT(30), <2>1, GoFrame
  <2>6. VictimIsLast'
    BY <1>t, <2>1 DEF VictimIsLast, Tracked, Calm, Stopping, Spawning, Control
  <2>7. OneVictim'
    BY Zenon, <2>1, OneFrame
  <2> QED
    BY Zenon, <2>1, <2>2, <2>3, <2>4, <2>5, <2>6, <2>7 DEF CInv
<1>8. CASE CheaperStop
  <2>1. /\ UNCHANGED <<setup, pid, accepting, lastPid, slot, st, sig, dying, reloading, chain, isCheap, died, todo, deaths, out>>
        /\ mpc = "cheaper" /\ mpc' = "waitpid" /\ sig' = sig /\ ~Stopping
    BY Zenon, <1>8 DEF CheaperStop, Curse, CheaperRuns, slotVars, procVars, statusVars, masterVars, boundVars
  <2>a. PICK S \in SUBSET Active :
           /\ cheaped' = [w \in Workers |-> cheaped[w] \/ w \in S]
           /\ manage' = [w \in Workers |-> manage[w] /\ w \notin S]
           /\ Curse(S, "WINCH")
    BY Zenon, <1>8 DEF CheaperStop, IdleWorkers
  <2>b. \A w \in Workers : (cheaped'[w] <=> (cheaped[w] \/ w \in S)) /\ (manage'[w] <=> (manage[w] /\ w \notin S))
    BY <2>a, Zenon
  <2>c. \A w \in Workers : cursed'[w] <=> (cursed[w] \/ w \in S)
    BY <2>a, CurseTells
  <2>d. \A w \in S : w \in Workers /\ pid[w] # 0
    BY DEF Active, Recorded
  <2>2. StoppedAreTold'
    BY <2>1, <2>c DEF StoppedAreTold, Stopping, Recorded, Spawning
  <2>3. TodoEmpty'
    BY Zenon, <1>t, <2>1, <2>b, <2>c DEF TodoEmpty, Procs, Control, Spawning
  <2>4. UpAccepts'
    BY SMTT(30), <2>1, UpFrame
  <2>5. OnlyVictimsGo'
    BY ZenonT(30), <1>t, <2>1, <2>b, <2>c DEF OnlyVictimsGo, Untouched, Calm, Stopping, Procs, Live
  <2>6. VictimIsLast'
    BY <1>t, <2>1, <2>b, <2>c, <2>d DEF VictimIsLast, Tracked, Calm, Stopping, Spawning, Control
  <2>7. OneVictim'
    BY SMTT(30), <1>t, <2>1, <2>b DEF OneVictim
  <2> QED
    BY <2>1, <2>2, <2>3, <2>4, <2>5, <2>6, <2>7 DEF CInv
<1>9. CASE CheaperNothing
  BY <1>9, ChainFrame DEF CheaperNothing, Spawning, slotVars, procVars, statusVars, masterVars, boundVars
<1>10. ASSUME NEW p \in Procs, WaitpidDead(p) PROVE CInv'
  <2>1. /\ UNCHANGED <<setup, pid, cheaped, cursed, accepting, manage, lastPid, slot, sig, dying, reloading, chain, isCheap, todo, deaths, out>>
        /\ mpc = "waitpid" /\ mpc' = "bury" /\ died' = p /\ st[p] = "zombie"
        /\ st' = [st EXCEPT ![p] = "reaped"]
    BY <1>10 DEF WaitpidDead, Zombies, slotVars, procVars, statusVars, masterVars, boundVars
  <2>2. StoppedAreTold'
    BY SMTT(30), <2>1, StoppedFrame DEF Spawning
  <2>3. TodoEmpty'
    BY <1>t, <2>1 DEF TodoEmpty, Procs, Control, Spawning, EveryWorkerKnown
  <2>4. UpAccepts'
    BY SMTT(30), <1>t, <2>1 DEF UpAccepts, Procs
  <2>5. OnlyVictimsGo'
    BY <1>t, <2>1 DEF OnlyVictimsGo, Untouched, Calm, Stopping, Procs, Live
  <2>6. VictimIsLast'
    BY <2>1, LastFrame DEF Spawning
  <2>7. OneVictim'
    BY <2>1, OneFrame
  <2> QED
    BY SMTT(30), <2>1, <2>2, <2>3, <2>4, <2>5, <2>6, <2>7 DEF CInv
<1>11. CASE WaitpidOther
  <2>1. /\ UNCHANGED <<setup, pid, cheaped, cursed, accepting, manage, lastPid, slot, st, sig, dying, reloading, chain, isCheap, todo, deaths, out>>
        /\ mpc = "waitpid" /\ mpc' = "bury" /\ died' = Outsider
    BY <1>11 DEF WaitpidOther, slotVars, procVars, statusVars, masterVars, boundVars
  <2>a. Outsider \notin Procs
    BY Shapes DEF IInv, Procs
  <2>2. StoppedAreTold'
    BY <2>1, StoppedFrame DEF Spawning
  <2>3. TodoEmpty'
    BY Zenon, <1>t, <2>1, <2>a DEF TodoEmpty, Procs, Control, Spawning
  <2>4. UpAccepts'
    BY SMTT(30), <2>1, UpFrame
  <2>5. OnlyVictimsGo'
    BY <1>t, <2>1, <2>a DEF OnlyVictimsGo, Untouched, Calm, Stopping, Procs, Live
  <2>6. VictimIsLast'
    BY <2>1, LastFrame DEF Spawning
  <2>7. OneVictim'
    BY <2>1, OneFrame
  <2> QED
    BY <2>1, <2>2, <2>3, <2>4, <2>5, <2>6, <2>7 DEF CInv
<1>12. CASE WaitpidNobody
  <2>1. /\ UNCHANGED <<setup, cheaped, cursed, accepting, manage, lastPid, slot, st, sig, dying, reloading, chain, isCheap, died, todo, deaths, out>>
        /\ mpc = "waitpid" /\ mpc' = "events"
    BY SMTT(30), <1>12 DEF WaitpidNobody, slotVars, procVars, statusVars, masterVars, boundVars
  <2>a. pid' # pid => \A w \in Workers : pid[w] = 0 /\ pid'[w] = 0
    BY SMTT(30), <1>t, <1>12 DEF WaitpidNobody, Children, KInv, IInv, ChildrenUnlessCheap, PidIsAChild, Ordered, Control, Procs
  <2>2. StoppedAreTold'
    BY SMTT(30), <2>1, <2>a DEF StoppedAreTold, Stopping, Recorded, Spawning
  <2>3. TodoEmpty'
    BY <1>t, <2>1, <2>a DEF TodoEmpty, Procs, Control, Spawning
  <2>4. UpAccepts'
    BY <2>1, UpFrame
  <2>5. OnlyVictimsGo'
    BY SMTT(30), <2>1, GoFrame
  <2>6. VictimIsLast'
    BY <1>t, <2>1, <2>a DEF VictimIsLast, Tracked, Calm, Stopping, Spawning, Control
  <2>7. OneVictim'
    BY <2>1, OneFrame
  <2> QED
    BY <2>1, <2>2, <2>3, <2>4, <2>5, <2>6, <2>7 DEF CInv
<1> QED
  BY Zenon, <1>1, <1>2, <1>3, <1>4, <1>5, <1>6, <1>7, <1>8, <1>9, <1>10, <1>11, <1>12
=============================================================================
