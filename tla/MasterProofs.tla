---------------------------- MODULE MasterProofs ----------------------------
(***************************************************************************)
(* The theorems about Master, for any number of workers, forks and         *)
(* commands: type correctness, that the master knows all its workers and   *)
(* leaves none behind, that a chain reload takes them down one at a time,  *)
(* and that a stop misses at most one.  The invariants of the first are in *)
(* MasterKnown and ChainMaster.                                            *)
(***************************************************************************)
EXTENDS ChainWorkers, FiniteSetTheorems

\* Every set of slots is finite.
LEMMA SlotsFinite == \A S \in SUBSET Workers : IsFiniteSet(S) /\ Cardinality(S) \in Nat
<1>1. IsFiniteSet(Workers)
  BY SizeAssumption, FS_Interval DEF Workers
<1> QED
  BY <1>1, FS_Subset, FS_CardinalityType

\* The initial state is well typed.
LEMMA TypeInit == Init => TInv
<1> USE SizeAssumption, SetupAssumption
<1> SUFFICES ASSUME Init PROVE TInv
  OBVIOUS
<1>1. PICK s \in Setups : 
         LET n == IF s.cheaperCount > 0 THEN s.cheaperCount ELSE NumProc IN
         /\ setup = s /\ lastPid = n /\ n \in 1..NumProc
         /\ pid = [w \in Workers |-> IF w <= n THEN w ELSE 0]
         /\ slot = [p \in 1..n |-> p]
         /\ st = [p \in 1..n |-> "run"]
         /\ sig = [p \in 1..n |-> {}] /\ saw = [p \in 1..n |-> {}]
         /\ code = [p \in 1..n |-> "died"]
         /\ cheaped = [w \in Workers |-> w > n]
         /\ accepting = [w \in Workers |-> w <= n] /\ manage = [w \in Workers |-> w <= n]
  BY DEF Init, Setup
<1>2. setup \in Setup /\ setup \in Setups /\ lastPid \in 1..NumProc /\ lastPid <= setup.maxPids
  BY <1>1 DEF Setup
<1>3. /\ pid \in [Workers -> 0..lastPid] /\ slot \in [Procs -> Workers] /\ st \in [Procs -> States]
      /\ sig \in [Procs -> SUBSET {"INT", "HUP", "KILL"}]
      /\ saw \in [Procs -> SUBSET {"dying", "reloading"}]
      /\ code \in [Procs -> setup.exitCodes \cup {"died"}]
  BY <1>1, <1>2 DEF Procs, Workers, States, Live
<1>4. /\ cheaped \in [Workers -> BOOLEAN] /\ accepting \in [Workers -> BOOLEAN] /\ manage \in [Workers -> BOOLEAN]
  BY <1>1
<1>z. 0 \in 0..(NumProc + 1)
  OBVIOUS
<1>o. others \in BOOLEAN
  BY <1>2 DEF Init, Setup
<1>5. /\ cursed \in [Workers -> BOOLEAN] /\ late \in [Workers -> BOOLEAN] /\ busy \in [Workers -> BOOLEAN]
  BY DEF Init
<1>6. /\ dying = FALSE /\ reloading = FALSE /\ chain = 0 /\ paced = FALSE
      /\ isCheap = FALSE /\ delta = 0 /\ out = {}
  BY Zenon DEF Init
<1>7. /\ mpc = "death" /\ died = 0 /\ todo = {} /\ ret = "death"
      /\ requests \in Nat /\ deaths \in Nat /\ forkFails \in Nat
  BY DEF Init
<1>b. dying \in BOOLEAN /\ reloading \in BOOLEAN /\ paced \in BOOLEAN /\ isCheap \in BOOLEAN
  BY Zenon, <1>6
<1>c. chain \in 0..(NumProc + 1) /\ delta \in Int
  BY <1>6, <1>z
<1>8. Control
  BY <1>2, <1>7 DEF Control, Spawning
<1>9. died \in 0..lastPid \cup {Outsider} /\ todo \subseteq Workers /\ out \subseteq Workers
  BY <1>2, <1>6, <1>7
<1> QED
  BY <1>2, <1>3, <1>4, <1>5, <1>7, <1>8, <1>9, <1>o, <1>b, <1>c DEF TInv, TypeOK

\* Every step of the master keeps every variable well typed.
LEMMA TypeMasterStep == TInv /\ MasterStep => TInv'
<1> USE SizeAssumption, SetupAssumption
<1> SUFFICES ASSUME TInv, MasterStep PROVE TInv'
  OBVIOUS
<1> USE DEF TInv, TypeOK, Control, Spawning, Procs, Outsider, slotVars, procVars, statusVars, masterVars, boundVars
<1>0. todo # {} => Min(todo) \in todo
  <2>1. todo \in SUBSET Nat
    BY DEF Workers
  <2> QED
    BY <2>1, MinInSet
<1>z. 0 \in 0..(NumProc + 1)
  OBVIOUS
<1>s. setup.maxPids \in Nat /\ Outsider # 0 /\ Recorded \subseteq Workers
  BY DEF Setup, Recorded
<1>c. ASSUME NEW S, NEW s \in {"INT", "HUP", "KILL"}, Curse(S, s)
      PROVE  /\ cursed' \in [Workers -> BOOLEAN] /\ late' \in [Workers -> BOOLEAN]
             /\ sig' \in [Procs -> SUBSET {"INT", "HUP", "KILL"}]
  BY <1>c DEF Curse, Send
<1>1. CASE CheckDeath
  BY <1>1 DEF CheckDeath, Over
<1>2. CASE CheckReload
  BY <1>2 DEF CheckReload, Over
<1>3. CASE CheckChainIdle
  BY Zenon, <1>3 DEF CheckChainIdle
<1>4. CASE CheckChainOver
  BY Zenon, <1>4, <1>z DEF CheckChainOver
<1>5. CASE CheckChainVictim
  <2>1. ChainNext \in 0..(NumProc + 1)
    <3>1. ChainCandidates \subseteq Workers /\ Workers \subseteq Nat
      BY DEF ChainCandidates, Active, Recorded, Workers
    <3>2. ChainCandidates # {} => Min(ChainCandidates) \in Workers
      BY Zenon, <3>1, MinInSet
    <3> QED
      BY <3>2 DEF ChainNext, Workers
  <2>2. ChainNext \in Workers => (out \cup {ChainNext}) \subseteq Workers
    OBVIOUS
  <2> HIDE DEF ChainNext
  <2> QED
    BY Zenon, <1>5, <2>1, <2>2, <1>c DEF CheckChainVictim, Unasked
<1>6. CASE CheckMercy
  BY Zenon, <1>6, <1>c DEF CheckMercy
<1>7. CASE CheaperSpawn
  BY <1>7 DEF CheaperSpawn, Lowest, FreeSlots
<1>8. CASE CheaperStop
  <2>1. PICK m \in IF delta # 0 THEN {delta} ELSE AlgoAnswers, S \in SUBSET IdleWorkers :
          /\ cheaped' = [w \in Workers |-> cheaped[w] \/ w \in S]
          /\ manage' = [w \in Workers |-> manage[w] /\ w \notin S]
          /\ Curse(S, "WINCH")
          /\ delta' = m + Cardinality(S)
    BY Zenon, <1>8 DEF CheaperStop
  <2>2. Cardinality(S) \in Nat /\ Cardinality(Active) \in Nat
    BY SlotsFinite DEF IdleWorkers, Active, Recorded
  <2>3. m \in Int
    BY <2>2 DEF AlgoAnswers
  <2>4. delta' \in Int
    BY <2>1, <2>2, <2>3
  <2> QED
    BY <1>8, <2>1, <2>4 DEF CheaperStop, Curse
<1>9. CASE CheaperNothing
  BY <1>9 DEF CheaperNothing
<1>10. ASSUME NEW p \in Procs, WaitpidDead(p) PROVE TInv'
  BY <1>10 DEF WaitpidDead, Zombies, States
<1>11. CASE WaitpidOther
  BY <1>11, <1>s DEF WaitpidOther
<1>12. CASE WaitpidNobody
  BY <1>12 DEF WaitpidNobody
<1>13. CASE BuryUnknown
  BY <1>13 DEF BuryUnknown
<1>14. ASSUME NEW w \in Workers, BuryNeedApp(w) PROVE TInv'
  <2>1. /\ cursed' \in [Workers -> BOOLEAN] /\ late' \in [Workers -> BOOLEAN]
        /\ sig' \in [Procs -> SUBSET {"INT", "HUP", "KILL"}]
    BY <1>14, <1>c DEF BuryNeedApp, Unasked
  <2>2. pid' \in [Workers -> 0..lastPid]
    BY <1>14 DEF BuryNeedApp
  <2>3. dying' \in BOOLEAN /\ reloading' \in BOOLEAN /\ others' \in BOOLEAN
    BY Zenon, <1>14 DEF BuryNeedApp
  <2> QED
    BY <1>14, <2>1, <2>2, <2>3 DEF BuryNeedApp
<1>15. ASSUME NEW w \in Workers, BuryStopping(w) PROVE TInv'
  BY <1>15 DEF BuryStopping
<1>16. ASSUME NEW w \in Workers, BuryBrutal(w) PROVE TInv'
  <2>1. /\ cursed' \in [Workers -> BOOLEAN] /\ late' \in [Workers -> BOOLEAN]
        /\ sig' \in [Procs -> SUBSET {"INT", "HUP", "KILL"}]
    BY Zenon, <1>16, <1>c DEF BuryBrutal, Unasked
  <2>2. pid' \in [Workers -> 0..lastPid]
    BY <1>16 DEF BuryBrutal
  <2>3. dying' \in BOOLEAN /\ reloading' \in BOOLEAN /\ others' \in BOOLEAN
    BY Zenon, <1>16 DEF BuryBrutal
  <2> QED
    BY <1>16, <2>1, <2>2, <2>3 DEF BuryBrutal
<1>17. ASSUME NEW w \in Workers, BuryCheaped(w) PROVE TInv'
  BY <1>17 DEF BuryCheaped
<1>18. ASSUME NEW w \in Workers, BuryRespawn(w) PROVE TInv'
  BY <1>18 DEF BuryRespawn
<1>19. CASE ForkBombDelay
  <2>1. chain' \in 0..(NumProc + 1)
    BY <1>19 DEF ForkBombDelay, Workers
  <2> QED
    BY <1>19, <2>1 DEF ForkBombDelay
<1>20. CASE RespawnReset
  BY <1>20, <1>0 DEF RespawnReset
<1>21. CASE RespawnReturn
  BY <1>21 DEF RespawnReturn
<1>22. CASE Fork
  <2>1. /\ slot' \in [Procs' -> Workers] /\ st' \in [Procs' -> States]
        /\ sig' \in [Procs' -> SUBSET {"INT", "HUP", "KILL"}]
    BY <1>22, <1>0 DEF Fork, Extend, States, Live
  <2>2. /\ saw' \in [Procs' -> SUBSET {"dying", "reloading"}]
        /\ code' \in [Procs' -> setup.exitCodes \cup {"died"}]
    BY <1>22 DEF Fork, Extend
  <2>3. pid \in [Workers -> 0..lastPid'] /\ lastPid' \in Nat /\ lastPid' <= setup.maxPids
    BY <1>22, <1>s DEF Fork
  <2>4. died' \in 0..lastPid' /\ died' = 0
    BY <1>22, <2>3 DEF Fork
  <2> QED
    BY Zenon, <1>22, <2>1, <2>2, <2>3, <2>4 DEF Fork
<1>23. CASE SetPid
  BY <1>23, <1>0 DEF SetPid
<1>24. CASE EventsNothing
  BY <1>24 DEF EventsNothing
<1>25. CASE GracefulWait
  BY <1>25 DEF GracefulWait, Recorded, States
<1> QED
  BY Zenon, <1>1, <1>2, <1>3, <1>4, <1>5, <1>6, <1>7, <1>8, <1>9, <1>10, <1>11, <1>12, <1>13, <1>14, <1>15, <1>16, <1>17, <1>18, <1>19, <1>20, <1>21, <1>22, <1>23, <1>24, <1>25 DEF MasterStep

\* Commands and signals keep every variable well typed.
LEMMA TypeInput == TInv /\ Input => TInv'
<1> USE SizeAssumption, SetupAssumption
<1> SUFFICES ASSUME TInv, Input PROVE TInv'
  OBVIOUS
<1> USE DEF TInv, TypeOK, Control, Spawning, Procs, Outsider, slotVars, procVars, statusVars, masterVars, boundVars
<1>s. setup.lazy \in BOOLEAN
  BY DEF Setup
<1>t. Stopping \in BOOLEAN
  BY DEF Stopping
<1>c. ASSUME NEW S, NEW s \in {"INT", "HUP", "KILL"}, Curse(S, s)
      PROVE  /\ cursed' \in [Workers -> BOOLEAN] /\ late' \in [Workers -> BOOLEAN]
             /\ sig' \in [Procs -> SUBSET {"INT", "HUP", "KILL"}]
  BY <1>c DEF Curse, Send
<1> DEFINE Told == /\ cursed' \in [Workers -> BOOLEAN] /\ late' \in [Workers -> BOOLEAN]
                   /\ sig' \in [Procs -> SUBSET {"INT", "HUP", "KILL"}]
                   /\ dying' \in BOOLEAN /\ reloading' \in BOOLEAN /\ others' \in BOOLEAN
<1>1. ASSUME KillThemAll, UNCHANGED reloading PROVE Told
  BY Zenon, <1>1, <1>c DEF KillThemAll, Unasked
<1>2. ASSUME GraceThemAll, UNCHANGED dying PROVE Told
  BY Zenon, <1>2, <1>c, <1>s DEF GraceThemAll, Unasked
<1>3. ASSUME ReapThemAll, UNCHANGED dying PROVE Told
  BY Zenon, <1>3, <1>c DEF ReapThemAll, Unasked
<1>4. ASSUME NEW s \in setup.signals, SignalMaster(s) PROVE TInv'
  <2>1. Told
    BY <1>4, <1>1, <1>2, <1>3 DEF SignalMaster
  <2> HIDE DEF Stopping
  <2> QED
    BY <1>4, <2>1 DEF SignalMaster
<1>5. CASE FifoStop
  <2>1. Told
    BY <1>5, <1>1, <1>2, <1>3 DEF FifoStop
  <2>2. requests' \in Nat /\ mpc = "events"
    BY <1>5 DEF FifoStop, FifoCommand
  <2> QED
    BY <1>5, <2>1, <2>2 DEF FifoStop
<1>6. CASE FifoReloadWorkers
  <2>1. Curse(Recorded, "HUP") \/ Curse(Recorded, "INT")
    BY <1>6 DEF FifoReloadWorkers
  <2>2. /\ cursed' \in [Workers -> BOOLEAN] /\ late' \in [Workers -> BOOLEAN]
        /\ sig' \in [Procs -> SUBSET {"INT", "HUP", "KILL"}]
    BY <2>1, <1>c
  <2>3. requests' \in Nat /\ mpc = "events"
    BY SMTT(30), <1>6 DEF FifoReloadWorkers, FifoCommand
  <2> QED
    BY <1>6, <2>2, <2>3 DEF FifoReloadWorkers
<1>7. CASE FifoGracefulKill
  BY <1>7, <1>c DEF FifoGracefulKill, FifoCommand
<1>8. CASE FifoChainReload
  <2>1. chain' \in 0..(NumProc + 1)
    BY <1>8 DEF FifoChainReload
  <2> QED
    BY <1>8, <2>1 DEF FifoChainReload, FifoCommand
<1>9. CASE FifoCheaper
  BY <1>9 DEF FifoCheaper, FifoCommand
<1>10. ASSUME KillAndWait PROVE st' \in [Procs -> States] /\ sig' \in [Procs -> SUBSET {"INT", "HUP", "KILL"}]
                             /\ saw' \in [Procs -> SUBSET {"dying", "reloading"}]
  BY SMTT(30), <1>10 DEF KillAndWait, States
<1>11. CASE FifoGoCheap
  BY SMTT(30), <1>11, <1>10 DEF FifoGoCheap, KillAndWait, FifoCommand
<1>12. CASE CheckIdle
  BY <1>12, <1>10 DEF CheckIdle, KillAndWait, FifoCommand
<1>13. CASE WakeFromCheap
  <2>1. todo' \subseteq Workers
    BY <1>13 DEF WakeFromCheap, Workers, Setup
  <2> QED
    BY Zenon, <1>13, <2>1 DEF WakeFromCheap
<1>14. CASE ForkFails
  BY <1>14 DEF ForkFails
<1> QED
  BY Zenon, <1>4, <1>5, <1>6, <1>7, <1>8, <1>9, <1>11, <1>12, <1>13, <1>14 DEF Input

\* The steps of a worker keep every variable well typed.
LEMMA TypeWorkerStep == ASSUME TInv, NEW p \in Procs, WorkerStep(p) \/ WorkerMay(p) PROVE TInv'
<1> USE SizeAssumption, SetupAssumption
<1> USE DEF TInv, TypeOK, Control, Spawning, Procs, Outsider, slotVars, procVars, statusVars, masterVars, boundVars
<1>1. ASSUME NEW c \in setup.exitCodes \cup {"died"}, Exits(p, c)
      PROVE  /\ st' \in [Procs -> States] /\ sig' \in [Procs -> SUBSET {"INT", "HUP", "KILL"}]
             /\ saw' \in [Procs -> SUBSET {"dying", "reloading"}]
             /\ code' \in [Procs -> setup.exitCodes \cup {"died"}]
             /\ lastPid' = lastPid /\ slot' = slot
  BY SMTT(30), <1>1 DEF Exits, States
<1>2. CASE ChildInit(p)
  <2>1. manage' \in [Workers -> BOOLEAN] /\ busy' \in [Workers -> BOOLEAN]
    BY ZenonT(30), <1>2 DEF ChildInit
  <2>2. st' \in [Procs -> States]
    BY <1>2 DEF ChildInit, States, Live
  <2> QED
    BY <1>2, <2>1, <2>2 DEF ChildInit
<1>3. CASE WorkerRun(p)
  BY SMTT(30), <1>3 DEF WorkerRun, States, Live
<1>4. CASE Ignition(p)
  BY SMTT(30), <1>4 DEF Ignition, States, Live
<1>5. CASE Killed(p)
  BY SMTT(30), <1>5, <1>1 DEF Killed
<1>6. CASE WorkerInt(p)
  BY SMTT(30), <1>6, <1>1 DEF WorkerInt
<1>7. CASE WorkerHup(p)
  <2>0. manage' \in [Workers -> BOOLEAN]
    BY SMTT(30), <1>7 DEF WorkerHup
  <2>1. CASE Exits(p, "died")
    <3>1. /\ st' \in [Procs -> States] /\ sig' \in [Procs -> SUBSET {"INT", "HUP", "KILL"}]
          /\ saw' \in [Procs -> SUBSET {"dying", "reloading"}]
          /\ code' \in [Procs -> setup.exitCodes \cup {"died"}]
          /\ lastPid' = lastPid /\ slot' = slot
      BY <2>1, <1>1
    <3> QED
      BY SMTT(30), <1>7, <2>0, <3>1 DEF WorkerHup
  <2>2. CASE sig' = [sig EXCEPT ![p] = @ \ {"HUP"}] /\ UNCHANGED <<lastPid, slot, st, saw, code>>
    BY SMTT(30), <1>7, <2>2 DEF WorkerHup
  <2> QED
    BY Zenon, <1>7, <2>1, <2>2 DEF WorkerHup
<1>8. ASSUME NEW s \in {"INT", "HUP"}, BootSignal(p, s) PROVE TInv'
  <2>1. sig' \in [Procs -> SUBSET {"INT", "HUP", "KILL"}] /\ saw' \in [Procs -> SUBSET {"dying", "reloading"}]
    BY <1>8 DEF BootSignal
  <2>2. cursed' \in [Workers -> BOOLEAN] /\ late' \in [Workers -> BOOLEAN]
    BY SMTT(30), <1>8 DEF BootSignal
  <2> QED
    BY SMTT(30), <1>8, <2>1, <2>2 DEF BootSignal
<1>9. CASE RequestStart(p)
  BY <1>9 DEF RequestStart
<1>10. CASE RequestEnd(p)
  BY <1>10 DEF RequestEnd
<1>11. CASE Goodbye(p)
  BY SMTT(30), <1>11 DEF Goodbye
<1>12. CASE LeaveLoop(p)
  BY SMTT(30), <1>12, <1>1 DEF LeaveLoop
<1>13. ASSUME NEW c \in setup.exitCodes, WorkerDies(p, c) PROVE TInv'
  BY <1>13, <1>1 DEF WorkerDies
<1> QED
  BY Zenon, <1>2, <1>3, <1>4, <1>5, <1>6, <1>7, <1>8, <1>9, <1>10, <1>11, <1>12, <1>13 DEF WorkerStep, WorkerMay

\* Every step keeps every variable well typed.
LEMMA TypeStep == TInv /\ [Next]_vars => TInv'
<1> SUFFICES ASSUME TInv, [Next]_vars PROVE TInv'
  OBVIOUS
<1>1. CASE PacingOver
  <2>1. paced' \in BOOLEAN /\ UNCHANGED <<setup, slotVars, procVars, dying, reloading, chain, isCheap, delta, others,
                                         masterVars, boundVars, out>>
    BY ZenonT(30), <1>1 DEF PacingOver
  <2> QED
    BY <2>1 DEF TInv, TypeOK, Control, Procs, Outsider, slotVars, procVars, masterVars, boundVars
<1>2. ASSUME NEW w \in Workers, MercyExpires(w) PROVE TInv'
  BY SMTT(30), <1>2 DEF MercyExpires, TInv, TypeOK, Control, Procs, Outsider, procVars, statusVars, masterVars, boundVars
<1>3. CASE UNCHANGED vars
  BY <1>3 DEF vars, TInv, TypeOK, Control, Procs, Outsider, slotVars, procVars, statusVars, masterVars, boundVars
<1>4. CASE MasterStep \/ Input
  BY <1>4, TypeMasterStep, TypeInput
<1>5. ASSUME NEW p \in Procs, WorkerStep(p) \/ WorkerMay(p) PROVE TInv'
  BY <1>5, TypeWorkerStep
<1> QED
  BY <1>1, <1>2, <1>3, <1>4, <1>5 DEF Next

\* Type correctness of the master and its workers, for every number of slots
\* and every setup.
THEOREM TypeCorrect == Spec => []TypeOK
<1>1. TInv => TypeOK
  BY DEF TInv
<1> QED
  BY TypeInit, TypeStep, <1>1, PTL DEF Spec

\* The inductive invariant.
LEMMA Inductive == Spec => [](TInv /\ KInv)
  BY TypeInit, KnownInit, TypeStep, KnownStep, PTL DEF Spec

\* No worker escapes the master: whatever dies, is killed, reloaded, cheaped or
\* fails to fork, and in whichever order, the processes that were not waited
\* for are those the slots record.
THEOREM WorkersKnown == Spec => []EveryWorkerKnown
<1>1. TInv /\ KInv => EveryWorkerKnown
  BY DEF KInv
<1> QED
  BY Inductive, <1>1, PTL

\* An instance that exits or executes its binary again leaves no worker behind.
THEOREM LeavesNothing == Spec => []NothingLeftBehind
<1>1. TInv /\ KInv => NothingLeftBehind
  BY DEF KInv
<1> QED
  BY Inductive, <1>1, PTL

\* Without fifo C, which kills and waits for the workers and leaves their pids,
\* the pid of a slot is that of a child.
THEOREM PidsAreChildren ==
    ASSUME \A s \in Setups : "C" \notin s.commands
    PROVE  Spec => []PidIsAChild
<1>1. TInv /\ KInv => PidIsAChild
  BY Zenon DEF TInv, TypeOK, KInv, ChildrenUnlessCheap
<1> QED
  BY Inductive, <1>1, PTL

-----------------------------------------------------------------------------
\* Every step keeps the chain in order.
LEMMA ChainStep == IInv /\ [Next]_vars => CInv'
<1> SUFFICES ASSUME IInv, [Next]_vars PROVE CInv'
  OBVIOUS
<1>1. CASE MasterStep
  BY Zenon, <1>1, ChainChecks, ChainBurials DEF MasterStep
<1>2. CASE Input
  BY <1>2, ChainInput
<1>3. ASSUME NEW p \in Procs, WorkerStep(p) \/ WorkerMay(p) PROVE CInv'
  BY <1>3, ChainWorkerStep
<1>4. CASE PacingOver
  BY <1>4, ChainFrame DEF PacingOver, slotVars, procVars, masterVars, boundVars
<1>5. ASSUME NEW w \in Workers, MercyExpires(w) PROVE CInv'
  BY Zenon, <1>5, ChainFrame DEF MercyExpires, procVars, statusVars, masterVars, boundVars
<1>6. CASE UNCHANGED vars
  BY <1>6, ChainFrame DEF vars, slotVars, procVars, statusVars, masterVars, boundVars
<1> QED
  BY <1>1, <1>2, <1>3, <1>4, <1>5, <1>6 DEF Next

\* The setup of an instance does not change.
LEMMA SetupFixed == [Next]_vars => setup' = setup
<1> SUFFICES ASSUME [Next]_vars PROVE setup' = setup
  OBVIOUS
<1>1. MasterStep => setup' = setup
  BY Zenon DEF MasterStep, CheckDeath, CheckReload, CheckChainIdle, CheckChainOver, CheckChainVictim, CheckMercy, CheaperSpawn,
     CheaperStop, CheaperNothing, WaitpidDead, WaitpidOther, WaitpidNobody, BuryUnknown, BuryNeedApp, BuryStopping,
     BuryBrutal, BuryCheaped, BuryRespawn, ForkBombDelay, RespawnReset, RespawnReturn, Fork, SetPid, EventsNothing,
     GracefulWait
<1>2. Input => setup' = setup
  BY Zenon DEF Input, SignalMaster, FifoStop, FifoReloadWorkers, FifoGracefulKill, FifoChainReload, FifoCheaper, FifoGoCheap,
     CheckIdle, KillAndWait, WakeFromCheap, ForkFails
<1>3. ASSUME NEW p \in Procs, WorkerStep(p) \/ WorkerMay(p) PROVE setup' = setup
  BY Zenon, <1>3 DEF WorkerStep, WorkerMay, ChildInit, WorkerRun, Ignition, Killed, WorkerInt, WorkerHup, BootSignal, RequestStart,
     RequestEnd, Goodbye, LeaveLoop, WorkerDies
<1> QED
  BY Zenon, <1>1, <1>2, <1>3 DEF Next, PacingOver, MercyExpires, vars

\* The inductive invariant of the chain holds always in ordered setups.
LEMMA ChainInductive ==
    ASSUME \A s \in Setups : Ordered(s)
    PROVE  Spec => []IInv
<1>1. Init => IInv
  <2>1. Init => Ordered(setup)
    BY DEF Init
  <2> QED
    BY <2>1, TypeInit, KnownInit, ChainInit DEF IInv
<1>2. IInv /\ [Next]_vars => IInv'
  <2>1. IInv /\ [Next]_vars => Ordered(setup)'
    BY SetupFixed DEF IInv
  <2> QED
    BY <2>1, TypeStep, KnownStep, ChainStep DEF IInv
<1> QED
  BY <1>1, <1>2, PTL DEF Spec

\* Of the workers a chain reload takes down, one at most is not accepting
\* again yet: upsgi_master_check_chain() waits for the worker before the
\* position of the chain, master_loop() moves the position when it respawns
\* the worker it stands on, and no other worker goes unless it is cheaped.
\* For any number of workers, as long as none dies unasked.
THEOREM ChainIsOneAtATime ==
    ASSUME \A s \in Setups : Ordered(s)
    PROVE  Spec => []ChainOneAtATime
<1>1. IInv => ChainOneAtATime
  <2> DEFINE S == {w \in out : ~cheaped[w]}
  <2> SUFFICES ASSUME IInv, deaths = 0 PROVE Cardinality(S) <= 1
    BY DEF ChainOneAtATime
  <2>1. \A u, v \in S : u = v
    BY DEF IInv, CInv, OneVictim
  <2>2. CASE S = {}
    BY <2>2, FS_EmptySet
  <2>3. ASSUME NEW u \in S PROVE Cardinality(S) <= 1
    <3>1. S = {u}
      BY <2>1, <2>3
    <3>2. Cardinality({u}) = 1
      BY SMTT(30), FS_Singleton
    <3> HIDE DEF S
    <3> QED
      BY <3>1, <3>2
  <2> QED
    BY <2>2, <2>3
<1> QED
  BY <1>1, ChainInductive, PTL

-----------------------------------------------------------------------------
\* The setups in which one worker is replaced at a time.
OneByOne(s) == s.cheaperCount = 0 /\ s.commands \cap {"C", "idle"} = {}

\* The slots that a stop has missed or may still miss.
Missed == todo \cup {w \in Recorded : ~cursed[w]}

\* The inductive invariant of StopMissesOne: one slot at most is being
\* respawned, and a stop has told all the others.
UInv ==
    OneByOne(setup) =>
        /\ ~isCheap
        /\ \A u, v \in todo : u = v
        /\ Stopping => \A u, v \in Missed : u = v

\* A step after which no other slot is missed: it forgives nobody but a slot
\* to respawn, and if it makes the instance stop, it tells everybody else.
Spares ==
    /\ todo' \subseteq todo /\ isCheap' = isCheap
    /\ \A w \in Workers : pid'[w] # 0 /\ ~cursed'[w] => (pid[w] # 0 /\ ~cursed[w]) \/ w \in todo
    /\ \/ Stopping' => Stopping
       \/ \A w \in Workers : pid'[w] # 0 => cursed'[w] \/ w \in todo

\* Such a step keeps the invariant.
LEMMA SparesKeep == ASSUME UInv, Spares, setup' = setup PROVE UInv'
<1>1. CASE Stopping' => Stopping
  <2>1. Missed' \subseteq Missed
    BY DEF Spares, Missed, Recorded
  <2> QED
    BY Zenon, <1>1, <2>1 DEF UInv, Spares
<1>2. CASE \A w \in Workers : pid'[w] # 0 => cursed'[w] \/ w \in todo
  <2>1. Missed' \subseteq todo
    BY <1>2 DEF Spares, Missed, Recorded
  <2> QED
    BY Zenon, <2>1 DEF UInv, Spares
<1> QED
  BY Zenon, <1>1, <1>2 DEF Spares

\* The steps of the master keep it: upsgi_respawn_worker() forgives the slot it
\* respawns, and a dead worker is replaced only when nobody else is.
LEMMA UntoldMasterStep ==
    ASSUME TInv, UInv, OneByOne(setup), MasterStep, setup' = setup
    PROVE  UInv'
<1> USE DEF Spares, Stopping
<1>t. TypeOK /\ Control /\ Workers \subseteq Nat
  BY DEF TInv, Workers
<1>0. todo # {} => Min(todo) \in todo
  BY TodoHasMin, <1>t
<1>1. CASE CheckDeath \/ CheckReload \/ CheckChainIdle \/ CheckChainOver \/ CheaperNothing \/ WaitpidOther \/ BuryUnknown
           \/ ForkBombDelay \/ RespawnReturn \/ Fork \/ EventsNothing \/ \E p \in Procs : WaitpidDead(p)
  <2>1. UNCHANGED <<pid, cursed, todo, isCheap, dying, reloading>>
    BY Zenon, <1>1 DEF CheckDeath, CheckReload, CheckChainIdle, CheckChainOver, CheaperNothing, WaitpidOther, BuryUnknown,
       ForkBombDelay, RespawnReturn, Fork, EventsNothing, WaitpidDead, slotVars, statusVars
  <2> QED
    BY <2>1, SparesKeep
<1>2. CASE CheckChainVictim \/ CheckMercy
  <2>1. UNCHANGED <<pid, todo, isCheap, dying, reloading>>
    BY Zenon, <1>2 DEF CheckChainVictim, CheckMercy, statusVars
  <2>2. \A w \in Workers : cursed[w] => cursed'[w]
    BY Zenon, <1>2, <1>t, CurseTells DEF CheckChainVictim, CheckMercy, Unasked
  <2> QED
    BY <2>1, <2>2, SparesKeep
<1>3. CASE CheaperSpawn \/ CheaperStop
  BY <1>3 DEF CheaperSpawn, CheaperStop, CheaperRuns, OneByOne
<1>4. CASE WaitpidNobody \/ GracefulWait
  <2>1. UNCHANGED <<cursed, todo, isCheap, dying, reloading>>
    BY Zenon, <1>4 DEF WaitpidNobody, GracefulWait, statusVars
  <2>2. \A w \in Workers : pid'[w] # 0 => pid[w] # 0
    BY <1>4, <1>t DEF WaitpidNobody, GracefulWait, TypeOK
  <2> QED
    BY <2>1, <2>2, SparesKeep
<1>5. ASSUME NEW w \in Workers, BuryNeedApp(w) \/ BuryBrutal(w) PROVE UInv'
  <2>1. todo' = todo /\ isCheap' = isCheap /\ pid' = [pid EXCEPT ![w] = 0]
    BY Zenon, <1>5 DEF BuryNeedApp, BuryBrutal
  <2>2. (Curse(Recorded \ {w}, "INT") \/ (cursed' = cursed /\ Stopping))
    BY Zenon, <1>5 DEF BuryNeedApp, BuryBrutal, Unasked
  <2>3. \A v \in Workers : pid'[v] # 0 => pid[v] # 0 /\ v # w
    BY <2>1, <1>t DEF TypeOK
  <2>4. CASE Curse(Recorded \ {w}, "INT")
    BY <2>1, <2>3, <2>4, <1>t, CurseTells, SparesKeep DEF Recorded
  <2>5. CASE cursed' = cursed /\ Stopping
    BY <2>1, <2>3, <2>5, SparesKeep
  <2> QED
    BY <2>2, <2>4, <2>5
<1>6. ASSUME NEW w \in Workers, BuryStopping(w) \/ BuryCheaped(w) PROVE UInv'
  <2>1. UNCHANGED <<todo, isCheap, dying, reloading>> /\ pid' = [pid EXCEPT ![w] = 0]
    BY Zenon, <1>6 DEF BuryStopping, BuryCheaped, statusVars
  <2>2. \A v \in Workers : v # w => cursed'[v] = cursed[v]
    BY Zenon, <1>6, <1>t DEF BuryStopping, BuryCheaped, TypeOK
  <2>3. \A v \in Workers : pid'[v] # 0 => pid[v] # 0 /\ v # w
    BY <2>1, <1>t DEF TypeOK
  <2> QED
    BY <2>1, <2>2, <2>3, SparesKeep
<1>7. ASSUME NEW w \in Workers, BuryRespawn(w) PROVE UInv'
  <2>1. ~Stopping' /\ todo' = {w} /\ isCheap' = isCheap
    BY Zenon, <1>7 DEF BuryRespawn, statusVars
  <2> QED
    BY Zenon, <2>1 DEF UInv
<1>8. CASE RespawnReset
  <2>1. UNCHANGED <<pid, todo, isCheap, dying, reloading>> /\ todo # {} /\ cursed' = [cursed EXCEPT ![Min(todo)] = FALSE]
    BY Zenon, <1>8 DEF RespawnReset, statusVars
  <2>2. \A v \in Workers : v # Min(todo) => cursed'[v] = cursed[v]
    BY Zenon, <2>1, <1>t DEF TypeOK
  <2> QED
    BY <2>1, <2>2, <1>0, SparesKeep DEF UInv
<1>9. CASE SetPid
  <2>1. UNCHANGED <<cursed, isCheap, dying, reloading>> /\ todo' = todo \ {Min(todo)} /\ pid' = [pid EXCEPT ![Min(todo)] = lastPid]
    BY Zenon, <1>9 DEF SetPid, statusVars
  <2>2. Min(todo) \in todo
    BY <1>9, <1>0, <1>t DEF SetPid, Control
  <2>3. \A v \in Workers : v # Min(todo) => pid'[v] = pid[v]
    BY <2>1, <1>t DEF TypeOK
  <2> QED
    BY <2>1, <2>2, <2>3, SparesKeep
<1> QED
  BY Zenon, <1>1, <1>2, <1>3, <1>4, <1>5, <1>6, <1>7, <1>8, <1>9 DEF MasterStep

\* A handler that tells every recorded worker misses no other slot.
LEMMA AllTold ==
    ASSUME TypeOK, UNCHANGED <<pid, todo, isCheap>>, NEW s, Curse(Recorded, s)
    PROVE  Spares
<1>1. \A v \in Workers : cursed'[v] <=> (cursed[v] \/ v \in Recorded)
  BY Zenon, CurseTells
<1>2. \A v \in Workers : pid'[v] # 0 => cursed'[v]
  BY Zenon, <1>1 DEF Recorded
<1> QED
  BY Zenon, <1>2 DEF Spares

\* Commands and signals keep it: the handlers tell every recorded worker.
LEMMA UntoldInput ==
    ASSUME TInv, UInv, OneByOne(setup), Input, setup' = setup
    PROVE  UInv'
<1>t. TypeOK
  BY DEF TInv
<1>1. ASSUME NEW s \in setup.signals, SignalMaster(s) PROVE UInv'
  <2>1. UNCHANGED <<pid, todo, isCheap>>
    BY Zenon, <1>1 DEF SignalMaster, masterVars
  <2>2. \/ UNCHANGED <<cursed, dying, reloading>>
        \/ Curse(Recorded, "INT") \/ Curse(Recorded, "HUP")
    BY Zenon, <1>1 DEF SignalMaster, KillThemAll, GraceThemAll, ReapThemAll, Unasked
  <2>3. CASE UNCHANGED <<cursed, dying, reloading>>
    BY <2>1, <2>3, SparesKeep DEF Spares, Stopping
  <2> QED
    BY Zenon, <2>1, <2>2, <2>3, <1>t, AllTold, SparesKeep
<1>2. CASE FifoStop
  <2>1. UNCHANGED <<pid, todo, isCheap>>
    BY Zenon, <1>2 DEF FifoStop
  <2>2. \/ UNCHANGED <<cursed, dying, reloading>>
        \/ Curse(Recorded, "INT") \/ Curse(Recorded, "HUP")
    BY Zenon, <1>2 DEF FifoStop, KillThemAll, GraceThemAll, ReapThemAll, Unasked
  <2>3. CASE UNCHANGED <<cursed, dying, reloading>>
    BY <2>1, <2>3, SparesKeep DEF Spares, Stopping
  <2> QED
    BY Zenon, <2>1, <2>2, <2>3, <1>t, AllTold, SparesKeep
<1>3. CASE FifoReloadWorkers \/ FifoGracefulKill
  <2>1. UNCHANGED <<pid, todo, isCheap>> /\ (Curse(Recorded, "INT") \/ Curse(Recorded, "HUP"))
    BY Zenon, <1>3 DEF FifoReloadWorkers, FifoGracefulKill, statusVars
  <2> QED
    BY Zenon, <2>1, <1>t, AllTold, SparesKeep
<1>4. CASE FifoChainReload \/ FifoCheaper \/ ForkFails
  <2>1. UNCHANGED <<pid, cursed, isCheap, dying, reloading>> /\ todo' \subseteq todo
    BY Zenon, <1>4 DEF FifoChainReload, FifoCheaper, ForkFails, slotVars, statusVars
  <2> QED
    BY <2>1, SparesKeep DEF Spares, Stopping
<1>5. ~(FifoGoCheap \/ CheckIdle \/ WakeFromCheap)
  BY DEF FifoGoCheap, CheckIdle, WakeFromCheap, FifoCommand, OneByOne, UInv
<1> QED
  BY Zenon, <1>1, <1>2, <1>3, <1>4, <1>5 DEF Input

\* Workers keep it: they curse themselves and each other, and forgive nobody.
LEMMA UntoldWorkerStep ==
    ASSUME TInv, UInv, NEW p \in Procs, WorkerStep(p) \/ WorkerMay(p), setup' = setup
    PROVE  UInv'
<1>t. TypeOK
  BY DEF TInv
<1>1. UNCHANGED <<pid, todo, isCheap, dying, reloading>>
  BY Zenon DEF WorkerStep, WorkerMay, ChildInit, WorkerRun, Ignition, Killed, WorkerInt, WorkerHup, BootSignal, RequestStart,
     RequestEnd, Goodbye, LeaveLoop, WorkerDies, slotVars, statusVars, masterVars
<1>2. \A w \in Workers : cursed[w] => cursed'[w]
  <2>1. CASE cursed' = cursed
    BY <2>1
  <2>2. CASE Goodbye(p)
    BY Zenon, <2>2, <1>t DEF Goodbye, TypeOK
  <2>3. ASSUME NEW s \in {"INT", "HUP"}, BootSignal(p, s) PROVE \A w \in Workers : cursed[w] => cursed'[w]
    BY Zenon, <2>3, <1>t DEF BootSignal, TypeOK
  <2>4. cursed' = cursed \/ Goodbye(p) \/ \E s \in {"INT", "HUP"} : BootSignal(p, s)
    BY Zenon DEF WorkerStep, WorkerMay, ChildInit, WorkerRun, Ignition, Killed, WorkerInt, WorkerHup, RequestStart,
       RequestEnd, LeaveLoop, WorkerDies, slotVars
  <2> QED
    BY Zenon, <2>1, <2>2, <2>3, <2>4
<1> QED
  BY <1>1, <1>2, SparesKeep DEF Spares, Stopping

\* Where a stop or a reload of the instance misses a worker, it misses one: for
\* any number of workers and any setup without cheaper and cheap mode, with
\* signals that run kill_them_all(), grace_them_all() and reap_them_all()
\* between any two steps of master_loop() and of upsgi_respawn_worker(). Each
\* of them curses every slot that records a pid; the slot that is being
\* respawned is the only one that can have none or be forgiven later.
THEOREM StopMissesOneWorker == Spec => []StopMissesOne
<1>1. Init => UInv
  <2>1. Init => ~isCheap /\ todo = {} /\ ~Stopping
    BY Zenon DEF Init, Stopping
  <2> QED
    BY Zenon, <2>1 DEF UInv
<1>2. TInv /\ UInv /\ [Next]_vars => UInv'
  <2> SUFFICES ASSUME TInv, UInv, [Next]_vars PROVE UInv'
    OBVIOUS
  <2>1. setup' = setup
    BY SetupFixed
  <2>2. CASE ~OneByOne(setup)
    BY Zenon, <2>1, <2>2 DEF UInv, OneByOne
  <2>3. CASE OneByOne(setup) /\ (MasterStep \/ Input)
    BY <2>1, <2>3, UntoldMasterStep, UntoldInput
  <2>4. ASSUME NEW p \in Procs, WorkerStep(p) \/ WorkerMay(p) PROVE UInv'
    BY <2>1, <2>4, UntoldWorkerStep
  <2>5. CASE PacingOver \/ (\E w \in Workers : MercyExpires(w)) \/ UNCHANGED vars
    <3>1. UNCHANGED <<pid, cursed, todo, isCheap, dying, reloading>>
      BY Zenon, <2>5 DEF PacingOver, MercyExpires, vars, slotVars, statusVars, masterVars
    <3> QED
      BY <2>1, <3>1, SparesKeep DEF Spares, Stopping
  <2> QED
    BY Zenon, <2>2, <2>3, <2>4, <2>5 DEF Next
<1>3. TInv /\ KInv /\ UInv => StopMissesOne
  <2> SUFFICES ASSUME TInv, KInv, UInv, Stopping, OneByOne(setup), NEW p \in Untold, NEW q \in Untold
               PROVE  p = q
    BY DEF StopMissesOne, OneByOne
  <2>1. ASSUME NEW r \in Untold
        PROVE  slot[r] \in Missed /\ (pid[slot[r]] = r \/ (slot[r] \in todo /\ r = lastPid))
    <3>1. r \in Procs /\ st[r] # "reaped" /\ ~cursed[slot[r]] /\ slot[r] \in Workers
      BY DEF Untold, Live, TInv, TypeOK
    <3>2. CASE pid[slot[r]] = r
      BY <3>1, <3>2 DEF Missed, Recorded, Procs
    <3>3. CASE mpc = "setpid" /\ r = lastPid
      <4>1. slot[r] = Min(todo) /\ Min(todo) \in todo
        BY <3>3, TodoHasMin DEF KInv, FreshIsLast, TInv, Control
      <4> QED
        BY <3>3, <4>1 DEF Missed
    <3> QED
      BY <3>1, <3>2, <3>3 DEF KInv, EveryWorkerKnown
  <2>2. slot[p] = slot[q]
    BY Zenon, <2>1 DEF UInv
  <2>3. ASSUME NEW r \in Untold, slot[r] \in todo PROVE r = lastPid
    BY <2>3 DEF KInv, TodoVacant, Untold, Live
  <2> QED
    BY <2>1, <2>2, <2>3
<1> QED
  BY <1>1, <1>2, <1>3, Inductive, PTL DEF Spec
=============================================================================
