---------------------------- MODULE MasterKnown -----------------------------
(***************************************************************************)
(* The master knows its workers (core/master.c, core/master_utils.c): the  *)
(* inductive invariant KInv that relates the slots of the workers to the   *)
(* processes behind them, and the proof that every step keeps it.  It is   *)
(* needed because EveryWorkerKnown alone says nothing of the time between  *)
(* fork() and the assignment of the pid, or between waitpid() and its      *)
(* answer: FreshIsLast, TodoVacant and BuriedIsReaped do.                  *)
(***************************************************************************)
EXTENDS Master, TLAPS, WellFoundedInduction

\* A set of slots that is not empty has a lowest one.
LEMMA MinInSet ==
    ASSUME NEW S \in SUBSET Nat, S # {}
    PROVE  Min(S) \in S /\ \A y \in S : Min(S) <= y
<1> DEFINE R == {ss \in Nat \X Nat : ss[1] < ss[2]}
<1>1. IsWellFoundedOn(R, Nat)
  BY NatLessThanWellFounded DEF OpToRel
<1>2. \A x, y \in Nat : y < x => <<y, x>> \in R
  OBVIOUS
<1> HIDE DEF R
<1>3. PICK x \in S : \A y \in S : ~(<<y, x>> \in R)
  BY Zenon, <1>1, WFMin
<1>4. ASSUME NEW y \in S PROVE x <= y
  <2>1. x \in Nat /\ y \in Nat /\ ~(<<y, x>> \in R)
    BY <1>3
  <2>2. ~(y < x)
    BY <2>1, <1>2
  <2> QED
    BY <2>1, <2>2
<1> QED
  BY Zenon, <1>4 DEF Min

-----------------------------------------------------------------------------
\* The steps of upsgi_respawn_worker().
Spawning == {"sleep", "spawn", "fork", "setpid"}

\* The steps of master_loop(): slots are left to respawn only on the way
\* through upsgi_respawn_worker(), a dead pid only where it is answered, and
\* the pids of workers are not those of other children.
Control ==
    /\ mpc \notin Spawning => todo = {}
    /\ mpc \in {"fork", "setpid"} => todo # {}
    /\ mpc = "bury" <=> died # 0
    /\ lastPid <= setup.maxPids

\* Types, with the shape of the master's loop they depend on.
TInv == TypeOK /\ Control

-----------------------------------------------------------------------------
\* A slot records a process that was forked for it.
SlotOfPid == \A w \in Workers : pid[w] # 0 => slot[pid[w]] = w

\* Signals are pending for processes that run.
PendingIsLive == \A p \in Procs : st[p] \notin Live => sig[p] = {}

\* Between fork() and the assignment of the pid the new process is the last
\* one, for the slot that is being respawned.
FreshIsLast == mpc = "setpid" => lastPid \in Procs /\ slot[lastPid] = Min(todo) /\ st[lastPid] # "reaped"

\* A slot to respawn has no process but the new one.
TodoVacant ==
    \A p \in Procs : slot[p] \in todo /\ st[p] # "reaped" => mpc = "setpid" /\ p = lastPid

\* What waitpid() returned is no longer there.
BuriedIsReaped == died \in Procs => st[died] = "reaped"

\* In cheap mode nothing runs and nothing is respawned.
CheapIsEmpty ==
    isCheap => /\ \A w \in Workers : cheaped[w]
               /\ \A p \in Procs : st[p] = "reaped"
               /\ mpc \notin Spawning

\* Without the command that forgets to clear them, pids are those of children.
ChildrenUnlessCheap == "C" \notin setup.commands => PidIsAChild

\* The inductive invariant of the slots.
KInv == /\ SlotOfPid /\ PendingIsLive /\ EveryWorkerKnown /\ FreshIsLast /\ TodoVacant
        /\ BuriedIsReaped /\ CheapIsEmpty /\ NothingLeftBehind /\ ChildrenUnlessCheap

\* The initial workers are those of the slots.
LEMMA KnownInit == Init => KInv
<1> USE SizeAssumption, SetupAssumption
<1> SUFFICES ASSUME Init PROVE KInv
  OBVIOUS
<1>1. PICK s \in Setups : 
         LET n == IF s.cheaperCount > 0 THEN s.cheaperCount ELSE NumProc IN
         /\ setup = s /\ lastPid = n /\ n \in 1..NumProc
         /\ pid = [w \in Workers |-> IF w <= n THEN w ELSE 0]
         /\ slot = [p \in 1..n |-> p]
         /\ st = [p \in 1..n |-> "run"]
         /\ sig = [p \in 1..n |-> {}]
  BY DEF Init, Setup
<1>2. mpc = "death" /\ died = 0 /\ todo = {} /\ isCheap = FALSE
  BY Zenon DEF Init
<1> QED
  BY <1>1, <1>2 DEF KInv, SlotOfPid, PendingIsLive, EveryWorkerKnown, FreshIsLast, TodoVacant, BuriedIsReaped,
     CheapIsEmpty, NothingLeftBehind, ChildrenUnlessCheap, PidIsAChild, Procs, Workers, Live, Over

\* What the proofs below need of the types.
LEMMA Shapes ==
    ASSUME TInv
    PROVE  /\ pid \in [Workers -> 0..lastPid] /\ slot \in [Procs -> Workers] /\ st \in [Procs -> States]
           /\ sig \in [Procs -> SUBSET {"INT", "HUP", "KILL"}] /\ cheaped \in [Workers -> BOOLEAN]
           /\ lastPid \in Nat /\ todo \subseteq Workers /\ todo \in SUBSET Nat
           /\ setup \in Setups /\ Outsider > lastPid /\ Outsider \in Nat
           /\ todo # {} => Min(todo) \in todo
<1>1. todo \in SUBSET Nat
  BY DEF TInv, TypeOK, Workers
<1>2. todo # {} => Min(todo) \in todo
  BY <1>1, MinInSet
<1>3. setup \in Setup /\ lastPid \in Nat /\ lastPid <= setup.maxPids
  BY SetupAssumption DEF TInv, TypeOK, Control
<1>4. setup.maxPids \in Nat
  BY <1>3 DEF Setup
<1>5. Outsider > lastPid /\ Outsider \in Nat
  BY <1>3, <1>4 DEF Outsider
<1> QED
  BY <1>1, <1>2, <1>5 DEF TInv, TypeOK

\* upsgi_curse() signals no process that is gone.
LEMMA CurseSpares ==
    ASSUME TInv, KInv, NEW S, NEW s \in {"INT", "HUP", "KILL"}, Curse(S, s)
    PROVE  \A p \in Procs : st[p] \notin Live => sig'[p] = {}
<1>1. \A p \in Procs : st[p] \notin Live => sig[p] = {}
  BY DEF KInv, PendingIsLive
<1>2. sig' = Send({pid[w] : w \in S}, s)
  BY DEF Curse
<1> QED
  BY <1>1, <1>2 DEF Send

\* What forks, buries and waits for nobody.
LEMMA KnownFrame ==
    ASSUME TInv, KInv,
           UNCHANGED <<setup, pid, lastPid, slot, st, isCheap, died, todo>>,
           \A p \in Procs : st[p] \notin Live => sig'[p] = {},
           isCheap => \A w \in Workers : cheaped'[w],
           mpc' = mpc \/ (mpc # "setpid" /\ mpc' \notin Over \cup {"setpid"} /\ (mpc' \in Spawning => ~isCheap))
    PROVE  KInv'
<1>1. (SlotOfPid /\ PendingIsLive /\ BuriedIsReaped /\ ChildrenUnlessCheap)'
  BY DEF KInv, SlotOfPid, PendingIsLive, BuriedIsReaped, ChildrenUnlessCheap, PidIsAChild, Procs
<1>2. (EveryWorkerKnown /\ FreshIsLast)'
  BY DEF KInv, EveryWorkerKnown, FreshIsLast, Procs
<1>3. TodoVacant'
  BY DEF KInv, TodoVacant, Procs
<1>4. (CheapIsEmpty /\ NothingLeftBehind)'
  BY DEF KInv, CheapIsEmpty, NothingLeftBehind, Procs
<1> QED
  BY <1>1, <1>2, <1>3, <1>4 DEF KInv

\* What one process does that was not waited for.
LEMMA KnownProc ==
    ASSUME TInv, KInv, NEW p \in Procs, NEW x \in Live \cup {"zombie"}, st[p] \in Live,
           UNCHANGED <<setup, pid, lastPid, slot, isCheap, mpc, died, todo, cheaped>>,
           st' = [st EXCEPT ![p] = x],
           \A q \in Procs \ {p} : sig'[q] = sig[q], x = "zombie" => sig'[p] = {}
    PROVE  KInv'
<1>1. /\ \A q \in Procs : st'[q] = "reaped" <=> st[q] = "reaped"
      /\ \A q \in Procs : st'[q] = IF q = p THEN x ELSE st[q]
      /\ st[p] # "reaped"
  BY Shapes DEF Live
<1>2. (SlotOfPid /\ PendingIsLive)'
  BY <1>1 DEF KInv, SlotOfPid, PendingIsLive, Procs, Live
<1>3. (BuriedIsReaped /\ TodoVacant /\ EveryWorkerKnown /\ FreshIsLast)'
  BY <1>1 DEF KInv, BuriedIsReaped, TodoVacant, EveryWorkerKnown, FreshIsLast, Procs
<1>4. (CheapIsEmpty /\ NothingLeftBehind)'
  BY <1>1 DEF KInv, CheapIsEmpty, NothingLeftBehind, Procs
<1>5. \A w \in Workers : pid[w] # 0 => pid[w] \in Procs
  BY Shapes DEF Procs
<1>6. ChildrenUnlessCheap'
  BY <1>1, <1>5 DEF KInv, ChildrenUnlessCheap, PidIsAChild
<1> QED
  BY <1>2, <1>3, <1>4, <1>6 DEF KInv

\* The slot of a worker that was waited for is vacated.
LEMMA KnownBury ==
    ASSUME TInv, KInv, NEW w \in Workers,
           mpc = "bury", pid[w] = died, died' = 0, pid' = [pid EXCEPT ![w] = 0],
           UNCHANGED <<setup, lastPid, slot, st, isCheap>>,
           \A p \in Procs : st[p] \notin Live => sig'[p] = {},
           isCheap => \A v \in Workers : cheaped'[v],
           (mpc' = "death" /\ todo' = todo) \/ (mpc' = "sleep" /\ todo' = {w} /\ ~isCheap)
    PROVE  KInv'
<1>1. died \in Procs /\ slot[died] = w /\ st[died] = "reaped" /\ 0 \notin Procs /\ todo = {}
  <2>1. died # 0 /\ todo = {}
    BY DEF TInv, Control, Spawning
  <2>2. died \in Procs /\ 0 \notin Procs
    BY <2>1, Shapes DEF Procs
  <2> QED
    BY <2>1, <2>2 DEF KInv, SlotOfPid, BuriedIsReaped
<1>2. \A v \in Workers : pid'[v] = IF v = w THEN 0 ELSE pid[v]
  BY Shapes
<1>3. \A p \in Procs : st[p] # "reaped" => pid[slot[p]] = p /\ slot[p] # w
  BY <1>1 DEF KInv, EveryWorkerKnown
<1>4. \A v \in Workers : v # w /\ pid[v] # 0 => pid[v] # died
  BY <1>1 DEF KInv, SlotOfPid
<1>5. (SlotOfPid /\ PendingIsLive /\ BuriedIsReaped)'
  BY <1>1, <1>2 DEF KInv, SlotOfPid, PendingIsLive, BuriedIsReaped, Procs
<1>6. EveryWorkerKnown'
  BY <1>2, <1>3, Shapes DEF KInv, EveryWorkerKnown, Procs
<1>7. (FreshIsLast /\ TodoVacant)'
  BY <1>1, <1>3 DEF KInv, FreshIsLast, TodoVacant, Procs
<1>8. (CheapIsEmpty /\ NothingLeftBehind)'
  BY Zenon DEF KInv, CheapIsEmpty, NothingLeftBehind, Procs, Spawning, Over
<1>9. ChildrenUnlessCheap'
  BY <1>2, <1>4 DEF KInv, ChildrenUnlessCheap, PidIsAChild
<1> QED
  BY <1>5, <1>6, <1>7, <1>8, <1>9 DEF KInv

\* The steps of the master keep every worker known.
LEMMA KnownMasterStep == TInv /\ KInv /\ MasterStep => KInv'
<1> SUFFICES ASSUME TInv, KInv, MasterStep PROVE KInv'
  OBVIOUS
<1>q. \A p \in Procs : st[p] \notin Live => sig[p] = {}
  BY DEF KInv, PendingIsLive
<1>h. isCheap => (\A w \in Workers : cheaped[w]) /\ mpc \notin Spawning
  BY DEF KInv, CheapIsEmpty
<1>z. 0 \notin Procs /\ \A w \in Workers : pid[w] # 0 => pid[w] \in Procs
  BY Shapes DEF Procs
<1>1. CASE CheckDeath
  <2>1. /\ UNCHANGED <<setup, pid, cheaped, lastPid, slot, st, sig, isCheap, died, todo>>
        /\ mpc \notin Spawning /\ mpc' \notin Spawning /\ (mpc' \in Over => Recorded = {})
    BY <1>1 DEF CheckDeath, slotVars, procVars, statusVars, masterVars, boundVars, Spawning, Over
  <2>2. CASE mpc' \notin Over
    BY <2>1, <2>2, <1>q, <1>h, KnownFrame DEF Spawning
  <2>3. CASE Recorded = {}
    <3>1. \A p \in Procs : st[p] = "reaped"
      BY <2>1, <2>3, <1>z, Shapes DEF KInv, Recorded, EveryWorkerKnown, Spawning
    <3>2. (SlotOfPid /\ PendingIsLive /\ BuriedIsReaped /\ ChildrenUnlessCheap)'
      BY <2>1 DEF KInv, SlotOfPid, PendingIsLive, BuriedIsReaped, ChildrenUnlessCheap, PidIsAChild, Procs
    <3>3. (EveryWorkerKnown /\ FreshIsLast /\ TodoVacant /\ CheapIsEmpty /\ NothingLeftBehind)'
      BY <2>1, <3>1 DEF KInv, EveryWorkerKnown, FreshIsLast, TodoVacant, CheapIsEmpty, NothingLeftBehind, Procs, Spawning
    <3> QED
      BY <3>2, <3>3 DEF KInv
  <2> QED
    BY <2>1, <2>2, <2>3
<1>2. CASE CheckReload
  <2>1. /\ UNCHANGED <<setup, pid, cheaped, lastPid, slot, st, sig, isCheap, died, todo>>
        /\ mpc \notin Spawning /\ mpc' \notin Spawning /\ (mpc' \in Over => Recorded = {})
    BY <1>2 DEF CheckReload, slotVars, procVars, statusVars, masterVars, boundVars, Spawning, Over
  <2>2. CASE mpc' \notin Over
    BY <2>1, <2>2, <1>q, <1>h, KnownFrame DEF Spawning
  <2>3. CASE Recorded = {}
    <3>1. \A p \in Procs : st[p] = "reaped"
      BY <2>1, <2>3, <1>z, Shapes DEF KInv, Recorded, EveryWorkerKnown, Spawning
    <3>2. (SlotOfPid /\ PendingIsLive /\ BuriedIsReaped /\ ChildrenUnlessCheap)'
      BY <2>1 DEF KInv, SlotOfPid, PendingIsLive, BuriedIsReaped, ChildrenUnlessCheap, PidIsAChild, Procs
    <3>3. (EveryWorkerKnown /\ FreshIsLast /\ TodoVacant /\ CheapIsEmpty /\ NothingLeftBehind)'
      BY <2>1, <3>1 DEF KInv, EveryWorkerKnown, FreshIsLast, TodoVacant, CheapIsEmpty, NothingLeftBehind, Procs, Spawning
    <3> QED
      BY <3>2, <3>3 DEF KInv
  <2> QED
    BY <2>1, <2>2, <2>3
<1>3. CASE CheckChainIdle
  BY <1>3, <1>q, <1>h, KnownFrame DEF CheckChainIdle, slotVars, procVars, statusVars, masterVars, boundVars, Spawning, Over
<1>4. CASE CheckChainOver
  BY <1>4, <1>q, <1>h, KnownFrame DEF CheckChainOver, slotVars, procVars, statusVars, masterVars, boundVars, Spawning, Over
<1>5. CASE CheckChainVictim
  <2>1. \A p \in Procs : st[p] \notin Live => sig'[p] = {}
    BY Zenon, <1>5, <1>q, CurseSpares DEF CheckChainVictim, Unasked
  <2> QED
    BY <1>5, <2>1, <1>h, KnownFrame DEF CheckChainVictim, boundVars, Spawning, Over
<1>6. CASE CheckMercy
  <2>1. \A p \in Procs : st[p] \notin Live => sig'[p] = {}
    BY <1>6, CurseSpares DEF CheckMercy
  <2> QED
    BY <1>6, <2>1, <1>h, KnownFrame DEF CheckMercy, statusVars, boundVars, Spawning, Over
<1>7. CASE CheaperSpawn
  <2>1. /\ UNCHANGED <<setup, pid, cheaped, lastPid, slot, st, sig, isCheap, died>>
        /\ mpc = "cheaper" /\ mpc' = "spawn" /\ ~isCheap
        /\ \A w \in todo' : pid[w] = 0
    BY <1>7 DEF CheaperSpawn, CheaperRuns, Lowest, FreeSlots, slotVars, procVars
  <2>2. (SlotOfPid /\ PendingIsLive /\ BuriedIsReaped /\ ChildrenUnlessCheap)'
    BY <2>1 DEF KInv, SlotOfPid, PendingIsLive, BuriedIsReaped, ChildrenUnlessCheap, PidIsAChild, Procs
  <2>3. (EveryWorkerKnown /\ FreshIsLast /\ CheapIsEmpty /\ NothingLeftBehind)'
    BY <2>1 DEF KInv, EveryWorkerKnown, FreshIsLast, CheapIsEmpty, NothingLeftBehind, Procs, Over
  <2>4. TodoVacant'
    BY <2>1, <1>z DEF KInv, TodoVacant, EveryWorkerKnown, Procs
  <2> QED
    BY <2>2, <2>3, <2>4 DEF KInv
<1>8. CASE CheaperStop
  <2>1. ~isCheap /\ sig' = sig
    BY Zenon, <1>8 DEF CheaperStop, CheaperRuns, Curse
  <2> QED
    BY Zenon, <1>8, <2>1, <1>q, KnownFrame DEF CheaperStop, boundVars, Spawning, Over
<1>9. CASE CheaperNothing
  BY <1>9, <1>q, <1>h, KnownFrame DEF CheaperNothing, slotVars, procVars, statusVars, masterVars, boundVars, Spawning, Over
<1>10. ASSUME NEW p \in Procs, WaitpidDead(p) PROVE KInv'
  <2>1. /\ UNCHANGED <<setup, pid, cheaped, lastPid, slot, sig, isCheap, todo>>
        /\ mpc = "waitpid" /\ mpc' = "bury" /\ died' = p /\ st[p] = "zombie"
    BY <1>10 DEF WaitpidDead, Zombies, slotVars, statusVars
  <2>2. \A q \in Procs : st'[q] = IF q = p THEN "reaped" ELSE st[q]
    BY <1>10, Shapes DEF WaitpidDead
  <2>3. died = 0
    BY <2>1 DEF TInv, Control
  <2>4. (SlotOfPid /\ PendingIsLive /\ BuriedIsReaped)'
    BY <2>1, <2>2 DEF KInv, SlotOfPid, PendingIsLive, BuriedIsReaped, Procs, Live
  <2>5. (EveryWorkerKnown /\ FreshIsLast /\ TodoVacant)'
    BY <2>1, <2>2 DEF KInv, EveryWorkerKnown, FreshIsLast, TodoVacant, Procs
  <2>6. (CheapIsEmpty /\ NothingLeftBehind)'
    BY <2>1, <2>2 DEF KInv, CheapIsEmpty, NothingLeftBehind, Procs, Over, Spawning
  <2>7. ChildrenUnlessCheap'
    BY <2>1, <2>2, <2>3, <1>z DEF KInv, ChildrenUnlessCheap, PidIsAChild
  <2> QED
    BY <2>4, <2>5, <2>6, <2>7 DEF KInv
<1>11. CASE WaitpidOther
  <2>1. /\ UNCHANGED <<setup, pid, cheaped, lastPid, slot, st, sig, isCheap, todo>>
        /\ mpc = "waitpid" /\ mpc' = "bury" /\ died' = Outsider
    BY <1>11 DEF WaitpidOther, slotVars, procVars
  <2>2. Outsider \notin Procs /\ died = 0
    BY <2>1, Shapes DEF Procs, TInv, Control
  <2>3. (SlotOfPid /\ PendingIsLive /\ BuriedIsReaped)'
    BY <2>1, <2>2 DEF KInv, SlotOfPid, PendingIsLive, BuriedIsReaped, Procs
  <2>4. (EveryWorkerKnown /\ FreshIsLast /\ TodoVacant /\ CheapIsEmpty /\ NothingLeftBehind)'
    BY <2>1 DEF KInv, EveryWorkerKnown, FreshIsLast, TodoVacant, CheapIsEmpty, NothingLeftBehind, Procs, Over, Spawning
  <2>5. ChildrenUnlessCheap'
    BY <2>1, <2>2 DEF KInv, ChildrenUnlessCheap, PidIsAChild
  <2> QED
    BY <2>3, <2>4, <2>5 DEF KInv
<1>12. CASE WaitpidNobody
  <2>1. /\ UNCHANGED <<setup, cheaped, lastPid, slot, st, sig, isCheap, died, todo>>
        /\ mpc = "waitpid" /\ mpc' = "events"
        /\ pid' = pid \/ ((\A p \in Procs : st[p] = "reaped") /\ pid' = [w \in Workers |-> 0])
    BY <1>12 DEF WaitpidNobody, Children, procVars, statusVars
  <2>2. CASE pid' = pid
    BY <2>1, <2>2, <1>q, <1>h, KnownFrame DEF Spawning, Over
  <2>3. CASE (\A p \in Procs : st[p] = "reaped") /\ pid' = [w \in Workers |-> 0]
    <3>1. (SlotOfPid /\ PendingIsLive /\ BuriedIsReaped /\ ChildrenUnlessCheap)'
      BY <2>1, <2>3 DEF KInv, SlotOfPid, PendingIsLive, BuriedIsReaped, ChildrenUnlessCheap, PidIsAChild, Procs
    <3>2. (EveryWorkerKnown /\ FreshIsLast /\ TodoVacant /\ CheapIsEmpty /\ NothingLeftBehind)'
      BY <2>1, <2>3 DEF KInv, EveryWorkerKnown, FreshIsLast, TodoVacant, CheapIsEmpty, NothingLeftBehind, Procs, Over, Spawning
    <3> QED
      BY <3>1, <3>2 DEF KInv
  <2> QED
    BY <2>1, <2>2, <2>3
<1>13. CASE BuryUnknown
  <2>1. /\ UNCHANGED <<setup, pid, cheaped, lastPid, slot, st, sig, isCheap, todo>>
        /\ mpc = "bury" /\ mpc' = "death" /\ died' = 0 /\ \A w \in Workers : pid[w] # died
    BY <1>13 DEF BuryUnknown, slotVars, procVars, statusVars
  <2>2. (SlotOfPid /\ PendingIsLive /\ BuriedIsReaped)'
    BY <2>1, <1>z DEF KInv, SlotOfPid, PendingIsLive, BuriedIsReaped, Procs
  <2>3. (EveryWorkerKnown /\ FreshIsLast /\ TodoVacant /\ CheapIsEmpty /\ NothingLeftBehind)'
    BY <2>1 DEF KInv, EveryWorkerKnown, FreshIsLast, TodoVacant, CheapIsEmpty, NothingLeftBehind, Procs, Over, Spawning
  <2>4. ChildrenUnlessCheap'
    BY <2>1 DEF KInv, ChildrenUnlessCheap, PidIsAChild
  <2> QED
    BY <2>2, <2>3, <2>4 DEF KInv
<1>14. ASSUME NEW w \in Workers, BuryNeedApp(w) PROVE KInv'
  <2>1. \A p \in Procs : st[p] \notin Live => sig'[p] = {}
    BY Zenon, <1>14, <1>q, CurseSpares DEF BuryNeedApp, Unasked
  <2> QED
    BY Zenon, <1>14, <2>1, <1>h, KnownBury DEF BuryNeedApp
<1>15. ASSUME NEW w \in Workers, BuryStopping(w) PROVE KInv'
  BY Zenon, <1>15, <1>q, <1>h, KnownBury DEF BuryStopping, slotVars, procVars, statusVars, masterVars, boundVars
<1>16. ASSUME NEW w \in Workers, BuryBrutal(w) PROVE KInv'
  <2>1. \A p \in Procs : st[p] \notin Live => sig'[p] = {}
    BY Zenon, <1>16, CurseSpares DEF BuryBrutal
  <2> QED
    BY Zenon, <1>16, <2>1, <1>h, KnownBury DEF BuryBrutal
<1>17. ASSUME NEW w \in Workers, BuryCheaped(w) PROVE KInv'
  <2>1. isCheap => \A v \in Workers : cheaped'[v]
    BY <1>17, <1>h, Shapes DEF BuryCheaped
  <2> QED
    BY Zenon, <1>17, <2>1, <1>q, KnownBury DEF BuryCheaped, procVars, statusVars
<1>18. ASSUME NEW w \in Workers, BuryRespawn(w) PROVE KInv'
  <2>1. ~isCheap
    BY <1>18, <1>h DEF BuryRespawn
  <2> QED
    BY Zenon, <1>18, <2>1, <1>q, KnownBury DEF BuryRespawn, procVars, statusVars
<1>19. CASE ForkBombDelay
  BY Zenon, <1>19, <1>q, <1>h, KnownFrame DEF ForkBombDelay, slotVars, procVars, statusVars, masterVars, boundVars, Spawning, Over
<1>20. CASE RespawnReset
  <2>1. ~isCheap
    BY <1>20, <1>h DEF RespawnReset, Spawning
  <2> QED
    BY <1>20, <2>1, <1>q, KnownFrame DEF RespawnReset, procVars, statusVars, Over
<1>21. CASE RespawnReturn
  <2>1. ret \in {"death", "waitpid"}
    BY DEF TInv, TypeOK
  <2> QED
    BY Zenon, <1>21, <2>1, <1>q, <1>h, KnownFrame DEF RespawnReturn, slotVars, procVars, statusVars, Over, Spawning
<1>22. CASE Fork
  <2>n. PICK n : n = lastPid + 1
    OBVIOUS
  <2>1. /\ UNCHANGED <<setup, pid, cheaped, isCheap, died, todo>>
        /\ mpc = "fork" /\ mpc' = "setpid" /\ lastPid' = n
        /\ st' = Extend(st, "forked") /\ sig' = Extend(sig, {}) /\ slot' = Extend(slot, Min(todo))
    BY <1>22, <2>n DEF Fork, slotVars, statusVars
  <2>2. n \notin Procs /\ Procs' = Procs \cup {n} /\ died = 0 /\ todo # {}
    BY <2>1, <2>n, Shapes DEF Procs, TInv, Control
  <2>3. /\ \A p \in Procs : st'[p] = st[p] /\ sig'[p] = sig[p] /\ slot'[p] = slot[p]
        /\ st'[n] = "forked" /\ sig'[n] = {} /\ slot'[n] = Min(todo)
    BY <2>1, <2>n, Shapes DEF Extend, Procs
  <2>4. Min(todo) \in todo /\ ~isCheap /\ 0 \notin Procs' /\ mpc # "setpid"
    BY <2>1, <2>2, <2>n, <1>h, <1>z, Shapes DEF Spawning
  <2>5. (SlotOfPid /\ PendingIsLive /\ BuriedIsReaped)'
    BY Zenon, <2>1, <2>2, <2>3, <2>4, <1>z DEF KInv, SlotOfPid, PendingIsLive, BuriedIsReaped
  <2>6. (EveryWorkerKnown /\ FreshIsLast)'
    BY <2>1, <2>2, <2>3, <2>4 DEF KInv, EveryWorkerKnown, FreshIsLast
  <2>7. (TodoVacant /\ CheapIsEmpty /\ NothingLeftBehind)'
    BY Zenon, <2>1, <2>2, <2>3, <2>4 DEF KInv, TodoVacant, CheapIsEmpty, NothingLeftBehind, Over
  <2>8. ChildrenUnlessCheap'
    BY Zenon, <2>1, <2>3, <1>z DEF KInv, ChildrenUnlessCheap, PidIsAChild
  <2> QED
    BY <2>5, <2>6, <2>7, <2>8 DEF KInv
<1>23. CASE SetPid
  <2>w. PICK w : w = Min(todo)
    OBVIOUS
  <2>1. /\ UNCHANGED <<setup, cheaped, lastPid, slot, st, sig, isCheap, died>>
        /\ mpc = "setpid" /\ mpc' = "spawn" /\ pid' = [pid EXCEPT ![w] = lastPid] /\ todo' = todo \ {w}
    BY <1>23, <2>w DEF SetPid, procVars, statusVars
  <2>2. w \in todo /\ w \in Workers /\ died = 0 /\ ~isCheap
    BY <2>1, <2>w, <1>h, Shapes DEF TInv, Control, Spawning
  <2>3. lastPid \in Procs /\ slot[lastPid] = w /\ st[lastPid] # "reaped"
    BY <2>1, <2>w DEF KInv, FreshIsLast
  <2>4. \A v \in Workers : pid'[v] = IF v = w THEN lastPid ELSE pid[v]
    BY <2>1, Shapes
  <2>5. \A p \in Procs : st[p] # "reaped" => p = lastPid \/ (slot[p] \notin todo /\ pid[slot[p]] = p)
    BY Zenon, <2>1 DEF KInv, TodoVacant, EveryWorkerKnown
  <2>6. (SlotOfPid /\ PendingIsLive /\ BuriedIsReaped)'
    BY <2>1, <2>3, <2>4 DEF KInv, SlotOfPid, PendingIsLive, BuriedIsReaped, Procs
  <2>7. EveryWorkerKnown'
    BY <2>1, <2>2, <2>3, <2>4, <2>5, Shapes DEF KInv, EveryWorkerKnown, Procs
  <2>8. (FreshIsLast /\ TodoVacant /\ CheapIsEmpty /\ NothingLeftBehind)'
    BY <2>1, <2>2, <2>3, <2>5 DEF KInv, FreshIsLast, TodoVacant, CheapIsEmpty, NothingLeftBehind, Procs, Over
  <2>9. ChildrenUnlessCheap'
    BY <2>1, <2>3, <2>4 DEF KInv, ChildrenUnlessCheap, PidIsAChild
  <2> QED
    BY <2>6, <2>7, <2>8, <2>9 DEF KInv
<1>24. CASE EventsNothing
  BY Zenon, <1>24, <1>q, <1>h, KnownFrame DEF EventsNothing, slotVars, procVars, statusVars, masterVars, boundVars, Spawning, Over
<1>25. CASE GracefulWait
  <2> DEFINE dead == {w \in Recorded : st[pid[w]] = "zombie"}
  <2>1. /\ UNCHANGED <<setup, cheaped, lastPid, slot, sig, isCheap, died, todo>>
        /\ mpc = "gwait" /\ mpc' \in {"death", "gwait"}
        /\ pid' = [w \in Workers |-> IF w \in dead THEN 0 ELSE pid[w]]
        /\ st' = [p \in Procs |-> IF \E w \in dead : pid[w] = p THEN "reaped" ELSE st[p]]
    BY <1>25 DEF GracefulWait
  <2>2. died = 0 /\ todo = {}
    BY <2>1 DEF TInv, Control, Spawning
  <2>3. \A w \in Workers : pid'[w] = (IF w \in dead THEN 0 ELSE pid[w])
    BY <2>1
  <2>4. \A p \in Procs : st'[p] = "reaped" \/ (st'[p] = st[p] /\ \A w \in dead : pid[w] # p)
    BY <2>1
  <2>5. ASSUME NEW p \in Procs, st[p] # "reaped" PROVE pid[slot[p]] = p /\ slot[p] \in Workers
    BY <2>5, <2>1, Shapes DEF KInv, EveryWorkerKnown
  <2>6. \A w \in Workers \ dead : pid[w] # 0 => st'[pid[w]] = st[pid[w]]
    BY Zenon, <2>1, <1>z DEF KInv, SlotOfPid, Recorded
  <2>7. (SlotOfPid /\ PendingIsLive)'
    BY <2>1, <2>3, <2>4 DEF KInv, SlotOfPid, PendingIsLive, Procs, Live
  <2>8. (BuriedIsReaped /\ FreshIsLast /\ TodoVacant)'
    BY <2>1, <2>2, <1>z DEF KInv, BuriedIsReaped, FreshIsLast, TodoVacant, Procs
  <2>9. (CheapIsEmpty /\ NothingLeftBehind)'
    BY Zenon, <2>1, <2>4 DEF KInv, CheapIsEmpty, NothingLeftBehind, Procs, Spawning, Over
  <2>10. ASSUME NEW p \in Procs, st'[p] # "reaped" PROVE pid'[slot[p]] = p
    BY <2>10, <2>3, <2>4, <2>5
  <2>11. EveryWorkerKnown'
    BY <2>1, <2>10 DEF KInv, EveryWorkerKnown, Procs
  <2>12. ChildrenUnlessCheap'
    BY <2>1, <2>2, <2>3, <2>6 DEF KInv, ChildrenUnlessCheap, PidIsAChild
  <2> QED
    BY <2>7, <2>8, <2>9, <2>11, <2>12 DEF KInv
<1> QED
  BY Zenon, <1>1, <1>2, <1>3, <1>4, <1>5, <1>6, <1>7, <1>8, <1>9, <1>10, <1>11, <1>12, <1>13, <1>14, <1>15, <1>16, <1>17, <1>18, <1>19, <1>20, <1>21, <1>22, <1>23, <1>24, <1>25 DEF MasterStep

\* Commands and signals keep every worker known.
LEMMA KnownInput == TInv /\ KInv /\ Input => KInv'
<1> SUFFICES ASSUME TInv, KInv, Input PROVE KInv'
  OBVIOUS
<1>q. \A p \in Procs : st[p] \notin Live => sig[p] = {}
  BY DEF KInv, PendingIsLive
<1>h. isCheap => (\A w \in Workers : cheaped[w]) /\ mpc \notin Spawning
  BY DEF KInv, CheapIsEmpty
<1>z. 0 \notin Procs /\ \A w \in Workers : pid[w] # 0 => pid[w] \in Procs
  BY Shapes DEF Procs
<1>1. ASSUME KillThemAll \/ GraceThemAll \/ ReapThemAll PROVE \A p \in Procs : st[p] \notin Live => sig'[p] = {}
  BY Zenon, <1>1, <1>q, CurseSpares DEF KillThemAll, GraceThemAll, ReapThemAll, Unasked
<1>2. ASSUME NEW s \in setup.signals, SignalMaster(s) PROVE KInv'
  <2>1. \A p \in Procs : st[p] \notin Live => sig'[p] = {}
    BY Zenon, <1>2, <1>1 DEF SignalMaster
  <2> QED
    BY <1>2, <2>1, <1>h, KnownFrame DEF SignalMaster, masterVars
<1>3. CASE FifoStop
  <2>1. \A p \in Procs : st[p] \notin Live => sig'[p] = {}
    BY <1>3, <1>1 DEF FifoStop
  <2> QED
    BY <1>3, <2>1, <1>h, KnownFrame DEF FifoStop, FifoCommand, Over, Spawning
<1>4. CASE FifoReloadWorkers
  <2>1. \A p \in Procs : st[p] \notin Live => sig'[p] = {}
    BY <1>4, CurseSpares DEF FifoReloadWorkers
  <2> QED
    BY <1>4, <2>1, <1>h, KnownFrame DEF FifoReloadWorkers, FifoCommand, statusVars, Over, Spawning
<1>5. CASE FifoGracefulKill
  <2>1. \A p \in Procs : st[p] \notin Live => sig'[p] = {}
    BY <1>5, CurseSpares DEF FifoGracefulKill
  <2> QED
    BY <1>5, <2>1, <1>h, KnownFrame DEF FifoGracefulKill, FifoCommand, Over, Spawning
<1>6. CASE FifoChainReload
  BY ZenonT(30), <1>6, <1>q, <1>h, KnownFrame DEF FifoChainReload, FifoCommand, slotVars, procVars, statusVars, masterVars, boundVars, Spawning, Over
<1>7. CASE FifoCheaper
  BY <1>7, <1>q, <1>h, KnownFrame DEF FifoCheaper, FifoCommand, slotVars, procVars, statusVars, masterVars, boundVars, Spawning, Over
<1>8. ASSUME KillAndWait, mpc = "events", \A w \in Workers : pid'[w] \in {pid[w], 0},
             "C" \in setup.commands \/ \A w \in Workers : pid'[w] = 0
      PROVE  KInv'
  <2> DEFINE gone == {pid[w] : w \in Recorded}
  <2>1. /\ UNCHANGED <<setup, lastPid, slot, died, todo>>
        /\ isCheap' = TRUE /\ mpc' = "death" /\ cheaped' = [w \in Workers |-> TRUE]
        /\ st' = [p \in Procs |-> IF p \in gone THEN "reaped" ELSE st[p]]
        /\ sig' = [p \in Procs |-> IF p \in gone THEN {} ELSE sig[p]]
    BY Zenon, <1>8 DEF KillAndWait
  <2>2. \A p \in Procs : p \in gone \/ st[p] = "reaped"
    BY SMTT(30), <1>8, <1>z, Shapes DEF KInv, EveryWorkerKnown, Recorded
  <2>3. \A p \in Procs : st'[p] = "reaped" /\ sig'[p] = {}
    BY <2>1, <2>2, <1>q DEF Live
  <2>4. (SlotOfPid /\ PendingIsLive)'
    BY <2>1, <2>3, <1>8 DEF KInv, SlotOfPid, PendingIsLive, Procs
  <2>5. (EveryWorkerKnown /\ FreshIsLast /\ BuriedIsReaped)'
    BY <2>1, <2>3 DEF KInv, EveryWorkerKnown, FreshIsLast, BuriedIsReaped, Procs
  <2>6. (TodoVacant /\ CheapIsEmpty /\ NothingLeftBehind)'
    BY <2>1, <2>3 DEF KInv, TodoVacant, CheapIsEmpty, NothingLeftBehind, Procs, Spawning
  <2>7. ChildrenUnlessCheap'
    BY Zenon, <2>1, <1>8 DEF KInv, ChildrenUnlessCheap, PidIsAChild
  <2> QED
    BY <2>4, <2>5, <2>6, <2>7 DEF KInv
<1>9. CASE FifoGoCheap
  BY <1>9, <1>8 DEF FifoGoCheap, FifoCommand
<1>10. CASE CheckIdle
  <2>1. /\ KillAndWait /\ mpc = "events"
        /\ pid' = [w \in Workers |-> IF pid[w] # 0 /\ st[pid[w]] = "reaped" THEN pid[w] ELSE 0]
    BY <1>10 DEF CheckIdle, FifoCommand
  <2>2. died = 0
    BY <2>1 DEF TInv, Control
  <2>3. "C" \in setup.commands \/ \A w \in Workers : pid'[w] = 0
    BY <2>1, <2>2 DEF KInv, ChildrenUnlessCheap, PidIsAChild
  <2> QED
    BY <2>1, <2>3, <1>8
<1>11. CASE WakeFromCheap
  <2>1. /\ UNCHANGED <<setup, pid, cheaped, lastPid, slot, st, sig, died>>
        /\ mpc = "events" /\ mpc' = "spawn" /\ isCheap /\ isCheap' = FALSE
    BY <1>11 DEF WakeFromCheap, slotVars, procVars
  <2>2. \A p \in Procs : st[p] = "reaped"
    BY <2>1 DEF KInv, CheapIsEmpty
  <2>3. (SlotOfPid /\ PendingIsLive /\ BuriedIsReaped /\ ChildrenUnlessCheap)'
    BY <2>1 DEF KInv, SlotOfPid, PendingIsLive, BuriedIsReaped, ChildrenUnlessCheap, PidIsAChild, Procs
  <2>4. (EveryWorkerKnown /\ FreshIsLast /\ TodoVacant /\ CheapIsEmpty /\ NothingLeftBehind)'
    BY <2>1, <2>2 DEF KInv, EveryWorkerKnown, FreshIsLast, TodoVacant, CheapIsEmpty, NothingLeftBehind, Procs, Over
  <2> QED
    BY <2>3, <2>4 DEF KInv
<1>12. CASE ForkFails
  <2>1. /\ UNCHANGED <<setup, pid, cheaped, lastPid, slot, st, sig, isCheap, died>>
        /\ mpc = "fork" /\ mpc' = "spawn" /\ todo' \subseteq todo
    BY <1>12 DEF ForkFails, slotVars, procVars, statusVars
  <2>2. (SlotOfPid /\ PendingIsLive /\ BuriedIsReaped /\ ChildrenUnlessCheap)'
    BY <2>1 DEF KInv, SlotOfPid, PendingIsLive, BuriedIsReaped, ChildrenUnlessCheap, PidIsAChild, Procs
  <2>3. (EveryWorkerKnown /\ FreshIsLast /\ TodoVacant)'
    BY <2>1 DEF KInv, EveryWorkerKnown, FreshIsLast, TodoVacant, Procs
  <2>4. (CheapIsEmpty /\ NothingLeftBehind)'
    BY <2>1 DEF KInv, CheapIsEmpty, NothingLeftBehind, Procs, Over, Spawning
  <2> QED
    BY <2>2, <2>3, <2>4 DEF KInv
<1> QED
  BY Zenon, <1>2, <1>3, <1>4, <1>5, <1>6, <1>7, <1>9, <1>10, <1>11, <1>12 DEF Input

\* The steps of a worker keep every worker known.
LEMMA KnownWorkerStep == ASSUME TInv, KInv, NEW p \in Procs, WorkerStep(p) \/ WorkerMay(p) PROVE KInv'
<1>q. \A q \in Procs : st[q] \notin Live => sig[q] = {}
  BY DEF KInv, PendingIsLive
<1>h. isCheap => (\A w \in Workers : cheaped[w]) /\ mpc \notin Spawning
  BY DEF KInv, CheapIsEmpty
<1>1. ASSUME NEW c, Exits(p, c), st[p] \in Live, UNCHANGED <<setup, pid, cheaped, isCheap, mpc, died, todo>> PROVE KInv'
  <2>1. UNCHANGED <<lastPid, slot>> /\ st' = [st EXCEPT ![p] = "zombie"] /\ sig' = [sig EXCEPT ![p] = {}]
    BY <1>1 DEF Exits
  <2>2. sig'[p] = {} /\ \A q \in Procs \ {p} : sig'[q] = sig[q]
    BY <2>1, Shapes
  <2> QED
    BY Zenon, <1>1, <2>1, <2>2, KnownProc
<1>2. CASE ChildInit(p)
  <2>1. /\ st[p] \in Live /\ st' = [st EXCEPT ![p] = "boot"] /\ "boot" \in Live /\ sig' = sig
        /\ UNCHANGED <<setup, pid, cheaped, isCheap, mpc, died, todo, lastPid, slot>>
    BY <1>2 DEF ChildInit, Live, masterVars, statusVars
  <2> QED
    BY Zenon, <2>1, KnownProc
<1>3. CASE WorkerRun(p)
  <2>1. /\ st[p] \in Live /\ st' = [st EXCEPT ![p] = "ready"] /\ "ready" \in Live /\ sig' = sig
        /\ UNCHANGED <<setup, pid, cheaped, isCheap, mpc, died, todo, lastPid, slot>>
    BY <1>3 DEF WorkerRun, Live, slotVars, masterVars, statusVars
  <2> QED
    BY Zenon, <2>1, KnownProc
<1>4. CASE Ignition(p)
  <2>1. /\ st[p] \in Live /\ st' = [st EXCEPT ![p] = "run"] /\ "run" \in Live /\ sig' = sig
        /\ UNCHANGED <<setup, pid, cheaped, isCheap, mpc, died, todo, lastPid, slot>>
    BY <1>4 DEF Ignition, Live, masterVars, statusVars
  <2> QED
    BY Zenon, <2>1, KnownProc
<1>5. CASE Killed(p)
  <2>1. st[p] \in Live
    BY Zenon, <1>5, <1>q DEF Killed
  <2> QED
    BY Zenon, <1>5, <2>1, <1>1 DEF Killed, slotVars, statusVars, masterVars
<1>6. CASE WorkerInt(p)
  BY <1>6, <1>1 DEF WorkerInt, Live, slotVars, statusVars, masterVars
<1>7. CASE WorkerHup(p)
  <2>1. CASE Exits(p, "died")
    BY Zenon, <1>7, <2>1, <1>1 DEF WorkerHup, Live, statusVars, masterVars
  <2>2. CASE sig' = [sig EXCEPT ![p] = @ \ {"HUP"}] /\ UNCHANGED <<lastPid, slot, st, saw, code>>
    <3>1. \A q \in Procs : st[q] \notin Live => sig'[q] = {}
      BY <2>2, <1>q, Shapes
    <3> QED
      BY Zenon, <1>7, <2>2, <3>1, <1>h, KnownFrame DEF WorkerHup, statusVars, masterVars
  <2> QED
    BY Zenon, <1>7, <2>1, <2>2 DEF WorkerHup
<1>8. ASSUME NEW s \in {"INT", "HUP"}, BootSignal(p, s) PROVE KInv'
  <2>1. \A q \in Procs : st[q] \notin Live => sig'[q] = {}
    BY <1>8, <1>q DEF BootSignal, Live
  <2> QED
    BY Zenon, <1>8, <2>1, <1>h, KnownFrame DEF BootSignal, statusVars, masterVars
<1>9. CASE RequestStart(p)
  BY Zenon, <1>9, <1>q, <1>h, KnownFrame DEF RequestStart, procVars, statusVars, masterVars
<1>10. CASE RequestEnd(p)
  BY Zenon, <1>10, <1>q, <1>h, KnownFrame DEF RequestEnd, procVars, statusVars, masterVars
<1>11. CASE Goodbye(p)
  BY Zenon, <1>11, <1>q, <1>h, KnownFrame DEF Goodbye, procVars, statusVars, masterVars
<1>12. CASE LeaveLoop(p)
  BY <1>12, <1>1 DEF LeaveLoop, Live, slotVars, statusVars, masterVars
<1>13. ASSUME NEW c \in setup.exitCodes, WorkerDies(p, c) PROVE KInv'
  BY Zenon, <1>13, <1>1 DEF WorkerDies, slotVars, statusVars, masterVars
<1> QED
  BY Zenon, <1>2, <1>3, <1>4, <1>5, <1>6, <1>7, <1>8, <1>9, <1>10, <1>11, <1>12, <1>13 DEF WorkerStep, WorkerMay

\* Every step keeps every worker known.
LEMMA KnownStep == TInv /\ KInv /\ [Next]_vars => KInv'
<1> SUFFICES ASSUME TInv, KInv, [Next]_vars PROVE KInv'
  OBVIOUS
<1>q. \A p \in Procs : st[p] \notin Live => sig[p] = {}
  BY DEF KInv, PendingIsLive
<1>h. isCheap => (\A w \in Workers : cheaped[w]) /\ mpc \notin Spawning
  BY DEF KInv, CheapIsEmpty
<1>1. CASE PacingOver
  BY Zenon, <1>1, <1>q, <1>h, KnownFrame DEF PacingOver, slotVars, procVars, masterVars
<1>2. ASSUME NEW w \in Workers, MercyExpires(w) PROVE KInv'
  BY Zenon, <1>2, <1>q, <1>h, KnownFrame DEF MercyExpires, procVars, statusVars, masterVars
<1>3. CASE UNCHANGED vars
  BY Zenon, <1>3, <1>q, <1>h, KnownFrame DEF vars, slotVars, procVars, statusVars, masterVars
<1>4. CASE MasterStep \/ Input
  BY <1>4, KnownMasterStep, KnownInput
<1>5. ASSUME NEW p \in Procs, WorkerStep(p) \/ WorkerMay(p) PROVE KInv'
  BY <1>5, KnownWorkerStep
<1> QED
  BY <1>1, <1>2, <1>3, <1>4, <1>5 DEF Next

=============================================================================
