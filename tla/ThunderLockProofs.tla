-------------------------- MODULE ThunderLockProofs --------------------------
(***************************************************************************)
(* Proofs about ThunderLock, for any number of workers, threads, crashes   *)
(* and connections.                                                        *)
(***************************************************************************)
EXTENDS ThunderLock, TLAPS

InsideThunder(t) == pc[t] \in Inside /\ LockMode(t[1]) = "thunder"

\* A thread inside the section is the live owner of the lock.
InsideOwns == \A t \in Thread : InsideThunder(t) => owner = t /\ ~ownerDied

\* A lock with a live owner has that owner inside the section.
OwnerInside == owner # Nobody /\ ~ownerDied => InsideThunder(owner)

\* Only a robust mutex remembers that its owner died.
DiedOnlyRobust == ownerDied => setup.engine = "robust"

\* The master acts on processes that are gone: their threads are dead.
ReapedIsDead ==
    /\ mpc \in {"wait", "respawn"}
    /\ \A t \in Thread : t[1] \in zombie => pc[t] = "dead"
    /\ mpc = "respawn" => pid[died] = 0 /\ died \notin zombie
    /\ mpc = "respawn" => \A t \in Thread : t[1] = died => pc[t] = "dead"

\* A worker has no more threads than it was told to start.
UnusedIsDead == \A t \in Thread : t \notin Running => pc[t] = "dead"

LockInv == InsideOwns /\ OwnerInside /\ DiedOnlyRobust /\ ReapedIsDead /\ UnusedIsDead

IInv == TypeOK /\ (SoundEngine => LockInv)

\* The initial state is well typed.
LEMMA TypeInit == Init => TypeOK
<1> USE SizeAssumption
<1> SUFFICES ASSUME Init PROVE TypeOK
  OBVIOUS
<1>1. Workers \subseteq Nat /\ 1 \in Workers
  BY DEF Workers
<1>2. pc \in [Thread -> Steps] /\ fd \in [Thread -> BOOLEAN]
  BY DEF Init, Steps
<1>3. pid \in [Workers -> Nat] /\ mutex \in [Workers -> Thread \cup {Nobody}]
  BY <1>1 DEF Init
<1> QED
  BY <1>1, <1>2, <1>3 DEF Init, TypeOK

\* Every step keeps every variable well typed.
LEMMA TypeStep == TypeOK /\ [Next]_vars => TypeOK'
<1> USE SizeAssumption, SetupAssumption
<1> SUFFICES ASSUME TypeOK, [Next]_vars PROVE TypeOK'
  OBVIOUS
<1> USE DEF TypeOK, lockVars, procVars, connVars, masterVars
<1>1. ASSUME NEW t \in Thread, ThreadStep(t) PROVE TypeOK'
  <2>1. t[1] \in Workers /\ SocketOf(t[1]) \in Sockets
    BY DEF Thread, Sockets, SocketOf
  <2>2. CASE LoopTop(t)
    BY <2>2 DEF LoopTop, Steps
  <2>3. CASE AcquireThunder(t)
    BY <2>3 DEF AcquireThunder, Steps, Inside
  <2>4. CASE RecordPid(t)
    BY <2>1, <2>4 DEF RecordPid, Steps, Inside
  <2>5. CASE AcquireThread(t)
    BY <2>1, <2>5 DEF AcquireThread, Steps, Inside
  <2>6. CASE AcquireNone(t)
    BY <2>6 DEF AcquireNone, Steps, Inside
  <2>7. CASE Recheck(t)
    BY <2>7 DEF Recheck, Steps, Inside
  <2>8. CASE PollSocket(t)
    BY <2>8 DEF PollSocket, Steps, Inside
  <2>9. CASE PollStopPipe(t)
    BY <2>9 DEF PollStopPipe, Steps, Inside
  <2>10. CASE ProtoAccept(t)
    <3>1. backlog[SocketOf(t[1])] \in Nat
      BY <2>1
    <3>2. fd' \in [Thread -> BOOLEAN] /\ backlog' \in [Sockets -> Nat]
      BY <2>1, <2>10, <3>1 DEF ProtoAccept
    <3> QED BY <3>2, <2>10 DEF ProtoAccept, Steps, Inside
  <2>11. CASE ReleaseThunder(t)
    BY <2>11 DEF ReleaseThunder, Steps
  <2>12. CASE ClearPid(t)
    BY <2>12 DEF ClearPid, Steps, AfterRelease
  <2>13. CASE ReleaseOther(t)
    BY <2>1, <2>13 DEF ReleaseOther, Steps, AfterRelease
  <2>14. CASE Recv(t)
    BY <2>14 DEF Recv, Steps
  <2>15. CASE CloseRequest(t)
    <3>1. manage' \in [Workers -> BOOLEAN] /\ ends' \in Nat
      <4>1. CASE UNCHANGED <<manage, ends>>
        BY <4>1
      <4>2. CASE ends' = ends + 1 /\ manage' = [manage EXCEPT ![t[1]] = FALSE]
        <5>1. ends' \in Nat
          BY <4>2
        <5>2. manage' \in [Workers -> BOOLEAN]
          BY <4>2
        <5> QED BY <5>1, <5>2
      <4> QED BY <4>1, <4>2, <2>15 DEF CloseRequest
    <3>2. pc' \in [Thread -> Steps] /\ fd' \in [Thread -> BOOLEAN]
      BY <2>15 DEF CloseRequest, Steps
    <3> QED BY <3>1, <3>2, <2>15 DEF CloseRequest
  <2> QED
    BY <1>1, <2>2, <2>3, <2>4, <2>5, <2>6, <2>7, <2>8, <2>9, <2>10, <2>11,
       <2>12, <2>13, <2>14, <2>15 DEF ThreadStep
<1>2. ASSUME NEW t \in Thread, PollOther(t) PROVE TypeOK'
  BY <1>2 DEF PollOther, Steps, Inside
<1>3. ASSUME NEW w \in Workers, ProcessGone(w),
             manage' \in [Workers -> BOOLEAN], ends' \in Nat, dropped' \in Nat
      PROVE  TypeOK'
  BY <1>3 DEF ProcessGone, Steps
<1>4. ASSUME NEW w \in Workers, Exit(w) PROVE TypeOK'
  BY <1>3, <1>4 DEF Exit
<1>5. ASSUME NEW w \in Workers, Crash(w) PROVE TypeOK'
  BY <1>3, <1>5 DEF Crash
<1>6. ASSUME NEW w \in Workers, GracefullyKillThreaded(w) PROVE TypeOK'
  BY <1>6 DEF GracefullyKillThreaded
<1>7. ASSUME NEW w \in Workers, GracefullyKillSingle(w) PROVE TypeOK'
  BY <1>3, <1>7 DEF GracefullyKillSingle
<1>8. CASE MasterStep
  <2>1. ASSUME NEW w \in Workers, Waitpid(w) PROVE TypeOK'
    BY <2>1 DEF Waitpid
  <2>2. CASE DeadlockTrylock \/ DeadlockReadPid
    BY <2>2 DEF DeadlockTrylock, DeadlockReadPid
  <2>3. CASE DeadlockUnlock \/ DeadlockClear
    BY <2>3 DEF DeadlockUnlock, DeadlockClear
  <2>4. CASE Respawn
    BY <2>4 DEF Respawn, Steps
  <2> QED
    BY <1>8, <2>1, <2>2, <2>3, <2>4 DEF MasterStep
<1>9. ASSUME NEW s \in Sockets, Arrive(s) PROVE TypeOK'
  BY <1>9 DEF Arrive
<1>10. CASE UNCHANGED vars
  BY <1>10 DEF vars
<1> QED
  BY <1>1, <1>2, <1>4, <1>5, <1>6, <1>7, <1>8, <1>9, <1>10 DEF Next

\* Type correctness: every variable of the accept loop, the lock and the
\* master keeps its type, whatever the engine.
THEOREM TypeCorrect == Spec => []TypeOK
BY TypeInit, TypeStep, PTL DEF Spec

-----------------------------------------------------------------------------
\* A thread takes a step inside the loop: the other threads, the processes
\* and the master are as before, and the thread was not dead.
LEMMA ThreadStepFrame ==
    ASSUME TypeOK, NEW t \in Thread, ThreadStep(t) \/ PollOther(t)
    PROVE  /\ \A u \in Thread : u # t => pc'[u] = pc[u]
           /\ pc[t] # "dead"
           /\ UNCHANGED <<pid, zombie, mpc, died, setup>>
BY DEF ThreadStep, PollOther, LoopTop, AcquireThunder, RecordPid,
   AcquireThread, AcquireNone, Recheck, PollSocket, PollStopPipe, ProtoAccept,
   ReleaseThunder, ClearPid, ReleaseOther, Recv, CloseRequest, TypeOK,
   procVars, masterVars

\* Which lock a worker takes depends on the options of the instance alone.
LEMMA LockModeFixed ==
    ASSUME setup' = setup
    PROVE  \A t \in Thread : LockMode(t[1])' = LockMode(t[1])
BY DEF LockMode, Threaded

\* Nobody, the owner of a free lock, is no thread: workers count from 1.
LEMMA NobodyNoThread ==
    Nobody \notin Thread
<1>1. 0 \notin Workers
  BY SizeAssumption DEF Workers
<1> QED BY <1>1 DEF Thread, Nobody

\* The lock invariant survives a step of a thread.
LEMMA ThreadStepLock ==
    ASSUME SoundEngine, TypeOK, LockInv, TypeOK', NEW t \in Thread,
           ThreadStep(t) \/ PollOther(t)
    PROVE  (InsideOwns /\ OwnerInside /\ DiedOnlyRobust)'
<1> USE DEF LockInv, InsideOwns, OwnerInside, DiedOnlyRobust, InsideThunder
<1>1. setup' = setup /\ \A u \in Thread : u # t => pc'[u] = pc[u]
  BY ThreadStepFrame
<1>2. t # Nobody /\ pc \in [Thread -> Steps] /\ owner \in Thread \cup {Nobody}
  BY NobodyNoThread DEF TypeOK
<1>m. \A u \in Thread : LockMode(u[1])' = LockMode(u[1])
  BY ThreadStepFrame, LockModeFixed
<1>3. CASE AcquireThunder(t)
  <2>1. \A u \in Thread : ~InsideThunder(u)
    <3>1. CASE owner = Nobody
      BY <3>1, SizeAssumption DEF Thread, Workers, Nobody
    <3>2. CASE setup.engine = "robust" /\ ownerDied
      BY <3>2
    <3>3. CASE setup.engine = "fdlock" /\ owner[1] = t[1] /\ owner # Nobody
      <4>1. setup.threads = 1 /\ owner \in Thread /\ ~ownerDied
        BY <3>3 DEF SoundEngine, TypeOK
      <4>2. pc[owner] \in Inside /\ pc[t] = "lock"
        BY <1>3, <3>3, <4>1 DEF AcquireThunder
      <4>3. owner \in Running /\ t \in Running
        BY <4>1, <4>2 DEF UnusedIsDead, Inside
      <4>4. owner[2] = 0 /\ t[2] = 0
        BY <4>1, <4>3 DEF Running, Cores
      <4>5. owner = t
        BY <3>3, <4>1, <4>4 DEF Thread
      <4> QED BY <4>2, <4>5 DEF Inside
    <3> QED BY <1>3, <3>1, <3>2, <3>3 DEF AcquireThunder, ThunderFree
  <2>2. owner' = t /\ ownerDied' = FALSE /\ pc'[t] = "got"
    BY <1>2, <1>3 DEF AcquireThunder
  <2> QED
    BY <1>m, <1>1, <1>3, <2>1, <2>2 DEF AcquireThunder, Inside
<1>4. CASE ReleaseThunder(t)
  <2>1. owner = t /\ ~ownerDied
    BY <1>4 DEF ReleaseThunder, Inside
  <2>2. owner' = Nobody /\ ownerDied' = ownerDied /\ pc'[t] = "clear"
    BY <1>2, <1>4, <2>1 DEF ReleaseThunder
  <2> QED
    BY <1>m, <1>1, <2>1, <2>2 DEF Inside
<1>5. CASE UNCHANGED <<owner, ownerDied>> /\ InsideThunder(t)' = InsideThunder(t)
  BY <1>m, <1>1, <1>2, <1>5 DEF TypeOK
<1>6. CASE LoopTop(t) \/ RecordPid(t) \/ Recheck(t)
  BY <1>m, <1>2, <1>5, <1>6 DEF LoopTop, RecordPid, Recheck, Inside, lockVars
<1>7. CASE AcquireThread(t) \/ AcquireNone(t) \/ ReleaseOther(t)
  BY <1>m, <1>2, <1>5, <1>7 DEF AcquireThread, AcquireNone, ReleaseOther, lockVars,
     Inside
<1>8. CASE PollSocket(t) \/ PollStopPipe(t) \/ PollOther(t) \/ ProtoAccept(t)
  BY <1>m, <1>2, <1>5, <1>8 DEF PollSocket, PollStopPipe, PollOther, ProtoAccept,
     lockVars, Inside
<1>9. CASE ClearPid(t) \/ Recv(t) \/ CloseRequest(t)
  BY <1>m, <1>2, <1>5, <1>9 DEF ClearPid, Recv, CloseRequest, AfterRelease, lockVars,
     Inside
<1> QED BY <1>3, <1>4, <1>6, <1>7, <1>8, <1>9 DEF ThreadStep

\* The lock invariant survives the death of a process, wherever its threads
\* were: its part of the lock is marked, dropped or undone by the kernel.
LEMMA ProcessGoneLock ==
    ASSUME SoundEngine, TypeOK, LockInv, NEW w \in Workers, Alive(w), ProcessGone(w)
    PROVE  LockInv'
<1> USE DEF LockInv
<1>1. \A u \in Thread : pc'[u] = IF u[1] = w THEN "dead" ELSE pc[u]
  BY DEF ProcessGone
<1>2. "dead" \notin Inside /\ setup' = setup
  BY DEF Inside, ProcessGone
<1>m. \A u \in Thread : LockMode(u[1])' = LockMode(u[1])
  BY <1>2, LockModeFixed
<1>3. InsideOwns'
  BY <1>m, <1>1, <1>2 DEF ProcessGone, InsideOwns, InsideThunder
<1>4. OwnerInside'
  <2>1. owner \in Thread \cup {Nobody}
    BY DEF TypeOK
  <2>2. CASE owner[1] = w
    BY <2>2 DEF ProcessGone, OwnerInside, SoundEngine
  <2>3. CASE owner[1] # w
    BY <1>m, <1>1, <2>1, <2>3 DEF ProcessGone, OwnerInside, InsideThunder
  <2> QED BY <2>2, <2>3
<1>5. DiedOnlyRobust'
  BY <1>2 DEF ProcessGone, DiedOnlyRobust
<1>6. ReapedIsDead'
  BY <1>1 DEF ProcessGone, ReapedIsDead, Alive, masterVars
<1>7. UnusedIsDead'
  BY <1>1, <1>2 DEF UnusedIsDead, Running, Cores
<1> QED BY <1>3, <1>4, <1>5, <1>6, <1>7

\* The options of an instance never change.
LEMMA SetupFixed == [Next]_vars => setup' = setup
BY DEF Next, MasterStep, ThreadStep, PollOther, LoopTop, AcquireThunder, RecordPid,
   AcquireThread, AcquireNone, Recheck, PollSocket, PollStopPipe, ProtoAccept,
   ReleaseThunder, ClearPid, ReleaseOther, Recv, CloseRequest, Exit, Crash,
   GracefullyKillThreaded, GracefullyKillSingle, ProcessGone, Waitpid, DeadlockTrylock,
   DeadlockReadPid, DeadlockUnlock, DeadlockClear, Respawn, Arrive, vars

\* Every step of the system keeps the lock invariant.
LEMMA LockInvStep ==
    ASSUME SoundEngine, TypeOK, LockInv, TypeOK', [Next]_vars
    PROVE  LockInv'
<1> USE DEF lockVars, procVars, connVars, masterVars
<1>s. setup' = setup
  BY SetupFixed
<1>m. \A u \in Thread : LockMode(u[1])' = LockMode(u[1])
  BY <1>s, LockModeFixed
<1>o. owner \in Thread \cup {Nobody}
  BY DEF TypeOK
<1>u. (\A t \in Thread : pc[t] = "dead" => pc'[t] = "dead") => UnusedIsDead'
  BY <1>s DEF LockInv, UnusedIsDead, Running, Cores
<1>1. ASSUME NEW t \in Thread, ThreadStep(t) \/ PollOther(t)
      PROVE  LockInv'
  <2>1. (InsideOwns /\ OwnerInside /\ DiedOnlyRobust)'
    BY <1>1, ThreadStepLock
  <2>2. ReapedIsDead'
    BY <1>1, ThreadStepFrame DEF LockInv, ReapedIsDead
  <2>3. UnusedIsDead'
    BY <1>1, ThreadStepFrame DEF LockInv, UnusedIsDead, Running, Cores
  <2> QED BY <2>1, <2>2, <2>3 DEF LockInv
<1>2. ASSUME NEW w \in Workers,
             Exit(w) \/ Crash(w) \/ (GracefullyKillSingle(w) /\ ProcessGone(w))
      PROVE  LockInv'
  BY <1>2, ProcessGoneLock DEF Exit, Crash, GracefullyKillSingle
<1>3. CASE UNCHANGED <<pc, pid, zombie, owner, ownerDied, mpc, died>>
  BY <1>s, <1>m, <1>u, <1>o, <1>3 DEF LockInv, InsideOwns, OwnerInside, InsideThunder, DiedOnlyRobust,
     ReapedIsDead
<1>4. ASSUME NEW w \in Workers,
             \/ GracefullyKillThreaded(w)
             \/ GracefullyKillSingle(w) /\ ~ProcessGone(w)
      PROVE  LockInv'
  BY <1>3, <1>4 DEF GracefullyKillThreaded, GracefullyKillSingle
<1>5. ASSUME NEW w \in Workers, Waitpid(w)
      PROVE  LockInv'
  <2>1. UNCHANGED <<pc, owner, ownerDied>>
    BY <1>5 DEF Waitpid
  <2>2. (InsideOwns /\ OwnerInside /\ DiedOnlyRobust)'
    BY <1>s, <1>m, <1>o, <2>1 DEF LockInv, InsideOwns, OwnerInside, InsideThunder, DiedOnlyRobust
  <2>3. ReapedIsDead'
    BY <1>5 DEF Waitpid, LockInv, ReapedIsDead, SoundEngine, TypeOK
  <2> QED BY <1>u, <2>1, <2>2, <2>3 DEF LockInv
<1>6. CASE DeadlockTrylock \/ DeadlockReadPid \/ DeadlockUnlock \/ DeadlockClear
  BY <1>6 DEF LockInv, ReapedIsDead, DeadlockTrylock, DeadlockReadPid,
     DeadlockUnlock, DeadlockClear
<1>7. CASE Respawn
  <2>1. \A u \in Thread : pc'[u] = IF u \in Running /\ u[1] = died THEN "loop" ELSE pc[u]
    BY <1>7 DEF Respawn
  <2>2. \A u \in Thread : InsideThunder(u)' = InsideThunder(u)
    BY <1>m, <1>7, <2>1 DEF Respawn, LockInv, ReapedIsDead, InsideThunder, Inside
  <2>3. (InsideOwns /\ OwnerInside /\ DiedOnlyRobust)'
    BY <1>s, <1>7, <2>2 DEF Respawn, LockInv, InsideOwns, OwnerInside, DiedOnlyRobust,
       TypeOK
  <2>4. ReapedIsDead'
    BY <1>7, <2>1 DEF Respawn, LockInv, ReapedIsDead
  <2>5. UnusedIsDead'
    BY <1>s, <2>1 DEF LockInv, UnusedIsDead, Running, Cores
  <2> QED BY <2>3, <2>4, <2>5 DEF LockInv
<1>8. ASSUME NEW s \in Sockets, Arrive(s)
      PROVE  LockInv'
  BY <1>3, <1>8 DEF Arrive
<1>9. CASE UNCHANGED vars
  BY <1>3, <1>9 DEF vars
<1> QED
  BY <1>1, <1>2, <1>4, <1>5, <1>6, <1>7, <1>8, <1>9 DEF Next, MasterStep

\* Every step keeps the inductive invariant.
LEMMA IInvStep == IInv /\ [Next]_vars => IInv'
<1> SUFFICES ASSUME IInv, [Next]_vars PROVE IInv'
  OBVIOUS
<1>1. TypeOK'
  BY TypeStep DEF IInv
<1>2. SoundEngine' = SoundEngine
  BY SetupFixed DEF SoundEngine
<1>3. CASE SoundEngine
  BY <1>1, <1>2, <1>3, LockInvStep DEF IInv
<1>4. CASE ~SoundEngine
  BY <1>1, <1>2, <1>4 DEF IInv
<1> QED BY <1>3, <1>4

\* The inductive invariant holds initially.
LEMMA IInvInit == Init => IInv
<1> SUFFICES ASSUME Init PROVE IInv
  OBVIOUS
<1>1. TypeOK
  BY TypeInit
<1>2. InsideOwns /\ OwnerInside /\ DiedOnlyRobust
  BY DEF Init, InsideOwns, OwnerInside, DiedOnlyRobust, InsideThunder, Inside
<1>3. ReapedIsDead
  BY DEF Init, ReapedIsDead
<1>4. UnusedIsDead
  BY DEF Init, UnusedIsDead
<1> QED BY <1>1, <1>2, <1>3, <1>4 DEF IInv, LockInv

\* The inductive invariant holds always.
LEMMA IInvAlways == Spec => []IInv
BY IInvInit, IInvStep, PTL DEF Spec

\* Accepts on shared listeners are serialized across every thread of every
\* worker, through crashes, graceful stops and respawns, when the lock is a
\* robust mutex or a System V semaphore, or a record lock in workers with a
\* single thread.
THEOREM SerializedAccept == Spec => []ThunderSerialized
<1>1. IInv => ThunderSerialized
  BY DEF IInv, LockInv, InsideOwns, InsideThunder, ThunderSerialized
<1> QED BY IInvAlways, <1>1, PTL

\* The same engines never leave the thunder lock with a dead holder: when no
\* live thread is inside, upsgi_lock() succeeds.
THEOREM LockNeverOrphaned == Spec => []NeverOrphaned
<1>1. IInv => NeverOrphaned
  <2> SUFFICES ASSUME IInv, SoundEngine, \A t \in Thread : pc[t] \notin Inside
               PROVE  \A t \in Thread : ThunderFree(t)
    BY DEF NeverOrphaned
  <2>1. LockInv /\ TypeOK
    BY DEF IInv
  <2>2. owner = Nobody \/ ownerDied
    BY <2>1 DEF LockInv, OwnerInside, InsideThunder, TypeOK
  <2> QED BY <2>1, <2>2 DEF LockInv, DiedOnlyRobust, ThunderFree
<1> QED BY IInvAlways, <1>1, PTL

-----------------------------------------------------------------------------
\* A thread inside the section of thunder_mutex is its holder.
MutexHeld ==
    \A t \in Thread : pc[t] \in Inside /\ LockMode(t[1]) = "thread" => mutex[t[1]] = t

\* A thread has a connection in its hands only between accept and close.
Holding == {"release", "clear", "recv", "serve"}
FdPlace == \A t \in Thread : fd[t] => pc[t] \in Holding

\* Whatever the engine, the threads of a worker that was reaped are gone.
ReapedGone ==
    /\ \A t \in Thread : t[1] \in zombie => pc[t] = "dead"
    /\ mpc # "wait" => /\ pid[died] = 0 /\ died \notin zombie
                       /\ \A t \in Thread : t[1] = died => pc[t] = "dead"

\* Two workers never have the same pid, nor one that of the reaped process.
PidsApart ==
    /\ \A v, w \in Workers : v # w /\ pid[v] = pid[w] => pid[v] = 0
    /\ \A w \in Workers : pid[w] <= lastPid
    /\ \A w \in zombie : pid[w] # 0
    /\ mpc # "wait" => /\ diedPid # 0 /\ diedPid <= lastPid
                       /\ \A w \in Workers : pid[w] # diedPid

\* What the detector has established, which no live thread takes back.
DetectorPath ==
    setup.engine = "plain" =>
        /\ mpc = "clear" => owner[1] # died
        /\ mpc = "respawn" => owner[1] # died \/ uliPid # diedPid

\* The inductive invariant of AcceptSound, for every engine.
AInv == TypeOK /\ MutexHeld /\ FdPlace /\ ReapedGone /\ PidsApart /\ DetectorPath /\ GracefulExitDropsNothing

\* It holds of workers that have just been started.
LEMMA AInvInit == Init => AInv
<1> SUFFICES ASSUME Init PROVE AInv
  OBVIOUS
<1>1. TypeOK
  BY TypeInit
<1>2. MutexHeld
  BY DEF Init, MutexHeld, Inside
<1>3. FdPlace
  BY DEF Init, FdPlace
<1>4. ReapedGone
  BY DEF Init, ReapedGone
<1>5. PidsApart
  BY SizeAssumption DEF Init, PidsApart, Workers
<1>6. DetectorPath /\ GracefulExitDropsNothing
  BY DEF Init, DetectorPath, GracefulExitDropsNothing
<1> QED BY <1>1, <1>2, <1>3, <1>4, <1>5, <1>6 DEF AInv

\* thunder_mutex admits one thread of a worker to the section.
LEMMA ThreadMutex ==
    ASSUME TypeOK, MutexHeld, NEW t \in Thread, ThreadStep(t) \/ PollOther(t)
    PROVE  MutexHeld'
<1>1. setup' = setup /\ \A u \in Thread : u # t => pc'[u] = pc[u]
  BY ThreadStepFrame
<1>2. \A u \in Thread : u # Nobody /\ u[1] \in Workers
  BY NobodyNoThread DEF Thread
<1>3. mutex \in [Workers -> Thread \cup {Nobody}] /\ pc \in [Thread -> Steps]
  BY DEF TypeOK
<1>m. \A u \in Thread : LockMode(u[1])' = LockMode(u[1])
  BY <1>1, LockModeFixed
<1>4. CASE AcquireThread(t)
  <2>1. \A u \in Thread : mutex'[u[1]] = IF u[1] = t[1] THEN t ELSE mutex[u[1]]
    BY <1>2, <1>3, <1>4 DEF AcquireThread
  <2>2. mutex[t[1]] = Nobody
    BY <1>4 DEF AcquireThread
  <2> QED BY <1>1, <1>2, <1>m, <2>1, <2>2 DEF MutexHeld
<1>5. CASE ReleaseOther(t)
  <2>1. \A u \in Thread : mutex'[u[1]] = IF u[1] = t[1] THEN Nobody ELSE mutex[u[1]]
    BY <1>2, <1>3, <1>5 DEF ReleaseOther
  <2>2. pc[t] \in Inside /\ pc'[t] \notin Inside
    BY <1>3, <1>5 DEF ReleaseOther, AfterRelease, Inside
  <2> QED BY <1>1, <1>m, <2>1, <2>2 DEF MutexHeld
<1>6. CASE mutex' = mutex /\ (pc'[t] \in Inside => pc[t] \in Inside \/ LockMode(t[1]) # "thread")
  BY <1>1, <1>m, <1>6 DEF MutexHeld
<1>7. CASE LoopTop(t) \/ RecordPid(t) \/ Recheck(t)
  BY <1>3, <1>6, <1>7 DEF LoopTop, RecordPid, Recheck, Inside, lockVars
<1>8. CASE AcquireThunder(t) \/ AcquireNone(t) \/ ReleaseThunder(t)
  BY <1>3, <1>6, <1>8 DEF AcquireThunder, AcquireNone, ReleaseThunder, Inside, lockVars
<1>9. CASE PollSocket(t) \/ PollStopPipe(t) \/ PollOther(t) \/ ProtoAccept(t)
  BY <1>3, <1>6, <1>9 DEF PollSocket, PollStopPipe, PollOther, ProtoAccept, Inside, lockVars
<1>10. CASE ClearPid(t) \/ Recv(t) \/ CloseRequest(t)
  BY <1>3, <1>6, <1>10 DEF ClearPid, Recv, CloseRequest, AfterRelease, Inside, lockVars
<1> QED BY <1>4, <1>5, <1>7, <1>8, <1>9, <1>10 DEF ThreadStep

\* A thread drops no connection by itself: it holds one from accept() to
\* upsgi_close_request() only.
LEMMA ThreadFd ==
    ASSUME TypeOK, FdPlace, NEW t \in Thread, ThreadStep(t) \/ PollOther(t)
    PROVE  FdPlace' /\ dropped' = dropped
<1>1. \A u \in Thread : u # t => pc'[u] = pc[u]
  BY ThreadStepFrame
<1>2. pc \in [Thread -> Steps] /\ fd \in [Thread -> BOOLEAN]
  BY DEF TypeOK
<1>3. CASE fd' = fd /\ dropped' = dropped /\ (fd[t] => pc'[t] \in Holding)
  BY <1>1, <1>3 DEF FdPlace
<1>4. CASE ProtoAccept(t)
  <2>1. pc'[t] \in Holding /\ dropped' = dropped
    BY <1>2, <1>4 DEF ProtoAccept, Holding
  <2>2. \A u \in Thread : u # t => fd'[u] = fd[u]
    BY <1>2, <1>4 DEF ProtoAccept
  <2> QED BY <1>1, <2>1, <2>2 DEF FdPlace
<1>5. CASE CloseRequest(t)
  <2>1. ~fd'[t] /\ dropped' = dropped
    BY <1>2, <1>5 DEF CloseRequest
  <2>2. \A u \in Thread : u # t => fd'[u] = fd[u]
    BY <1>2, <1>5 DEF CloseRequest
  <2> QED BY <1>1, <2>1, <2>2 DEF FdPlace
<1>6. CASE LoopTop(t) \/ RecordPid(t) \/ Recheck(t) \/ AcquireThread(t)
  BY <1>2, <1>3, <1>6 DEF LoopTop, RecordPid, Recheck, AcquireThread, connVars, FdPlace, Holding
<1>7. CASE AcquireThunder(t) \/ AcquireNone(t) \/ ReleaseThunder(t)
  BY <1>2, <1>3, <1>7 DEF AcquireThunder, AcquireNone, ReleaseThunder, connVars, FdPlace, Holding
<1>8. CASE PollSocket(t) \/ PollStopPipe(t) \/ PollOther(t)
  BY <1>2, <1>3, <1>8 DEF PollSocket, PollStopPipe, PollOther, connVars, FdPlace, Holding
<1>9. CASE ClearPid(t) \/ ReleaseOther(t) \/ Recv(t)
  BY <1>2, <1>3, <1>9 DEF ClearPid, ReleaseOther, Recv, AfterRelease, connVars, FdPlace, Holding
<1> QED BY <1>4, <1>5, <1>6, <1>7, <1>8, <1>9 DEF ThreadStep

\* No live thread takes the lock in the name of the process that was reaped.
LEMMA ThreadDetector ==
    ASSUME TypeOK, ReapedGone, PidsApart, DetectorPath, NEW t \in Thread, ThreadStep(t) \/ PollOther(t)
    PROVE  DetectorPath'
<1>1. UNCHANGED <<mpc, died, setup, pid>> /\ pc[t] # "dead"
  BY ThreadStepFrame
<1>2. diedPid' = diedPid
  BY DEF ThreadStep, PollOther, LoopTop, AcquireThunder, RecordPid, AcquireThread, AcquireNone,
     Recheck, PollSocket, PollStopPipe, ProtoAccept, ReleaseThunder, ClearPid, ReleaseOther,
     Recv, CloseRequest, masterVars
<1>3. t[1] \in Workers /\ died \in Workers /\ Nobody[1] = 0 /\ 0 \notin Workers
  BY SizeAssumption DEF TypeOK, Thread, Nobody, Workers
<1>4. mpc # "wait" => t[1] # died /\ diedPid # 0 /\ pid[t[1]] # diedPid
  BY <1>1, <1>3 DEF ReapedGone, PidsApart
<1>5. CASE UNCHANGED <<owner, uliPid>>
  BY <1>1, <1>2, <1>5 DEF DetectorPath
<1>6. CASE AcquireThunder(t)
  BY <1>1, <1>4, <1>6 DEF AcquireThunder, DetectorPath
<1>7. CASE ReleaseThunder(t)
  <2>1. uliPid' = uliPid /\ (owner' = owner \/ owner'[1] = 0)
    BY <1>3, <1>7 DEF ReleaseThunder
  <2> QED BY <1>1, <1>2, <1>3, <2>1 DEF DetectorPath
<1>8. CASE RecordPid(t)
  BY <1>1, <1>2, <1>4, <1>8 DEF RecordPid, DetectorPath
<1>9. CASE ClearPid(t)
  BY <1>1, <1>2, <1>4, <1>9 DEF ClearPid, DetectorPath
<1>10. CASE LoopTop(t) \/ AcquireThread(t) \/ AcquireNone(t) \/ Recheck(t)
  BY <1>5, <1>10 DEF LoopTop, AcquireThread, AcquireNone, Recheck, lockVars
<1>11. CASE PollSocket(t) \/ PollStopPipe(t) \/ PollOther(t) \/ ProtoAccept(t)
  BY <1>5, <1>11 DEF PollSocket, PollStopPipe, PollOther, ProtoAccept, lockVars
<1>12. CASE ReleaseOther(t) \/ Recv(t) \/ CloseRequest(t)
  BY <1>5, <1>12 DEF ReleaseOther, Recv, CloseRequest, lockVars
<1> QED BY <1>6, <1>7, <1>8, <1>9, <1>10, <1>11, <1>12 DEF ThreadStep

\* A step of a thread keeps the invariant.
LEMMA ThreadAccept ==
    ASSUME AInv, NEW t \in Thread, ThreadStep(t) \/ PollOther(t)
    PROVE  (MutexHeld /\ FdPlace /\ ReapedGone /\ PidsApart /\ DetectorPath /\ GracefulExitDropsNothing)'
<1>1. /\ \A u \in Thread : u # t => pc'[u] = pc[u]
      /\ pc[t] # "dead" /\ UNCHANGED <<pid, zombie, mpc, died, setup>>
  BY ThreadStepFrame DEF AInv
<1>2. UNCHANGED <<lastPid, diedPid>>
  BY DEF ThreadStep, PollOther, LoopTop, AcquireThunder, RecordPid, AcquireThread, AcquireNone,
     Recheck, PollSocket, PollStopPipe, ProtoAccept, ReleaseThunder, ClearPid, ReleaseOther,
     Recv, CloseRequest, masterVars, procVars
<1>3. MutexHeld' /\ FdPlace' /\ DetectorPath' /\ dropped' = dropped
  BY ThreadMutex, ThreadFd, ThreadDetector DEF AInv
<1>4. ReapedGone'
  BY <1>1 DEF AInv, ReapedGone
<1>5. PidsApart'
  BY <1>1, <1>2 DEF AInv, PidsApart
<1>6. GracefulExitDropsNothing'
  BY <1>1, <1>3 DEF AInv, GracefulExitDropsNothing, Threaded
<1> QED BY <1>3, <1>4, <1>5, <1>6

\* So does the death of a worker, whatever its threads were doing.
LEMMA GoneAccept ==
    ASSUME AInv, NEW w \in Workers, Alive(w), ProcessGone(w)
    PROVE  (MutexHeld /\ FdPlace /\ ReapedGone /\ PidsApart /\ DetectorPath)'
<1>1. \A u \in Thread : /\ pc'[u] = IF u[1] = w THEN "dead" ELSE pc[u]
                       /\ fd'[u] = (fd[u] /\ u[1] # w)
  BY DEF ProcessGone
<1>2. UNCHANGED <<pid, lastPid, uliPid, mpc, died, diedPid, setup>> /\ zombie' = zombie \cup {w}
  BY DEF ProcessGone, masterVars
<1>3. mutex \in [Workers -> Thread \cup {Nobody}] /\ died \in Workers /\ pid[w] # 0
  BY DEF AInv, TypeOK, Alive
<1>4. MutexHeld'
  <2>1. \A u \in Thread : LockMode(u[1])' = LockMode(u[1])
    BY <1>2, LockModeFixed
  <2>2. \A u \in Thread : u[1] # w => mutex'[u[1]] = mutex[u[1]]
    BY <1>3 DEF ProcessGone, Thread
  <2>3. "dead" \notin Inside
    BY DEF Inside
  <2> QED BY <1>1, <2>1, <2>2, <2>3 DEF AInv, MutexHeld
<1>5. FdPlace'
  BY <1>1 DEF AInv, FdPlace
<1>6. mpc # "wait" => w # died
  BY <1>3 DEF AInv, ReapedGone
<1>7. ReapedGone'
  BY <1>1, <1>2, <1>6 DEF AInv, ReapedGone
<1>8. PidsApart'
  BY <1>2, <1>3 DEF AInv, PidsApart
<1>9. DetectorPath'
  <2>1. owner' = owner \/ (owner' = Nobody /\ Nobody[1] # died)
    BY <1>3, SizeAssumption DEF ProcessGone, Nobody, Workers
  <2> QED BY <1>2, <2>1 DEF AInv, DetectorPath
<1> QED BY <1>4, <1>5, <1>7, <1>8, <1>9

\* So do the crash, the graceful stop and the exit of a worker.
LEMMA WorkerAccept ==
    ASSUME AInv, NEW w \in Workers,
           Exit(w) \/ Crash(w) \/ GracefullyKillThreaded(w) \/ GracefullyKillSingle(w)
    PROVE  (MutexHeld /\ FdPlace /\ ReapedGone /\ PidsApart /\ DetectorPath /\ GracefulExitDropsNothing)'
<1>s. setup' = setup
  BY DEF Exit, Crash, GracefullyKillThreaded, GracefullyKillSingle, ProcessGone
<1>1. CASE Exit(w)
  <2>1. \A c \in Cores : <<w, c>> \in Thread /\ ~fd[<<w, c>>]
    <3>1. setup \in Setup
      BY SetupAssumption DEF AInv, TypeOK
    <3>2. Cores \subseteq 0..(MaxThreads - 1)
      BY <3>1, SizeAssumption DEF Setup, Cores
    <3>3. \A c \in Cores : <<w, c>> \in Thread
      BY <3>2 DEF Thread
    <3> QED BY <1>1, <3>3 DEF Exit, AInv, FdPlace, Holding
  <2>2. dropped' = dropped
    BY <1>1, <2>1 DEF Exit
  <2>3. GracefulExitDropsNothing'
    BY <1>s, <2>2 DEF AInv, GracefulExitDropsNothing, Threaded
  <2> QED BY <1>1, <2>3, GoneAccept DEF Exit
<1>2. CASE Crash(w)
  <2>1. GracefulExitDropsNothing'
    BY <1>s, <1>2 DEF Crash, AInv, GracefulExitDropsNothing, Threaded
  <2> QED BY <1>2, <2>1, GoneAccept DEF Crash
<1>3. CASE UNCHANGED <<pc, fd, pid, zombie, lastPid, lockVars, dropped, masterVars, setup>>
  <2>1. \A u \in Thread : LockMode(u[1])' = LockMode(u[1])
    BY <1>3, LockModeFixed
  <2>2. MutexHeld' /\ FdPlace'
    BY <1>3, <2>1 DEF AInv, MutexHeld, FdPlace, lockVars
  <2>3. ReapedGone' /\ PidsApart'
    BY <1>3 DEF AInv, ReapedGone, PidsApart, masterVars
  <2>4. DetectorPath' /\ GracefulExitDropsNothing'
    BY <1>3 DEF AInv, DetectorPath, GracefulExitDropsNothing, Threaded, lockVars, masterVars
  <2> QED BY <2>2, <2>3, <2>4
<1>4. CASE GracefullyKillThreaded(w)
  BY <1>3, <1>4 DEF GracefullyKillThreaded, connVars
<1>5. CASE GracefullyKillSingle(w) /\ ~ProcessGone(w)
  BY <1>3, <1>5 DEF GracefullyKillSingle, connVars
<1>6. CASE GracefullyKillSingle(w) /\ ProcessGone(w)
  <2>1. GracefulExitDropsNothing'
    BY <1>s, <1>6 DEF GracefullyKillSingle, GracefulExitDropsNothing, Threaded
  <2> QED BY <1>6, <2>1, GoneAccept DEF GracefullyKillSingle
<1> QED BY <1>1, <1>2, <1>4, <1>5, <1>6

\* So do waitpid(), the deadlock detector and the respawn in the master.
LEMMA MasterAccept ==
    ASSUME AInv, MasterStep
    PROVE  (MutexHeld /\ FdPlace /\ ReapedGone /\ PidsApart /\ DetectorPath /\ GracefulExitDropsNothing)'
<1>s. setup' = setup /\ UNCHANGED <<fd, dropped, mutex>>
  BY DEF MasterStep, Waitpid, DeadlockTrylock, DeadlockReadPid, DeadlockUnlock, DeadlockClear, Respawn, connVars, lockVars
<1>m. \A u \in Thread : LockMode(u[1])' = LockMode(u[1])
  BY <1>s, LockModeFixed
<1>g. GracefulExitDropsNothing'
  BY <1>s DEF AInv, GracefulExitDropsNothing, Threaded
<1>p. pid \in [Workers -> Nat] /\ died \in Workers /\ lastPid \in Nat /\ diedPid \in Nat /\ zombie \subseteq Workers
  BY DEF AInv, TypeOK
<1>1. ASSUME pc' = pc PROVE MutexHeld' /\ FdPlace'
  BY <1>1, <1>s, <1>m DEF AInv, MutexHeld, FdPlace
<1>2. ASSUME NEW w \in Workers, Waitpid(w)
      PROVE  (MutexHeld /\ FdPlace /\ ReapedGone /\ PidsApart /\ DetectorPath)'
  <2>1. /\ pc' = pc /\ mpc = "wait" /\ mpc' \in {"trylock", "respawn"} /\ w \in zombie
        /\ died' = w /\ diedPid' = pid[w] /\ zombie' = zombie \ {w} /\ lastPid' = lastPid
        /\ \A v \in Workers : pid'[v] = IF v = w THEN 0 ELSE pid[v]
    BY <1>2, <1>p DEF Waitpid, procVars
  <2>2. ReapedGone'
    BY <2>1 DEF AInv, ReapedGone
  <2>3. PidsApart'
    BY <1>p, <2>1 DEF AInv, PidsApart
  <2>4. DetectorPath'
    BY <1>s, <1>2 DEF Waitpid, DetectorPath
  <2> QED BY <1>1, <2>1, <2>2, <2>3, <2>4
<1>3. ASSUME DeadlockTrylock \/ DeadlockReadPid \/ DeadlockUnlock \/ DeadlockClear
      PROVE  (MutexHeld /\ FdPlace /\ ReapedGone /\ PidsApart /\ DetectorPath)'
  <2>1. UNCHANGED <<pc, pid, zombie, lastPid, died, diedPid>> /\ mpc # "wait"
    BY <1>3 DEF DeadlockTrylock, DeadlockReadPid, DeadlockUnlock, DeadlockClear, procVars
  <2>2. ReapedGone' /\ PidsApart'
    BY <2>1 DEF AInv, ReapedGone, PidsApart
  <2>3. Nobody[1] # died /\ (mpc # "wait" => diedPid # 0)
    BY <1>p, SizeAssumption DEF Nobody, Workers, AInv, PidsApart
  <2>4. DetectorPath'
    BY <1>s, <1>3, <2>1, <2>3 DEF AInv, DetectorPath, DeadlockTrylock, DeadlockReadPid, DeadlockUnlock, DeadlockClear, lockVars
  <2> QED BY <1>1, <2>1, <2>2, <2>4
<1>4. ASSUME Respawn
      PROVE  (MutexHeld /\ FdPlace /\ ReapedGone /\ PidsApart /\ DetectorPath)'
  <2>1. /\ mpc = "respawn" /\ mpc' = "wait" /\ zombie' = zombie /\ died' = died /\ lastPid' = lastPid + 1
        /\ \A v \in Workers : pid'[v] = IF v = died THEN lastPid + 1 ELSE pid[v]
    BY <1>4, <1>p DEF Respawn
  <2>2. \A u \in Thread : pc'[u] = IF u \in Running /\ u[1] = died THEN "loop" ELSE pc[u]
    BY <1>4 DEF Respawn
  <2>3. \A u \in Thread : u[1] = died => pc[u] = "dead" /\ ~fd[u]
    BY <2>1 DEF AInv, ReapedGone, FdPlace, Holding
  <2>4. MutexHeld' /\ FdPlace'
    BY <1>s, <1>m, <2>2, <2>3 DEF AInv, MutexHeld, FdPlace, Inside
  <2>5. ReapedGone'
    BY <2>1, <2>2 DEF AInv, ReapedGone
  <2>6. PidsApart'
    BY <1>p, <2>1 DEF AInv, PidsApart, ReapedGone
  <2>7. DetectorPath'
    BY <2>1 DEF DetectorPath
  <2> QED BY <2>4, <2>5, <2>6, <2>7
<1> QED BY <1>g, <1>2, <1>3, <1>4 DEF MasterStep

\* Every step keeps the invariant.
LEMMA AInvStep == AInv /\ [Next]_vars => AInv'
<1> SUFFICES ASSUME AInv, [Next]_vars PROVE AInv'
  OBVIOUS
<1>1. TypeOK'
  BY TypeStep DEF AInv
<1>2. CASE UNCHANGED <<pc, fd, pid, zombie, lastPid, lockVars, dropped, masterVars, setup>>
  <2>1. \A u \in Thread : LockMode(u[1])' = LockMode(u[1])
    BY <1>2, LockModeFixed
  <2>2. MutexHeld' /\ FdPlace'
    BY <1>2, <2>1 DEF AInv, MutexHeld, FdPlace, lockVars
  <2>3. ReapedGone' /\ PidsApart'
    BY <1>2 DEF AInv, ReapedGone, PidsApart, masterVars
  <2>4. DetectorPath' /\ GracefulExitDropsNothing'
    BY <1>2 DEF AInv, DetectorPath, GracefulExitDropsNothing, Threaded, lockVars, masterVars
  <2> QED BY <1>1, <2>2, <2>3, <2>4 DEF AInv
<1>3. ASSUME NEW s \in Sockets, Arrive(s) PROVE AInv'
  BY <1>2, <1>3 DEF Arrive, procVars
<1>4. CASE UNCHANGED vars
  BY <1>2, <1>4 DEF vars, procVars, connVars
<1>5. ASSUME NEW t \in Thread, ThreadStep(t) \/ PollOther(t) PROVE AInv'
  BY <1>1, <1>5, ThreadAccept DEF AInv
<1>6. ASSUME NEW w \in Workers, Exit(w) \/ Crash(w) \/ GracefullyKillThreaded(w) \/ GracefullyKillSingle(w)
      PROVE  AInv'
  BY <1>1, <1>6, WorkerAccept DEF AInv
<1>7. CASE MasterStep
  BY <1>1, <1>7, MasterAccept DEF AInv
<1> QED BY <1>3, <1>4, <1>5, <1>6, <1>7 DEF Next

\* With a sound lock, two threads of one worker are never in the section
\* together, whether the thunder lock or thunder_mutex guards it.  With any
\* lock, a threaded worker that stops gracefully drops no connection it
\* accepted, and a plain lock that carries the pid of a dead process is open
\* before the slot of that process is used again (the deadlock detector).
THEOREM AcceptIsSound == Spec => []AcceptSound
<1>1. AInv => GracefulExitDropsNothing
  BY DEF AInv
<1>2. AInv => DetectorRecovers
  <2> SUFFICES ASSUME AInv, mpc = "respawn", setup.engine = "plain", owner[1] = died PROVE uliPid # diedPid
    BY DEF DetectorRecovers
  <2> QED BY DEF AInv, DetectorPath
<1>3. AInv /\ IInv => CoresSerialized
  <2> SUFFICES ASSUME AInv, IInv, SoundEngine, NEW t \in Thread, NEW u \in Thread,
                      pc[t] \in Inside, pc[u] \in Inside, t[1] = u[1]
               PROVE  t = u
    BY DEF CoresSerialized
  <2>1. CASE LockMode(t[1]) = "thunder"
    BY <2>1 DEF IInv, LockInv, InsideOwns, InsideThunder
  <2>2. CASE LockMode(t[1]) = "thread"
    BY <2>2 DEF AInv, MutexHeld
  <2>3. CASE ~Threaded
    <3>1. t \in Running /\ u \in Running
      BY DEF IInv, LockInv, UnusedIsDead, Inside
    <3>2. setup.threads = 1
      BY <2>3, SetupAssumption, SizeAssumption DEF Threaded, AInv, TypeOK, Setup
    <3>3. t[2] = 0 /\ u[2] = 0
      BY <3>1, <3>2 DEF Running, Cores
    <3> QED BY <3>3 DEF Thread
  <2> QED BY <2>1, <2>2, <2>3 DEF LockMode
<1> QED BY <1>1, <1>2, <1>3, AInvInit, AInvStep, IInvAlways, PTL DEF Spec, AcceptSound
=============================================================================
