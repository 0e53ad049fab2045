--------------------------- MODULE LogQueueProofs ---------------------------
(***************************************************************************)
(* What holds of the log queue for every configuration of sinks, every     *)
(* limit and every stream of records (LogQueue.tla): what is buffered, and  *)
(* where, and that a forked worker inherits none of it.                     *)
(***************************************************************************)
EXTENDS LogQueue, FiniteSetTheorems, TLAPS

\* What a step of the logger relies on: only the log that is being drained has
\* records in its queue, and only while the logger holds threaded_logger_lock.
QueueShape ==
    /\ typ \in Types
    /\ pc \in {"idle", "work", "flush", "final"}
    /\ queue = [t \in Types |-> queue[t]]
    /\ \A t \in Types : t # typ \/ pc = "idle" => queue[t] = <<>>

\* It holds when the logger starts, with nothing read yet.
LEMMA ShapeInit == Init => QueueShape
  BY DEF Init, QueueShape, Types

\* And every step keeps it: a queue is filled only for the log that is drained,
\* and the lock is given back only when that queue is empty.
LEMMA ShapeStep == QueueShape /\ [Next]_vars => QueueShape'
<1> SUFFICES ASSUME QueueShape, [Next]_vars PROVE QueueShape'
  OBVIOUS
<1> USE DEF QueueShape
<1>1. ASSUME NEW t \in Types, Wake(t) PROVE QueueShape'
  BY <1>1 DEF Wake, queueVars
<1>2. CASE ReadRecord
  BY <1>2 DEF ReadRecord, queueVars
<1>3. CASE StopReading
  BY <1>3 DEF StopReading, EndOfDrain, queueVars
<1>4. CASE Submit
  BY <1>4 DEF Submit, Push, queueVars
<1>5. CASE WriteDirectly
  BY <1>5 DEF WriteDirectly, queueVars
<1>6. CASE FlushDone
  BY <1>6 DEF FlushDone, queueVars
<1>7. CASE FlushRound
  <2>1. PICK q : queue' = [queue EXCEPT ![typ] = q]
    BY <1>7 DEF FlushRound
  <2>2. typ' = typ /\ pc' = pc /\ pc # "idle"
    BY <1>7 DEF FlushRound, drainVars
  <2> QED BY <2>1, <2>2
<1>8. CASE UNCHANGED <<typ, pc, queue>>
  BY <1>8
<1>9. ASSUME NEW t \in Types, NEW m \in Messages, WorkerLog(t, m) PROVE UNCHANGED <<typ, pc, queue>>
  BY <1>9 DEF WorkerLog, drainVars, queueVars
<1>10. CASE AskForFork \/ Fork \/ ReopenClose \/ ReopenOpen
  BY <1>10, <1>8 DEF AskForFork, Fork, ReopenClose, ReopenOpen, drainVars, queueVars
<1>11. CASE UNCHANGED vars
  BY <1>11, <1>8 DEF vars, drainVars, queueVars
<1> QED BY <1>1, <1>2, <1>3, <1>4, <1>5, <1>6, <1>7, <1>8, <1>9, <1>10, <1>11 DEF Next, LoggerStep

\* A worker is forked only when nothing is buffered: upsgi_respawn_worker()
\* forks under threaded_logger_lock, which the logger holds until it has
\* written its queue out, so a child never writes the records of its parent.
THEOREM ForkIsClean == Spec => ForkInheritsNothing
<1>1. QueueShape /\ [Next]_vars => [forks' # forks => \A t \in Types : queue[t] = <<>>]_vars
  <2> SUFFICES ASSUME QueueShape, Next, forks' # forks
               PROVE  \A t \in Types : queue[t] = <<>>
    OBVIOUS
  <2>1. CASE Fork
    BY <2>1 DEF Fork, QueueShape
  <2>2. ASSUME NEW t \in Types, NEW m \in Messages, WorkerLog(t, m) PROVE FALSE
    BY <2>2 DEF WorkerLog, masterVars
  <2>3. CASE LoggerStep \/ FlushRound
    BY <2>3 DEF LoggerStep, FlushRound, Wake, ReadRecord, StopReading, Submit, WriteDirectly, FlushDone, masterVars
  <2>4. CASE AskForFork \/ ReopenClose \/ ReopenOpen
    BY <2>4 DEF AskForFork, ReopenClose, ReopenOpen
  <2> QED BY <2>1, <2>2, <2>3, <2>4 DEF Next
<1> QED BY <1>1, ShapeInit, ShapeStep, PTL DEF Spec, ForkInheritsNothing

-----------------------------------------------------------------------------
\* Every queue is a sequence.
QueuesAreSeqs == \A t \in Types : \E S : queue[t] \in Seq(S)

\* upsgi_log_queue_consume_written() drops no more items than there are.
LEMMA PoppedNat ==
  ASSUME NEW S, NEW q \in Seq(S), NEW n
  PROVE  Popped(q, n) \in Nat /\ Popped(q, n) <= Len(q)
<1> DEFINE P == {i \in DOMAIN q : Before(q, i) < n /\ Before(q, i + 1) <= n}
<1>1. Len(q) \in Nat /\ DOMAIN q = 1..Len(q)
  OBVIOUS
<1>2. IsFiniteSet(1..Len(q)) /\ Cardinality(1..Len(q)) = Len(q)
  BY <1>1, FS_Interval
<1>3. P \subseteq 1..Len(q)
  BY <1>1
<1>4. IsFiniteSet(P) /\ Cardinality(P) <= Cardinality(1..Len(q))
  BY <1>2, <1>3, FS_Subset
<1>5. Cardinality(P) \in Nat
  BY <1>4, FS_CardinalityType
<1> QED BY <1>2, <1>4, <1>5 DEF Popped

\* What is left of a queue is no longer than it was, and only its first item
\* is partly written.
LEMMA ConsumeShape ==
  ASSUME NEW S, NEW q \in Seq(S), NEW n,
         \A i \in 2..Len(q) : q[i].pos = 0
  PROVE  /\ \E R : Consume(q, n) \in Seq(R)
         /\ Len(Consume(q, n)) <= Len(q)
         /\ \A i \in 2..Len(Consume(q, n)) : Consume(q, n)[i].pos = 0
<1>1. PICK k : k = Popped(q, n)
  OBVIOUS
<1>2. k \in Nat /\ k <= Len(q) /\ Len(q) \in Nat
  BY <1>1, PoppedNat
<1>3. PICK b : b = [q[k + 1] EXCEPT !.pos = @ + n - Before(q, k + 1)]
  OBVIOUS
<1>4. PICK c : c = (n > Before(q, k + 1))
  OBVIOUS
<1>5. Consume(q, n) = [i \in 1..(Len(q) - k) |-> IF i = 1 /\ c THEN b ELSE q[k + i]]
  BY <1>1, <1>3, <1>4 DEF Consume
<1>6. Len(q) - k \in Nat
  BY <1>2
<1>7. \A i \in 1..(Len(q) - k) : q[k + i] \in S
  BY <1>2
<1>8. Consume(q, n) \in Seq(S \cup {b}) /\ Len(Consume(q, n)) = Len(q) - k
  BY <1>5, <1>6, <1>7
<1>9. \A i \in 2..(Len(q) - k) : Consume(q, n)[i] = q[k + i] /\ k + i \in 2..Len(q)
  BY <1>2, <1>5
<1> QED BY <1>2, <1>8, <1>9

\* upsgi_log_queue_push() adds one item that is untouched.
LEMMA AppendShape ==
  ASSUME NEW S, NEW q \in Seq(S), NEW e, e.pos = 0,
         \A i \in 2..Len(q) : q[i].pos = 0
  PROVE  /\ \E R : Append(q, e) \in Seq(R)
         /\ Len(Append(q, e)) = Len(q) + 1
         /\ \A i \in 2..Len(Append(q, e)) : Append(q, e)[i].pos = 0
<1>1. q \in Seq(S \cup {e}) /\ e \in S \cup {e}
  OBVIOUS
<1>2. Append(q, e) \in Seq(S \cup {e}) /\ Len(Append(q, e)) = Len(q) + 1 /\ Len(q) \in Nat
  BY <1>1
<1>3. \A i \in 1..(Len(q) + 1) : Append(q, e)[i] = IF i <= Len(q) THEN q[i] ELSE e
  BY <1>1
<1> QED BY <1>2, <1>3

\* The inductive invariant behind the bound.
RecordsInv == QueueShape /\ QueuesAreSeqs /\ RecordsBounded

\* Every step keeps it: a push finds room or is of a record larger than the
\* queue, which goes to the flush that empties it; a flush only shortens it.
LEMMA RecordsStep == RecordsInv /\ [Next]_vars => RecordsInv'
<1> SUFFICES ASSUME RecordsInv, [Next]_vars PROVE QueuesAreSeqs' /\ RecordsBounded'
  BY ShapeStep DEF RecordsInv
<1> USE DEF RecordsInv
<1>0. QueueShape'
  BY ShapeStep
<1>1. RecordsCap \in Nat
  BY CapAssumption
<1>2. ASSUME queue' = queue, pc' = pc \/ pc' = "flush" \/ pc # "flush" \/ \A t \in Types : queue[t] = <<>>
      PROVE  QueuesAreSeqs' /\ RecordsBounded'
  <2>1. QueuesAreSeqs'
    BY <1>2 DEF QueuesAreSeqs
  <2>2. \A t \in Types : Len(queue[t]) \in Nat
    BY DEF QueuesAreSeqs
  <2>3. Len(<<>>) = 0
    OBVIOUS
  <2> QED BY <1>1, <1>2, <2>1, <2>2, <2>3 DEF RecordsBounded
<1>3. ASSUME NEW q, queue' = [queue EXCEPT ![typ] = q], \E S : q \in Seq(S),
             Len(q) <= RecordsCap + (IF pc' = "flush" THEN 1 ELSE 0),
             \A i \in 2..Len(q) : q[i].pos = 0,
             pc' = "flush" \/ pc # "flush"
      PROVE  QueuesAreSeqs' /\ RecordsBounded'
  <2>1. \A t \in Types : queue'[t] = IF t = typ THEN q ELSE queue[t]
    BY <1>3 DEF QueueShape
  <2>2. QueuesAreSeqs'
    BY <1>3, <2>1 DEF QueuesAreSeqs
  <2>3. \A t \in Types : Len(queue[t]) \in Nat
    BY DEF QueuesAreSeqs
  <2> QED BY <1>1, <1>3, <2>1, <2>2, <2>3 DEF RecordsBounded
<1>4. PICK S : queue[typ] \in Seq(S)
  BY DEF QueuesAreSeqs, QueueShape
<1>5. \A i \in 2..Len(queue[typ]) : queue[typ][i].pos = 0
  BY DEF RecordsBounded, QueueShape
<1>6. CASE Submit
  <2>1. CASE UNCHANGED queue
    BY <1>2, <1>6, <2>1 DEF Submit
  <2>2. CASE Push(Head(todo), cur.len)
    <3>1. PICK e : e = [sink |-> Head(todo), rec |-> cur.rec, len |-> cur.len, pos |-> 0]
      OBVIOUS
    <3>2. e.pos = 0
      BY <3>1
    <3>3. queue' = [queue EXCEPT ![typ] = Append(queue[typ], e)]
      BY <2>2, <3>1 DEF Push
    <3>4. /\ \E R : Append(queue[typ], e) \in Seq(R)
          /\ Len(Append(queue[typ], e)) = Len(queue[typ]) + 1
          /\ \A i \in 2..Len(Append(queue[typ], e)) : Append(queue[typ], e)[i].pos = 0
      BY <1>4, <1>5, <3>2, AppendShape
    <3>5. Len(queue[typ]) \in Nat /\ pc = "work" /\ Len(queue[typ]) <= RecordsCap
      BY <1>1, <1>4, <1>6 DEF Submit, RecordsBounded, QueueShape
    <3>6. pc' = "flush" \/ (pc' = "work" /\ (Len(queue[typ]) < RecordsCap \/ UNCHANGED queue))
      BY <1>6 DEF Submit, HasRoom, queueVars
    <3>7. CASE UNCHANGED queue
      BY <2>1, <3>7
    <3>8. Len(Append(queue[typ], e)) <= RecordsCap + (IF pc' = "flush" THEN 1 ELSE 0) \/ UNCHANGED queue
      BY <1>1, <3>4, <3>5, <3>6
    <3> QED BY <1>3, <3>3, <3>4, <3>5, <3>7, <3>8
  <2> QED BY <1>6, <2>1, <2>2 DEF Submit, queueVars
<1>7. CASE FlushRound
  <2>1. PICK n : queue' = [queue EXCEPT ![typ] = Consume(queue[typ], n)] \/ queue' = [queue EXCEPT ![typ] = queue[typ]]
    BY <1>7 DEF FlushRound
  <2>2. pc' = pc
    BY <1>7 DEF FlushRound, drainVars
  <2>3. /\ \E R : Consume(queue[typ], n) \in Seq(R)
        /\ Len(Consume(queue[typ], n)) <= Len(queue[typ])
        /\ \A i \in 2..Len(Consume(queue[typ], n)) : Consume(queue[typ], n)[i].pos = 0
    BY <1>4, <1>5, ConsumeShape
  <2>4. Len(Consume(queue[typ], n)) \in Nat /\ Len(queue[typ]) \in Nat
    BY <1>4, <2>3
  <2>5. Len(queue[typ]) <= RecordsCap + (IF pc' = "flush" THEN 1 ELSE 0)
    BY <2>2 DEF RecordsBounded, QueueShape
  <2>6. CASE queue' = [queue EXCEPT ![typ] = queue[typ]]
    <3>1. queue' = queue
      BY <2>6 DEF QueueShape
    <3> QED BY <1>2, <2>2, <3>1
  <2>7. CASE queue' = [queue EXCEPT ![typ] = Consume(queue[typ], n)]
    <3>1. Len(Consume(queue[typ], n)) <= RecordsCap + (IF pc' = "flush" THEN 1 ELSE 0)
      BY <1>1, <2>3, <2>4, <2>5
    <3> QED BY <1>3, <2>2, <2>3, <2>7, <3>1
  <2> QED BY <2>1, <2>6, <2>7
<1>8. CASE FlushDone
  <2>1. \A t \in Types : queue[t] = <<>>
    BY <1>8 DEF FlushDone, QueueShape
  <2> QED BY <1>2, <1>8, <2>1 DEF FlushDone, queueVars
<1>9. ASSUME NEW t \in Types, Wake(t) PROVE QueuesAreSeqs' /\ RecordsBounded'
  BY <1>2, <1>9 DEF Wake, queueVars
<1>10. CASE ReadRecord \/ StopReading \/ WriteDirectly
  BY <1>2, <1>10 DEF ReadRecord, StopReading, WriteDirectly, queueVars
<1>11. ASSUME NEW t \in Types, NEW m \in Messages, WorkerLog(t, m) PROVE QueuesAreSeqs' /\ RecordsBounded'
  BY <1>2, <1>11 DEF WorkerLog, drainVars, queueVars
<1>12. CASE AskForFork \/ Fork \/ ReopenClose \/ ReopenOpen
  BY <1>2, <1>12 DEF AskForFork, Fork, ReopenClose, ReopenOpen, drainVars, queueVars
<1>13. CASE UNCHANGED vars
  BY <1>2, <1>13 DEF vars, drainVars, queueVars
<1> QED BY <1>6, <1>7, <1>8, <1>9, <1>10, <1>11, <1>12, <1>13 DEF Next, LoggerStep

\* A queue never holds more than records_cap records, but for the one that is
\* larger than the whole queue while upsgi_log_queue_submit() flushes it; and
\* only its first record is partly written, so a batch of flush_blocking()
\* starts where the last write ended.
THEOREM QueueIsBounded == Spec => []RecordsBounded
<1>1. Init => RecordsInv
  <2> SUFFICES ASSUME Init PROVE QueuesAreSeqs /\ RecordsBounded
    BY ShapeInit DEF RecordsInv
  <2>1. \A t \in Types : queue[t] = <<>>
    BY DEF Init
  <2>2. Len(<<>>) = 0 /\ <<>> \in Seq({}) /\ RecordsCap \in Nat
    BY CapAssumption
  <2>3. QueuesAreSeqs
    BY <2>1, <2>2, Zenon DEF QueuesAreSeqs
  <2>4. \A t \in Types : Len(queue[t]) = 0
    BY <2>1, <2>2
  <2> QED BY <2>2, <2>3, <2>4 DEF RecordsBounded
<1> QED BY <1>1, RecordsStep, PTL DEF Spec, RecordsInv
=============================================================================
