------------------------------- MODULE LogQueue -------------------------------
(***************************************************************************)
(* The log pipeline of core/logging.c: workers write records into a        *)
(* non-blocking packet socket, the logger thread (or the master) drains it *)
(* in bursts, routes each record to its sinks and, with the log queue on,  *)
(* buffers the encoded records in a bounded queue that is written out with *)
(* partial writes, batches and sink recovery. The master forks workers and *)
(* reopens the log file meanwhile.                                         *)
(*                                                                         *)
(* A record is a number and a length; its bytes are <<record, index>>.     *)
(***************************************************************************)
EXTENDS Integers, Sequences, SequencesExt

CONSTANTS
    Kind,         \* function from sinks (struct upsgi_logger) to their type
    Chain,        \* unnamed loggers of each log: [Types -> Seq(sinks)]
    Messages,     \* what workers log: [len, rule, route]
    Growth,       \* bytes the encoders add to a record
    Prefix,       \* bytes of the prefix of a socket logger
    RecordsCap,   \* queue->records_cap
    BytesCap,     \* queue->bytes_cap
    Burst,        \* upsgi.log_drain_burst
    BatchItems,   \* UPSGI_LOG_QUEUE_BATCH_IOV_MAX
    BatchBytes,   \* UPSGI_LOG_QUEUE_BATCH_BYTES_MAX
    PipeCap,      \* records the socket between workers and logger holds
    MaxRecords,   \* bound: records the workers log
    MaxForks,     \* bound: workers the master forks
    MaxReopens    \* bound: reopenings of the log file

Types == {"log", "req"}
Sinks == DOMAIN Kind
Raw == "raw"      \* no logger: upsgi.original_log_fd

ASSUME SinkAssumption ==
    /\ Raw \in Sinks /\ Kind[Raw] = "raw"
    /\ \A s \in Sinks :
         Kind[s] \in {"raw", "file", "fd", "stdio", "socket", "rsyslog"}
    /\ Chain \in [Types -> Seq(Sinks)]
ASSUME MessageAssumption ==
    \A m \in Messages : /\ m.len \in Nat \ {0}
                        /\ m.rule \in {"show", "drain", "hide"}
                        /\ m.route \in Seq(Sinks)
ASSUME CapAssumption ==
    /\ RecordsCap \in Nat \ {0} /\ BytesCap \in Nat \ {0}
    /\ Burst \in Nat \ {0} /\ BatchItems \in Nat \ {0}
    /\ BatchBytes \in Nat /\ Growth \in Nat /\ Prefix \in Nat
    /\ PipeCap \in Nat /\ MaxRecords \in Nat /\ MaxForks \in Nat
    /\ MaxReopens \in Nat

VARIABLES
    enabled,    \* upsgi.log_queue_enabled, fixed at start
    pipe,       \* records on their way from the workers, per log
    logged,     \* records logged so far
    pc,         \* logger: idle (unlocked), work, flush (in submit), final
    typ,        \* the log it drains
    drained,    \* records drained since it woke up
    cur,        \* the record in log_master_buf
    todo,       \* sinks that still have to get it
    queue,      \* logger_queue and req_logger_queue
    bytes,      \* their bytes counters
    configured, \* ul->configured
    recovery,   \* ul->recovery_needed
    rawOpen,    \* original_log_fd is a valid descriptor
    out,        \* bytes that reached each sink
    accepted,   \* history: records handed to each sink
    dropped,    \* log_dropped_messages
    wantFork, forks, reopens

queueVars == <<queue, bytes>>
sinkVars == <<configured, recovery, out>>
drainVars == <<pc, typ, drained, cur, todo>>
workerVars == <<pipe, logged>>
masterVars == <<rawOpen, wantFork, forks, reopens>>
vars == <<enabled, workerVars, drainVars, queueVars, sinkVars, accepted,
          dropped, masterVars>>

NoRecord == [rec |-> 0, len |-> 0]

Init ==
    /\ enabled \in BOOLEAN
    /\ pipe = [t \in Types |-> <<>>] /\ logged = 0
    /\ pc = "idle" /\ typ = "log" /\ drained = 0
    /\ cur = NoRecord /\ todo = <<>>
    /\ queue = [t \in Types |-> <<>>] /\ bytes = [t \in Types |-> 0]
    /\ configured = [s \in Sinks |-> FALSE]
    /\ recovery = [s \in Sinks |-> FALSE]
    /\ rawOpen = TRUE
    /\ out = [s \in Sinks |-> <<>>] /\ accepted = [s \in Sinks |-> <<>>]
    /\ dropped = 0
    /\ wantFork = FALSE /\ forks = 0 /\ reopens = 0

-----------------------------------------------------------------------------
\* A worker logs a record. Its end of the socket does not block: a record
\* that finds it full is gone before it reaches the logger.
WorkerLog(t, m) ==
    /\ logged < MaxRecords
    /\ logged' = logged + 1
    /\ pipe' = IF Len(pipe[t]) < PipeCap
               THEN [pipe EXCEPT ![t] = Append(@, [rec |-> logged + 1,
                                                   msg |-> m])]
               ELSE pipe
    /\ UNCHANGED <<enabled, drainVars, queueVars, sinkVars, accepted, dropped,
                   masterVars>>

\* logger_thread_loop(): a readable socket, under threaded_logger_lock.
Wake(t) ==
    /\ pc = "idle" /\ pipe[t] # <<>>
    /\ pc' = "work" /\ typ' = t /\ drained' = 0
    /\ UNCHANGED <<enabled, workerVars, cur, todo, queueVars, sinkVars,
                   accepted, dropped, masterVars>>

\* Where a record goes: drain and filter rules hide it (generic log only),
\* routes that match take it, else every unnamed logger, else the raw log.
Targets(t, m) ==
    IF t = "log" /\ m.rule # "show" THEN <<>>
    ELSE IF m.route # <<>> THEN m.route
    ELSE IF Chain[t] # <<>> THEN Chain[t] ELSE <<Raw>>

\* upsgi_master_log(): read one record.
ReadRecord ==
    /\ pc = "work" /\ todo = <<>>
    /\ drained < Burst /\ pipe[typ] # <<>>
    /\ LET r == Head(pipe[typ]) IN
         /\ cur' = [rec |-> r.rec, len |-> r.msg.len + Growth]
         /\ todo' = Targets(typ, r.msg)
    /\ pipe' = [pipe EXCEPT ![typ] = Tail(@)]
    /\ drained' = drained + 1
    /\ UNCHANGED <<enabled, logged, pc, typ, queueVars, sinkVars, accepted,
                   dropped, masterVars>>

\* Mutant: the queue is left as it is at the end of a drain.
FlushLeftOut == "idle"

\* upsgi_master_log_drain(): the burst is over or the socket is empty; what
\* is in the queue is written out before the logger lets go of the lock.
EndOfDrain == "final"

StopReading ==
    /\ pc = "work" /\ todo = <<>>
    /\ drained = Burst \/ pipe[typ] = <<>>
    /\ pc' = EndOfDrain
    /\ cur' = NoRecord
    /\ UNCHANGED <<enabled, workerVars, typ, drained, todo, queueVars,
                   sinkVars, accepted, dropped, masterVars>>

-----------------------------------------------------------------------------
\* Calls of ul->func (or write() and writev()): what it returns, the bytes
\* that reach the sink, whether it leaves the sink configured, and whether
\* the error is one upsgi_log_sink_should_recover() knows.
Result(ret, put, conf, lost) ==
    [ret |-> ret, put |-> put, conf |-> conf, lost |-> lost]
Stream(n, conf) ==
    {Result(k, k, conf, FALSE) : k \in 1..n} \cup {Result(-1, 0, conf, FALSE)}
Unreachable(conf) == Result(-1, 0, conf, TRUE)

\* upsgi_rsyslog_logger() drops the newline every record ends with and
\* returns the bytes it took.
Rsyslog(n) == Result(n - 1, n - 1, TRUE, FALSE)

\* ready: the sink is configured when the call is made.
Func(s, n, ready) ==
    CASE Kind[s] = "raw" -> IF rawOpen THEN Stream(n, TRUE)
                                       ELSE {Unreachable(TRUE)}
      [] Kind[s] = "file" -> Stream(n, TRUE) \cup {Unreachable(TRUE)}
                             \cup (IF ready THEN {}
                                   ELSE {Result(0, 0, FALSE, FALSE)})
      [] Kind[s] = "fd" -> Stream(n, TRUE) \cup {Unreachable(TRUE)}
      [] Kind[s] = "stdio" -> Stream(n, FALSE) \cup {Unreachable(FALSE)}
      [] Kind[s] = "socket" -> {Result(Prefix + n, n, TRUE, FALSE),
                                Result(-1, 0, TRUE, FALSE), Unreachable(TRUE)}
      [] Kind[s] = "rsyslog" -> {Rsyslog(n), Result(-1, 0, TRUE, FALSE),
                                 Unreachable(TRUE)}

HasReset(s) == Kind[s] \in {"file", "socket", "rsyslog"}

\* upsgi_log_sink_write() and upsgi_log_sink_writev(): a sink in recovery is
\* reset first, and a lost one is reset and tried once more.
SinkWrite(s, n) ==
    LET first == Func(s, n, configured[s] /\ ~(recovery[s] /\ HasReset(s)))
        again == {r \in first : r.lost /\ HasReset(s)}
        Ended(r, rec) == [ret |-> r.ret, put |-> r.put, conf |-> r.conf,
                          rec |-> rec /\ r.ret # n]
    IN {Ended(r, recovery[s]) : r \in first \ again}
       \cup {Ended(r, TRUE) : r \in IF again = {} THEN {}
                                    ELSE Func(s, n, FALSE)}

-----------------------------------------------------------------------------
\* upsgi_log_queue_has_room()
HasRoom(len) ==
    Len(queue[typ]) < RecordsCap /\ bytes[typ] + len <= BytesCap

\* upsgi_log_queue_push()
Push(s, len) ==
    /\ queue' = [queue EXCEPT ![typ] =
                   Append(@, [sink |-> s, rec |-> cur.rec, len |-> len,
                              pos |-> 0])]
    /\ bytes' = [bytes EXCEPT ![typ] = @ + len]
    /\ accepted' = [accepted EXCEPT ![s] = Append(@, cur)]
    /\ todo' = Tail(todo)

\* upsgi_log_queue_submit(): a record larger than the queue is pushed anyway
\* and flushed at once, one that finds no room flushes the queue first.
Submit ==
    /\ pc = "work" /\ todo # <<>> /\ enabled
    /\ \/ /\ cur.len > BytesCap
          /\ Push(Head(todo), cur.len)
          /\ pc' = "flush"
       \/ /\ cur.len <= BytesCap /\ ~HasRoom(cur.len)
          /\ pc' = "flush"
          /\ UNCHANGED <<todo, queueVars, accepted>>
       \/ /\ cur.len <= BytesCap /\ HasRoom(cur.len)
          /\ Push(Head(todo), cur.len)
          /\ pc' = pc
    /\ UNCHANGED <<enabled, workerVars, typ, drained, cur, sinkVars, dropped,
                   masterVars>>

\* The n bytes a write hands to the sink, of those in front of the queue.
Bytes(i) == [k \in 1..(i.len - i.pos) |-> <<i.rec, i.pos + k>>]
Pending(q) == FlattenSeq([i \in DOMAIN q |-> Bytes(q[i])])

WrittenToSink(s, put, from) ==
    out' = [out EXCEPT ![s] = @ \o SubSeq(from, 1, put)]

\* upsgi_log_record_sink_issue(): an error or a short write is a drop.
Issue(ret, len) == ret # len

\* upsgi_log_func_do() without the queue: one attempt per sink.
WriteDirectly ==
    /\ pc = "work" /\ todo # <<>> /\ ~enabled
    /\ LET s == Head(todo) IN
         \E r \in SinkWrite(s, cur.len) :
            /\ WrittenToSink(s, r.put, Bytes([rec |-> cur.rec,
                                              len |-> cur.len, pos |-> 0]))
            /\ configured' = [configured EXCEPT ![s] = r.conf]
            /\ recovery' = [recovery EXCEPT ![s] = r.rec]
            /\ dropped' = dropped + (IF Issue(r.ret, cur.len) THEN 1 ELSE 0)
            /\ accepted' = [accepted EXCEPT ![s] = Append(@, cur)]
    /\ todo' = Tail(todo)
    /\ UNCHANGED <<enabled, workerVars, pc, typ, drained, cur, queueVars,
                   masterVars>>

-----------------------------------------------------------------------------
Total(q, Size(_)) == FoldLeft(LAMBDA sum, i : sum + Size(i), 0, q)
Left(i) == i.len - i.pos
Before(q, i) == Total(SubSeq(q, 1, i - 1), Left)

\* The first item only, or the batch of flush_blocking(): items of one sink,
\* none of them started, within the limits of a batch.
Batch(q) ==
    Max({n \in 1..Len(q) :
           /\ n <= BatchItems
           /\ \A i \in 1..n : q[i].sink = q[1].sink /\ q[i].pos = 0
           /\ n > 1 => Before(q, n + 1) <= BatchBytes} \cup {1})

\* upsgi_log_queue_consume_written(): drop the items that are covered and
\* move the position of the one that is not.
Popped(q, n) ==
    Cardinality({i \in DOMAIN q : Before(q, i) < n /\ Before(q, i + 1) <= n})

\* Mutant: the position is set, not moved.
ConsumeNextFromStart(q, n) ==
    LET k == Popped(q, n) IN
    [i \in 1..(Len(q) - k) |->
       IF i = 1 /\ n > Before(q, k + 1)
       THEN [q[k + 1] EXCEPT !.pos = n - Before(q, k + 1)]
       ELSE q[k + i]]

Consume(q, n) ==
    LET k == Popped(q, n) IN
    [i \in 1..(Len(q) - k) |->
       IF i = 1 /\ n > Before(q, k + 1)
       THEN [q[k + 1] EXCEPT !.pos = @ + n - Before(q, k + 1)]
       ELSE q[k + i]]

\* The bytes counter goes down by the whole length of an item that goes.
Released(q, n) == Total(SubSeq(q, 1, Popped(q, n)), LAMBDA i : i.len)

\* upsgi_log_sink_prepare_batchable() may have to open the file first. (A
\* socket logger that is not configured gets an empty datagram from it, which
\* carries no byte.)
Batchable(s) ==
    CASE Kind[s] = "raw" -> {rawOpen}
      [] Kind[s] = "file" -> IF configured[s] THEN {TRUE} ELSE BOOLEAN
      [] Kind[s] = "fd" -> {TRUE}
      [] OTHER -> {FALSE}

\* One round of upsgi_log_queue_flush_blocking(): a write that takes nothing
\* is repeated after a pause.
FlushRound ==
    /\ pc \in {"flush", "final"} /\ queue[typ] # <<>>
    /\ LET q == queue[typ]
           s == q[1].sink
       IN \E batch \in Batchable(s) :
          \E r \in SinkWrite(s, IF batch THEN Before(q, Batch(q) + 1)
                                         ELSE Left(q[1])) :
             /\ WrittenToSink(s, r.put, Pending(q))
             /\ configured' = [configured EXCEPT ![s] = r.conf]
             /\ recovery' = [recovery EXCEPT ![s] = r.rec]
             /\ queue' = [queue EXCEPT ![typ] = IF r.ret > 0
                                                THEN Consume(q, r.ret) ELSE q]
             /\ bytes' = [bytes EXCEPT ![typ] =
                            IF r.ret > 0
                            THEN @ - Released(q, r.ret) ELSE @]
    /\ UNCHANGED <<enabled, workerVars, drainVars, accepted, dropped,
                   masterVars>>

\* Mutant: the lock is not given back.
FlushDoneKeepsLock ==
    /\ pc \in {"flush", "final"} /\ queue[typ] = <<>>
    /\ pc' = "work"
    /\ UNCHANGED <<enabled, workerVars, typ, drained, cur, todo, queueVars,
                   sinkVars, accepted, dropped, masterVars>>

\* The queue is empty: back to the submit that asked for room, or unlock.
FlushDone ==
    /\ pc \in {"flush", "final"} /\ queue[typ] = <<>>
    /\ pc' = IF pc = "flush" THEN "work" ELSE "idle"
    /\ UNCHANGED <<enabled, workerVars, typ, drained, cur, todo, queueVars,
                   sinkVars, accepted, dropped, masterVars>>

-----------------------------------------------------------------------------
\* upsgi_respawn_worker() takes threaded_logger_lock around fork(), so that
\* the child does not inherit a logger in the middle of something.
AskForFork ==
    /\ ~wantFork /\ forks < MaxForks
    /\ wantFork' = TRUE
    /\ UNCHANGED <<enabled, workerVars, drainVars, queueVars, sinkVars,
                   accepted, dropped, rawOpen, forks, reopens>>

Fork ==
    /\ wantFork /\ pc = "idle"
    /\ wantFork' = FALSE /\ forks' = forks + 1
    /\ UNCHANGED <<enabled, workerVars, drainVars, queueVars, sinkVars,
                   accepted, dropped, rawOpen, reopens>>

\* upsgi_log_reopen(), which takes no lock: close, then open.
ReopenClose ==
    /\ rawOpen /\ ~wantFork /\ reopens < MaxReopens
    /\ rawOpen' = FALSE /\ reopens' = reopens + 1
    /\ UNCHANGED <<enabled, workerVars, drainVars, queueVars, sinkVars,
                   accepted, dropped, wantFork, forks>>

ReopenOpen ==
    /\ ~rawOpen
    /\ rawOpen' = TRUE
    /\ UNCHANGED <<enabled, workerVars, drainVars, queueVars, sinkVars,
                   accepted, dropped, wantFork, forks, reopens>>

LoggerStep ==
    \/ \E t \in Types : Wake(t)
    \/ ReadRecord \/ StopReading \/ Submit \/ WriteDirectly \/ FlushDone

Next ==
    \/ \E t \in Types, m \in Messages : WorkerLog(t, m)
    \/ LoggerStep \/ FlushRound
    \/ AskForFork \/ Fork \/ ReopenClose \/ ReopenOpen

Spec == Init /\ [][Next]_vars

\* A round in which the sink takes something.
FlushProgress == FlushRound /\ queue' # queue

\* The logger and the master keep running; a sink that is tried over and over
\* takes something in the end.
Fairness ==
    /\ WF_vars(LoggerStep) /\ SF_vars(FlushProgress)
    /\ WF_vars(Fork) /\ WF_vars(ReopenOpen)

FairSpec == Spec /\ Fairness

-----------------------------------------------------------------------------
\* Records, queues and sinks keep their types; the bytes counter of a queue,
\* unsigned in the code, never goes below 0.
TypeOK ==
    /\ enabled \in BOOLEAN /\ rawOpen \in BOOLEAN /\ wantFork \in BOOLEAN
    /\ pipe \in [Types -> Seq([rec : Nat, msg : Messages])]
    /\ pc \in {"idle", "work", "flush", "final"}
    /\ typ \in Types /\ drained \in 0..Burst
    /\ cur \in [rec : Nat, len : Nat] /\ todo \in Seq(Sinks)
    /\ queue \in [Types -> Seq([sink : Sinks, rec : Nat, len : Nat,
                                pos : Nat])]
    /\ bytes \in [Types -> Nat]
    /\ configured \in [Sinks -> BOOLEAN] /\ recovery \in [Sinks -> BOOLEAN]
    /\ dropped \in Nat /\ logged \in Nat /\ forks \in Nat /\ reopens \in Nat

\* The queue is lossless: what a sink got, followed by what is queued for it,
\* is every byte of every record handed to it, once and in order, whatever
\* short writes, batches, errors and recoveries happened.
Lossless ==
    enabled =>
      \A s \in Sinks :
        LET Mine(q) == SelectSeq(q, LAMBDA i : i.sink = s)
            all == [i \in DOMAIN accepted[s] |->
                      Bytes([rec |-> accepted[s][i].rec,
                             len |-> accepted[s][i].len, pos |-> 0])]
        IN out[s] \o Pending(Mine(queue["log"])) \o Pending(Mine(queue["req"]))
             = FlattenSeq(all)

\* The queue keeps its limits and its counters: only one record that is
\* larger than the whole queue may exceed them, and only while it is flushed.
QueueBounded ==
    \A t \in Types :
        /\ bytes[t] = Total(queue[t], LAMBDA i : i.len)
        /\ \/ Len(queue[t]) <= RecordsCap /\ bytes[t] <= BytesCap
           \/ /\ pc = "flush"
              /\ Last(queue[t]).len > BytesCap
              /\ Len(queue[t]) <= RecordsCap + 1

\* A queue holds records_cap records at most, and one more only while the
\* record that is larger than the whole queue is flushed; only its first record
\* is partly written, the others are untouched.
RecordsBounded ==
    \A t \in Types :
        /\ Len(queue[t]) <= RecordsCap + (IF pc = "flush" THEN 1 ELSE 0)
        /\ \A i \in 2..Len(queue[t]) : queue[t][i].pos = 0

\* Without the queue a record that does not reach its sink whole is counted
\* as dropped, and no other is.
DropsCounted ==
    ~enabled =>
      dropped = FoldLeft(LAMBDA n, s : n +
        Cardinality({i \in DOMAIN accepted[s] :
          \E k \in 1..accepted[s][i].len :
             <<accepted[s][i].rec, k>> \notin Range(out[s])}), 0,
        SetToSeq(Sinks))

\* A worker is forked only when nothing is buffered: its copy of the queues,
\* which it would write out again, is empty.
ForkInheritsNothing ==
    [][forks' # forks => \A t \in Types : queue[t] = <<>>]_vars

\* Every record that reached the logger reaches its sinks (or is given up,
\* without the queue), also when a sink stalls or has to be reopened.
EveryRecordFlushed == []<>(\A t \in Types : pipe[t] = <<>> /\ queue[t] = <<>>)

\* Logging delays a fork, but not for ever.
ForkGoesAhead == []<>~wantFork

\* Every record is accounted for: all of its bytes are with the sink or in the
\* queue, within the limits of the queue, or it is counted as dropped.
RecordsAccounted == TypeOK /\ Lossless /\ QueueBounded /\ RecordsBounded /\ DropsCounted

\* The logger goes on: records reach their sinks, and the master is not kept
\* from forking.
LoggerGoesOn == EveryRecordFlushed /\ ForkGoesAhead
=============================================================================
