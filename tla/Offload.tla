------------------------------ MODULE Offload ------------------------------
(***************************************************************************)
(* The engines of the offload thread that relay bytes (core/offload.c):    *)
(* memory to the client, a pipe to the client, and the two-way transfer    *)
(* between the client "s" and a backend "fd".  The thread takes a batch of *)
(* ready descriptors, so an event may be stale by the time it is handled.  *)
(***************************************************************************)
EXTENDS Bench, Integers, Sequences, SequencesExt, FiniteSetsExt

CONSTANTS OffRequest,   \* what is sent first: ubuf, or the memory
          OffClient,    \* what the client sends
          OffBackend,   \* what the backend, or the pipe, delivers
          OffBuf        \* the buffer of 4096 bytes

Engines == {"memory", "pipe", "transfer"}
Sides == {"s", "fd"}
Other(x) == IF x = "s" THEN "fd" ELSE "s"

OffloadInit ==
    /\ kind = "offload"
    /\ \E e \in Engines, request \in {<<>>, OffRequest} :
        st = [pc |-> "worker", engine |-> e, request |-> request, status |-> 0, written |-> 0, buf |-> <<>>,
              src |-> [s |-> OffClient, fd |-> OffBackend], out |-> [s |-> <<>>, fd |-> <<>>],
              mon |-> [s |-> "none", fd |-> "none"], batch |-> <<>>, end |-> "no"]

-----------------------------------------------------------------------------
\* The worker: the engine's prepare_func, then the queue of the thread.
PrepareFails == st.engine = "memory" /\ st.request = <<>>

\* upsgi_offload_run gives the client away only if the task was queued.
OffloadRun ==
    /\ At("offload") /\ st.pc = "worker" /\ ~PrepareFails
    /\ st' = [st EXCEPT !.pc = "queued"]

\* prepare_func, connect() or the write to the thread failed: fd_closed is 0
\* again, the client stays with the worker.
OffloadRefused ==
    /\ At("offload") /\ st.pc = "worker"
    /\ st' = [st EXCEPT !.pc = "ended"]

\* event_func for the first time, with fd -1: what is waited for first.
FirstEvent ==
    /\ At("offload") /\ st.pc = "queued"
    /\ st' = [st EXCEPT !.pc = "wait",
                        !.mon = CASE st.engine = "memory" -> [s |-> "write", fd |-> "none"]
                                  [] st.engine = "pipe" -> [s |-> "none", fd |-> "read"]
                                  [] st.engine = "transfer" -> [s |-> "none", fd |-> "write"]]

-----------------------------------------------------------------------------
\* event_queue_wait_multi: some of the monitored descriptors, in any order.
WaitMulti ==
    /\ At("offload") /\ st.pc = "wait" /\ st.batch = <<>>
    /\ \E X \in SUBSET {x \in Sides : st.mon[x] # "none"} : \E b \in SetToSeqs(X) :
        b # <<>> /\ st' = [st EXCEPT !.batch = b]

Event(x) == At("offload") /\ st.pc = "wait" /\ st.batch # <<>> /\ Head(st.batch) = x
Handled == [st EXCEPT !.batch = Tail(@)]
InState(e, s) == st.engine = e /\ st.status = s

\* upsgi_offload_close: the events left in the batch find no task.
OffEnded(t, why) == [t EXCEPT !.pc = "ended", !.batch = <<>>, !.mon = [s |-> "none", fd |-> "none"], !.end = why]

\* upsgi_offload_retry, or an error of read() and write().
OffAgain == \E x \in Sides : Event(x) /\ ~InState("transfer", 0) /\ st' = Handled
OffFails == \E x \in Sides : Event(x) /\ st' = OffEnded(Handled, "error")

\* The next piece of the request goes to `to`.
SendPiece(to, n) ==
    [Handled EXCEPT !.out[to] = @ \o SubSeq(st.request, st.written + 1, st.written + n), !.written = @ + n]

AllSent(t) == t.written >= Len(t.request)

MemoryDo ==
    /\ Event("s") /\ st.engine = "memory"
    /\ \E n \in 1..(Len(st.request) - st.written) : \E t \in {SendPiece("s", n)} :
        st' = IF AllSent(t) THEN OffEnded(t, "done") ELSE t

\* Connected, with nothing or everything sent: both sides are read.
BothRead(t) == [t EXCEPT !.status = 2, !.mon = [s |-> "read", fd |-> "read"]]

TransferConnected ==
    /\ Event("fd") /\ st.engine = "transfer" /\ st.status \in {0, 1}
    /\ IF st.request = <<>> THEN st' = BothRead(Handled)
       ELSE \E n \in 1..(Len(st.request) - st.written) : \E t \in {SendPiece("fd", n)} :
                st' = IF AllSent(t) THEN BothRead(t) ELSE [t EXCEPT !.status = 1]

\* connect() is over, the first write would block: status 1 is kept.
TransferConnectedAgain ==
    /\ Event("fd") /\ st.engine = "transfer" /\ st.status \in {0, 1} /\ st.request # <<>>
    /\ st' = [Handled EXCEPT !.status = 1]

\* upsgi_offload_0r_1w: stop reading here, write there.
ReadThenWrite(t, from) == [t EXCEPT !.mon[from] = "none", !.mon[Other(from)] = "write"]

\* Up to a buffer is read from one side; an end of file ends the task.
ReadSide(from, status) ==
    IF st.src[from] = <<>> THEN st' = OffEnded(Handled, "eof")
    ELSE \E n \in 1..Min({OffBuf, Len(st.src[from])}) :
            st' = ReadThenWrite([Handled EXCEPT !.buf = SubSeq(st.src[from], 1, n),
                                                !.src[from] = SubSeq(@, n + 1, Len(@)), !.status = status], from)

TransferRead ==
    \/ Event("fd") /\ InState("transfer", 2) /\ ReadSide("fd", 3)
    \/ Event("s") /\ InState("transfer", 2) /\ ReadSide("s", 4)

PipeRead == Event("fd") /\ InState("pipe", 0) /\ ReadSide("fd", 1)

\* n bytes of the buffer are written, pos and to_write move.
WritePiece(to, n) ==
    [Handled EXCEPT !.out[to] = @ \o SubSeq(st.buf, 1, n), !.buf = SubSeq(@, n + 1, Len(@))]

\* The whole buffer is written: both sides are read again.
RelayPiece(t) == IF t.buf = <<>> THEN BothRead(t) ELSE t

\* In status 3 and 4 the event's descriptor is not looked at.
TransferWrite ==
    \/ /\ \E x \in Sides : Event(x)
       /\ InState("transfer", 3) /\ \E n \in 1..Len(st.buf) : st' = RelayPiece(WritePiece("s", n))
    \/ /\ \E x \in Sides : Event(x)
       /\ InState("transfer", 4) /\ \E n \in 1..Len(st.buf) : st' = RelayPiece(WritePiece("fd", n))

PipeWrite ==
    /\ \E x \in Sides : Event(x)
    /\ InState("pipe", 1)
    /\ \E n \in 1..Len(st.buf) : \E t \in {WritePiece("s", n)} :
        st' = IF t.buf = <<>> THEN [t EXCEPT !.status = 0, !.mon = [s |-> "none", fd |-> "read"]] ELSE t

OffloadIdle == At("offload") /\ st.pc = "ended" /\ UNCHANGED st

OffloadNext ==
    \/ OffloadRun \/ OffloadRefused \/ FirstEvent \/ WaitMulti \/ OffAgain \/ OffFails \/ MemoryDo
    \/ TransferConnected \/ TransferConnectedAgain \/ TransferRead \/ PipeRead \/ TransferWrite \/ PipeWrite
    \/ OffloadIdle

-----------------------------------------------------------------------------
OffTaken(x) == LET all == IF x = "s" THEN OffClient ELSE OffBackend IN SubSeq(all, 1, Len(all) - Len(st.src[x]))
Pending(to) ==
    LET writing == IF st.engine = "pipe" THEN to = "s" ELSE to = IF st.status = 3 THEN "s" ELSE "fd"
    IN  IF writing THEN st.buf ELSE <<>>

\* What a side has been sent, with what is in the buffer for it, is exactly
\* what was read from the other side (behind the request, on the backend), in
\* order, whatever pieces reads and writes are cut in and whatever order the
\* events of a batch come in; a task that ends at an end of file has nothing
\* left in its buffer.
RelayedInOrder ==
    kind = "offload" =>
        /\ IF st.engine = "memory" THEN st.out.s = SubSeq(st.request, 1, st.written)
           ELSE st.out.s \o Pending("s") = OffTaken("fd")
        /\ st.engine = "transfer" => st.out.fd \o Pending("fd") = SubSeq(st.request, 1, st.written) \o OffTaken("s")
        /\ st.end = "eof" => st.buf = <<>>
        /\ st.end = "done" => st.out.s = st.request

\* A task that waits monitors exactly what its next step needs: it is neither
\* forgotten with no descriptor monitored, nor woken for ever by a side it is
\* not going to read.
MonitorsWhatItNeeds ==
    kind = "offload" /\ st.pc = "wait" =>
        CASE st.engine = "memory" -> st.mon = [s |-> "write", fd |-> "none"]
          [] st.engine = "pipe" -> st.mon = IF st.buf = <<>> THEN [s |-> "none", fd |-> "read"] ELSE [s |-> "write", fd |-> "none"]
          [] st.engine = "transfer" ->
                st.mon = CASE st.status < 2 -> [s |-> "none", fd |-> "write"]
                           [] st.status = 2 -> [s |-> "read", fd |-> "read"]
                           [] st.status = 3 -> [s |-> "write", fd |-> "none"]
                           [] st.status = 4 -> [s |-> "none", fd |-> "write"]
=============================================================================
