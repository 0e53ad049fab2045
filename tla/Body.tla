-------------------------------- MODULE Body --------------------------------
(***************************************************************************)
(* Reading a request body: post buffering in memory and on disk            *)
(* (core/reader.c), psgi.input read and seek (core/reader.c,               *)
(* plugins/psgi/psgi_loader.c), the chunked decoder (core/chunked.c), and  *)
(* the body scheduler that bounds every read of the socket.  One core      *)
(* serves one request after the other.                                     *)
(*                                                                         *)
(* The bytes on the wire are numbers: the bytes of the body are 1, 2, ...  *)
(* (so that order and loss are visible), 100 + d is the hex digit d.       *)
(* The client may stall, close or fail at any point; `agains` bounds the   *)
(* stalls.  readline() has no caller in the tree and is not modelled.      *)
(***************************************************************************)
EXTENDS BodyScheduler, SequencesExt

CONSTANTS
    Modes,       \* the requests a client may send, see TypeOK
    Hints,       \* the lengths the application passes to read (0 reads all)
    PageSize, InputLimit,   \* upsgi.page_size, --chunked-input-limit
    BufSize,     \* upsgi.post_buffering_bufsize
    MaxRequests, MaxAgain, MaxTime, MaxCalls

VARIABLES
    mode,    \* the current request and the options it is served under
    pos,     \* how many bytes of the wire the server has taken
    rq,      \* the reader's fields of wsgi_request
    call,    \* the call in progress: [op, remains, out]
    pc,      \* "parse", "app", "chunk", "frame", "recv", "wait", "closed"
    res,     \* the result of the last call: [st, data, from]
    view,    \* the position in the body the application thinks it is at
    s,       \* the scheduler's fields
    now, agains, requests, calls

vars == <<mode, pos, rq, call, pc, res, view, s, now, agains, requests, calls>>

CR == 200
LF == 201
HexValue(digits) == FoldLeft(LAMBDA a, d : 16 * a + (d - 100), 0, digits)
Lost == -1

Chunked == mode.kind = "chunked"
PostCl == IF Chunked THEN 0 ELSE Len(mode.wire)
HasBody == PostCl > 0 \/ Chunked

FreshRequest == [post_pos |-> 0, stored |-> <<>>,
                 cbuf |-> <<>>, cap |-> PageSize, need |-> 0, status |-> 0,
                 clen |-> 0, decap |-> 0, complete |-> FALSE, body |-> <<>>]
Idle == [op |-> "none", remains |-> 0, out |-> <<>>]
NoResult == [st |-> "none", data |-> <<>>, from |-> 0]

FreshSched == [f \in DOMAIN FreshItem \cup DOMAIN FreshCore |->
                  IF f \in DOMAIN FreshItem THEN FreshItem[f] ELSE FreshCore[f]]

Init ==
    /\ mode \in Modes
    /\ pos = 0 /\ rq = FreshRequest /\ call = Idle /\ pc = "parse"
    /\ res = NoResult /\ view = 0 /\ s = FreshSched
    /\ now = 0 /\ agains = 0 /\ requests = 1 /\ calls = 0

-----------------------------------------------------------------------------
\* Results of a call.  After a failed read() the bytes it had already taken
\* are gone, so the application no longer knows where it is.

Return(st, data) ==
    /\ res' = [st |-> st, data |-> data, from |-> view]
    /\ view' = IF view = Lost THEN Lost ELSE view + Len(data)
    /\ call' = Idle
    /\ pc' = "app"

\* A call that fails.  upsgi_chunked_read keeps its parser state, so the next
\* call resumes; the others forget what the failed call had read.
FailCall(st) ==
    IF call.op \in {"mem", "disk"}
    THEN /\ pc' = "closing" /\ call' = Idle /\ UNCHANGED <<res, view>>
    ELSE /\ res' = [st |-> st, data |-> <<>>, from |-> view]
         /\ view' = IF call.op \in {"chunk", "chunk_nb"} THEN view ELSE Lost
         /\ call' = Idle /\ pc' = "app"

\* upsgi_parse_vars: the body is noted while the headers are parsed, then post
\* buffering reads all of it before the application runs.
ParseVars ==
    /\ pc = "parse"
    /\ s' = NoteRequest(s, HasBody, now)
    /\ IF mode.kind \in {"mem", "disk"} /\ PostCl > 0
       THEN call' = [op |-> mode.kind, remains |-> PostCl, out |-> <<>>] /\ pc' = "recv"
       ELSE call' = call /\ pc' = "app"
    /\ UNCHANGED <<mode, pos, rq, res, view, now, agains, requests, calls>>

-----------------------------------------------------------------------------
\* One read of the socket, shared by every loop: budget, read, account.

Requested ==
    CASE call.op = "disk" -> Min({call.remains, BufSize})
      [] call.op \in {"mem", "read"} -> call.remains
      [] OTHER -> rq.cap - Len(rq.cbuf)

Budget == ReadBudget(s, Requested, HasBody, now, mode.sched)

\* What the caller does with n more bytes.
TakeBytes(n) ==
    LET data == SubSeq(mode.wire, pos + 1, pos + n)
        rest == call.remains - n
    IN  CASE call.op \in {"mem", "disk"} ->
                 /\ rq' = [rq EXCEPT !.stored = @ \o data]
                 /\ call' = IF rest = 0 THEN Idle ELSE [call EXCEPT !.remains = rest]
                 /\ pc' = IF rest = 0 THEN "app" ELSE "recv"
                 /\ UNCHANGED <<res, view>>
          [] call.op = "read" ->
                 /\ rq' = [rq EXCEPT !.post_pos = @ + n]
                 /\ IF rest = 0 THEN Return("data", call.out \o data)
                    ELSE /\ call' = [call EXCEPT !.remains = rest, !.out = @ \o data]
                         /\ pc' = "recv" /\ UNCHANGED <<res, view>>
          [] OTHER ->
                 /\ rq' = [rq EXCEPT !.cbuf = @ \o data, !.need = IF n > @ THEN 0 ELSE @ - n]
                 /\ pc' = "frame" /\ UNCHANGED <<call, res, view>>

RecvSome ==
    /\ pc = "recv"
    /\ \E n \in 1..Min({Budget.budget, Len(mode.wire) - pos}) :
        /\ TakeBytes(n)
        /\ s' = NoteBytes(Budget, n, PostCl, now, mode.sched)
        /\ pos' = pos + n
    /\ UNCHANGED <<mode, now, agains, requests, calls>>

\* the client closed the connection, or the socket fails
RecvFails ==
    /\ pc = "recv"
    /\ \E closed \in BOOLEAN :
        s' = IF closed THEN NoteWait(Budget, HasBody, now) ELSE Budget
    /\ FailCall("croak")
    /\ UNCHANGED <<mode, pos, rq, now, agains, requests, calls>>

\* nothing to read yet
RecvAgain ==
    /\ pc = "recv" /\ agains < MaxAgain
    /\ agains' = agains + 1
    /\ s' = NoteWait(Budget, HasBody, now)
    /\ IF call.op = "chunk_nb" THEN FailCall("undef")
       ELSE pc' = "wait" /\ UNCHANGED <<call, res, view>>
    /\ UNCHANGED <<mode, pos, rq, now, requests, calls>>

\* upsgi.wait_read_hook: the client is readable again, --socket-timeout
\* expires, or poll fails.
WaitReady ==
    /\ pc = "wait" /\ pc' = "recv"
    /\ UNCHANGED <<mode, pos, rq, call, res, view, s, now, agains, requests, calls>>

WaitExpires ==
    /\ pc = "wait"
    /\ \E st \in {"undef", "croak"} :
        FailCall(IF call.op = "read" THEN st ELSE "croak")
    /\ UNCHANGED <<mode, pos, rq, s, now, agains, requests, calls>>

\* fwrite() of post buffering on disk fails for the bytes just read
DiskFull ==
    /\ pc = "recv" /\ call.op = "disk"
    /\ \E n \in 1..Min({Budget.budget, Len(mode.wire) - pos}) :
        /\ s' = NoteBytes(Budget, n, PostCl, now, mode.sched)
        /\ pos' = pos + n
    /\ FailCall("croak")
    /\ UNCHANGED <<mode, rq, now, agains, requests, calls>>

-----------------------------------------------------------------------------
\* psgi.input: read and seek.

Called ==
    /\ pc = "app" /\ calls < MaxCalls
    /\ calls' = calls + 1
    /\ UNCHANGED <<mode, now, agains, requests>>

\* upsgi_request_body_read for a body with a Content-Length
InputRead(h) ==
    LET all == IF h = 0 THEN PostCl ELSE h
        n == IF all + rq.post_pos > PostCl THEN PostCl - rq.post_pos ELSE all
        data == SubSeq(rq.stored, rq.post_pos + 1, rq.post_pos + n)
    IN  /\ ~Chunked /\ Called
        /\ CASE rq.post_pos >= PostCl -> Return("empty", <<>>) /\ rq' = rq
             [] rq.post_pos < PostCl /\ mode.kind = "socket" ->
                    /\ call' = [op |-> "read", remains |-> n, out |-> <<>>]
                    /\ pc' = "recv" /\ UNCHANGED <<rq, res, view>>
             [] OTHER -> Return("data", data) /\ rq' = [rq EXCEPT !.post_pos = @ + n]
        /\ UNCHANGED <<pos, s>>

\* upsgi_request_body_seek_do.  fseek() may go past the end of the file, the
\* memory buffer may not; a body still on the socket cannot be rewound.
InputSeek(p, whence) ==
    LET base == CASE whence = "set" -> 0 [] whence = "cur" -> rq.post_pos
                  [] OTHER -> PostCl
        ok == /\ mode.kind \in {"mem", "disk"} /\ base + p >= 0
              /\ mode.kind = "mem" => base + p <= PostCl
    IN  /\ ~Chunked /\ Called
        /\ rq' = IF ok THEN [rq EXCEPT !.post_pos = base + p] ELSE rq
        /\ view' = IF ok THEN base + p ELSE view
        /\ res' = NoResult
        /\ UNCHANGED <<pos, call, pc, s>>

-----------------------------------------------------------------------------
\* The chunked decoder.

Decapitate(r, n) == [r EXCEPT !.cbuf = SubSeq(@, n + 1, Len(@))]

\* upsgi_buffer_ensure on chunked_input_buf: the new size, 0 on failure
EnsuredSize(r) ==
    LET want == IF r.need > PageSize THEN r.need ELSE PageSize
        grown == Len(r.cbuf) + want
    IN  CASE r.cap - Len(r.cbuf) >= want -> r.cap
          [] grown <= InputLimit -> grown
          [] OTHER -> IF r.cap = InputLimit THEN 0 ELSE InputLimit

\* The stream cannot be decoded any further: what follows is not understood.
Malformed(r) ==
    /\ rq' = r /\ view' = Lost /\ call' = Idle /\ pc' = "app"
    /\ res' = [st |-> "croak", data |-> <<>>, from |-> view]
    /\ s' = s

\* the top of the loop of upsgi_chunked_read when bytes are missing
NeedMore(r) ==
    IF EnsuredSize(r) = 0 THEN Malformed(r)
    ELSE /\ rq' = [r EXCEPT !.cap = EnsuredSize(r)]
         /\ pc' = "recv" /\ UNCHANGED <<call, res, view, s>>

\* upsgi_chunked_read returns a chunk of n bytes (0 at the end of the body):
\* to the application, or to the loop of upsgi_chunked_read_smart.
Deliver(data) ==
    /\ Return(IF data = <<>> THEN "empty" ELSE "data", data)
    /\ s' = IF data = <<>> /\ call.op = "cread" THEN NoteChunkedComplete(s, now) ELSE s

ChunkReady(r, n) ==
    LET got == IF n = 0 THEN r ELSE [r EXCEPT !.decap = n + 2]
        held == r.body \o SubSeq(r.cbuf, 1, n)
        cut == Len(held) - (n - call.remains)
    IN  CASE call.op \in {"chunk", "chunk_nb"} ->
                 rq' = got /\ Deliver(SubSeq(r.cbuf, 1, n))
          [] call.op = "cread" /\ n > call.remains ->
                 /\ rq' = [got EXCEPT !.body = SubSeq(held, cut + 1, Len(held))]
                 /\ Deliver(call.out \o SubSeq(held, 1, cut))
          [] call.op = "cread" /\ (n = 0 \/ n = call.remains) ->
                 rq' = [got EXCEPT !.body = <<>>] /\ Deliver(call.out \o held)
          [] OTHER ->
                 /\ rq' = [got EXCEPT !.body = held]
                 /\ call' = [call EXCEPT !.remains = @ - n]
                 /\ pc' = "chunk" /\ UNCHANGED <<res, view, s>>

\* upsgi_chunked_readline: the size line, "more" or "bad"
ChunkReadline(buf) ==
    LET k == SelectInSeq(buf, LAMBDA c : c \notin 100..115)
    IN  CASE k = 0 -> [st |-> "more", num |-> 0, len |-> 0]
          [] k > 0 /\ buf[k] # CR -> [st |-> "bad", num |-> 0, len |-> 0]
          [] k = Len(buf) /\ buf[k] = CR -> [st |-> "more", num |-> 0, len |-> 0]
          [] OTHER -> [st |-> IF buf[k + 1] = LF THEN "ok" ELSE "bad",
                       num |-> HexValue(SubSeq(buf, 1, k - 1)), len |-> k + 1]

\* upsgi_chunked_require_crlf, at both of its uses
ChunkData(r) ==
    CASE r.clen + 2 > Len(r.cbuf) ->
             NeedMore([r EXCEPT !.need = r.clen + 2 - Len(r.cbuf), !.status = 1])
      [] SubSeq(r.cbuf, r.clen + 1, r.clen + 2) # <<CR, LF>> -> Malformed(r)
      [] OTHER -> ChunkReady([r EXCEPT !.status = 0], r.clen)

\* upsgi_chunked_require_final_crlf
FinalCrlf(r) ==
    CASE Len(r.cbuf) < 2 -> NeedMore([r EXCEPT !.need = 2 - Len(r.cbuf), !.status = 2])
      [] SubSeq(r.cbuf, 1, 2) # <<CR, LF>> -> Malformed(r)
      [] OTHER -> ChunkReady([Decapitate(r, 2) EXCEPT !.need = 0, !.status = 0,
                                                      !.complete = TRUE], 0)

ChunkFrame ==
    LET line == ChunkReadline(rq.cbuf)
        r == [Decapitate(rq, line.len) EXCEPT !.clen = line.num]
    IN  /\ pc = "frame"
        /\ CASE rq.need > 0 -> NeedMore(rq)
             [] rq.need = 0 /\ rq.status = 1 -> ChunkData(rq)
             [] rq.need = 0 /\ rq.status = 2 -> FinalCrlf(rq)
             [] OTHER -> CASE line.st = "more" -> NeedMore([rq EXCEPT !.need = @ + 1])
                           [] line.st = "bad" -> Malformed(rq)
                           [] line.st = "ok" /\ line.num = 0 -> FinalCrlf(r)
                           [] OTHER -> ChunkData(r)
        /\ UNCHANGED <<mode, pos, now, agains, requests, calls>>

\* upsgi_chunked_read up to its loop
ChunkEnter ==
    LET r == [Decapitate(rq, rq.decap) EXCEPT !.decap = 0]
    IN  /\ pc = "chunk"
        /\ CASE rq.complete -> ChunkReady(rq, 0)
             [] ~rq.complete /\ (r.need > 0 \/ r.cbuf = <<>>) -> NeedMore(r)
             [] OTHER -> rq' = r /\ pc' = "frame" /\ UNCHANGED <<call, res, view, s>>
        /\ UNCHANGED <<mode, pos, now, agains, requests, calls>>

\* upsgi::chunked_read and chunked_read_nb
ChunkedRead(op) ==
    /\ Chunked /\ mode.api = "chunk" /\ Called
    /\ call' = [op |-> op, remains |-> 0, out |-> <<>>]
    /\ pc' = "chunk" /\ UNCHANGED <<pos, rq, res, view, s>>

\* Mutant: what an earlier read left over is not used.
SmartForgets(h) ==
    LET n == IF h = 0 THEN PageSize ELSE h
    IN  /\ Chunked /\ mode.api = "read" /\ Called
        /\ call' = [op |-> "cread", remains |-> n, out |-> <<>>]
        /\ rq' = [rq EXCEPT !.body = <<>>]
        /\ pc' = "chunk" /\ UNCHANGED <<pos, res, view, s>>

\* psgi.input read of a chunked body: upsgi_chunked_read_smart
InputReadChunked(h) ==
    LET n == IF h = 0 THEN PageSize ELSE h
    IN  /\ Chunked /\ mode.api = "read" /\ Called
        /\ IF n <= Len(rq.body)
           THEN /\ Return("data", SubSeq(rq.body, 1, n))
                /\ rq' = [rq EXCEPT !.body = SubSeq(@, n + 1, Len(@))]
           ELSE /\ call' = [op |-> "cread", remains |-> n - Len(rq.body), out |-> rq.body]
                /\ rq' = [rq EXCEPT !.body = <<>>]
                /\ pc' = "chunk" /\ UNCHANGED <<res, view>>
        /\ UNCHANGED <<pos, s>>

-----------------------------------------------------------------------------
\* close_and_free_request and the reset of the request
CloseRequest ==
    /\ pc \in {"app", "closing"} /\ pc' = "closed"
    /\ s' = SchedFinish(s, now)
    /\ rq' = FreshRequest /\ call' = Idle /\ res' = NoResult /\ view' = 0 /\ pos' = 0
    /\ UNCHANGED <<mode, now, agains, requests, calls>>

NextRequest ==
    /\ pc = "closed" /\ requests < MaxRequests
    /\ requests' = requests + 1
    /\ mode' \in Modes /\ pc' = "parse"
    /\ UNCHANGED <<pos, rq, call, res, view, s, now, agains, calls>>

Tick ==
    /\ now < MaxTime /\ now' = now + 1
    /\ UNCHANGED <<mode, pos, rq, call, pc, res, view, s, agains, requests, calls>>

Next ==
    \/ ParseVars \/ RecvSome \/ RecvFails \/ RecvAgain \/ WaitReady \/ WaitExpires
    \/ DiskFull \/ ChunkEnter \/ ChunkFrame \/ CloseRequest \/ NextRequest \/ Tick
    \/ \E h \in Hints : InputRead(h) \/ InputReadChunked(h)
    \/ \E p \in {-1, 0, 1}, w \in {"set", "cur", "end"} : InputSeek(p, w)
    \/ \E op \in {"chunk", "chunk_nb"} : ChunkedRead(op)

Spec == Init /\ [][Next]_vars

-----------------------------------------------------------------------------
\* The state of the reader, the decoder and the scheduler is well formed.
TypeOK ==
    /\ DOMAIN mode = {"kind", "sched", "api", "wire", "body", "valid"}
    /\ mode.kind \in {"socket", "mem", "disk", "chunked"}
    /\ pos \in 0..Len(mode.wire)
    /\ pc \in {"parse", "app", "chunk", "frame", "recv", "wait", "closing", "closed"}
    /\ call.op \in {"none", "mem", "disk", "read", "cread", "chunk", "chunk_nb"}
    /\ rq.status \in 0..2 /\ rq.need \in Nat /\ rq.decap \in 0..Len(rq.cbuf)
    /\ res.st \in {"none", "data", "empty", "undef", "croak"}
    /\ view \in Nat \cup {Lost}
    /\ s.deficit \in Nat /\ s.by \subseteq {"bytes", "rounds", "residency"}

\* Every successful read returns the bytes of the body that follow the ones
\* the application already has, whatever the sizes in which the client sent
\* them, the budgets of the scheduler and the stalls in between: through the
\* loop of upsgi_request_body_read, post buffering and seek, the leftovers of
\* upsgi_chunked_read_smart, and chunked reads resumed after a stall.
ReadsAreTheBody ==
    res.st = "data" /\ res.from # Lost =>
        res.data = SubSeq(mode.body, res.from + 1, res.from + Len(res.data))

\* The end of the body is reported at its end only, and never for a chunked
\* stream that is cut or broken (upsgi_chunked_require_final_crlf).
EndIsTheEnd ==
    res.st = "empty" /\ res.from # Lost => res.from >= Len(mode.body) /\ mode.valid

\* The decoder never holds more than --chunked-input-limit, and always has
\* room for the read it is about to make (upsgi_buffer_ensure before recv).
DecoderHasRoom ==
    /\ rq.cap <= InputLimit /\ Len(rq.cbuf) <= rq.cap
    /\ pc = "recv" => Requested > 0

\* A reader that may ask for 0 bytes would take the answer for a closed
\* connection: the budget is always positive and never more than was asked.
BudgetIsUsable ==
    pc = "recv" => Budget.budget \in 1..Requested

\* The gauges of a core agree: its registered request is in exactly one lane,
\* and nothing is left behind by requests that failed while they were parsed,
\* buffered or read (upsgi_body_sched_finish in close_and_free_request).
GaugesAgree ==
    /\ s.active = (IF s.registered THEN 1 ELSE 0)
    /\ s.interactive = (IF s.registered /\ s.lane = "interactive" THEN 1 ELSE 0)
    /\ s.bulk = (IF s.registered /\ s.lane = "bulk" THEN 1 ELSE 0)

\* Saved credit stays under the cap of the lane the request is in now, so a
\* promoted request cannot spend what it saved as an interactive one.
CreditIsCapped == s.deficit <= LaneQuantum(s) * CapMultiplier

\* Every byte read was granted first, and what is counted as unused was
\* neither read nor counted before.
CreditIsAccounted == s.balance >= 0

\* The reported residency samples are ordered, and the longest residency lies
\* in a bucket at or above the one of the 95th percentile sample.
SamplesAreOrdered ==
    /\ s.p50 <= s.p95
    /\ \A i \in DOMAIN BucketLimits :
           s.hist[i] > 0 /\ i > 1 => s.longest > BucketLimits[i - 1]

\* A request that was promoted to the bulk lane stays there until it ends.
PromotionIsFinal ==
    [][s.lane = "bulk" /\ s'.registered => s'.lane = "bulk"]_vars

\* However the network cuts the body, its readers get it whole, in order and up
\* to its end, and the decoder has room for what it asks for.
BodyExact == TypeOK /\ ReadsAreTheBody /\ EndIsTheEnd /\ DecoderHasRoom

\* The scheduler's books are right: its gauges count the requests that are in
\* its lanes, credit is capped and accounted for, a budget can be used, and the
\* percentiles are in order.
SchedulerSound == BudgetIsUsable /\ GaugesAgree /\ CreditIsCapped /\ CreditIsAccounted /\ SamplesAreOrdered
=============================================================================
