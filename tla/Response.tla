------------------------------ MODULE Response ------------------------------
(***************************************************************************)
(* Sending a response: the writer (core/writer.c, proto/base.c), the PSGI  *)
(* response layer (plugins/psgi/psgi_response.c) with its coalescer and    *)
(* its resumable async getline, transformations, sendfile and its handover *)
(* to an offload thread (core/offload.c), and the end of the request.      *)
(*                                                                         *)
(* One core serves one request after the other.  What the client has       *)
(* received is a sequence of tokens: a status line, a header, the blank    *)
(* line or one byte of the body (the bytes of the application's body are   *)
(* 1, 2, ...).  Every write to the socket may accept a part, stall, fail   *)
(* or time out.  The application's body is a script: a length is a chunk,  *)
(* Dies an exception, Bad an invalid chunk.                                *)
(***************************************************************************)
EXTENDS Integers, Sequences, SequencesExt

CONSTANTS
    Modes,         \* responses and options, see TypeOK
    CoalesceSize,  \* PSGI_BODY_COALESCE_SIZE
    SendMax,       \* the most an offload thread sends in one call (128K)
    MaxAgain, MaxInfos

VARIABLES
    mode,    \* the response of the application and the options
    pc, w,   \* where the core is; the write in progress
    rq,      \* the response fields of wsgi_request
    app,     \* the position in the script, the coalescer
    client,  \* what the client has received
    fds,     \* how many times each descriptor was opened and closed
    task,    \* the request handed to the offload thread
    agains

vars == <<mode, pc, w, rq, app, client, fds, task, agains>>

Info == 1103
Ok == 1200
Failed == 1500
ConnectionClose == 2000
ContentType == 2001
Blank == 4000
ErrorByte == 500
ContentLength(n) == 3000 + n
Dies == -1
Bad == -2

\* The bytes of the i-th chunk of the script.
Offset(i) == FoldLeft(LAMBDA a, n : IF n > 0 THEN a + n ELSE a, 0, SubSeq(mode.script, 1, i - 1))
Chunk(i) == [j \in 1..mode.script[i] |-> Offset(i) + j]
Total == Offset(Len(mode.script) + 1)

IsFile == mode.kind \in {"io", "path"}
FreshRequest == [hdr |-> <<>>, hsent |-> FALSE, hsize |-> 0, rsize |-> 0, werr |-> 0,
                 wpos |-> 0, ignore |-> FALSE, routed |-> FALSE, tbuf |-> <<>>,
                 out |-> <<>>, fd_closed |-> FALSE]
FreshApp == [i |-> 1, coal |-> <<>>, infos |-> 0, died |-> FALSE]
NoWrite == [k |-> "none", data |-> <<>>, extra |-> 0, ret |-> "app"]
NoTask == [st |-> "none", fd |-> "file", written |-> 0]
FreshFds == [sock |-> [opened |-> 1, closed |-> 0],
             file |-> [opened |-> 0, closed |-> 0], dup |-> [opened |-> 0, closed |-> 0]]

Init ==
    /\ mode \in Modes
    /\ pc = "app" /\ w = NoWrite /\ rq = FreshRequest /\ app = FreshApp
    /\ client = <<>> /\ task = NoTask /\ agains = 0
    /\ fds = [FreshFds EXCEPT !.file.opened = IF mode.kind = "io" THEN 1 ELSE 0]

Closing(f, fd) == [f EXCEPT ![fd].closed = @ + 1]

-----------------------------------------------------------------------------
\* Starting a write.  Each of these leaves the core in the write, or back at
\* its caller (ret) with the error counted.

Back(r, ret) == rq' = r /\ pc' = ret /\ w' = NoWrite
Write(r, k, data, extra, ret) ==
    rq' = r /\ pc' = "write" /\ w' = [k |-> k, data |-> data, extra |-> extra, ret |-> ret]

HeadersClosed(r) == r.hsent \/ r.hsize > 0 \/ r.rsize > 0 \/ r.werr > 0

\* upsgi_response_write_headers_do0: "again" when there are headers to write.
\* A response route that breaks is applied once.
HeadersReady(r) ==
    CASE r.hsent \/ r.hdr = <<>> \/ r.rsize > 0 \/ r.werr > 0 -> [st |-> "ok", r |-> r]
      [] mode.route /\ ~r.routed ->
             [st |-> "err", r |-> [r EXCEPT !.ignore = TRUE, !.routed = TRUE]]
      [] OTHER -> [st |-> "again", r |-> [r EXCEPT !.hdr = @ \o <<Blank>>]]

SendBody(r, data, extra, ret) ==
    IF data = <<>> THEN Back(r, ret) ELSE Write(r, "body", data, extra, ret)

\* upsgi_response_write_body_do from its label write on.  With writev the
\* headers and the first bytes go out in one call; extra: how many
\* callers count the error of a failed write once more.
Emit(r, data, extra, ret) ==
    LET h == HeadersReady(r)
    IN  CASE r.hsent -> SendBody(r, data, extra, ret)
          [] ~r.hsent /\ mode.writev /\ data # <<>> /\ r.hdr # <<>> ->
                 IF h.st = "again" THEN Write(h.r, "iov", data, extra, ret)
                 ELSE Back(h.r, ret)
          [] OTHER -> CASE h.st = "again" -> Write(h.r, "hdr", data, extra + 1, ret)
                        [] h.st = "ok" -> SendBody(h.r, data, extra, ret)
                        [] OTHER -> Back([h.r EXCEPT !.werr = @ + 1 + extra], ret)

\* upsgi_response_write_body_do: routes, the transformation, the write.  The
\* flush transformation writes at once, fixcl keeps the body until the end.
WriteBody(r, data, ret) ==
    CASE r.werr > 0 \/ r.ignore -> Back(r, ret)
      [] ~(r.werr > 0 \/ r.ignore) /\ ~r.hsent /\ mode.route /\ ~r.routed ->
             Back([r EXCEPT !.ignore = TRUE, !.routed = TRUE], ret)
      [] OTHER -> IF mode.trans = "fixcl" THEN Back([r EXCEPT !.tbuf = @ \o data], ret)
                  ELSE Emit(r, data, IF mode.trans = "flush" THEN 1 ELSE 0, ret)

\* upsgi_500: only while no header has left, replacing the prepared ones
ErrorPage(r, ret) ==
    IF HeadersClosed(r) THEN Back(r, ret)
    ELSE WriteBody([r EXCEPT !.hdr = <<Failed, ConnectionClose, ContentType>>],
                   <<ErrorByte>>, ret)

-----------------------------------------------------------------------------
\* The write in progress.

Pending == CASE w.k = "hdr" -> rq.hdr
             [] w.k = "iov" -> rq.hdr \o w.data
             [] OTHER -> w.data

\* What the caller of the failed write does about its error.
WriteFailed ==
    /\ rq' = [rq EXCEPT !.werr = @ + 1 + w.extra,
                        !.wpos = IF w.k = "raw" THEN 0 ELSE @,
                        !.out = IF w.k = "one" THEN <<>> ELSE @]
    /\ fds' = IF w.k = "file" /\ mode.kind = "path" THEN Closing(fds, "file") ELSE fds
    /\ pc' = IF w.k = "one" THEN "clear" ELSE w.ret
    /\ w' = NoWrite

\* The headers are out: what follows them.
HeadersWritten(r) ==
    LET d == [r EXCEPT !.hsize = @ + r.wpos, !.wpos = 0, !.hsent = TRUE]
    IN  IF w.ret = "sendfile" THEN Back(d, "sendfile") ELSE SendBody(d, w.data, w.extra - 1, w.ret)

\* upsgi_proto_base_writev and the fallback of its caller: once the headers
\* are out the rest of the body is written alone.
IovAdvanced(r) ==
    LET sent == r.wpos - Len(r.hdr)
        d == [r EXCEPT !.hsize = @ + Len(r.hdr), !.hsent = TRUE, !.rsize = @ + sent, !.wpos = 0]
    IN  CASE sent < 0 -> rq' = r /\ UNCHANGED <<pc, w>>
          [] sent = Len(w.data) -> Back(d, w.ret)
          [] OTHER -> Write(d, "body", SubSeq(w.data, sent + 1, Len(w.data)), w.extra, w.ret)

\* Mutant: after a partial write the chunk starts over.
OwnedAdvancedAgain(r, n) ==
    IF n = Len(r.out) THEN Back([r EXCEPT !.out = <<>>, !.rsize = @ + n], "loop")
    ELSE Back([r EXCEPT !.rsize = @ + n], "loop")

\* psgi_async_getline_step_owned_chunk after its single write
OwnedAdvanced(r, n) ==
    Back([r EXCEPT !.out = SubSeq(@, n + 1, Len(@)), !.rsize = @ + n], "loop")

Advanced(n) ==
    LET r == [rq EXCEPT !.wpos = @ + n]
        done == r.wpos = Len(Pending)
    IN  CASE w.k = "one" -> OwnedAdvanced(rq, n) /\ fds' = fds
          [] w.k = "iov" -> IovAdvanced(r) /\ fds' = fds
          [] w.k \notin {"one", "iov"} /\ ~done -> rq' = r /\ UNCHANGED <<pc, w, fds>>
          [] w.k = "hdr" /\ done -> HeadersWritten(r) /\ fds' = fds
          [] w.k = "raw" /\ done -> Back([r EXCEPT !.wpos = 0], w.ret) /\ fds' = fds
          [] OTHER -> /\ Back([r EXCEPT !.rsize = @ + r.wpos, !.wpos = 0], w.ret)
                      /\ fds' = IF w.k = "file" /\ mode.kind = "path"
                                THEN Closing(fds, "file") ELSE fds

\* The resumable chunk keeps its own position.
WritePos == IF w.k = "one" THEN 0 ELSE rq.wpos

SockWrite ==
    /\ pc = "write"
    /\ \E n \in 1..(Len(Pending) - WritePos) :
        /\ client' = client \o SubSeq(Pending, WritePos + 1, WritePos + n)
        /\ Advanced(n)
    /\ UNCHANGED <<mode, app, task, agains>>

\* The socket is full: wait, or for a resumable chunk go back to the loop.
SockAgain ==
    /\ pc = "write" /\ agains < MaxAgain
    /\ agains' = agains + 1
    /\ IF w.k = "one" THEN Back(rq, "loop") ELSE pc' = "wait" /\ UNCHANGED <<w, rq>>
    /\ UNCHANGED <<mode, app, client, fds, task>>

\* The write fails, or waiting for the client fails or times out.
SockError ==
    /\ pc \in {"write", "wait"}
    /\ WriteFailed
    /\ UNCHANGED <<mode, app, client, task, agains>>

WaitWrite ==
    /\ pc = "wait" /\ pc' = "write"
    /\ UNCHANGED <<mode, w, rq, app, client, fds, task, agains>>

-----------------------------------------------------------------------------
\* The application and the PSGI response layer.

\* psgix.informational, from the application or from its body; it does not
\* look at the errors of earlier writes
Informational ==
    /\ pc = "app" \/ (pc = "loop" /\ mode.kind \in {"getline", "stream", "async"})
    /\ mode.http11 /\ app.infos < MaxInfos /\ ~rq.hsent /\ rq.rsize = 0
    /\ app' = [app EXCEPT !.infos = @ + 1]
    /\ Write([rq EXCEPT !.wpos = 0], "raw", <<Info, Blank>>, 0, pc)
    /\ UNCHANGED <<mode, client, fds, task, agains>>

\* psgi_response_do up to the body: validation, status, headers.  Only a body
\* that is an array of strings has a length known in advance.
Prepare(r) ==
    LET cl == IF mode.kind = "array" /\ mode.trans = "none" THEN <<ContentLength(Total)>> ELSE <<>>
    IN  [r EXCEPT !.hdr = <<Ok>> \o cl \o <<ContentType>>]

AppReturns ==
    /\ pc = "app"
    /\ CASE mode.kind \in {"dies", "invalid"} -> ErrorPage(rq, "clear")
         [] mode.kind = "scalar" -> Back(rq, "clear")
         [] mode.kind = "big" /\ ~HeadersClosed(rq) -> Back([rq EXCEPT !.werr = @ + 1], "clear")
         [] HeadersClosed(rq) /\ mode.kind \notin {"dies", "invalid", "scalar"} -> Back(rq, "clear")
         [] OTHER -> Back(Prepare(rq), IF IsFile THEN "open" ELSE "loop")
    /\ app' = [app EXCEPT !.died = mode.kind \in {"dies", "invalid", "scalar", "big"}]
    /\ UNCHANGED <<mode, client, fds, task, agains>>

AtEnd == app.i > Len(mode.script)
Item == mode.script[app.i]
Croaks == mode.exc /\ rq.werr > 0
TooMany == rq.werr > mode.tol

\* psgi_body_coalescer_write
CoalescerWrite(c) ==
    CASE Len(c) > CoalesceSize /\ app.coal = <<>> -> WriteBody(rq, c, "check") /\ app' = app
      [] app.coal # <<>> /\ Len(app.coal) + Len(c) > CoalesceSize ->
             /\ WriteBody(rq, app.coal, IF Len(c) > CoalesceSize THEN "bypass" ELSE "append")
             /\ app' = [app EXCEPT !.coal = <<>>]
      [] OTHER -> Back(rq, "check") /\ app' = [app EXCEPT !.coal = @ \o c]

Dead == app' = [app EXCEPT !.died = TRUE]

\* the loops over an array and over getline, one chunk at a time
BodyLoop ==
    /\ pc = "loop" /\ mode.kind \in {"array", "getline"}
    /\ CASE AtEnd \/ (mode.kind = "getline" /\ ~AtEnd /\ Item = 0) -> Back(rq, "flush") /\ app' = app
         [] ~AtEnd /\ Item = Dies -> ErrorPage(rq, "flush") /\ Dead
         [] ~AtEnd /\ Item = Bad -> ErrorPage(rq, "clear") /\ Dead
         [] ~AtEnd /\ mode.kind = "array" /\ Len(mode.script) = 1 ->
                WriteBody(rq, Chunk(1), "sent") /\ app' = app
         [] OTHER -> CoalescerWrite(Chunk(app.i))
    /\ UNCHANGED <<mode, client, fds, task, agains>>

\* Behind a flush inside psgi_body_coalescer_write.
AfterFlush ==
    /\ pc \in {"bypass", "append"} /\ ~Croaks
    /\ IF pc = "bypass" THEN WriteBody(rq, Chunk(app.i), "check") /\ app' = app
       ELSE Back(rq, "check") /\ app' = [app EXCEPT !.coal = Chunk(app.i)]
    /\ UNCHANGED <<mode, client, fds, task, agains>>

\* upsgi_pl_check_write_errors behind a chunk
CheckErrors ==
    /\ pc = "check" /\ ~Croaks
    /\ pc' = IF TooMany THEN "flush" ELSE "loop"
    /\ app' = [app EXCEPT !.i = @ + 1]
    /\ UNCHANGED <<mode, w, rq, client, fds, task, agains>>

FinalFlush ==
    /\ pc = "flush"
    /\ IF app.coal = <<>> THEN Back(rq, "clear") ELSE WriteBody(rq, app.coal, "flushed")
    /\ app' = [app EXCEPT !.coal = <<>>]
    /\ UNCHANGED <<mode, client, fds, task, agains>>

\* The end of the body, behind its last write.
Sent ==
    /\ pc \in {"flushed", "sent"} /\ ~Croaks /\ pc' = "clear"
    /\ UNCHANGED <<mode, w, rq, app, client, fds, task, agains>>

\* --write-errors-exception-only: croak() outside of any eval ends the worker
CroakExits ==
    /\ pc \in {"bypass", "append", "check", "flushed", "sent", "stepped"} /\ Croaks
    /\ pc' = "exited" /\ w' = NoWrite /\ task' = NoTask
    /\ UNCHANGED <<mode, rq, app, client, fds, agains>>

\* The streaming writer: an error makes the application die.
StreamLoop ==
    /\ pc = "loop" /\ mode.kind = "stream"
    /\ CASE AtEnd -> Back(rq, "clear") /\ app' = app
         [] ~AtEnd /\ Item \in {Dies, Bad} -> ErrorPage(rq, "clear") /\ Dead
         [] OTHER -> WriteBody(rq, Chunk(app.i), "streamed") /\ app' = app
    /\ UNCHANGED <<mode, client, fds, task, agains>>

Streamed ==
    /\ pc = "streamed"
    /\ IF Croaks \/ TooMany THEN ErrorPage(rq, "clear") /\ Dead
       ELSE Back(rq, "loop") /\ app' = [app EXCEPT !.i = @ + 1]
    /\ UNCHANGED <<mode, client, fds, task, agains>>

\* psgi_async_getline_step_owned_chunk up to its write
OwnedStep(r) ==
    IF ~r.hsent \/ mode.trans # "none" THEN WriteBody(r, r.out, "stepped")
    ELSE Write(r, "one", r.out, 0, "loop")

\* The async getline: one call of psgi_response per step of the loop.
AsyncGetline ==
    /\ pc = "loop" /\ mode.kind = "async"
    /\ CASE rq.out # <<>> -> OwnedStep(rq) /\ app' = app
         [] rq.out = <<>> /\ (IF AtEnd THEN TRUE ELSE Item = 0) -> Back(rq, "clear") /\ app' = app
         [] rq.out = <<>> /\ (IF AtEnd THEN FALSE ELSE Item \in {Dies, Bad}) ->
                ErrorPage(rq, "clear") /\ Dead
         [] OTHER -> /\ OwnedStep([rq EXCEPT !.out = Chunk(app.i)])
                     /\ app' = [app EXCEPT !.i = @ + 1]
    /\ UNCHANGED <<mode, client, fds, task, agains>>

Stepped ==
    /\ pc = "stepped" /\ ~Croaks
    /\ Back([rq EXCEPT !.out = <<>>], IF TooMany THEN "clear" ELSE "loop")
    /\ UNCHANGED <<mode, app, client, fds, task, agains>>

-----------------------------------------------------------------------------
\* Files.

\* A body with a path is opened by the server, an IO handle is open already.
OpenFile ==
    /\ pc = "open"
    /\ \/ /\ mode.kind = "io" /\ Back(rq, "sendfile_headers") /\ UNCHANGED <<fds, app>>
       \/ /\ mode.kind = "path" /\ Back(rq, "sendfile_headers")
          /\ fds' = [fds EXCEPT !.file.opened = 1] /\ app' = app
       \/ /\ mode.kind = "path" /\ ErrorPage(rq, "clear") /\ Dead /\ fds' = fds
    /\ UNCHANGED <<mode, client, task, agains>>

MayClose(f) == IF mode.kind = "path" THEN Closing(f, "file") ELSE f

\* upsgi_response_sendfile_do_can_close up to its label sendfile
SendfileHeaders ==
    LET h == HeadersReady(rq)
    IN  /\ pc = "sendfile_headers"
        /\ CASE rq.werr > 0 \/ rq.ignore -> Back(rq, "sent") /\ fds' = MayClose(fds)
             [] rq.werr = 0 /\ ~rq.ignore /\ h.st = "again" -> Write(h.r, "hdr", <<>>, 1, "sendfile") /\ fds' = fds
             [] rq.werr = 0 /\ ~rq.ignore /\ h.st = "err" ->
                    Back([h.r EXCEPT !.werr = @ + 1], "sent") /\ fds' = MayClose(fds)
             [] OTHER -> Back(rq, "sendfile") /\ fds' = fds
        /\ UNCHANGED <<mode, app, client, task, agains>>

FileBytes == [j \in 1..mode.size |-> j]

\* upsgi_offload_setup and upsgi_offload_enqueue: the descriptors travel to
\* the thread through its pipe, the request gives its socket away
Handover(fd) == [st |-> "queued", fd |-> fd, written |-> 0]

\* Mutant: when the thread cannot take the file the core goes on to send it.
OffloadFallsThrough ==
    /\ pc = "sendfile" /\ rq.werr = 0 /\ mode.offload /\ mode.size > 0
    /\ Write([rq EXCEPT !.werr = @ + 1], "file", FileBytes, 0, "sent")
    /\ UNCHANGED <<mode, app, client, fds, task, agains>>

\* The file is handed to an offload thread, as a duplicate when the
\* application still owns its descriptor.
Offload ==
    /\ pc = "sendfile" /\ rq.werr = 0 /\ mode.offload /\ mode.size > 0
    /\ LET fd == IF mode.kind = "io" THEN "dup" ELSE "file"
           held == IF mode.kind = "io" THEN [fds EXCEPT !.dup.opened = 1] ELSE fds
       IN  \/ /\ rq' = [rq EXCEPT !.rsize = @ + mode.size, !.fd_closed = TRUE]
              /\ task' = Handover(fd)
              /\ fds' = held
           \* the pipe of the thread is full: the core keeps the socket
           \/ /\ rq' = [rq EXCEPT !.werr = @ + 1]
              /\ task' = task /\ fds' = Closing(held, fd)
    /\ pc' = "sent" /\ w' = NoWrite
    /\ UNCHANGED <<mode, app, client, agains>>

\* dup() fails: only for a descriptor the application owns
DupFails ==
    /\ pc = "sendfile" /\ rq.werr = 0 /\ mode.offload /\ mode.size > 0 /\ mode.kind = "io"
    /\ Back([rq EXCEPT !.werr = @ + 1], "sent")
    /\ UNCHANGED <<mode, app, client, fds, task, agains>>

Sendfile ==
    /\ pc = "sendfile" /\ (rq.werr > 0 \/ ~mode.offload \/ mode.size = 0)
    /\ CASE rq.werr > 0 \/ mode.size = 0 -> Back(rq, "sent") /\ fds' = MayClose(fds)
         [] OTHER -> Write(rq, "file", FileBytes, 0, "sent") /\ fds' = fds
    /\ UNCHANGED <<mode, app, client, task, agains>>

\* upsgi_offload_close: the thread closes both ends
OffloadClose == task' = NoTask /\ fds' = Closing(Closing(fds, task.fd), "sock")

\* The thread takes the request from its pipe and waits for the client.
OffloadTake ==
    /\ task.st = "queued"
    /\ \/ task' = [task EXCEPT !.st = "armed"] /\ fds' = fds
       \/ OffloadClose
    /\ UNCHANGED <<mode, pc, w, rq, app, client, agains>>

\* u_offload_sendfile_do
OffloadSend ==
    /\ task.st = "armed"
    /\ \E n \in 1..SendMax :
        /\ task.written + n <= mode.size
        /\ client' = client \o SubSeq(FileBytes, task.written + 1, task.written + n)
        /\ IF task.written + n >= mode.size THEN OffloadClose
           ELSE task' = [task EXCEPT !.written = @ + n] /\ fds' = fds
    /\ UNCHANGED <<mode, pc, w, rq, app, agains>>

OffloadFails ==
    /\ task.st = "armed" /\ OffloadClose
    /\ UNCHANGED <<mode, pc, w, rq, app, client, agains>>

-----------------------------------------------------------------------------
\* The end of a request.

\* the end of upsgi_perl_request frees the response, and a handle with it
Clear ==
    /\ pc = "clear" /\ pc' = "close"
    /\ fds' = IF mode.kind = "io" THEN Closing(fds, "file") ELSE fds
    /\ rq' = [rq EXCEPT !.out = <<>>]
    /\ UNCHANGED <<mode, w, app, client, task, agains>>

\* upsgi_apply_final_transformations: fixcl adds the length it has collected
FinalTransformations ==
    LET r == IF HeadersClosed(rq) \/ rq.hdr = <<>> THEN rq
             ELSE [rq EXCEPT !.hdr = @ \o <<ContentLength(Len(rq.tbuf))>>]
    IN  /\ pc = "close"
        /\ IF mode.trans = "fixcl" /\ rq.tbuf # <<>> /\ rq.werr = 0 /\ ~rq.ignore
           THEN Emit([r EXCEPT !.tbuf = <<>>], rq.tbuf, 0, "close_headers")
           ELSE Back(IF mode.trans = "fixcl" THEN r ELSE rq, "close_headers")
        /\ UNCHANGED <<mode, app, client, fds, task, agains>>

CloseHeaders ==
    LET h == HeadersReady(rq)
    IN  /\ pc = "close_headers"
        /\ IF rq.hdr # <<>> /\ ~rq.hsent /\ rq.hsize = 0 /\ rq.rsize = 0 /\ h.st = "again"
           THEN Write(h.r, "hdr", <<>>, 0, "close_fd")
           ELSE Back(IF rq.hdr # <<>> /\ ~HeadersClosed(rq) THEN h.r ELSE rq, "close_fd")
        /\ UNCHANGED <<mode, app, client, fds, task, agains>>

\* close_and_free_request
CloseRequest ==
    /\ pc = "close_fd" /\ pc' = "closed"
    /\ fds' = IF rq.fd_closed THEN fds ELSE Closing(fds, "sock")
    /\ UNCHANGED <<mode, w, rq, app, client, task, agains>>

\* The next request, or the first one of a new worker: wsgi_request is
\* cleared by memset, so nothing of the previous one is left.
NextRequest ==
    /\ pc \in {"closed", "exited"} /\ task.st = "none"
    /\ mode' = mode
    /\ pc' = "app" /\ w' = NoWrite /\ rq' = FreshRequest /\ app' = FreshApp
    /\ client' = <<>> /\ task' = NoTask /\ agains' = 0
    /\ fds' = [FreshFds EXCEPT !.file.opened = IF mode'.kind = "io" THEN 1 ELSE 0]

Next ==
    \/ SockWrite \/ SockAgain \/ SockError \/ WaitWrite
    \/ Informational \/ AppReturns \/ BodyLoop \/ AfterFlush \/ CheckErrors
    \/ FinalFlush \/ Sent \/ CroakExits \/ StreamLoop \/ Streamed
    \/ AsyncGetline \/ Stepped
    \/ OpenFile \/ SendfileHeaders \/ Sendfile \/ Offload \/ DupFails
    \/ OffloadTake \/ OffloadSend \/ OffloadFails
    \/ Clear \/ FinalTransformations \/ CloseHeaders \/ CloseRequest \/ NextRequest

Spec == Init /\ [][Next]_vars
-----------------------------------------------------------------------------
Kinds == {"array", "getline", "async", "stream", "io", "path", "dies", "invalid", "scalar", "big"}

\* The options, the request, the connection and the buffers keep their types.
TypeOK ==
    /\ mode \in [kind : Kinds, script : Seq(-2..3), size : 0..4, writev : BOOLEAN,
                 route : BOOLEAN, trans : {"none", "flush", "fixcl"}, tol : 0..1,
                 exc : BOOLEAN, offload : BOOLEAN, http11 : BOOLEAN]
    /\ w.k \in {"none", "hdr", "iov", "body", "raw", "one", "file"}
    /\ w.k = "none" <=> pc \notin {"write", "wait"}
    /\ (w.k # "none" => WritePos <= Len(Pending)) /\ rq.hsize \in Nat /\ rq.rsize \in Nat
    /\ task.st \in {"none", "queued", "armed"}
    /\ agains \in 0..MaxAgain /\ app.infos \in 0..MaxInfos

Tokens(T) == SelectSeq(client, LAMBDA t : t \in T)
BodyTokens == 1..ErrorByte
HeaderTokens == {ConnectionClose, ContentType} \cup (3000..3100)
FinalStatus == {i \in 1..Len(client) : client[i] \in {Ok, Failed}}

\* psgi_response.c, writer.c: the client sees whole informational responses,
\* then at most one status line, its headers, the blank line and the body,
\* however the writes are cut and wherever the application fails.  (With
\* write-errors-tolerance an informational response may still be written
\* into a header that was cut by an error.)
OneResponse ==
    mode.tol = 0 \/ app.infos = 0 =>
    /\ \A i, j \in FinalStatus : i = j
    /\ \A i \in 1..Len(client) :
        LET before(T) == \E j \in 1..(i - 1) : client[j] \in T
            started == before({Ok, Failed})
            first == CHOOSE j \in FinalStatus : TRUE
            body == started /\ \E j \in first..(i - 1) : client[j] = Blank
        IN  CASE client[i] = Info -> ~started
              [] client[i] = Blank -> IF started THEN ~body ELSE client[i - 1] = Info
              [] client[i] \in {Ok, Failed} -> rq.werr = 0 => i = 1 \/ client[i - 1] = Blank
              [] client[i] \in HeaderTokens -> started /\ ~body
              [] OTHER -> body

\* The bytes of the body reach the client in order, none twice and none left
\* out, whether they go through the coalescer, writev, the resumable chunk of
\* the async getline, sendfile or the offload thread.  (With
\* write-errors-tolerance an async body may go on behind a failed write.)
BodyInOrder ==
    mode.tol = 0 \/ mode.kind # "async" =>
        LET b == Tokens(1..99) IN \A i \in 1..Len(b) : b[i] = i

\* What the application has produced before it stopped.
Promised ==
    IF IsFile THEN mode.size
    ELSE LET stops == {i \in 1..Len(mode.script) :
                          mode.script[i] = 0 /\ mode.kind \in {"getline", "async"}}
         IN  IF stops = {} THEN Total ELSE Offset(CHOOSE i \in stops : \A j \in stops : i <= j)

\* A request that is closed without an error and without the application
\* failing has delivered its header and its whole body: nothing is left in
\* the coalescer, the transformation or the resumable chunk.
Delivered ==
    pc = "closed" /\ task.st = "none" /\ rq.werr = 0 /\ ~app.died /\ ~rq.ignore
        /\ ~mode.offload =>
            Len(Tokens({Ok})) = 1 /\ Len(Tokens(1..99)) = Promised

\* A Content-Length the server has added is the length of the body it sends:
\* never more, and exactly that much when nothing fails.
LengthIsTrue ==
    \A i \in 1..Len(client) : client[i] \in 3000..3100 =>
        LET sent == Len(Tokens(BodyTokens)) IN
        /\ sent <= client[i] - 3000
        /\ pc = "closed" /\ rq.werr = 0 /\ ~rq.ignore => sent = client[i] - 3000

\* An application that fails before anything was sent gets exactly the error
\* page; after the first byte of the response no page is mixed into it.
\* (The bytes a getline body or fixcl had buffered may still follow the page.)
PageReplaces ==
    Tokens({ErrorByte}) # <<>> =>
        /\ Tokens({Failed}) # <<>> /\ Len(Tokens({ErrorByte})) = 1
        /\ mode.kind # "getline" /\ mode.trans # "fixcl" => Tokens(1..99) = <<>>

\* headers_size and response_size, which the log and the tx accounting use,
\* are what the client was sent when no write failed.
AccountIsTrue ==
    pc = "closed" /\ rq.werr = 0 /\ ~mode.offload =>
        /\ rq.hsize = Len(Tokens({Ok, Failed, Blank} \cup HeaderTokens)) - app.infos
        /\ rq.rsize = Len(Tokens(BodyTokens))

\* Every descriptor is closed once: by the core, by the application's handle
\* or by the offload thread, whichever path the response took.
ClosedOnce ==
    /\ \A f \in DOMAIN fds : fds[f].closed <= fds[f].opened
    /\ pc = "closed" /\ task.st = "none" =>
        \A f \in DOMAIN fds : fds[f].closed = fds[f].opened

\* After a failed write the core sends nothing more of the response: what the
\* client has is a prefix.  (An informational response does not look at the
\* errors before it, and neither does the single write of the async getline
\* when errors are tolerated.)
SilentAfterError ==
    [][rq.werr > 0 /\ client' # client /\ client' # <<>> =>
           \/ w.k = "raw"
           \/ w.k = "one" /\ mode.tol > 0]_vars

\* Whatever the application returns and the writes do, the client gets one
\* response, its body in order and as long as announced, an error page instead
\* of a response and not inside it; sizes are counted and files closed once.
ResponseExact ==
    /\ TypeOK /\ OneResponse /\ BodyInOrder /\ Delivered /\ LengthIsTrue
    /\ PageReplaces /\ AccountIsTrue /\ ClosedOnce
=============================================================================
