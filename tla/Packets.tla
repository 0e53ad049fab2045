------------------------------ MODULE Packets -------------------------------
(***************************************************************************)
(* The parsers of the protocols that tell the length of a request first:   *)
(* upsgi (proto/upsgi.c), persistent upsgi (proto/perl_upsgi.c) and SCGI   *)
(* (proto/scgi.c).  The request comes in pieces of any size; what is read  *)
(* behind it is the start of the body.                                     *)
(*                                                                         *)
(* A stream is the length prefix, vars (each "v"), for SCGI the comma, and *)
(* what follows ("b").  The prefix is PacketHeader cells, for SCGI one     *)
(* digit and the colon.                                                    *)
(***************************************************************************)
EXTENDS Bench, Integers, Sequences, SequencesExt

CONSTANTS PacketHeader,   \* cells of an upsgi header
          PacketBuffer,   \* --buffer-size
          PacketSizes,    \* sizes a packet may have
          PacketBody      \* cells sent behind the packet, at most

\* The cells before the vars, and all those of the packet.
Prefix(proto) == IF proto = "scgi" THEN 2 ELSE PacketHeader
Whole(s) == Prefix(s.proto) + s.size + IF s.proto = "scgi" THEN 1 ELSE 0

PacketInit ==
    /\ kind = "packet"
    /\ \E proto \in {"upsgi", "pupsgi", "scgi"}, size \in PacketSizes, body \in 0..PacketBody, well \in BOOLEAN :
        /\ ~well => proto = "scgi"
        /\ st = [proto |-> proto, size |-> size, well |-> well, sent |-> body, read |-> 0, phase |-> "parse",
                 vars |-> 0, remains |-> 0, stale |-> FALSE, errors |-> FALSE, lost |-> FALSE, retry |-> FALSE]

Room(s) == (IF s.proto = "scgi" THEN PacketBuffer ELSE PacketBuffer + PacketHeader) - s.read

Unread(s) == Whole(s) + s.sent - s.read

Refused(s) == [s EXCEPT !.phase = "refused"]

\* upsgi_proto_upsgi_parser and upsgi_proto_pupsgi_parser behind the read; the
\* persistent one remembers that the connection is of no more use.
UpsgiParsed(s) ==
    CASE s.read < PacketHeader -> s
      [] s.read >= PacketHeader /\ s.read - PacketHeader >= s.size ->
            [s EXCEPT !.phase = "ok", !.vars = s.size, !.remains = s.read - (PacketHeader + s.size)]
      [] s.read >= PacketHeader /\ s.read - PacketHeader < s.size /\ s.size > PacketBuffer ->
            [s EXCEPT !.phase = "refused", !.errors = s.proto = "pupsgi"]
      [] OTHER -> s

\* scgi_parse: nothing is done before the vars are there.  The comma behind
\* them is looked at whether it was read or not: stale is what the memory
\* holds where it was not.
ScgiParsed(s, comma) ==
    CASE s.read < 2 -> s
      [] s.read >= 2 /\ s.size = 0 -> Refused(s)
      [] s.read >= 2 /\ s.size > 0 /\ s.read < 2 + s.size -> s
      [] s.read >= 2 /\ s.size > 0 /\ s.read >= 2 + s.size ->
            LET cut == s.read = 2 + s.size
                t == [s EXCEPT !.vars = s.size, !.stale = cut]
            IN  IF IF cut THEN comma ELSE s.well
                THEN [t EXCEPT !.phase = "ok", !.remains = IF cut THEN 0 ELSE s.read - (3 + s.size)]
                ELSE Refused(t)

\* One call of the parser.
PacketRead ==
    /\ At("packet")
    /\ st.phase = "parse"
    /\ \/ /\ st.proto = "scgi" /\ Room(st) = 0
          /\ st' = Refused(st)
       \/ /\ Room(st) > 0 /\ Unread(st) > 0
          /\ \E n \in 1..Unread(st), comma \in BOOLEAN :
              LET s == [st EXCEPT !.read = @ + n]
              IN  /\ n <= Room(st)
                  /\ st' = IF st.proto = "scgi" THEN ScgiParsed(s, comma) ELSE UpsgiParsed(s)

\* The client goes away, or the wait for the rest of the request times out.
PacketLost ==
    /\ At("packet")
    /\ st.phase = "parse"
    /\ \E closed \in BOOLEAN :
        st' = [st EXCEPT !.phase = "refused", !.lost = TRUE, !.errors = closed /\ st.proto = "pupsgi"]

\* The condition of upsgi_proto_pupsgi_close
Framed(s) == ~s.errors /\ s.read >= PacketHeader /\ s.size + PacketHeader = s.read

\* The end of the request; the persistent connection is kept where it is
\* certain that the next packet comes next.
PacketClose ==
    /\ At("packet")
    /\ st.phase \in {"ok", "refused"}
    /\ st' = [st EXCEPT !.phase = "closed", !.retry = st.proto = "pupsgi" /\ Framed(st)]

\* The next request, on the connection that was kept or on another one.
PacketAgain ==
    /\ At("packet")
    /\ st.phase = "closed"
    /\ st' = [st EXCEPT !.phase = "parse", !.read = 0, !.vars = 0, !.remains = 0, !.stale = FALSE, !.errors = FALSE,
                        !.lost = FALSE, !.retry = FALSE]

PacketNext == PacketRead \/ PacketLost \/ PacketClose \/ PacketAgain
-----------------------------------------------------------------------------
PacketTypeOK ==
    kind = "packet" =>
        /\ st.phase \in {"parse", "ok", "refused", "closed"} /\ st.read \in 0..Whole(st) + st.sent
        /\ st.remains \in 0..PacketBody

\* However a request is cut into reads, the vars are those its length tells
\* and the bytes kept for the body are the ones read behind it.  (The SCGI
\* parser looks at the comma before it was read when a read ends right before
\* it.)
PacketExact ==
    kind = "packet" /\ st.phase = "ok" /\ ~st.stale =>
        st.vars = st.size /\ st.well /\ st.remains = st.read - Whole(st)

\* A packet that is well formed and fits is never refused for the way it was
\* cut into reads, and a persistent connection on which nothing but packets
\* came is kept.
PacketNotRefused ==
    kind = "packet" /\ ~st.lost /\ ~st.stale /\ st.well /\ st.size > 0 /\ Whole(st) + st.sent <= PacketBuffer =>
        /\ st.phase # "refused"
        /\ st.phase = "closed" /\ st.proto = "pupsgi" /\ st.sent = 0 => st.retry

-----------------------------------------------------------------------------
(***************************************************************************)
(* A FastCGI request (proto/fastcgi.c): records come over the connection   *)
(* in pieces of any size and are put together in a buffer that grows; the  *)
(* parser takes the parameters, the body is taken from the STDIN records,  *)
(* and the response goes out in STDOUT records.                            *)
(*                                                                         *)
(* A stream is a sequence of cells: a header is FcgiHeader cells, the      *)
(* first of which tells the type, the length and the padding; then come    *)
(* the content and the padding.  Contents are numbered as they are sent.   *)
(***************************************************************************)
CONSTANTS FcgiHeader,    \* cells of a header
          FcgiBuffer,    \* --buffer-size
          FcgiScripts,   \* requests: sequences of [type, len, pad]
          FcgiMax,       \* the longest STDOUT record
          FcgiOutput     \* what the application writes: lengths

Fill(cell, n) == [i \in 1..n |-> cell]

\* A record, its contents numbered from first.
Record(r, first) ==
    <<<<r.type, r.len, r.pad>>>> \o Fill(<<"h">>, FcgiHeader - 1)
        \o [i \in 1..r.len |-> <<r.type, first + i>>] \o Fill(<<"p">>, r.pad)

Sum(s) == FoldLeft(LAMBDA a, x : a + x, 0, s)

Lengths(script, types, n) == Sum([i \in 1..n |-> IF script[i].type \in types THEN script[i].len ELSE 0])

Stream(script) ==
    FoldLeft(LAMBDA a, i : a \o Record(script[i], Lengths(script, {script[i].type}, i - 1)), <<>>,
             [i \in 1..Len(script) |-> i])

\* mem is proto_parser_buf: the first move cells are a record that is not
\* moved out yet, the proto_parser_pos cells that count follow.
FcgiInit ==
    /\ kind = "fcgi"
    /\ \E script \in FcgiScripts :
        st = [script |-> script, wire |-> Stream(script), mem |-> <<>>, size |-> FcgiBuffer, move |-> 0, remains |-> 0,
              remainsAt |-> 0, eof |-> FALSE, phase |-> "parse", params |-> <<>>, body |-> <<>>,
              ended |-> FALSE, toWrite |-> FcgiOutput, writePos |-> 0, status |-> 0, out |-> <<>>]

Pos == Len(st.mem) - st.move

HasHeader == Pos >= FcgiHeader

RecordType == st.mem[1][1]
ContentLength == st.mem[1][2]
AllLength == FcgiHeader + ContentLength + st.mem[1][3]
Content(mem) == SubSeq(mem, FcgiHeader + 1, FcgiHeader + mem[1][2])

\* The record in front leaves the buffer.
Moved(s, n) == [s EXCEPT !.mem = SubSeq(@, n + 1, Len(@))]

\* The buffer grows where the record may not fit behind what is there.
Grown(s) ==
    IF AllLength > s.size - Pos THEN [s EXCEPT !.size = @ + AllLength - (@ - Pos)] ELSE s

\* read(): what there is of the stream, as far as the buffer has room.
Received(s, n) == [s EXCEPT !.mem = @ \o SubSeq(s.wire, 1, n), !.wire = SubSeq(@, n + 1, Len(@))]

\* The loop of upsgi_proto_fastcgi_parser needs more: the header is not
\* complete, or the record is not.
ParserReads ==
    /\ At("fcgi")
    /\ st.phase = "parse"
    /\ IF HasHeader THEN RecordType # "stdin" /\ Pos < AllLength ELSE TRUE
    /\ LET s == IF HasHeader THEN Grown(st) ELSE st
       IN  IF s.wire = <<>> THEN st' = [s EXCEPT !.phase = "failed"]
           ELSE \E n \in 1..Len(s.wire) : n <= s.size - Pos /\ st' = Received(s, n)

\* A whole record: parameters are converted (fastcgi_to_upsgi), all others
\* are ignored.
ParserRecord ==
    /\ At("fcgi")
    /\ st.phase = "parse" /\ HasHeader /\ RecordType # "stdin" /\ Pos >= AllLength
    /\ LET s == IF RecordType = "params" THEN [st EXCEPT !.params = @ \o Content(st.mem)] ELSE st
       IN  st' = Moved(s, AllLength)

\* The first STDIN record ends the parameters; one of no length is the end.
ParserDone ==
    /\ At("fcgi")
    /\ st.phase = "parse" /\ HasHeader /\ RecordType = "stdin"
    /\ st' = [st EXCEPT !.phase = "run", !.eof = ContentLength = 0]

\* The first part of upsgi_proto_fastcgi_read_body: what the last call left of
\* a record; the record is moved out with its last cell.
BodyRemains(len) ==
    /\ At("fcgi")
    /\ st.phase \in {"run", "close"} /\ st.remains > 0
    /\ LET n == Min({st.remains, len})
           s == [st EXCEPT !.body = @ \o SubSeq(st.mem, st.remainsAt + 1, st.remainsAt + n),
                           !.remains = @ - n, !.remainsAt = @ + n]
       IN  st' = IF s.remains = 0 THEN [Moved(s, s.move) EXCEPT !.move = 0, !.remainsAt = 0] ELSE s

BodyLoop == st.phase \in {"run", "close"} /\ st.remains = 0 /\ ~st.eof

BodyGathers ==
    /\ At("fcgi")
    /\ BodyLoop
    /\ IF HasHeader THEN Pos < AllLength ELSE TRUE
    /\ LET s == IF HasHeader THEN Grown(st) ELSE st
       IN  IF s.wire = <<>> THEN st' = [s EXCEPT !.phase = "failed"]
           ELSE \E n \in 1..Len(s.wire) : n <= s.size - Pos /\ st' = Received(s, n)

\* Mutant: what is behind the part that is given is not kept.
TakenWhole(s, len) ==
    LET n == Min({s.mem[1][2], len})
    IN  Moved([s EXCEPT !.body = @ \o SubSeq(s.mem, FcgiHeader + 1, FcgiHeader + n)], AllLength)

\* As much of a STDIN record as was asked for.
Taken(s, len) ==
    LET n == Min({s.mem[1][2], len})
        rest == s.mem[1][2] - n
        t == [s EXCEPT !.body = @ \o SubSeq(s.mem, FcgiHeader + 1, FcgiHeader + n), !.remains = rest,
                       !.remainsAt = IF rest = 0 THEN 0 ELSE FcgiHeader + n]
    IN  IF rest = 0 THEN Moved(t, AllLength) ELSE [t EXCEPT !.move = AllLength]

\* A whole record: STDIN is given to the caller, or is the end; all others are
\* ignored.
BodyRecord(len) ==
    /\ At("fcgi")
    /\ BodyLoop /\ HasHeader /\ Pos >= AllLength
    /\ IF RecordType # "stdin" THEN st' = Moved(st, AllLength)
       ELSE IF ContentLength = 0 THEN st' = [st EXCEPT !.eof = TRUE]
       ELSE st' = Taken(st, len)

\* upsgi_proto_fastcgi_write and _sendfile: a header for the next record once
\* the last one is written
HeaderDue(s) ==
    LET n == Min({Head(s.toWrite) - s.writePos, FcgiMax})
    IN  IF s.status = 0 THEN [s EXCEPT !.status = n, !.out = Append(@, <<"header", n>>)] ELSE s

\* The write takes as much of the record as the socket has room for.
FcgiWrite ==
    /\ At("fcgi")
    /\ st.phase = "run" /\ st.toWrite # <<>>
    /\ LET s == HeaderDue(st)
       IN  \/ \E n \in 1..s.status :
                LET t == [s EXCEPT !.writePos = @ + n, !.status = @ - n, !.out = @ \o Fill(<<"data">>, n)]
                IN  st' = IF t.writePos = Head(t.toWrite) THEN [t EXCEPT !.writePos = 0, !.toWrite = Tail(@)] ELSE t
           \/ st' = [s EXCEPT !.phase = "failed"]

\* upsgi_proto_fastcgi_close drains the body before it says that the request
\* has ended.
FcgiClose ==
    /\ At("fcgi")
    /\ st.phase = "run" /\ st.toWrite = <<>>
    /\ st' = [st EXCEPT !.phase = "close"]

FcgiEnd ==
    /\ At("fcgi")
    /\ st.phase = "close" /\ st.eof /\ st.remains = 0
    /\ st' = [st EXCEPT !.phase = "done", !.ended = TRUE]

FcgiAgain ==
    /\ At("fcgi")
    /\ st.phase \in {"done", "failed"}
    /\ st' = [st EXCEPT !.wire = Stream(st.script), !.mem = <<>>, !.size = FcgiBuffer, !.move = 0, !.remains = 0,
                        !.remainsAt = 0, !.eof = FALSE, !.phase = "parse", !.params = <<>>, !.body = <<>>, !.ended = FALSE,
                        !.toWrite = FcgiOutput, !.writePos = 0, !.status = 0, !.out = <<>>]

FcgiNext ==
    \/ ParserReads \/ ParserRecord \/ ParserDone \/ BodyGathers \/ FcgiWrite \/ FcgiClose \/ FcgiEnd \/ FcgiAgain
    \/ \E len \in 1..2 : BodyRemains(len) \/ BodyRecord(len)
-----------------------------------------------------------------------------
SentOf(type) ==
    [i \in 1..Lengths(st.script, {type}, Len(st.script)) |-> <<type, i>>]

FcgiTypeOK ==
    kind = "fcgi" =>
        /\ st.phase \in {"parse", "run", "close", "done", "failed"}
        /\ st.move \in 0..Len(st.mem) /\ Pos <= st.size /\ st.status \in 0..FcgiMax

\* What upsgi_proto_fastcgi_read_body has given, over all its calls and
\* however the records and the reads cut the stream, is the content of the
\* STDIN records in order, and all of it when the end was reported; the
\* parameters are those of the PARAMS records.
FcgiContentExact ==
    kind = "fcgi" =>
        /\ IsPrefix(st.body, SentOf("stdin"))
        /\ st.phase \in {"run", "close", "done"} => st.params = SentOf("params")
        /\ st.eof => st.body = SentOf("stdin")

\* The STDOUT records are whole: a header comes when the contents it was
\* promised by the one before have been written, and only then; what was
\* written is the output of the application.
FcgiFramed ==
    kind = "fcgi" =>
        LET owed == FoldLeft(LAMBDA a, c : IF c[1] = "header" THEN (IF a = 0 THEN c[2] ELSE -100) ELSE a - 1, 0, st.out)
        IN  owed >= 0 /\ owed = st.status
=============================================================================
