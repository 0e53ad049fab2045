-------------------------------- MODULE Http --------------------------------
(***************************************************************************)
(* The header lines of an HTTP request (http_parse, proto/http.c): each    *)
(* line goes into a table that merges or refuses repeated headers, the     *)
(* table becomes the variables of the request, and the variables are read  *)
(* by the hooks of upsgi_parse_vars (core/protocol.c) that decide how the  *)
(* length of the body is known.                                            *)
(*                                                                         *)
(* A header is its name (letter case is already ignored) and one value.    *)
(* "te_" is Transfer_Encoding: another header than Transfer-Encoding, and  *)
(* the same variable.                                                      *)
(***************************************************************************)
EXTENDS Bench, Integers, Sequences, SequencesExt

CONSTANTS HeadLines,   \* header lines of a request
          HeadRoom     \* values the variables have room for

HeadNames == {"cl", "te", "te_", "via", "host"}

\* Several values of the headers that list things are one value.
AllowDuplicateMerge(name) == name = "via"

RejectDuplicate(name) == name \in {"host", "cl", "te"} \/ ~AllowDuplicateMerge(name)

\* The name of the variable.
CgiName(name) == IF name = "te_" THEN "te" ELSE name

\* Only a list that holds the word means that the body comes in chunks; for
\* upsgi_parse_vars it has to be the whole value.
HasChunkedToken(values) == \E i \in 1..Len(values) : values[i] \in {"chunked", "gzip, chunked"}

HeadInit ==
    /\ kind = "head"
    /\ st = [lines |-> <<>>, slots |-> <<>>, at |-> 0, sawLength |-> FALSE, sawChunked |-> FALSE, vars |-> <<>>,
             phase |-> "lines", hasLength |-> FALSE, chunked |-> FALSE]

Slot(name) == {i \in 1..Len(st.slots) : st.slots[i].name = name}

\* One header line; a line without name or value and one that goes on in the
\* next line are refused.
HeaderLine ==
    /\ At("head")
    /\ st.phase = "lines" /\ Len(st.lines) < HeadLines
    /\ \/ \E name \in HeadNames, value \in {"1", "much", "chunked", "gzip, chunked"} :
            LET line == [name |-> name, value |-> value]
                s == [st EXCEPT !.lines = Append(@, line)]
            IN  /\ (value \in {"1", "much"}) <=> name \notin {"te", "te_"}
                /\ value = "much" => name = "cl"
                /\ IF Slot(name) = {} THEN st' = [s EXCEPT !.slots = Append(@, [name |-> name, values |-> <<value>>])]
                   ELSE IF RejectDuplicate(name) THEN st' = [s EXCEPT !.phase = "refused"]
                   ELSE \E i \in Slot(name) : st' = [s EXCEPT !.slots[i].values = Append(@, value)]
       \/ st' = [st EXCEPT !.phase = "refused"]

HeaderEnd ==
    /\ At("head")
    /\ st.phase = "lines"
    /\ st' = [st EXCEPT !.phase = "table", !.at = 1]

\* Content-Length next to a chunked Transfer-Encoding.
Conflict(s, slot) ==
    \/ slot.name = "cl" /\ s.sawChunked
    \/ slot.name = "te" /\ HasChunkedToken(slot.values) /\ s.sawLength

Used(s) == FoldLeft(LAMBDA a, v : a + Len(v.values), 0, s.vars)

\* http_add_upsgi_header; the head that does not fit is refused.
Added(s, slot) ==
    LET v == [name |-> CgiName(slot.name), values |-> slot.values]
    IN  IF Used(s) + Len(slot.values) > HeadRoom THEN [s EXCEPT !.phase = "refused"] ELSE [s EXCEPT !.vars = Append(@, v)]

\* One turn of the loop over the table.
EmitSlot ==
    /\ At("head")
    /\ st.phase = "table" /\ st.at <= Len(st.slots)
    /\ LET slot == st.slots[st.at]
           s == [st EXCEPT !.at = @ + 1, !.sawLength = @ \/ slot.name = "cl",
                           !.sawChunked = @ \/ (slot.name = "te" /\ HasChunkedToken(slot.values))]
       IN  st' = IF Conflict(st, slot) THEN [s EXCEPT !.phase = "refused"] ELSE Added(s, slot)

EmitEnd ==
    /\ At("head")
    /\ st.phase = "table" /\ st.at > Len(st.slots)
    /\ st' = [st EXCEPT !.phase = "vars", !.at = 1]

\* upsgi_proto_check_14 and upsgi_proto_check_22; "much" is no length, or
\* more than limit_post.
Hook(s, v) ==
    CASE v.name = "cl" -> IF s.chunked \/ v.values = <<"much">> THEN [s EXCEPT !.phase = "refused"] ELSE [s EXCEPT !.hasLength = TRUE]
      [] v.name = "te" /\ v.values = <<"chunked">> ->
            IF s.hasLength THEN [s EXCEPT !.phase = "refused"] ELSE [s EXCEPT !.chunked = TRUE]
      [] OTHER -> s

\* One turn of the loop of upsgi_parse_vars
ParseVar ==
    /\ At("head")
    /\ st.phase = "vars" /\ st.at <= Len(st.vars)
    /\ st' = Hook([st EXCEPT !.at = @ + 1], st.vars[st.at])

ParseVarsEnd ==
    /\ At("head")
    /\ st.phase = "vars" /\ st.at > Len(st.vars)
    /\ st' = [st EXCEPT !.phase = "accepted"]

NextHead ==
    /\ At("head")
    /\ st.phase \in {"accepted", "refused"}
    /\ st' = [lines |-> <<>>, slots |-> <<>>, at |-> 0, sawLength |-> FALSE, sawChunked |-> FALSE, vars |-> <<>>,
              phase |-> "lines", hasLength |-> FALSE, chunked |-> FALSE]

HeadNext == HeaderLine \/ HeaderEnd \/ EmitSlot \/ EmitEnd \/ ParseVar \/ ParseVarsEnd \/ NextHead
-----------------------------------------------------------------------------
ValuesOf(name) ==
    LET mine == SelectSeq(st.lines, LAMBDA l : l.name = name) IN [i \in 1..Len(mine) |-> mine[i].value]

\* A request that is accepted has one way to know where its body ends: never
\* both a Content-Length and chunks, in whatever order and spelling the
\* headers came (upsgi_proto_check_14, upsgi_proto_check_22).
OneBodyLength ==
    kind = "head" /\ st.phase = "accepted" => ~(st.hasLength /\ st.chunked)

\* No header line is lost: the values of a header that was repeated are one
\* variable, in the order of the lines, and what does not fit into the
\* variables has the request refused and not the header dropped.
EveryLineKept ==
    kind = "head" /\ st.phase = "accepted" =>
        \A name \in HeadNames :
            ValuesOf(name) # <<>> =>
                \E i \in 1..Len(st.vars) : st.vars[i] = [name |-> CgiName(name), values |-> ValuesOf(name)]

\* Of a header that names one thing (http_header_reject_duplicate) an
\* accepted request has one line, and two variables of a name come only from
\* two spellings of the header.
NoSecondMeaning ==
    kind = "head" /\ st.phase = "accepted" =>
        /\ \A name \in HeadNames \ {"via"} : Len(ValuesOf(name)) <= 1
        /\ \A i, j \in 1..Len(st.vars) : i # j /\ st.vars[i].name = st.vars[j].name => st.vars[i].name = "te"

-----------------------------------------------------------------------------
(***************************************************************************)
(* From the path of the request line to PATH_INFO: http_url_decode4        *)
(* (core/utils.c) resolves the dots and the escapes one character at a     *)
(* time; http_add_path_info (proto/http.c) only calls it where             *)
(* http_path_needs_decode says that it would change something.             *)
(*                                                                         *)
(* "2" and "F" are ordinary characters and hexadecimal digits; every       *)
(* escape but %2F decodes to the same other character, "d".                *)
(***************************************************************************)
CONSTANTS PathLength    \* the longest path

PathChars == {"/", ".", "%", "#", "2", "F"}

PathInit ==
    /\ kind = "path"
    /\ \E keep \in BOOLEAN :
        st = [path |-> <<>>, keep |-> keep, status |-> "zero", noSlash |-> FALSE, hex |-> "0", dst |-> <<>>, cut |-> FALSE]

\* Characters put into dst, and the status behind them.
Put(s, chars, status) == [s EXCEPT !.dst = @ \o chars, !.status = status]

\* The last segment of dst and the slash before it are taken back.
DropSegment(dst) ==
    LET slashes == {i \in 1..Len(dst) : dst[i] = "/"}
    IN  SubSeq(dst, 1, IF slashes = {} THEN 0 ELSE Max(slashes) - 1)

Up(dst) == DropSegment(dst)

\* What follows a character that is put after a slash or after dots.
Plain(s, before, c) ==
    IF c = "%" THEN Put(s, before, "percent1") ELSE Put(s, Append(before, c), "zero")

\* The loop over the path, for the character c at index i (from 0).
Decoded(s, i, c) ==
    CASE s.status = "zero" ->
            (CASE c = "%" -> [s EXCEPT !.status = "percent1"]
               [] c = "/" -> [s EXCEPT !.status = "slash"]
               [] OTHER -> Put(s, <<c>>, "zero"))
      [] s.status = "percent1" ->
            IF c = "%" THEN Put(s, <<"%">>, "zero") ELSE [s EXCEPT !.hex = c, !.status = "percent2"]
      [] s.status = "percent2" ->
            LET slash == s.hex = "2" /\ c = "F"
            IN  Put([s EXCEPT !.hex = "0"],
                    IF slash /\ s.keep THEN <<"%", "2", "F">> ELSE IF slash THEN <<"/">> ELSE <<"d">>, "zero")
      [] s.status = "slash" ->
            LET before == IF i > 0 \/ ~s.noSlash THEN <<"/">> ELSE <<>>
            IN  CASE c = "." -> [s EXCEPT !.status = "dot"]
                  [] c = "/" -> Put(s, before, "slash")
                  [] OTHER -> Plain(s, before, c)
      [] s.status = "dot" ->
            (CASE c = "." -> [s EXCEPT !.status = "dotdot"]
               [] c = "/" -> [s EXCEPT !.status = "slash"]
               [] OTHER -> Plain(s, IF i > 1 THEN <<"/", ".">> ELSE <<".">>, c))
      [] s.status = "dotdot" ->
            IF c = "/" THEN [s EXCEPT !.dst = Up(@), !.status = "slash"]
            ELSE Plain(s, IF i > 2 THEN <<"/", ".", ".">> ELSE <<".", ".">>, c)

\* The switch behind the loop; the slash before a segment that ends the path
\* with two dots stays.
Finish(s) ==
    LET slashes == {i \in 1..Len(s.dst) : s.dst[i] = "/"}
    IN  CASE s.status \in {"slash", "dot"} -> Append(s.dst, "/")
          [] s.status = "dotdot" -> SubSeq(s.dst, 1, IF slashes = {} THEN 0 ELSE Max(slashes))
          [] OTHER -> s.dst

\* http_path_needs_decode
NeedsDecode(p) ==
    /\ p # <<>>
    /\ \/ p[1] # "/"
       \/ \E i \in 1..Len(p) :
            LET At3(k) == IF i + k <= Len(p) THEN p[i + k] ELSE "end"
            IN  \/ p[i] \in {"%", "#"}
                \/ p[i] = "/" /\ \/ At3(1) = "/"
                                 \/ At3(1) = "." /\ At3(2) \in {"end", "/"}
                                 \/ At3(1) = "." /\ At3(2) = "." /\ At3(3) \in {"end", "/"}

\* One more character of the path is looked at; nothing is after a "#".
PathChar ==
    /\ At("path")
    /\ Len(st.path) < PathLength
    /\ \E c \in PathChars :
        LET s == IF st.path = <<>> /\ c # "/" THEN [st EXCEPT !.status = "slash", !.noSlash = TRUE] ELSE st
            i == Len(st.path)
            t == IF c = "#" THEN [s EXCEPT !.cut = TRUE] ELSE IF s.cut THEN s ELSE Decoded(s, i, c)
        IN  st' = [t EXCEPT !.path = Append(@, c)]

\* http_add_path_info: the value of PATH_INFO.
PathInfo(s) == IF NeedsDecode(s.path) THEN Finish(s) ELSE s.path

\* The next request.
PathAgain ==
    /\ At("path")
    /\ Len(st.path) = PathLength
    /\ st' = [st EXCEPT !.path = <<>>, !.status = "zero", !.noSlash = FALSE, !.hex = "0", !.dst = <<>>, !.cut = FALSE]

PathNext == PathChar \/ PathAgain
-----------------------------------------------------------------------------
\* A path without escapes, as its segments: one dot is the segment itself,
\* two dots take the segment before them back.
Segments(p) ==
    LET starts == {i \in 1..Len(p) : p[i] = "/"}
        Segment(i) == LET ends == {j \in starts : j > i}
                      IN  SubSeq(p, i + 1, IF ends = {} THEN Len(p) ELSE Min(ends) - 1)
    IN  [k \in 1..Cardinality(starts) |->
            Segment(CHOOSE i \in starts : Cardinality({j \in starts : j <= i}) = k)]

Resolved(p) ==
    LET segs == Segments(p)
        kept == FoldLeft(LAMBDA a, x : CASE x = <<".">> -> a
                                         [] x = <<".", ".">> -> IF a = <<>> THEN a ELSE Front(a)
                                         [] OTHER -> Append(a, x), <<>>, segs)
        ends == IF Last(segs) \in {<<".">>, <<".", ".">>} THEN Append(kept, <<>>) ELSE kept
    IN  FoldLeft(LAMBDA a, x : a \o <<"/">> \o x, <<>>, ends)

\* Where http_path_needs_decode spares the call, http_url_decode4 would have
\* left the path as it is: the shortcut of http_add_path_info changes nothing.
ShortcutExact ==
    kind = "path" /\ ~NeedsDecode(st.path) => Finish(st) = st.path

\* Segments of one and of two dots are gone from PATH_INFO, with the segments
\* they take back and no others.  (Dots that were escaped stay, and a path
\* whose last two dots have nothing to take back comes out empty.)
DotsResolved ==
    kind = "path" /\ Len(st.path) > 0 /\ st.path[1] = "/" /\ (\A i \in 1..Len(st.path) : st.path[i] \notin {"%", "#"}) =>
        \/ PathInfo(st) = Resolved(st.path)
        \/ PathInfo(st) = <<>> /\ Resolved(st.path) = <<"/">> /\ Last(st.path) = "."

-----------------------------------------------------------------------------
(***************************************************************************)
(* A connection of an --http11-socket (proto/http.c): the head of a        *)
(* request is looked for in what each read() brings, the bytes behind it   *)
(* are the first of the body, and at the end of the request the connection *)
(* is closed or kept for the next one.                                     *)
(*                                                                         *)
(* A byte is a carriage return "r", a line feed "n" or something else "x". *)
(* What http_parse makes of a head is HttpHead; here it is a choice.       *)
(***************************************************************************)
CONSTANTS HttpBuffer,   \* --buffer-size
          HttpBytes,    \* bytes the client sends at most
          HttpLengths   \* the Content-Lengths of the requests

HeadEnd == <<"r", "n", "r", "n">>

\* What is known of a request before its head is parsed.
NewRequest == [buf |-> <<>>, status |-> 0, remains |-> 0, postCl |-> 0, postPos |-> 0, chunked |-> FALSE,
               protocol10 |-> FALSE, wantsClose |-> FALSE, offload |-> FALSE, writeErrors |-> FALSE,
               own |-> "none", announced |-> "none", parsed |-> FALSE, read |-> 0, end |-> 0]

\* wire holds the bytes that were sent and not read, left how many more the
\* client may send; read and end count the bytes of the connection read for
\* the request and those it consists of; ended tells how the last step
\* ended a request, with the request as it was.
HttpInit ==
    /\ kind = "http"
    /\ st = [wire |-> <<>>, left |-> HttpBytes, gone |-> FALSE, phase |-> "accept", retry |-> FALSE,
             req |-> NewRequest, ended |-> "no", last |-> NewRequest]

\* A step that does not end a request.
HttpNow(s) == st' = [s EXCEPT !.ended = "no", !.last = NewRequest]

ClientSends ==
    /\ At("http")
    /\ st.left > 0 /\ ~st.gone
    /\ \E b \in {"r", "n", "x"} : HttpNow([st EXCEPT !.wire = Append(@, b), !.left = @ - 1])

ClientCloses ==
    /\ At("http")
    /\ ~st.gone
    /\ HttpNow([st EXCEPT !.gone = TRUE])

\* One turn of the loop that looks for the end of the head.
Scanned(status, b) ==
    CASE b = "r" -> IF status \in {0, 2} THEN status + 1 ELSE 1
      [] b = "n" /\ status = 1 -> 2
      [] OTHER -> 0

\* The loop over the bytes just read: the status it leaves and, where the
\* head ended, the bytes that follow it (-1 where it did not end).
Scan(status, bytes) ==
    FoldLeft(LAMBDA a, j : IF a.remains >= 0 THEN a
                           ELSE IF bytes[j] = "n" /\ a.status = 3
                                THEN [a EXCEPT !.remains = Len(bytes) - j]
                                ELSE [a EXCEPT !.status = Scanned(@, bytes[j])],
             [status |-> status, remains |-> -1], [j \in 1..Len(bytes) |-> j])

\* Mutant: what the client sent ahead does not keep the connection from reuse.
MustClosePipelined(r) ==
    r.writeErrors \/ r.status # 3 \/ r.postPos < r.postCl \/ r.offload \/ r.protocol10 \/ r.wantsClose

\* upsgi_proto_http11_close, which does not look at the response.
MustClose(r) ==
    r.writeErrors \/ r.status # 3 \/ r.remains > 0 \/ r.postPos < r.postCl \/ r.offload \/ r.protocol10 \/ r.wantsClose

\* close_and_free_request and the memset that follows it
Ended(s) ==
    LET close == MustClose(s.req)
    IN  [s EXCEPT !.phase = "accept", !.retry = ~close, !.req = NewRequest, !.last = s.req,
                  !.ended = IF close THEN "closed" ELSE "kept",
                  !.wire = IF close THEN <<>> ELSE @, !.gone = ~close /\ @]

\* upsgi_proto_http11_accept for a new connection
AcceptConnection ==
    /\ At("http")
    /\ st.phase = "accept" /\ ~st.retry
    /\ HttpNow([st EXCEPT !.phase = "parse"])

\* upsgi_proto_http11_accept for a connection that was kept: it is waited for,
\* and closed when nothing comes.
AcceptKept ==
    /\ At("http")
    /\ st.phase = "accept" /\ st.retry
    /\ IF st.wire # <<>> \/ st.gone THEN HttpNow([st EXCEPT !.phase = "parse"])
       ELSE HttpNow([st EXCEPT !.retry = FALSE, !.gone = FALSE, !.wire = <<>>])

\* The read() of the parser; a request that fills the buffer is refused.
ParserRead ==
    /\ At("http")
    /\ st.phase = "parse"
    /\ \/ /\ Len(st.req.buf) = HttpBuffer
          /\ st' = Ended(st)
       \/ /\ Len(st.req.buf) < HttpBuffer /\ st.wire = <<>> /\ st.gone
          /\ st' = Ended(st)
       \/ /\ Len(st.req.buf) < HttpBuffer /\ st.wire # <<>>
          /\ \E n \in 1..Len(st.wire) :
              LET r == st.req
                  bytes == SubSeq(st.wire, 1, n)
                  scan == Scan(r.status, bytes)
              IN  /\ Len(r.buf) + n <= HttpBuffer
                  /\ HttpNow([st EXCEPT !.wire = SubSeq(@, n + 1, Len(@)),
                                        !.req = [r EXCEPT !.buf = @ \o bytes, !.status = scan.status, !.read = @ + n,
                                                          !.remains = IF scan.remains > 0 THEN scan.remains ELSE 0],
                                        !.phase = IF scan.remains >= 0 THEN "head" ELSE "parse"])

\* upsgi_wait_read_req gives up on the rest of the head.
ParserTimeout ==
    /\ At("http")
    /\ st.phase = "parse" /\ st.wire = <<>> /\ ~st.gone
    /\ st' = Ended(st)

\* http_parse or upsgi_parse_vars refuse the head; what is known of the
\* request then is what came before the place they object to.
HeadRefused ==
    /\ At("http")
    /\ st.phase = "head"
    /\ \E cl \in HttpLengths \cup {0}, old, close \in BOOLEAN :
        st' = Ended([st EXCEPT !.req.postCl = cl, !.req.protocol10 = old, !.req.wantsClose = close])

\* upsgi_proto_http11_fix_headers: what the Connection header of the response
\* says, given the one that the application or a route has put there.
Announced(own, old, close) == IF own = "none" /\ (old \/ close) THEN "close" ELSE own

\* http_parse and upsgi_parse_vars accept the head, and the headers of the
\* response are sent.
HeadAccepted ==
    /\ At("http")
    /\ st.phase = "head"
    /\ \E cl \in HttpLengths, chunked, old, close \in BOOLEAN, own \in {"none", "close", "keep-alive"} :
        /\ chunked => cl = 0
        /\ HttpNow([st EXCEPT !.phase = "run",
                              !.req = [@ EXCEPT !.postCl = cl, !.chunked = chunked, !.protocol10 = old,
                                                !.wantsClose = close, !.parsed = TRUE, !.own = own,
                                                !.announced = Announced(own, old, close),
                                                !.end = st.req.read - st.req.remains + cl, !.buf = <<>>]])

\* The reader never asks for more than the announced length.
BodyRoom(r, n) == r.chunked \/ n <= r.postCl - r.postPos

\* upsgi_proto_base_read_body, for a body of a known length and for one in chunks
BodyRead ==
    /\ At("http")
    /\ st.phase = "run"
    /\ \E n \in 1..HttpBytes :
        LET r == st.req
            got == IF r.remains > 0 THEN n ELSE 0
            count == IF r.chunked THEN [r EXCEPT !.remains = @ - got] ELSE [r EXCEPT !.remains = @ - got, !.postPos = @ + n]
        IN  /\ n <= IF r.remains > 0 THEN r.remains ELSE Len(st.wire)
            /\ BodyRoom(r, n)
            /\ HttpNow([st EXCEPT !.wire = SubSeq(@, n - got + 1, Len(@)), !.req = [count EXCEPT !.read = @ + n - got]])

\* A write fails, or the file that answers the request is handed to an offload thread.
ResponseFails ==
    /\ At("http")
    /\ st.phase = "run"
    /\ ~st.req.writeErrors /\ ~st.req.offload
    /\ \/ HttpNow([st EXCEPT !.req.writeErrors = TRUE])
       \/ HttpNow([st EXCEPT !.req.offload = TRUE])

RequestDone ==
    /\ At("http")
    /\ st.phase = "run"
    /\ st' = Ended(st)

HttpNext ==
    \/ ClientSends \/ ClientCloses \/ AcceptConnection \/ AcceptKept \/ ParserRead \/ ParserTimeout
    \/ HeadRefused \/ HeadAccepted \/ BodyRead \/ ResponseFails \/ RequestDone
-----------------------------------------------------------------------------
HttpTypeOK ==
    kind = "http" =>
        /\ st.phase \in {"accept", "parse", "head", "run"} /\ st.ended \in {"no", "kept", "closed"}
        /\ st.req.status \in 0..3 /\ st.req.remains \in 0..HttpBuffer /\ st.req.postPos \in 0..st.req.postCl

\* However the bytes of a head are spread over the reads of
\* upsgi_proto_http_parser, the head ends with the first empty line and
\* exactly the bytes behind it are taken for the body.
HeadEndExact ==
    kind = "http" =>
        LET b == st.req.buf
            EndsAt(i) == i >= 4 /\ SubSeq(b, i - 3, i) = HeadEnd
            first == IF \E i \in 1..Len(b) : EndsAt(i) THEN CHOOSE i \in 1..Len(b) : EndsAt(i) /\ \A j \in 1..i - 1 : ~EndsAt(j)
                     ELSE 0
        IN  /\ st.phase = "parse" => first = 0
            /\ st.phase = "head" => first > 0 /\ st.req.remains = Len(b) - first

\* A connection that upsgi_proto_http11_close keeps is at the start of the
\* next request: no byte of the body is left to be read, and none was read
\* ahead and dropped with the request.  That is so of a request whose head was
\* accepted and whose body has a length; of one in chunks, and of a head that
\* was refused, the function does not know where it ends.
KeptAtBoundary ==
    kind = "http" /\ st.ended = "kept" /\ st.last.parsed /\ ~st.last.chunked => st.last.read = st.last.end

\* What upsgi_proto_http11_fix_headers adds and what upsgi_proto_http11_close
\* does agree: after a Connection: close of the server's own the connection is
\* closed, and after HTTP/1.0 also if the application promised to keep it.  (A
\* Connection: close of the application or of a break rule closes nothing.)
CloseAsAnnounced ==
    kind = "http" /\ st.ended = "kept" =>
        /\ st.last.announced = "close" => st.last.own = "close"
        /\ ~st.last.protocol10
=============================================================================
