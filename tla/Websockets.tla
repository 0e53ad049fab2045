----------------------------- MODULE Websockets -----------------------------
(***************************************************************************)
(* Receiving and sending over a websocket (core/websockets.c): the frames  *)
(* of the peer arrive as bytes in pieces of any size and are parsed in     *)
(* phases from a buffer; fragments are put together in a buffer that       *)
(* belongs to the process; pings are sent and pongs awaited.               *)
(*                                                                         *)
(* Widths are scaled: a size below WsInline is in the header, one below    *)
(* WsShort in one more byte, others in two (126, 65536 and 2 and 8 bytes), *)
(* and a key has two bytes.  Peers keep to the protocol; one connection    *)
(* follows the other, in a process without threads.                        *)
(***************************************************************************)
EXTENDS Bench, Integers, Sequences, SequencesExt

CONSTANTS WsInline, WsShort,
          WsLimit,       \* the largest message accepted
          WsFrames,      \* frames the peer may send: [fin, op, key, size]
          WsMany,        \* bound on the frames, of all connections
          WsPiece,       \* a read returns all there is, or at most so much
          WsConns,       \* bound on the connections of the process
          WsFreq,        \* seconds between pings
          WsTolerance    \* seconds a pong may take

KeySize == 2
Byte(t, a, b) == [t |-> t, a |-> a, b |-> b]

\* What the peer puts on the wire for its n-th frame.  The payload of a frame
\* with a key is masked: byte i with byte i % KeySize of the key.
Encoded(f, n) ==
    LET code == IF f.size < WsInline THEN f.size ELSE IF f.size < WsShort THEN WsInline ELSE WsInline + 1
        more == IF code < WsInline THEN <<>> ELSE IF code = WsInline THEN <<Byte("size", f.size, 0)>>
                ELSE <<Byte("size", f.size, 0), Byte("size", 0, 1)>>
    IN  <<Byte("one", IF f.fin THEN 1 ELSE 0, f.op), Byte("two", IF f.key THEN 1 ELSE 0, code)>> \o more
        \o (IF f.key THEN [i \in 1..KeySize |-> Byte("key", n, i - 1)] ELSE <<>>)
        \o [i \in 1..f.size |-> Byte(IF f.key THEN "masked" ELSE "plain", n, i)]

Parser == [buf |-> <<>>, phase |-> 0, need |-> 2, size |-> 0, pkt |-> 0, fin |-> 0, op |-> 0, key |-> 0]

Connected(cont, frames, left) ==
    [p |-> Parser, wire |-> <<>>, sent |-> <<>>, got |-> <<>>, cont |-> cont, frames |-> frames, left |-> left, pc |-> "app",
     closed |-> FALSE, over |-> FALSE, late |-> FALSE, age |-> -1, fresh |-> TRUE, missing |-> FALSE, owed |-> FALSE]

NoCont == <<Byte("none", 0, 0)>>

\* got is what the application has received, over that the close frame was
\* sent, late that a frame was written after it or after the connection was
\* given up.  age is the time since the last ping; missing says that
\* last_pong is before last_ping; owed, that the peer has sent no pong since.
WsInit == kind = "websocket" /\ st = Connected(NoCont, WsMany, WsConns - 1)

-----------------------------------------------------------------------------
Open(frames) == frames # <<>> /\ LET d == SelectSeq(frames, LAMBDA f : f.op <= 2) IN d # <<>> /\ ~Last(d).fin

\* The peer sends a frame: a continuation where one is due, and only there.
WsPeer ==
    /\ At("websocket") /\ st.frames > 0 /\ ~st.closed /\ (st.pc = "app" \/ Len(st.p.buf) < st.p.need)
    /\ \E f \in WsFrames :
        /\ f.op <= 2 => (f.op = 0) = Open(st.sent)
        /\ st' = [st EXCEPT !.frames = @ - 1, !.sent = Append(@, f), !.wire = @ \o Encoded(f, Len(st.sent) + 1),
                            !.owed = @ /\ f.op # 10]

\* A write succeeds or fails.
WsWritten(s, ok) == [s EXCEPT !.late = @ \/ s.over]

\* upsgi_websocket_send and upsgi_websocket_send_binary
WsSend ==
    /\ At("websocket") /\ st.pc = "app" /\ ~st.closed
    /\ \E ok \in BOOLEAN : st' = [WsWritten(st, ok) EXCEPT !.closed = ~ok]

\* upsgi_websocket_recv (nb = 0) and upsgi_websocket_recv_nb (nb = 1)
WsRecv ==
    /\ At("websocket") /\ st.pc = "app" /\ ~st.closed
    /\ \E nb \in {"recv", "nb"} : st' = [st EXCEPT !.pc = nb]

\* Nothing is returned: what there is of a message goes, and so does the
\* connection.
GaveUp(s) ==
    [s EXCEPT !.pc = "app", !.closed = TRUE, !.cont = NoCont, !.p = Parser, !.wire = <<>>, !.sent = <<>>, !.got = <<>>,
              !.age = -1, !.fresh = FALSE, !.missing = FALSE]

-----------------------------------------------------------------------------
\* upsgi_websocket_recv_do, phase 0: the header
HeaderRead(p) ==
    LET one == p.buf[1]
        two == p.buf[2]
        q == [p EXCEPT !.fin = one.a, !.op = one.b, !.key = two.a, !.size = two.b, !.pkt = 2 + two.a * KeySize]
    IN  CASE q.size = WsInline -> [q EXCEPT !.need = @ + 1, !.phase = 1, !.pkt = @ + 1]
          [] q.size = WsInline + 1 -> [q EXCEPT !.need = @ + 2, !.phase = 1, !.pkt = @ + 2]
          [] OTHER -> [q EXCEPT !.phase = 2]

\* Phase 1: the size behind the header
SizeRead(p) == [p EXCEPT !.size = p.buf[3].a, !.phase = 2]

\* Phases 2 and 3: the key, then the payload
KeyAwaited(p) ==
    IF p.key = 1 THEN [p EXCEPT !.need = @ + KeySize, !.phase = 3]
    ELSE [p EXCEPT !.need = @ + p.size, !.pkt = @ + p.size, !.phase = 4]

PayloadAwaited(p) == [p EXCEPT !.need = @ + p.size, !.pkt = @ + p.size, !.phase = 4]

\* upsgi_websockets_parse: the payload is what ends the packet, the key what
\* is before it.
Unmasked(p) ==
    LET from == p.pkt - p.size
        Clear(i) == LET b == p.buf[from + i]
                        k == p.buf[from - KeySize + ((i - 1) % KeySize) + 1]
                    IN  IF k = Byte("key", b.a, (b.b - 1) % KeySize) THEN Byte("plain", b.a, b.b)
                        ELSE Byte("noise", 0, 0)
    IN  [i \in 1..p.size |-> IF p.key = 1 THEN Clear(i) ELSE p.buf[from + i]]

\* The buffer starts over behind the packet.
Behind(p) == [Parser EXCEPT !.buf = SubSeq(p.buf, p.pkt + 1, Len(p.buf))]

\* Mutant: a fragment that ends a message is not joined to the others.
JoinedNot(s, payload) == payload

Joined(s, payload) == IF s.p.op = 0 THEN s.cont \o payload ELSE payload

\* A data frame: a message when it is final, else a message of one zero byte
\* while the fragments wait.  Without a first fragment a continuation fails.
DataFrame(s) ==
    LET whole == Joined(s, Unmasked(s.p))
    IN  IF s.p.op = 0 /\ s.cont = NoCont THEN GaveUp(s)
        ELSE IF s.p.fin = 1
             THEN [s EXCEPT !.got = Append(@, whole), !.cont = NoCont, !.pc = "app", !.p = Behind(s.p)]
             ELSE [s EXCEPT !.got = Append(@, <<Byte("zero", 0, 0)>>), !.cont = whole, !.pc = "app", !.p = Behind(s.p)]

\* Whether or not the answer could be written, the connection is given up.
CloseFrame(s, ok) == [GaveUp(WsWritten(s, ok)) EXCEPT !.over = TRUE]

PongFrame(s) == [s EXCEPT !.missing = FALSE, !.fresh = TRUE, !.p = Behind(s.p)]

\* Phase 4: the packet is complete.
WsPacket(s, ok) ==
    CASE s.p.op <= 2 -> DataFrame(s)
      [] s.p.op = 8 -> CloseFrame(s, ok)
      [] s.p.op = 9 -> IF ok THEN [WsWritten(s, ok) EXCEPT !.p = Behind(s.p)] ELSE GaveUp(s)
      [] s.p.op = 10 -> PongFrame(s)

\* A round of the loop, phases 0 to 3
Phase(p) ==
    IF Len(p.buf) < p.need THEN p
    ELSE CASE p.phase = 0 -> HeaderRead(p)
           [] p.phase = 1 -> SizeRead(p)
           [] p.phase = 2 -> KeyAwaited(p)
           [] p.phase = 3 -> PayloadAwaited(p)
           [] OTHER -> p

TooBig(p) ==
    \E q \in {p, Phase(p)} : q.phase = 1 /\ Len(q.buf) >= q.need /\ SizeRead(q).size > WsLimit

\* The loop as long as there are bytes enough.
WsParse ==
    /\ At("websocket") /\ st.pc \in {"recv", "nb"} /\ Len(st.p.buf) >= st.p.need
    /\ \/ st.p.phase < 4 /\ TooBig(st.p) /\ st' = GaveUp(st)
       \/ st.p.phase < 4 /\ ~TooBig(st.p) /\ st' = [st EXCEPT !.p = Phase(Phase(Phase(Phase(@))))]
       \/ st.p.phase = 4 /\ \E ok \in BOOLEAN : (ok \/ st.p.op \in {8, 9}) /\ st' = WsPacket(st, ok)

-----------------------------------------------------------------------------
Short == st.pc \in {"recv", "nb"} /\ Len(st.p.buf) < st.p.need

\* upsgi_websockets_recv_pkt: some of the bytes that are there
WsRead ==
    /\ At("websocket") /\ Short /\ st.wire # <<>>
    /\ \E n \in (1..WsPiece \cup {Len(st.wire)}) \cap 1..Len(st.wire) :
        st' = [st EXCEPT !.p.buf = @ \o SubSeq(st.wire, 1, n), !.wire = SubSeq(@, n + 1, Len(@))]

\* the peer has gone, or the read fails
WsReadFails == At("websocket") /\ Short /\ st' = GaveUp(st)

Elapsed(s, secs) ==
    [s EXCEPT !.age = IF @ = -1 THEN -1 ELSE IF @ + secs > WsFreq + WsTolerance THEN WsFreq + WsTolerance ELSE @ + secs,
              !.fresh = @ /\ secs = 0]

Ping(s, ok) ==
    IF ok THEN [WsWritten(s, ok) EXCEPT !.age = 0, !.missing = ~s.fresh, !.owed = TRUE] ELSE GaveUp(s)

\* upsgi_websockets_check_pingpong
CheckPingPong(s, ok) ==
    IF s.age = -1 THEN Ping(s, ok)
    ELSE IF s.missing THEN IF s.age > WsTolerance THEN [GaveUp(s) EXCEPT !.pc = "mute"] ELSE s
    ELSE IF s.age >= WsFreq THEN Ping(s, ok) ELSE s

\* Nothing to read: recv_nb returns nothing, recv waits for the peer or for
\* the time of a ping; what came in between is read before the next check.
WsNothing ==
    /\ At("websocket") /\ Short /\ st.wire = <<>>
    /\ \E ok \in BOOLEAN :
        LET s == CheckPingPong(IF st.pc = "nb" THEN st ELSE Elapsed(st, WsFreq), ok)
        IN  st' = IF st.pc = "nb" /\ s.pc = "nb" THEN [s EXCEPT !.pc = "app"] ELSE s

\* The application takes its time.
WsTime == At("websocket") /\ st.pc = "app" /\ ~st.closed /\ st' = Elapsed(st, 1)

\* The request ends and another connection is served.
WsNextRequest ==
    /\ At("websocket") /\ st.pc \in {"app", "mute"} /\ st.left > 0
    /\ st' = Connected(st.cont, st.frames, st.left - 1)

WsIdle == At("websocket") /\ st.closed /\ UNCHANGED st

WsNext ==
    WsPeer \/ WsSend \/ WsRecv \/ WsParse \/ WsRead \/ WsReadFails \/ WsNothing \/ WsTime \/ WsNextRequest \/ WsIdle

-----------------------------------------------------------------------------
WsTypeOK ==
    kind = "websocket" =>
        /\ st.pc \in {"app", "recv", "nb", "mute"} /\ st.p.phase \in 0..4 /\ st.left \in 0..WsConns
        /\ st.age \in -1..(WsFreq + WsTolerance)

\* What the peer's frames mean: the messages, one zero byte per open fragment.
RECURSIVE Meant(_, _, _)
Meant(frames, n, open) ==
    IF n > Len(frames) THEN <<>>
    ELSE LET f == frames[n]
             whole == open \o [i \in 1..f.size |-> Byte("plain", n, i)]
         IN  IF f.op > 2 THEN Meant(frames, n + 1, open)
             ELSE IF f.fin THEN <<whole>> \o Meant(frames, n + 1, <<>>)
             ELSE <<<<Byte("zero", 0, 0)>>>> \o Meant(frames, n + 1, whole)

\* The application receives the peer's messages, whole, unmasked, in order
\* and once each, however the bytes were cut, whatever control frames came in
\* between and whatever the connection before has left behind.
MessagesExact == kind = "websocket" => IsPrefix(st.got, Meant(st.sent, 1, <<>>))

\* A peer is given up for its silence only if it has sent no pong since the
\* last ping: a pong that is on the wire is read before the time is checked.
PongHonoured == kind = "websocket" /\ st.pc = "mute" => st.owed

\* Nothing is written to the connection once its close frame was answered.
ClosedIsFinal == kind = "websocket" => ~st.late
=============================================================================
