---------------------------- MODULE RequestVars ----------------------------
(***************************************************************************)
(* The variables of a request (core/protocol.c).  upsgi_parse_vars walks   *)
(* the packed variables in the request's buffer and leaves a vector of     *)
(* pointers to keys and values; routing rules, the static file server and  *)
(* the application then append variables behind them, where the first      *)
(* bytes of the body may lie that were read with the packet.               *)
(*                                                                         *)
(* A buffer is a sequence of cells.  A size takes one cell, so a variable  *)
(* is its key's size, the key, its value's size, the value.  The cells of  *)
(* keys and values are Letter or Slash, those of the body Posted.  A key   *)
(* of two cells stands for PATH_INFO.                                      *)
(***************************************************************************)
EXTENDS Bench, Integers, Sequences, SequencesExt

CONSTANTS VarsBuffer,    \* --buffer-size
          VecSize,       \* upsgi.vec_size
          VarsBody       \* cells of the body read with the packet, at most

Letter == 1
Slash == 2
Posted == 9

Keys == {<<Letter>>, <<Letter, Letter>>}
Values == {<<>>, <<Letter>>, <<Slash>>}

\* The layout proto_base_add_upsgi_var writes.
Packed(pair) == <<Len(pair.key)>> \o pair.key \o <<Len(pair.val)>> \o pair.val

Filled(cells) == [i \in 1..VarsBuffer |-> IF i <= Len(cells) THEN cells[i] ELSE 0]

\* A well formed packet, or one with a cell changed or the end cut off.
VarsInit ==
    /\ kind = "vars"
    /\ \E sent \in SeqOf([key : Keys, val : Values], 3), body \in 0..VarsBody :
        LET packet == FlattenSeq([i \in 1..Len(sent) |-> Packed(sent[i])])
            Start(p, ok) ==
                [buf |-> Filled(p \o [i \in 1..body |-> Posted]), len |-> Len(p), ptr |-> 0, vec |-> <<>>,
                 cnt |-> 0, phase |-> "parse", well |-> ok, sent |-> IF ok THEN sent ELSE <<>>,
                 remains |-> body, rem |-> Len(p), own |-> FALSE, kept |-> <<>>, path |-> <<0, 0>>, grown |-> FALSE]
        IN  /\ Len(packet) + body <= VarsBuffer
            /\ \/ st = Start(packet, TRUE)
               \/ /\ Len(sent) = 2
                  /\ \E i \in 1..Len(packet), c \in 0..2 :
                        packet[i] # c /\ st = Start([packet EXCEPT ![i] = c], FALSE)
               \/ \E n \in 1..(Len(packet) - 1) : st = Start(SubSeq(packet, 1, n), FALSE)

\* What a pointer and a length name in the buffer.
Cells(s, iov) == SubSeq(s.buf, iov[1] + 1, iov[1] + iov[2])

VecLimit == VecSize - 5

\* "value can be null (even at the end) so use <="
ValueFits(s, ptr, size) == ptr + size <= s.len

SizeFits(s, ptr) == ptr + 1 <= s.len

\* One variable: the hooks fill the fields of the request (PATH_INFO here),
\* the vector holds the key and the value.  A vector that is full ends the
\* request; what was counted before it was noticed stays counted.
VarTaken(s, key, val) ==
    LET t == [s EXCEPT !.path = IF key[2] = 2 THEN val ELSE @]
    IN  IF s.cnt >= VecLimit THEN [t EXCEPT !.phase = "refused"]
        ELSE IF s.cnt + 1 >= VecLimit THEN [t EXCEPT !.phase = "refused", !.cnt = @ + 1]
        ELSE [t EXCEPT !.vec = Append(@, [key |-> key, val |-> val]), !.cnt = @ + 2, !.ptr = val[1] + val[2]]

\* An iteration of upsgi_parse_vars.  A key that reaches the end of the packet
\* is stepped over without an error: only its size is consumed.
ParseOne(s) ==
    LET size == s.buf[s.ptr + 1]
        key  == <<s.ptr + 1, size>>
        next == s.ptr + 1 + size
        fail == [s EXCEPT !.phase = "refused"]
    IN  IF ~(s.ptr + 1 < s.len) \/ size = 0 THEN fail
        ELSE IF ~(next < s.len) THEN [s EXCEPT !.ptr = @ + 1]
        ELSE IF ~SizeFits(s, next) THEN fail
        ELSE IF ~ValueFits(s, next + 1, s.buf[next + 1]) THEN fail
        ELSE VarTaken(s, key, <<next + 1, s.buf[next + 1]>>)

ParseVars ==
    /\ At("vars")
    /\ st.phase = "parse"
    /\ st' = IF st.ptr < st.len THEN ParseOne(st) ELSE [st EXCEPT !.phase = "run"]

\* "POST data could be already available in wsgi_req->buffer"
MovedAside(s) ==
    IF s.own \/ s.remains = 0 THEN s
    ELSE [s EXCEPT !.own = TRUE, !.kept = Cells(s, <<s.rem, s.remains>>)]

VecFull(s) == s.cnt >= VecSize - 6

\* The variable written behind the others.
Written(s, pair) ==
    LET cells == Packed(pair)
        key == <<s.len + 1, Len(pair.key)>>
        val == <<s.len + 2 + Len(pair.key), Len(pair.val)>>
    IN  [s EXCEPT !.buf = [i \in 1..VarsBuffer |-> IF i > s.len /\ i <= s.len + Len(cells) THEN cells[i - s.len]
                                                   ELSE @[i]],
                  !.len = @ + Len(cells), !.cnt = @ + 2,
                  !.vec = Append(@, [key |-> key, val |-> val]),
                  !.path = IF key[2] = 2 THEN val ELSE @,
                  !.sent = IF s.well THEN Append(@, pair) ELSE @]

\* upsgi_req_append; routing rules that set PATH_INFO point the request to
\* the new value.
ReqAppend ==
    /\ At("vars")
    /\ st.phase = "run"
    /\ \E key \in Keys, val \in Values :
        LET s == MovedAside(st)
            pair == [key |-> key, val |-> val]
        IN  st' = IF s.len + Len(Packed(pair)) > VarsBuffer \/ VecFull(s) THEN s ELSE Written(s, pair)

\* upsgi_req_append_path_info_with_index, with an index of one letter.  The
\* length of PATH_INFO has grown already when there is no room for the value.
AppendIndex ==
    /\ At("vars")
    /\ st.phase = "run" /\ ~st.grown
    /\ LET s == MovedAside(st)
           old == Cells(s, s.path)
           new == (IF old # <<>> /\ Last(old) # Slash THEN Append(old, Slash) ELSE old) \o <<Letter>>
           pair == [key |-> <<Letter, Letter>>, val |-> new]
       IN  st' = IF s.len + Len(Packed(pair)) > VarsBuffer \/ VecFull(s)
                 THEN [s EXCEPT !.grown = TRUE, !.path = <<@[1], Len(new)>>]
                 ELSE Written(s, pair)

VarsEnd ==
    /\ At("vars")
    /\ st.phase \in {"run", "refused"}
    /\ st' = [st EXCEPT !.phase = "end"]

VarsOver == At("vars") /\ st.phase = "end" /\ UNCHANGED st

VarsNext == ParseVars \/ ReqAppend \/ AppendIndex \/ VarsEnd \/ VarsOver

Contents(s) == [i \in 1..Len(s.vec) |-> [key |-> Cells(s, s.vec[i].key), val |-> Cells(s, s.vec[i].val)]]

\* upsgi_hooked_parse over the request's buffer: the second reader of the same
\* bytes (the exception handlers, the RPC and the stats clients use it).  A
\* parse that fails ends with the marker.
HookedParse(s) ==
    LET Fail == <<[key |-> <<>>, val |-> <<>>]>>
        Parse[p \in 0..s.len] ==
            IF p >= s.len THEN <<>>
            ELSE IF p + 1 >= s.len \/ s.buf[p + 1] = 0 THEN Fail
            ELSE LET v == p + 1 + s.buf[p + 1]
                 IN  IF v + 1 > s.len THEN Fail
                     ELSE LET e == v + 1 + s.buf[v + 1]
                          IN  IF e > s.len THEN Fail
                              ELSE <<[key |-> SubSeq(s.buf, p + 2, v), val |-> SubSeq(s.buf, v + 2, e)]>> \o Parse[e]
    IN  Parse[0]

VarsTypeOK ==
    kind = "vars" =>
        /\ st.len \in 0..VarsBuffer /\ st.ptr \in 0..st.len /\ st.cnt \in Nat
        /\ st.phase \in {"parse", "run", "refused", "end"}

(***************************************************************************)
(* Whatever the packet holds, and whatever was appended since, every key   *)
(* and every value the application is handed lies inside the request's     *)
(* variables: the checks of the parser and of the appending functions      *)
(* agree with the sizes that are in the buffer.                            *)
(***************************************************************************)
VarsInside ==
    kind = "vars" =>
        \A i \in 1..Len(st.vec) :
            /\ st.vec[i].key[1] + st.vec[i].key[2] < st.vec[i].val[1]
            /\ st.vec[i].val[1] + st.vec[i].val[2] <= st.len

(***************************************************************************)
(* A packet that is well formed arrives whole: the application sees the    *)
(* variables that were sent and appended, in order, with their values,     *)
(* empty ones at the very end included, and none is refused while the      *)
(* vector has room.                                                        *)
(***************************************************************************)
VarsExact ==
    kind = "vars" /\ st.well =>
        /\ st.phase = "run" => Contents(st) = st.sent
        /\ 2 * Len(st.sent) < VecLimit => st.phase # "refused"

(***************************************************************************)
(* The two readers of the packed variables agree about a well formed       *)
(* request at every moment, also after variables have been appended.       *)
(***************************************************************************)
ReadersAgree == kind = "vars" /\ st.well /\ st.phase = "run" => HookedParse(st) = Contents(st)

(***************************************************************************)
(* Appending variables never touches the part of the body that was read    *)
(* with the packet: it is moved out of the buffer before the first one is  *)
(* written over it.                                                        *)
(***************************************************************************)
BodyNotOverwritten ==
    kind = "vars" =>
        (IF st.own THEN st.kept ELSE Cells(st, <<st.rem, st.remains>>))
            = [i \in 1..st.remains |-> Posted]

(***************************************************************************)
(* The vector of pointers keeps the room that the layers below count on,   *)
(* and the request's PATH_INFO is the last one of its variables, unless an *)
(* index could not be appended to it.                                      *)
(***************************************************************************)
VecWithinLimit ==
    kind = "vars" =>
        /\ st.cnt <= VecLimit
        /\ \A i \in 1..Len(st.vec) :
            st.vec[i].key[2] = 2 /\ (\A j \in (i + 1)..Len(st.vec) : st.vec[j].key[2] # 2) /\ ~st.grown
                /\ st.phase = "run" => st.path = st.vec[i].val
=============================================================================
