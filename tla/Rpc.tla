-------------------------------- MODULE Rpc --------------------------------
(***************************************************************************)
(* RPC (core/rpc.c, core/io.c).  The table of functions, one row for the   *)
(* master and one for each worker, in memory shared by all processes: a    *)
(* registration of the master is copied over every row.  And the call of a *)
(* function of another server, over a stream that is cut anywhere.         *)
(***************************************************************************)
EXTENDS Bench, Integers, Sequences, SequencesExt, FiniteSetsExt

CONSTANTS RpcWorkers, RpcNames, RpcMax, RpcRegistrations, RpcDeaths,
          RpcRequests,    \* sizes of requests
          RpcPacketMax,   \* 65535
          RpcAnswers      \* [size, wide, content]: a packet, or one and its content

Rows == 0..RpcWorkers
\* Every registration is of another function.  An entry whose name is there
\* before its function is Torn.
NoFunc == 0
Torn == -1
NoCall == [row |-> 0, name |-> "", ran |-> NoFunc]

RpcInit ==
    /\ kind = "rpc"
    /\ st = [table |-> [r \in Rows |-> <<>>], count |-> [r \in Rows |-> 0], regs |-> 0, deaths |-> 0,
             cow |-> <<>>, half |-> FALSE, want |-> [r \in Rows |-> [n \in RpcNames |-> NoFunc]],
             call |-> NoCall]

-----------------------------------------------------------------------------
At0(r, n) == {i \in 1..st.count[r] : i <= Len(st.table[r]) /\ st.table[r][i].name = n}

\* The row once the function is in it: its old place, or a new one.
Registered(r, e) ==
    IF At0(r, e.name) # {} THEN [st.table[r] EXCEPT ![Min(At0(r, e.name))] = e]
    ELSE Append(SubSeq(st.table[r], 1, st.count[r]), e)

Full(r, n) == At0(r, n) = {} /\ st.count[r] >= RpcMax

\* upsgi_register_rpc, under its lock; the master then copies its row.
RegisterRpc(r, n) ==
    /\ At("rpc") /\ st.cow = <<>> /\ st.regs < RpcRegistrations
    /\ LET f == st.regs + 1
           row == IF Full(r, n) THEN st.table[r] ELSE Registered(r, [name |-> n, func |-> f])
       IN  st' = [st EXCEPT !.regs = f, !.table[r] = row, !.count[r] = Len(row),
                            !.want[r] = IF Full(r, n) THEN @ ELSE [@ EXCEPT ![n] = f],
                            !.cow = IF r = 0 THEN [w \in 1..RpcWorkers |-> w] ELSE <<>>,
                            !.call = NoCall]

\* "implement cow": the count of the next worker, then its row.
CowCount ==
    /\ At("rpc") /\ st.cow # <<>> /\ st.count[Head(st.cow)] # st.count[0]
    /\ st' = [st EXCEPT !.count[Head(st.cow)] = st.count[0], !.call = NoCall]

\* The memcpy() of the row, seen from a worker that reads it: the entries one
\* after the other, the name of each and then its function.
Differing(w) == {i \in 1..Len(st.table[0]) : i > Len(st.table[w]) \/ st.table[w][i] # st.table[0][i]}

HalfCopied(w, i) ==
    IF i > Len(st.table[w]) THEN Append(st.table[w], [name |-> st.table[0][i].name, func |-> Torn])
    ELSE [st.table[w] EXCEPT ![i].name = st.table[0][i].name]

CowRow ==
    /\ At("rpc") /\ st.cow # <<>> /\ st.count[Head(st.cow)] = st.count[0]
    /\ LET w == Head(st.cow)
           i == Min(Differing(w))
       IN  st' = [st EXCEPT !.call = NoCall,
                     !.half = Differing(w) # {} /\ ~@,
                     !.table[w] = CASE Differing(w) = {} -> st.table[0]
                                    [] Differing(w) # {} /\ ~st.half -> HalfCopied(w, i)
                                    [] Differing(w) # {} /\ st.half -> [@ EXCEPT ![i] = st.table[0][i]],
                     !.cow = IF Differing(w) = {} THEN Tail(@) ELSE @,
                     !.want[w] = IF Differing(w) = {} THEN st.want[0] ELSE @]

\* upsgi_rpc takes no lock: the first entry of the name, if there is one.
CallRpc(r, n) ==
    /\ At("rpc")
    /\ LET found == At0(r, n)
       IN  st' = [st EXCEPT !.call = [row |-> r, name |-> n, ran |-> IF found = {} THEN NoFunc ELSE st.table[r][Min(found)].func]]

\* A worker dies and is forked anew: its row stays as it is, and what only its
\* predecessor registered is no function of the new process.
RpcRespawn(r) ==
    /\ At("rpc") /\ r # 0 /\ st.deaths < RpcDeaths
    /\ st' = [st EXCEPT !.deaths = @ + 1, !.want[r] = [n \in RpcNames |-> IF @[n] = st.want[0][n] THEN @[n] ELSE NoFunc],
                        !.call = NoCall]

-----------------------------------------------------------------------------
\* The remote call: what the server sends, cut into pieces.
RpcCallInit ==
    /\ kind = "rpccall"
    /\ \E size \in RpcRequests, a \in RpcAnswers :
        st = [pc |-> "connect", size |-> size, answer |-> a, sent |-> 0, phase |-> "", need |-> 0, got |-> 0, cap |-> 0,
              wire |-> 0, toCome |-> 4 + a.size + (IF a.wide THEN a.content ELSE 0), eof |-> FALSE,
              fds |-> 0, result |-> -1]

RpcFails(t) == [t EXCEPT !.pc = "done", !.fds = @ - 1]

\* upsgi_connect, the wait for it; a request that is too long is not sent.
RpcConnect ==
    /\ At("rpccall") /\ st.pc = "connect"
    /\ \/ st' = [st EXCEPT !.pc = "done"]
       \/ st' = RpcFails([st EXCEPT !.fds = 1])
       \/ st' = IF st.size > RpcPacketMax THEN RpcFails([st EXCEPT !.fds = 1])
                ELSE [st EXCEPT !.fds = 1, !.pc = "send"]

\* upsgi_write_true_nb: a write that fails again after the wait gives up.
RpcSend ==
    /\ At("rpccall") /\ st.pc = "send"
    /\ \/ \E n \in {1, st.size + 4 - st.sent} :
            st' = IF st.sent + n < st.size + 4 THEN [st EXCEPT !.sent = @ + n]
                  ELSE [st EXCEPT !.sent = st.size + 4, !.pc = "read", !.phase = "head", !.need = 4, !.cap = st.size + 4]
       \/ st' = RpcFails(st)

\* The server answers a whole request, or closes.
ServerSends ==
    /\ At("rpccall") /\ st.pc \in {"read", "again"} /\ st.toCome > 0 /\ ~st.eof
    /\ \E n \in {1, st.toCome} : st' = [st EXCEPT !.wire = @ + n, !.toCome = @ - n]

ServerCloses == At("rpccall") /\ st.pc \in {"read", "again"} /\ ~st.eof /\ st' = [st EXCEPT !.eof = TRUE]

RpcReturns(len) == [st EXCEPT !.pc = "done", !.fds = @ - 1, !.got = 0, !.result = IF len = 0 THEN -1 ELSE len]

\* realloc() if the size that is known now is larger than the last one.
RpcGrown(cap, old, need) == IF need > old THEN need ELSE cap

\* All of a phase is read: what comes next.
NextPhase(t) ==
    CASE st.phase = "head" ->
            [t EXCEPT !.phase = "body", !.need = st.answer.size, !.got = 0,
                      !.cap = IF st.answer.size > st.size + 4 THEN st.answer.size ELSE @]
      [] st.phase = "body" /\ st.answer.wide ->
            [t EXCEPT !.phase = "raw", !.need = st.answer.content, !.got = 0,
                      !.cap = RpcGrown(@, st.answer.size, st.answer.content)]
      [] OTHER -> RpcReturns(st.need)

\* A phase of no byte at all is passed at once.  A packet that does not parse and
\* a buffer that does not grow end the call.
RpcNextPhase ==
    /\ At("rpccall") /\ st.pc = "read" /\ st.got = st.need
    /\ \/ st' = NextPhase(st)
       \/ st' = RpcFails(st) /\ (st.phase = "head" \/ (st.phase = "body" /\ st.answer.wide))

\* read(): a piece; nothing yet, which is waited for once; the end, or an error.
RpcRead ==
    /\ At("rpccall") /\ st.pc \in {"read", "again"} /\ st.got < st.need
    /\ \/ st.wire > 0 /\ \E n \in {1, Min({st.wire, st.need - st.got})} :
            st' = [st EXCEPT !.pc = "read", !.wire = @ - n, !.got = @ + n]
       \/ st.wire = 0 /\ ~st.eof /\ st.pc = "read" /\ st' = [st EXCEPT !.pc = "again"]
       \/ st' = RpcFails(st)

RpcDone == (At("rpccall") /\ st.pc = "done" /\ UNCHANGED st) \/ (At("rpc") /\ st.regs = RpcRegistrations /\ UNCHANGED st)

RpcNext ==
    \/ \E r \in Rows, n \in RpcNames : RegisterRpc(r, n) \/ CallRpc(r, n)
    \/ CowCount \/ CowRow \/ \E r \in Rows : RpcRespawn(r)
    \/ RpcConnect \/ RpcSend \/ ServerSends \/ ServerCloses \/ RpcNextPhase \/ RpcRead \/ RpcDone

-----------------------------------------------------------------------------
\* A call runs the function that this process registered last under that
\* name, or that the master registered after it.  While the master copies over
\* its row, which nothing keeps a worker from reading, a call may find none,
\* half an entry, or, of an entry whose name was replaced, the function that
\* was there before.  (What only a dead predecessor registered is set apart:
\* its row stays, with addresses of the process that died.)
RpcRunsLatest ==
    kind = "rpc" /\ st.call.name # "" =>
        LET w == st.want[st.call.row][st.call.name]
        IN  w = NoFunc \/ st.call.ran = w \/ st.call.row \in Range(st.cow)

\* The answer that a call returns is whole: a packet, or the content it
\* announces, whatever pieces it comes in, and nothing of it if the server
\* closes early or is late twice.
RpcWhole ==
    kind = "rpccall" /\ st.result # -1 =>
        st.result = (IF st.answer.wide THEN st.answer.content ELSE st.answer.size) /\ st.toCome = 0 /\ st.wire = 0

\* No read goes past the end of the buffer, which is grown in two places.
RpcFits == kind = "rpccall" /\ st.pc \in {"read", "again"} => st.need <= st.cap

\* Every way out closes the connection.
RpcCloses == kind = "rpccall" /\ st.pc = "done" => st.fds = 0
=============================================================================
