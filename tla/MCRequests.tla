----------------------------- MODULE MCRequests -----------------------------
EXTENDS Http, Packets, RequestVars, Apps, StaticFiles, Routing, Websockets, Offload, Rpc
MCFcgi(type, len, pad) == [type |-> type, len |-> len, pad |-> pad]
MCFcgiScripts ==
    {<<MCFcgi("params", 2, 1), MCFcgi("stdin", 3, pad), MCFcgi("data", 1, 0), MCFcgi("stdin", 1, 1), MCFcgi("stdin", 0, 0)>> : pad \in 0..1}
        \cup {<<MCFcgi("begin", 1, 0), MCFcgi("params", 1, 0), MCFcgi("params", 1, 0), MCFcgi("stdin", 0, 1)>>}
MCFcgiOutput == <<3, 1>>
MCStaticRanges == {[p |-> "parsed", from |-> f, to |-> 9] : f \in {-9, 1, 7}} \cup {[p |-> "invalid", from |-> 0, to |-> 0]}
MCMain ==
    {<<>>, <<"status">>, <<"fails">>, <<"clear", "send">>}
        \cup {<<a, b, "label", c>> : a \in {"send", "clear"}, b \in {"goto", "goto2"}, c \in {"set", "last", "fails"}}
MCErr == {<<>>, <<"goto", "set", "label", "send">>, <<"set", "clear">>, <<"status">>, <<"break">>}
MCResp == {<<>>, <<"goto", "fails", "label", "set">>, <<"send", "clear", "set">>, <<"break">>}
MCFin == {<<>>, <<"goto", "fails", "label", "set">>, <<"clear", "send">>}
MCFieldPaths == {<<>>} \cup {<<"/">> \o p : p \in SeqOf({"/", "a", "b"}, 3)}
MCFieldA == <<"/", "a">>
MCFieldMounts ==
    {<<<<>>, MCFieldA, MCFieldA \o <<"/", "b">>>>, <<<<"/">>, MCFieldA \o <<"/", "b">>, MCFieldA>>, <<<<"/">>, MCFieldA \o <<"/">>>>}
MCWsFrames ==
    [fin : BOOLEAN, op : {1}, key : {TRUE}, size : {2}] \cup [fin : {TRUE}, op : {0}, key : {TRUE}, size : {2}]
        \cup [fin : {TRUE}, op : {1}, key : {FALSE}, size : {4}] \cup [fin : {TRUE}, op : {8, 9, 10}, key : {TRUE}, size : {0}]
MCOffRequest == <<"r1", "r2", "r3">>
MCOffClient == <<"c1", "c2", "c3", "c4">>
MCOffBackend == <<"b1", "b2", "b3", "b4">>
MCRpcAnswers == [size : 0..8, wide : {FALSE}, content : {0}] \cup [size : {2, 7}, wide : {TRUE}, content : {0, 1, 3, 8, 9}]

\* The head of an HTTP request is read as it was sent, however it was cut: its
\* end, its lines, one body length, the path without dots.  A connection is kept
\* only where the next request begins, unless the head was refused or the body
\* came in chunks, and is closed where the server itself has announced it.
HeadExact ==
    /\ HttpTypeOK /\ HeadEndExact /\ KeptAtBoundary /\ CloseAsAnnounced
    /\ ShortcutExact /\ DotsResolved
    /\ OneBodyLength /\ EveryLineKept /\ NoSecondMeaning

\* Requests in uwsgi, SCGI and FastCGI packets: content and framing are as sent
\* and what is well formed is taken, and the variables that are read out of the
\* packet are those that were put in, inside of it and of the vector.
PacketsExact ==
    /\ FcgiTypeOK /\ FcgiContentExact /\ FcgiFramed
    /\ PacketTypeOK /\ PacketExact /\ PacketNotRefused
    /\ VarsTypeOK /\ VarsInside /\ VarsExact /\ ReadersAgree /\ BodyNotOverwritten /\ VecWithinLimit

\* An application is loaded once, found complete, run in a context of its own,
\* and the lock of the loader is not kept.
AppsSound == AppsTypeOK /\ FoundComplete /\ LoadedOnce /\ ContextOwn /\ LoaderLockBrief


\* Routing tables are walked as written and end, rewritten text and offsets are
\* complete and in bounds, and fields of the request change as they should.
RoutesSound ==
    /\ RoutingTypeOK /\ NoTableInItself /\ CounterFollowsWalk /\ GotoInOwnTable /\ FinalWalkedOnce
    /\ TranslationExact /\ OvecFits /\ FirstPairFound /\ PrefixExact
    /\ MountSplitsPath /\ PathStaysInside /\ FieldIsVariable

\* What takes over a connection keeps its order and its bounds: websocket
\* messages, offloaded transfers and remote procedure calls.
StreamsSound ==
    /\ WsTypeOK /\ MessagesExact /\ PongHonoured /\ ClosedIsFinal
    /\ RelayedInOrder /\ MonitorsWhatItNeeds
    /\ RpcRunsLatest /\ RpcFits /\ RpcWhole /\ RpcCloses

Init == HttpInit \/ PathInit \/ HeadInit \/ FcgiInit \/ PacketInit \/ VarsInit \/ AppsInit \/ StaticInit \/ RoutingInit \/ TextInit \/ FieldsInit \/ WsInit \/ OffloadInit \/ RpcInit \/ RpcCallInit
Next == HttpNext \/ PathNext \/ HeadNext \/ FcgiNext \/ PacketNext \/ VarsNext \/ AppsNext \/ StaticNext \/ RoutingNext \/ TextNext \/ FieldsNext \/ WsNext \/ OffloadNext \/ RpcNext
Spec == Init /\ [][Next]_vars
=============================================================================
