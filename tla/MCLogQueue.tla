----------------------------- MODULE MCLogQueue -----------------------------
(* Small instances of LogQueue for TLC. *)
EXTENDS LogQueue

Say(len, rule, route) == [len |-> len, rule |-> rule, route |-> route]

\* A file and a descriptor for the generic log, the raw log for requests.
FileKind == [raw |-> "raw", file |-> "file", fd |-> "fd"]
FileChain == [log |-> <<"file">>, req |-> <<>>]
FileMessages == {Say(1, "show", <<>>), Say(2, "show", <<"fd", "file">>),
                 Say(1, "hide", <<>>), Say(4, "show", <<>>)}

\* One datagram sink, two records.
SocketKind == [raw |-> "raw", sock |-> "socket"]
SocketChain == [log |-> <<"sock">>, req |-> <<>>]
RsyslogKind == [raw |-> "raw", sys |-> "rsyslog"]
RsyslogChain == [log |-> <<"sys">>, req |-> <<>>]
OneMessage == {Say(2, "show", <<>>)}
=============================================================================
