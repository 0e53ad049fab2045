------------------------------ MODULE Sockets ------------------------------
(***************************************************************************)
(* The listening sockets (core/socket.c, core/setup_utils.c): sockets are  *)
(* made from the options, from descriptors that were passed (systemd,      *)
(* upstart, zerg) or from a shared socket; on a reload the process image   *)
(* is replaced and the new one finds the listeners by their addresses;     *)
(* whatever is left is bound or closed.  Then every worker keeps the       *)
(* sockets that are mapped to it and decides whether it needs the thunder  *)
(* lock.                                                                   *)
(*                                                                         *)
(* The kernel keeps, for every descriptor, the address it listens on and   *)
(* which bind() it comes from: a client in the backlog is lost when its    *)
(* listener is.                                                            *)
(***************************************************************************)
EXTENDS Bench, Integers, Sequences, SequencesExt, FiniteSetsExt

CONSTANTS SockConfs,      \* configurations: [shared: BOOLEAN, socks: Seq of names]
          SockMaps,       \* the lists that map-socket may give
          SockWorkers,    \* numproc
          SockReloads,    \* reloads in a behaviour
          SockFds         \* the highest descriptor

SockDesc == 3..SockFds
NoListener == [addr |-> "none", n |-> 0, gen |-> 0]
Listener(a, n, g) == [addr |-> a, n |-> n, gen |-> g]

\* The names of sockets: an address ("A", "AA", "B"), a prefix of addresses
\* ("A*", which "A" and "AA" have, and which is bound as "A"), a descriptor
\* ("fd"), port 0 ("auto"), the shared socket ("=0"), or NULL.  "B" is an IPv6
\* address.  (The branch of upsgi_new_socket for "::" is never taken: what it
\* looks at follows the last colon.)
NullName == "null"
NamedFd == 3
Prefixed == {"A", "AA"}
IPv6 == {"B"}
BindsTo(name) == IF name = "A*" THEN "A" ELSE name

\* passed: descriptor 3 is a listener given by whoever started the server and
\* announced in the environment, unless a socket names it by its number;
\* zero: the standard input is one.
SockInit ==
    /\ kind = "socket"
    /\ \E c \in SockConfs, m \in SockMaps, passed, zero \in BOOLEAN :
        st = [conf |-> c, map |-> m, reload |-> FALSE, passed |-> passed, zero |-> zero, skip |-> FALSE,
              fds |-> [f \in SockDesc |-> IF f = 3 /\ passed THEN Listener("P", 0, 0) ELSE NoListener],
              gen |-> 0, socks |-> <<>>, shared |-> <<>>, pc |-> "parse", reloads |-> 0,
              was |-> {}, up |-> [w \in 1..SockWorkers |-> {}], bypass |-> {}, started |-> {}, zerg |-> <<>>]

Sock(name, n, fd, bound, shared) == [name |-> name, n |-> n, fd |-> fd, bound |-> bound, shared |-> shared]

-----------------------------------------------------------------------------
\* bind_to_tcp: a new listener on the lowest free descriptor; another one on
\* the same address makes it fail.
FreeFd(s) == Min({f \in SockDesc : s.fds[f] = NoListener})
CanBind(s, a, n) == \A f \in SockDesc : ~(s.fds[f].addr = a /\ s.fds[f].n = n)
Bound(s, a, n) == [s EXCEPT !.gen = @ + 1, !.fds[FreeFd(s)] = Listener(a, n, s.gen + 1)]

\* Mutant: an inherited listener is only noted.
AttachUnbound(s, i, f) == [s EXCEPT !.socks[i].fd = f]

\* Socket i is the listener of descriptor f.
Attach(s, i, f) == [s EXCEPT !.socks[i].fd = f, !.socks[i].bound = TRUE]
Renamed(s, i, f) == [s EXCEPT !.socks[i].name = s.fds[f].addr, !.socks[i].n = s.fds[f].n]

\* upsgi_add_socket_from_fd: is the listener the one that the socket names?
\* One without a name takes any, and so does, of the IPv6 listeners, one that
\* names another descriptor (match is still 0).
AddFromFd(s, i, f) ==
    LET k == s.socks[i]
        l == s.fds[f]
    IN  CASE l = NoListener -> s
          [] k.name = NullName \/ (k.name = "fd" /\ f = NamedFd) -> Renamed(Attach(s, i, f), i, f)
          [] k.name = "fd" /\ f # NamedFd -> IF l.addr \in IPv6 THEN Attach(s, i, f) ELSE s
          [] k.name = "A*" -> IF l.addr \in Prefixed THEN Attach(s, i, f) ELSE s
          [] OTHER -> IF l.addr = k.name /\ l.n = k.n THEN Attach(s, i, f) ELSE s

\* upsgi_new_socket, for one option: a socket with port 0 is bound at once
\* and named after the port, a mapped one waits for its shared socket.
NewSocket(s, t) ==
    CASE t = "auto" -> [Bound(s, "auto", s.gen + 1) EXCEPT !.socks = Append(@, Sock("auto", s.gen + 1, FreeFd(s), TRUE, FALSE))]
      [] t = "=0" -> IF s.conf.shared THEN [s EXCEPT !.socks = Append(@, Sock("", 0, -1, TRUE, TRUE))] ELSE [s EXCEPT !.pc = "exit"]
      [] t = "fd" -> AddFromFd([s EXCEPT !.socks = Append(@, Sock(t, 0, -1, FALSE, FALSE))], Len(s.socks) + 1, NamedFd)
      [] OTHER -> [s EXCEPT !.socks = Append(@, Sock(t, 0, -1, FALSE, FALSE))]

SockParse ==
    /\ At("socket") /\ st.pc = "parse"
    /\ LET s == FoldLeft(LAMBDA acc, t : IF acc.pc = "exit" THEN acc ELSE NewSocket(acc, t), st, st.conf.socks)
       IN  st' = IF s.pc = "exit" THEN s ELSE [s EXCEPT !.pc = "shared"]

\* upsgi_setup_shared_sockets: on a reload they are only looked for.
SharedFd(s) ==
    LET found == {f \in SockDesc : s.fds[f].addr = "S"}
    IN  IF ~s.reload THEN FreeFd(s) ELSE IF found = {} THEN -1 ELSE Max(found)

SetupShared ==
    /\ At("socket") /\ st.pc = "shared"
    /\ LET fd == IF st.conf.shared THEN SharedFd(st) ELSE -1
           s == IF st.conf.shared /\ ~st.reload THEN Bound(st, "S", 0) ELSE st
       IN  st' = [s EXCEPT !.shared = IF st.conf.shared THEN <<fd>> ELSE <<>>,
                           !.socks = [i \in DOMAIN @ |-> IF @[i].shared THEN [@[i] EXCEPT !.fd = fd, !.name = "S"] ELSE @[i]],
                           !.pc = IF st.reload THEN "inherit" ELSE "passed"]

\* upsgi_setup_systemd, upsgi_setup_upstart, upsgi_setup_zerg
SetupPassed ==
    /\ At("socket") /\ st.pc = "passed"
    /\ LET announced == st.passed /\ "fd" \notin Range(st.conf.socks)
           s == [st EXCEPT !.pc = "bind", !.skip = announced]
       IN  st' = IF ~announced THEN s
                 ELSE AddFromFd([s EXCEPT !.socks = Append(@, Sock(NullName, 0, -1, FALSE, FALSE))], Len(s.socks) + 1, NamedFd)

\* The second half of upsgi_setup_inherited_sockets: a descriptor that is
\* nobody's is closed.
Useless(s, f) ==
    /\ \A i \in DOMAIN s.socks : ~(s.socks[i].fd = f /\ s.socks[i].bound)
    /\ \A i \in DOMAIN s.shared : s.shared[i] # f

SetupInherited ==
    /\ At("socket") /\ st.pc = "inherit"
    /\ LET s == FoldLeft(LAMBDA acc, i : IF acc.socks[i].bound THEN acc
                                          ELSE FoldLeft(LAMBDA a, f : AddFromFd(a, i, f), acc, [k \in 1..(SockFds - 2) |-> k + 2]),
                         st, [i \in DOMAIN st.socks |-> i])
       IN  st' = [s EXCEPT !.fds = [f \in SockDesc |-> IF Useless(s, f) THEN NoListener ELSE s.fds[f]], !.pc = "bind"]

\* upsgi_socket_is_already_bound
AlreadyBound(s, k) == \E i \in DOMAIN s.socks : i # k /\ s.socks[i].name = s.socks[k].name /\ s.socks[i].n = s.socks[k].n /\ s.socks[i].bound

BindOne(s, i) ==
    IF s.pc = "exit" THEN s
    ELSE IF s.socks[i].bound \/ AlreadyBound(s, i) THEN [s EXCEPT !.socks[i].bound = TRUE]
    ELSE IF s.socks[i].name = "fd" \/ ~CanBind(s, BindsTo(s.socks[i].name), 0) THEN [s EXCEPT !.pc = "exit"]
    ELSE [Bound(s, BindsTo(s.socks[i].name), 0) EXCEPT !.socks[i].fd = FreeFd(s), !.socks[i].bound = TRUE]

\* upsgi_bind_sockets: the sockets still without a descriptor, then the
\* standard input, if it is a socket and nobody has it.
BindSockets ==
    /\ At("socket") /\ st.pc = "bind"
    /\ LET s == FoldLeft(BindOne, st, [i \in DOMAIN st.socks |-> i])
           t == IF st.zero /\ ~st.skip THEN [s EXCEPT !.socks = Append(@, Sock("Z", 0, 0, TRUE, FALSE))] ELSE [s EXCEPT !.zero = FALSE]
       IN  st' = IF s.pc = "exit" THEN s ELSE [t EXCEPT !.pc = "running"]

-----------------------------------------------------------------------------
\* Every socket is made with number 0; only a shared one gets another.
ConfiguredNum(i) == 0

\* strtok_r puts a zero behind the first worker of the list.
Tokenized(ws) == SubSeq(ws, 1, 1)

\* upsgi_map_sockets in worker w, one entry and one socket
MapEntry(m, e, i, w) ==
    IF m.map[e].num # ConfiguredNum(i) THEN m
    ELSE [m EXCEPT !.map[e].ws = Tokenized(@), !.on = \E k \in DOMAIN m.map[e].ws : m.map[e].ws[k] = w]

MapSocket(m, i, w) ==
    LET n == FoldLeft(LAMBDA acc, e : MapEntry(acc, e, i, w), [m EXCEPT !.on = TRUE], [e \in DOMAIN m.map |-> e])
    IN  [n EXCEPT !.mine = IF n.on THEN @ \cup {i} ELSE @]

\* upsgi_socket_mapping_is_worker_exclusive, on the list as it is by then
Exclusive(map, i, w) ==
    LET of == {e \in DOMAIN map : map[e].num = ConfiguredNum(i)}
        ws == UNION {Range(map[e].ws) : e \in of}
    IN  ws = {w}

\* upsgi_map_sockets and upsgi_configure_worker_accept_mode
WorkerStart ==
    /\ At("socket") /\ st.pc = "running"
    /\ \E w \in (1..SockWorkers) \ st.started :
        LET m == FoldLeft(LAMBDA acc, i : MapSocket(acc, i, w), [map |-> st.map, on |-> TRUE, mine |-> {}], [i \in DOMAIN st.socks |-> i])
        IN  st' = [st EXCEPT !.started = @ \cup {w}, !.up[w] = m.mine,
                             !.bypass = IF m.mine # {} /\ \A i \in m.mine : Exclusive(m.map, i, w) THEN @ \cup {w} ELSE @]

\* upsgi_manage_zerg: the descriptors of the sockets, one per name.
Uniq(s, i) ==
    /\ s.socks[i].fd # -1
    /\ \A k \in 1..(i - 1) : s.socks[k].fd # -1 => ~(s.socks[k].name = s.socks[i].name /\ s.socks[k].n = s.socks[i].n)

ManageZerg ==
    /\ At("socket") /\ st.pc = "running" /\ st.zerg = <<>>
    /\ LET some == SelectSeq([i \in DOMAIN st.socks |-> i], LAMBDA i : Uniq(st, i))
       IN  st' = [st EXCEPT !.zerg = [k \in DOMAIN some |-> st.socks[some[k]].fd]]

\* upsgi_reload closes what is no socket; the new image reads its options.
Reload ==
    /\ At("socket") /\ st.pc = "running" /\ st.reloads < SockReloads
    /\ \E c \in SockConfs :
        st' = [st EXCEPT !.reloads = @ + 1, !.reload = TRUE, !.skip = FALSE, !.conf = c, !.pc = "parse",
                         !.was = {st.fds[f] : f \in SockDesc} \ {NoListener},
                         !.fds = [f \in SockDesc |-> IF f \notin {st.socks[k].fd : k \in DOMAIN st.socks}
                                                        /\ f \notin Range(st.shared)
                                                     THEN NoListener ELSE @[f]],
                         !.socks = <<>>, !.shared = <<>>, !.up = [w \in 1..SockWorkers |-> {}], !.bypass = {}, !.started = {}, !.zerg = <<>>]

SockIdle == At("socket") /\ (st.pc = "exit" \/ (st.pc = "running" /\ st.reloads = SockReloads /\ st.started = 1..SockWorkers)) /\ UNCHANGED st

SockNext ==
    \/ SockParse \/ SetupShared \/ SetupPassed \/ SetupInherited \/ BindSockets
    \/ WorkerStart \/ ManageZerg \/ Reload \/ SockIdle

-----------------------------------------------------------------------------
SockTypeOK ==
    kind = "socket" =>
        /\ st.pc \in {"parse", "shared", "passed", "inherit", "bind", "running", "exit"}
        /\ \A f \in SockDesc : st.fds[f].gen \in 0..st.gen
        /\ \A i \in DOMAIN st.socks : st.socks[i].fd \in SockDesc \cup {-1, 0}

SockOpen == {st.fds[f] : f \in SockDesc} \ {NoListener}

\* A reload keeps the listener of every address that is configured before and
\* after it: no connection waiting in its backlog is lost, whatever else
\* changed and in whatever order the sockets are given.
ListenersKept ==
    kind = "socket" /\ st.pc = "running" =>
        \A l \in st.was : l.n = 0 /\ (l.addr \in Range(st.conf.socks) \/ (l.addr = "S" /\ st.conf.shared)) => l \in SockOpen

\* A server that runs has no listener that is not one of its sockets, on which
\* clients would wait for ever: those of the earlier configuration are closed.
NoForgottenListener ==
    kind = "socket" /\ st.pc = "running" =>
        \A f \in SockDesc : st.fds[f] # NoListener =>
            (\E i \in DOMAIN st.socks : st.socks[i].fd = f) \/ (\E i \in DOMAIN st.shared : st.shared[i] = f)

\* Every socket of a running server has a listener on its address, or on one
\* with its prefix, but for a second one of the same name; a shared one too,
\* unless a reload added it.  A socket that names a descriptor which is not
\* open gets, of what a reload inherits, an IPv6 listener.
SocketsListen ==
    kind = "socket" /\ st.pc = "running" =>
        \A i \in DOMAIN st.socks :
            LET k == st.socks[i]
            IN  CASE k.fd = 0 -> k.name = "Z"
                  [] k.fd = -1 -> \/ \E j \in 1..(i - 1) : st.socks[j].name = k.name
                                  \/ st.reload /\ k.shared /\ ~\E l \in st.was : l.addr = "S"
                  [] k.fd > 0 /\ k.name = "A*" -> st.fds[k.fd].addr \in Prefixed
                  [] k.fd > 0 /\ k.name = "fd" -> st.reload /\ st.fds[k.fd].addr \in IPv6
                  [] OTHER -> st.fds[k.fd].addr = k.name /\ st.fds[k.fd].n = k.n

\* Without a map-socket entry for number 0, the number of all sockets, every
\* worker has every socket.  With some, the last one counts: no worker has a
\* socket without being in its list, the first socket goes to all of the list
\* and each of the others to one at least.
MappedServed ==
    kind = "socket" /\ st.started = 1..SockWorkers =>
        LET lists == {e \in DOMAIN st.map : st.map[e].num = 0}
            named == IF lists = {} THEN 1..SockWorkers ELSE Range(st.map[Max(lists)].ws)
            having(i) == {w \in 1..SockWorkers : i \in st.up[w]}
        IN  \A i \in DOMAIN st.socks :
                /\ having(i) \subseteq named /\ having(i) # {}
                /\ i = 1 \/ lists = {} => having(i) = named

\* A zerg gets every listener of the sockets, each once, or once for each name
\* that it has.
ZergGetsEachOnce ==
    kind = "socket" /\ st.zerg # <<>> =>
        LET names(fd) == {<<st.socks[i].name, st.socks[i].n>> : i \in {i \in DOMAIN st.socks : st.socks[i].fd = fd}}
        IN  /\ \A fd \in Range(st.zerg) : Cardinality({i \in DOMAIN st.zerg : st.zerg[i] = fd}) = Cardinality(names(fd))
            /\ Range(st.zerg) = {st.socks[i].fd : i \in DOMAIN st.socks} \ {-1}

\* The thunder lock is left out only by a worker whose sockets no other worker
\* accepts on.
BypassIsExclusive ==
    kind = "socket" => \A w \in st.bypass, v \in st.started : v # w => st.up[v] \cap st.up[w] = {}
=============================================================================
