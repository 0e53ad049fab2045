----------------------------- MODULE EventQueue -----------------------------
(***************************************************************************)
(* The descriptor queue (core/event.c), in the four forms it is built in:  *)
(* poll keeps its own array of descriptors, epoll, kqueue and the event    *)
(* ports leave the book-keeping to the kernel.                             *)
(*                                                                         *)
(* The nine calls that add a descriptor, move it from one interest to      *)
(* another and remove it are one operation here: from the interest `from'  *)
(* to the interest `to', where {} is not being in the queue.               *)
(***************************************************************************)
EXTENDS Bench, Integers, SequencesExt

CONSTANT EqFds   \* descriptor numbers

EqBackends == {"poll", "port", "epoll", "kqueue"}
Directions == {"in", "out"}
NoEvent == [fd |-> 0, ev |-> {}]

\* array is poll's; reg is the kernel's.  want, stale and before are not the
\* code's: what the callers have asked for, the entries of the array whose
\* descriptor has been closed, and how many there were before the last wait.
EqInit ==
    /\ kind = "eventq"
    /\ \E b \in EqBackends :
        st = [b |-> b, array |-> <<>>, reg |-> [f \in EqFds |-> {}], open |-> EqFds,
              want |-> [f \in EqFds |-> {}], stale |-> {}, before |-> 0, got |-> NoEvent]

-----------------------------------------------------------------------------
\* poll

Slots(q, fd) == {i \in DOMAIN q : q[i].fd = fd}

\* The array has room for every descriptor number, and holds none twice.
PollAdd(q, fd, ev) == Append(q, [fd |-> fd, ev |-> ev])

\* The memcpy() that closes the gap overlaps, and is longer than the rest of the
\* array: taken for the memmove() that memcpy() is in the C library of the build.
PollDel(q, fd) == SelectSeq(q, LAMBDA e : e.fd # fd)

PollSet(q, fd, ev) == [i \in DOMAIN q |-> IF q[i].fd = fd THEN [q[i] EXCEPT !.ev = ev] ELSE q[i]]

\* Adding a descriptor that is in the array does nothing.
PollChange(q, fd, from, to) ==
    CASE from = {} /\ Slots(q, fd) = {} -> PollAdd(q, fd, to)
      [] from # {} /\ to = {} -> PollDel(q, fd)
      [] from # {} /\ to # {} -> PollSet(q, fd, to)
      [] OTHER -> q

\* upsgi_poll_queue_rebuild drops the closed descriptors; the entry that
\* moves into the place of a dropped one is not looked at.
RECURSIVE PollRebuild(_, _)
PollRebuild(q, i) ==
    IF i > Len(q) THEN q
    ELSE PollRebuild(IF q[i].fd \in st.open THEN q ELSE RemoveAt(q, i), i + 1)

\* What poll reports: what was asked for, an error or a hangup, and
\* always a descriptor that is not open.
PollEvents(q) ==
    {[fd |-> e.fd, ev |-> {"nval"}] : e \in {x \in ToSet(q) : x.fd \notin st.open}}
    \cup UNION {{[fd |-> e.fd, ev |-> x] : x \in SUBSET (e.ev \cup {"err", "hup"}) \ {{}}} :
                e \in {x \in ToSet(q) : x.fd \in st.open}}

-----------------------------------------------------------------------------
\* epoll: adding what is there fails, and so does changing or removing what
\* is not
EpollChange(r, fd, from, to) ==
    IF (from = {}) = (r[fd] = {}) THEN [r EXCEPT ![fd] = to] ELSE r

\* kqueue: one filter per direction.  What is no longer wanted is deleted,
\* and if that fails nothing is added.
KqueueChange(r, fd, from, to) ==
    IF from \ to \subseteq r[fd] THEN [r EXCEPT ![fd] = (@ \ from) \cup to] ELSE r

\* event ports: an association replaces the one before it
PortChange(r, fd, from, to) == [r EXCEPT ![fd] = to]

\* An event port forgets the descriptor it has reported: it is associated
\* again, with what it was reported for, which may be an error alone.
PortReported(r, e) == [r EXCEPT ![e.fd] = e.ev]

EpollEvents(ev) == IF ev = {} THEN {} ELSE SUBSET (ev \cup {"err", "hup"}) \ {{}}

KqueueEvents(ev) == {{d} : d \in ev}

PortEvents(ev) == IF ev = {} THEN {} ELSE SUBSET (ev \cup {"err", "hup"}) \ {{}}

KernelEvents ==
    UNION {{[fd |-> f, ev |-> x] : x \in CASE st.b = "epoll" -> EpollEvents(st.reg[f])
                                           [] st.b = "kqueue" -> KqueueEvents(st.reg[f])
                                           [] st.b = "port" -> PortEvents(st.reg[f])} : f \in EqFds}

-----------------------------------------------------------------------------
\* event_queue_interesting_fd_is_read, _is_write and _has_error
IsRead(ev) == IF st.b = "port" THEN ev = {"in"} ELSE "in" \in ev

IsWrite(ev) == IF st.b = "port" THEN ev = {"out"} ELSE "out" \in ev

\* The ports compare where poll tests; kqueue has an error for the failed
\* changes of a wait only, which makes none.
HasError(ev) ==
    CASE st.b = "poll" -> ev \cap {"err", "hup", "nval"} # {}
      [] st.b = "epoll" -> ev # {} /\ ev \subseteq {"err", "hup"}
      [] st.b = "port" -> ev \in {{"err"}, {"hup"}}
      [] OTHER -> FALSE

-----------------------------------------------------------------------------
StillStale(array) == {f \in st.stale : Slots(array, f) # {}}

\* A caller changes the interest of a descriptor of its own; none goes
\* between no direction and both in one call.
Change ==
    /\ At("eventq")
    /\ \E fd \in st.open, to \in SUBSET Directions :
        LET from == st.want[fd]
            array == IF st.b = "poll" THEN PollChange(st.array, fd, from, to) ELSE <<>>
        IN  /\ from # to /\ {from, to} # {{}, Directions}
            /\ st' = [st EXCEPT
                        !.want[fd] = to, !.array = array, !.stale = StillStale(array), !.got = NoEvent, !.before = 0,
                        !.reg = CASE st.b = "epoll" -> EpollChange(@, fd, from, to)
                                  [] st.b = "kqueue" -> KqueueChange(@, fd, from, to)
                                  [] st.b = "port" -> PortChange(@, fd, from, to)
                                  [] OTHER -> @]

\* A descriptor is closed without being removed, as most callers do; the
\* kernel forgets it, the array does not.
CloseFd ==
    /\ At("eventq")
    /\ \E fd \in st.open :
        st' = [st EXCEPT !.open = @ \ {fd}, !.want[fd] = {}, !.reg[fd] = {}, !.got = NoEvent, !.before = 0,
                         !.stale = IF Slots(st.array, fd) = {} THEN @ ELSE @ \cup {fd}]

\* The number is given to a new descriptor.
ReuseFd ==
    /\ At("eventq")
    /\ \E fd \in EqFds \ st.open : st' = [st EXCEPT !.open = @ \cup {fd}, !.got = NoEvent, !.before = 0]

\* event_queue_wait with poll
WaitPollArray ==
    /\ At("eventq") /\ st.b = "poll"
    /\ LET array == PollRebuild(st.array, 1)
       IN  \E e \in PollEvents(array) \cup {NoEvent} :
            st' = [st EXCEPT !.array = array, !.stale = StillStale(array), !.got = e,
                             !.before = Cardinality(st.stale)]

WaitKernel ==
    /\ At("eventq") /\ st.b # "poll"
    /\ \E e \in KernelEvents :
        st' = [st EXCEPT !.got = e, !.reg = IF st.b = "port" THEN PortReported(@, e) ELSE @]

EqNext == Change \/ CloseFd \/ ReuseFd \/ WaitPollArray \/ WaitKernel

-----------------------------------------------------------------------------
Watched(fd) ==
    IF st.b = "poll" THEN UNION {st.array[i].ev : i \in Slots(st.array, fd)} ELSE st.reg[fd] \cap Directions

EqTypeOK ==
    kind = "eventq" =>
        /\ st.got.fd \in EqFds \cup {0} /\ st.stale \subseteq EqFds
        /\ \A f \in EqFds : Cardinality(Slots(st.array, f)) <= 1 /\ Watched(f) \subseteq Directions

\* Whatever the callers do, a descriptor is watched for what was asked last.
\* Two forms fall short: poll when the number was reused before the closed
\* entry was dropped, and the ports, which go on watching for what was reported
\* last: one direction of two, or neither after an error.
InterestKept ==
    kind = "eventq" =>
        \A f \in st.open \ st.stale :
            \/ Watched(f) = st.want[f]
            \/ st.b = "port" /\ Watched(f) \subseteq st.want[f]

\* No event is reported for a descriptor that has been closed; poll reports
\* one only when several had been closed since the wait before.
ClosedNotReported ==
    kind = "eventq" /\ st.got # NoEvent => st.got.fd \in st.open \/ st.before > 1

\* What a wait returns is a read, a write or an error to its caller, never
\* nothing at all, whatever conditions come together.  With the ports, which
\* compare, this holds for a single condition only.
EventSeen ==
    kind = "eventq" /\ st.got # NoEvent =>
        \/ IsRead(st.got.ev) \/ IsWrite(st.got.ev) \/ HasError(st.got.ev)
        \/ st.b = "port" /\ Cardinality(st.got.ev) > 1
=============================================================================
