------------------------------ MODULE AsyncLoop ------------------------------
(***************************************************************************)
(* One worker in async mode (core/async.c): a pool of cores, the run       *)
(* queue, the tables that map descriptors to requests, the event queue and *)
(* the timeouts. No coroutine engine is in the tree, so schedule_to_main   *)
(* is null: the wait hooks register a descriptor and return at once, and a *)
(* PSGI body object is resumed by calling psgi_response() again.           *)
(*                                                                         *)
(* Descriptors are small numbers that accept() and open() hand out lowest  *)
(* first, as the kernel does, so a closed number is soon in use again.     *)
(***************************************************************************)
EXTENDS Integers, Sequences, SequencesExt, FiniteSetsExt

CONSTANTS
    Async,         \* upsgi.async, the number of cores
    MaxFd,         \* bound: descriptors the worker can have open
    MaxWait,       \* bound: descriptors a request waits for at once
    MaxChunks,     \* bound: chunks of a PSGI body before it ends
    MaxSignals,    \* bound: signals routed to the worker
    SocketTimeout, \* upsgi.socket_timeout is not zero
    Routes         \* request routes that may end a request are configured

ASSUME AsyncAssumption ==
    /\ Async \in Nat \ {0} /\ MaxFd \in Nat \ {0} /\ MaxWait \in Nat
    /\ MaxChunks \in Nat /\ MaxSignals \in Nat
    /\ SocketTimeout \in BOOLEAN /\ Routes \in BOOLEAN

Cores == 1 .. Async
Fds == 1 .. MaxFd
Listen == MaxFd + 1        \* the listening socket
SignalFd == MaxFd + 2      \* upsgi.my_signal_socket
None == 0
Closed == 0                \* owner of a closed descriptor
Loop == -1                 \* owner of a connection

VARIABLES
    pc,        \* async_loop(): wait, poll, events, run,
               \* exit; or crashed
    manage,    \* workers[mywid].manage_next_request
    unused,    \* async_queue_unused, a stack
    runq,      \* async_runqueue
    todo,      \* what is left of this pass over the run queue
    batch,     \* events returned by event_queue_wait_multi()
    status,    \* wsgi_req->async_status: ok or again
    force,     \* wsgi_req->async_force_again
    called,    \* the application returned a body to resume
    conn,      \* wsgi_req->fd
    waiting,   \* wsgi_req->waiting_fds
    timer,     \* wsgi_req->async_timeout: none, armed or due
    chunks,    \* chunks the body has produced
    proto,     \* async_proto_fd_table
    waitTable, \* async_waiting_fd_table
    evq,       \* the event queue: what is monitored on each descriptor
    owner,     \* who opened a descriptor: the loop or a core's application
    appfds,    \* descriptors the application of a request holds
    taken,     \* history: cores taken by a signal event
    several,   \* history: a request waited for two descriptors at once
    lost,      \* history: numbers the loop closed while a request holds them
    late,      \* history: cores whose timeout expired in the parser
    signals    \* signals sent so far

reqVars == <<status, force, called, conn, waiting, timer, chunks, appfds>>
fdVars == <<proto, waitTable, evq, owner>>
history == <<taken, several, lost, late>>
vars == <<pc, manage, unused, runq, todo, batch, reqVars, fdVars, history,
          signals>>

Init ==
    /\ pc = "wait" /\ manage = TRUE
    /\ unused = [i \in 1 .. Async |-> i] /\ runq = <<>> /\ todo = <<>>
    /\ batch = {}
    /\ status = [c \in Cores |-> "ok"] /\ force = [c \in Cores |-> FALSE]
    /\ called = [c \in Cores |-> FALSE] /\ conn = [c \in Cores |-> None]
    /\ waiting = [c \in Cores |-> {}] /\ timer = [c \in Cores |-> "none"]
    /\ chunks = [c \in Cores |-> 0] /\ appfds = [c \in Cores |-> {}]
    /\ proto = [f \in Fds |-> None] /\ waitTable = [f \in Fds |-> None]
    /\ evq = [f \in Fds |-> "none"] /\ owner = [f \in Fds |-> Closed]
    /\ taken = {} /\ several = FALSE /\ lost = {} /\ late = {}
    /\ signals = 0

-----------------------------------------------------------------------------
\* runqueue_push(): a request is in the run queue at most once.
Pushed(q, c) == IF c \in Range(q) THEN q ELSE Append(q, c)

\* runqueue_remove()
Removed(q, c) == RemoveFirst(q, c)

\* async_reset_request(): the timer and every monitor of the request go.
ResetTimer(t, c) == [t EXCEPT ![c] = "none"]
ResetEvents(ev, c) == [f \in Fds |-> IF f \in waiting[c] THEN "none" ELSE ev[f]]
ResetTable(c) ==
    [f \in Fds |-> IF f \in waiting[c] THEN None ELSE waitTable[f]]

\* async_add_timeout(): a timer that runs is left alone.
AddTimeout(t, c) == IF t[c] = "none" THEN [t EXCEPT ![c] = "armed"] ELSE t

\* async_add_fd_read() and async_add_fd_write(), also from the wait hooks: the
\* descriptors lead to the request, whoever they led to, and those that are
\* open are monitored (a second monitor is refused, the first one stays).
AddToTable(c, w) == [f \in Fds |-> IF f \in w THEN c ELSE waitTable[f]]
AddToEvents(w, open) ==
    [f \in Fds |-> IF f \in w \cap open THEN "read" ELSE evq[f]]

\* upsgi_close_request() and the end of the application's handles.
ClosedWith(c) == appfds[c] \cup {conn[c]}

\* The requests that hold a number, and the lost numbers that are still held
\* when the request of a core has ended.
InUse == Cores \ (Range(unused) \cup taken)
Holders(f) == {c \in InUse : f \in ClosedWith(c)}
LostWithout(c) == {f \in lost : Holders(f) \ {c} # {}}

\* The request of a core is being parsed.
Parsing(c) == \E f \in Fds : proto[f] = c

\* async_expire_timeouts(): every request whose timer is due is reset and
\* queued to run.
Due == {c \in Cores : timer[c] = "due"}
ExpireKeepsEvents == \* Mutant: the monitors stay in the event queue.
    /\ timer' = [c \in Cores |-> IF c \in Due THEN "none" ELSE timer[c]]
    /\ waiting' = [c \in Cores |-> IF c \in Due THEN {} ELSE waiting[c]]
    /\ waitTable' = [f \in Fds |-> IF \E c \in Due : f \in waiting[c]
                                   THEN None ELSE waitTable[f]]
    /\ runq' = runq \o SetToSeq(Due \ Range(runq))
    /\ late' = late \cup {c \in Due : Parsing(c)}
    /\ UNCHANGED <<status, force, called, conn, chunks, appfds, proto,
                   owner, evq, taken, several, lost>>
Expire ==
    /\ timer' = [c \in Cores |-> IF c \in Due THEN "none" ELSE timer[c]]
    /\ waiting' = [c \in Cores |-> IF c \in Due THEN {} ELSE waiting[c]]
    /\ waitTable' = [f \in Fds |-> IF \E c \in Due : f \in waiting[c]
                                   THEN None ELSE waitTable[f]]
    /\ evq' = [f \in Fds |-> IF \E c \in Due : f \in waiting[c]
                             THEN "none" ELSE evq[f]]
    /\ runq' = runq \o SetToSeq(Due \ Range(runq))
    /\ late' = late \cup {c \in Due : Parsing(c)}
    /\ UNCHANGED <<status, force, called, conn, chunks, appfds, proto,
                   owner, taken, several, lost>>

\* The kernel closes a descriptor: it also leaves the epoll set.
Open == {f \in Fds : owner[f] # Closed}
LowestFd == Min(Fds \ Open)

\* What event_queue_wait_multi() may report.
Monitored == {f \in Fds : evq[f] # "none"} \cup {Listen}
             \cup (IF signals > 0 THEN {SignalFd} ELSE {})

-----------------------------------------------------------------------------
\* Time: a timer of the tree becomes due.
Tick(c) ==
    /\ timer[c] = "armed"
    /\ timer' = [timer EXCEPT ![c] = "due"]
    /\ UNCHANGED <<pc, manage, unused, runq, todo, batch, status, force, called,
                   conn, waiting, chunks, appfds, fdVars, history, signals>>

\* The master routes a signal to this worker.
SendSignal ==
    /\ signals < MaxSignals
    /\ signals' = signals + 1
    /\ UNCHANGED <<pc, manage, unused, runq, todo, batch, reqVars, fdVars,
                   history>>

\* gracefully_kill() in the worker: in async mode the handler exits at once,
\* whatever is in flight.
GracefullyKill ==
    /\ pc \in {"wait", "poll", "events", "run"}
    /\ pc' = "exit" /\ manage' = FALSE
    /\ UNCHANGED <<unused, runq, todo, batch, reqVars, fdVars, history, signals>>

\* upsgi_close_request(): the connection is closed and the request zeroed.
CloseRequest(c) ==
    /\ status' = [status EXCEPT ![c] = "ok"]
    /\ force' = [force EXCEPT ![c] = FALSE]
    /\ called' = [called EXCEPT ![c] = FALSE]
    /\ conn' = [conn EXCEPT ![c] = None]
    /\ chunks' = [chunks EXCEPT ![c] = 0]
    /\ appfds' = [appfds EXCEPT ![c] = {}]

\* goodbye_cruel_world() at the end of a request that reached max-requests or
\* a reload-on-* limit: the loop is left at its next turn.
GoodbyeCruelWorld == manage' \in {manage, FALSE}

\* Mutant: a due timer is left for later.
LoopExpireLater == FALSE /\ UNCHANGED vars

\* The top of the loop with nothing to run and a timer already due.
LoopExpire ==
    /\ pc = "wait" /\ manage /\ runq = <<>> /\ Due # {}
    /\ Expire
    /\ pc' = "poll"
    /\ UNCHANGED <<manage, unused, todo, batch, signals>>

\* The wait is reached: the condition of the loop held and no timer has to
\* be expired first.
AtWait == pc = "poll" \/ (pc = "wait" /\ manage /\ ~(runq = <<>> /\ Due # {}))

\* The wait returns events.
LoopEvents ==
    /\ AtWait
    /\ \E b \in (SUBSET Monitored) \ {{}} : batch' = b
    /\ pc' = "events"
    /\ UNCHANGED <<manage, unused, runq, todo, reqVars, fdVars, history, signals>>

\* The wait returns nothing: a non-empty run queue polls with no timeout.
\* The timers that are due by now expire.
LoopTimeout ==
    /\ AtWait /\ runq # <<>>
    /\ Expire
    /\ pc' = "run" /\ todo' = runq'
    /\ UNCHANGED <<manage, unused, batch, signals>>

\* The wait is interrupted by a Unix signal: no event, no expiry.
LoopInterrupted ==
    /\ AtWait
    /\ pc' = "run" /\ todo' = runq
    /\ UNCHANGED <<manage, unused, runq, batch, reqVars, fdVars, history, signals>>

\* manage_next_request was cleared: the loop is left, whatever is in flight.
LoopExit ==
    /\ pc = "wait" /\ ~manage
    /\ pc' = "exit"
    /\ UNCHANGED <<manage, unused, runq, todo, batch, reqVars, fdVars, history,
                   signals>>

\* The batch is done: give the cpu to the run queue.
EventsDone ==
    /\ pc = "events" /\ batch = {}
    /\ pc' = "run" /\ todo' = runq
    /\ UNCHANGED <<manage, unused, runq, batch, reqVars, fdVars, history, signals>>

-----------------------------------------------------------------------------
\* find_first_available_wsgi_req(): the top of the stack of unused cores.
FirstAvailable == Last(unused)

\* The signal socket is readable: the event takes a core from the pool for
\* the handler and does not put it back.
SignalEvent ==
    /\ pc = "events" /\ SignalFd \in batch
    /\ batch' = batch \ {SignalFd}
    /\ IF unused = <<>>
       THEN UNCHANGED <<unused, taken, signals>>
       ELSE /\ taken' = taken \cup {FirstAvailable}
            /\ unused' = Front(unused)
            /\ signals' = signals - 1
    /\ UNCHANGED <<pc, manage, runq, todo, reqVars, fdVars, several, lost, late>>

\* The listening socket is readable and no core is free: the connection
\* stays in the backlog.
QueueIsFull ==
    /\ pc = "events" /\ Listen \in batch /\ unused = <<>>
    /\ batch' = batch \ {Listen}
    /\ UNCHANGED <<pc, manage, unused, runq, todo, reqVars, fdVars, history,
                   signals>>

\* accept() fails (another worker took the connection, no descriptor is
\* left): the core is pushed back on the stack it was popped from.
AcceptFails ==
    /\ pc = "events" /\ Listen \in batch /\ unused # <<>>
    /\ batch' = batch \ {Listen}
    /\ unused' = Append(Front(unused), FirstAvailable)
    /\ UNCHANGED <<pc, manage, runq, todo, reqVars, fdVars, history, signals>>

\* wsgi_req_setup(), wsgi_req_simple_accept() and wsgi_req_async_recv(). (The
\* event queue has room: else the connection would stay open with no core.)
Accept ==
    /\ pc = "events" /\ Listen \in batch /\ unused # <<>> /\ Open # Fds
    /\ LET c == FirstAvailable
           f == LowestFd
       IN  /\ unused' = Front(unused)
           /\ conn' = [conn EXCEPT ![c] = f]
           /\ owner' = [owner EXCEPT ![f] = Loop]
           /\ evq' = [evq EXCEPT ![f] = "read"]
           /\ proto' = [proto EXCEPT ![f] = c]
           /\ timer' = IF SocketTimeout THEN AddTimeout(timer, c) ELSE timer
           /\ status' = [status EXCEPT ![c] = "again"]
    /\ batch' = batch \ {Listen}
    /\ UNCHANGED <<pc, manage, runq, todo, force, called, waiting, chunks,
                   appfds, waitTable, history, signals>>

\* A connection whose request is being parsed is readable. The parser has
\* run; async_reset_request() comes first whatever it returned.
ProtoEvent(f) ==
    /\ pc = "events" /\ f \in batch \cap Fds /\ proto[f] # None
    /\ batch' = batch \ {f}
    /\ waiting' = [waiting EXCEPT ![proto[f]] = {}]
    /\ waitTable' = ResetTable(proto[f])
    /\ UNCHANGED <<pc, manage, todo, force, called, chunks, appfds, taken,
                   several, signals>>

ProtoComplete(f) ==
    /\ ProtoEvent(f)
    /\ LET c == proto[f]
       IN  /\ timer' = ResetTimer(timer, c)
           /\ evq' = [ResetEvents(evq, c) EXCEPT ![f] = "none"]
           /\ proto' = [proto EXCEPT ![f] = None]
           /\ status' = [status EXCEPT ![c] = "ok"]
           /\ runq' = Pushed(runq, c)
           /\ late' = late \ {c}
    /\ UNCHANGED <<unused, conn, owner, lost>>

\* The parser gave up: the connection is closed and the core is free again.
ProtoError(f) ==
    /\ ProtoEvent(f)
    /\ LET c == proto[f]
       IN  /\ timer' = ResetTimer(timer, c)
           /\ evq' = [ResetEvents(evq, c) EXCEPT ![f] = "none"]
           /\ proto' = [proto EXCEPT ![f] = None]
           /\ owner' = [owner EXCEPT ![f] = Closed]
           /\ unused' = Append(unused, c)
           /\ lost' = LostWithout(c)
    /\ UNCHANGED <<runq, status, conn, late>>

ProtoAgain(f) ==
    /\ ProtoEvent(f)
    /\ LET c == proto[f]
       IN  /\ timer' = [timer EXCEPT ![c] = IF SocketTimeout THEN "armed"
                                            ELSE "none"]
           /\ evq' = ResetEvents(evq, c)
    /\ UNCHANGED <<unused, runq, status, conn, proto, owner, lost, late>>

\* A descriptor the application waits for is ready.
AppEvent(f) ==
    /\ pc = "events" /\ f \in batch \cap Fds
    /\ proto[f] = None /\ waitTable[f] # None
    /\ batch' = batch \ {f}
    /\ LET c == waitTable[f]
       IN  /\ timer' = ResetTimer(timer, c)
           /\ waiting' = [waiting EXCEPT ![c] = {}]
           /\ waitTable' = ResetTable(c)
           /\ evq' = ResetEvents(evq, c)
           /\ runq' = Pushed(runq, c)
    /\ UNCHANGED <<pc, manage, unused, todo, status, force, called, conn, chunks,
                   appfds, proto, owner, history, signals>>

\* "unknown fd, remove it (for safety)": whoever opened it, it is closed. The
\* request that holds the number does not learn of it, and closes or waits
\* for whatever has the number by then.
UnknownFd(f) ==
    /\ pc = "events" /\ f \in batch \cap Fds
    /\ proto[f] = None /\ waitTable[f] = None
    /\ batch' = batch \ {f}
    /\ owner' = [owner EXCEPT ![f] = Closed]
    /\ evq' = [evq EXCEPT ![f] = "none"]
    /\ lost' = lost \cup (IF Holders(f) = {} THEN {} ELSE {f})
    /\ UNCHANGED <<pc, manage, unused, runq, todo, reqVars, proto, waitTable,
                   taken, several, late, signals>>

-----------------------------------------------------------------------------
\* The request at the front of this pass is scheduled.
Running(c) == pc = "run" /\ todo # <<>> /\ Head(todo) = c

\* The end of async_schedule_to_req(): routes ended the request, the vars do
\* not parse, the application failed or its body is complete. Monitors and
\* timer go, upsgi_close_request() closes the connection and clears the
\* request, the core goes back to the pool. The application drops its
\* handles with the request.
End(c) ==
    /\ Running(c)
    /\ status[c] = "again" => (force[c] \/ Routes)
    /\ LET gone == ClosedWith(c)
       IN  /\ owner' = [f \in Fds |-> IF f \in gone THEN Closed ELSE owner[f]]
           /\ evq' = [f \in Fds |-> IF f \in gone THEN "none"
                                    ELSE ResetEvents(evq, c)[f]]
    /\ timer' = ResetTimer(timer, c)
    /\ waiting' = [waiting EXCEPT ![c] = {}]
    /\ waitTable' = ResetTable(c)
    /\ CloseRequest(c) /\ GoodbyeCruelWorld
    /\ unused' = Append(unused, c)
    /\ runq' = Removed(runq, c)
    /\ todo' = Tail(todo)
    /\ lost' = LostWithout(c)
    /\ late' = late \ {c}
    /\ UNCHANGED <<pc, batch, proto, taken, several, signals>>

\* The PSGI body gave a chunk, or the application asked to wait: the request
\* returns UPSGI_AGAIN and will be resumed. While it ran it may have opened
\* a descriptor, slept, and registered descriptors to wait for (its own, or
\* its connection through the wait hooks). It leaves the run queue if it
\* waits for anything.
Yield(c) ==
    /\ Running(c) /\ chunks[c] < MaxChunks
    /\ status[c] = "again" => (force[c] /\ called[c])
    /\ \E new \in {{}} \cup (IF Open = Fds THEN {} ELSE {{LowestFd}}),
          sleep \in BOOLEAN :
         \E w \in SUBSET (Fds \cap (appfds[c] \cup new \cup {conn[c]})) :
           /\ Cardinality(w) <= MaxWait
           /\ appfds' = [appfds EXCEPT ![c] = @ \cup new]
           /\ owner' = [f \in Fds |-> IF f \in new THEN c ELSE owner[f]]
           /\ waiting' = [waiting EXCEPT ![c] = @ \cup w]
           /\ waitTable' = AddToTable(c, w)
           /\ evq' = AddToEvents(w, Open \cup new)
           /\ timer' = IF sleep THEN AddTimeout(timer, c) ELSE timer
           /\ several' = (several \/ Cardinality(waiting'[c]) > 1)
           /\ runq' = IF waiting'[c] # {} \/ timer'[c] # "none"
                      THEN Removed(runq, c) ELSE runq
    /\ status' = [status EXCEPT ![c] = "again"]
    /\ force' = [force EXCEPT ![c] = TRUE]
    /\ called' = [called EXCEPT ![c] = TRUE]
    /\ chunks' = [chunks EXCEPT ![c] = @ + 1]
    /\ todo' = Tail(todo)
    /\ UNCHANGED <<pc, manage, unused, batch, conn, proto, taken, lost, late,
                   signals>>

\* A request whose timeout expired while it was still being parsed has status
\* UPSGI_AGAIN and no body: psgi_response() is called on a null response.
ResumeWithoutBody(c) ==
    /\ Running(c) /\ status[c] = "again" /\ ~force[c]
    /\ pc' = "crashed"
    /\ UNCHANGED <<manage, unused, runq, todo, batch, reqVars, fdVars, history,
                   signals>>

\* The pass over the run queue is over.
RunDone ==
    /\ pc = "run" /\ todo = <<>>
    /\ pc' = "wait"
    /\ UNCHANGED <<manage, unused, runq, todo, batch, reqVars, fdVars, history,
                   signals>>

\* The process ended: the master spawns the worker anew (core/master_utils.c).
Respawn ==
    /\ pc \in {"exit", "crashed"}
    /\ pc' = "wait" /\ manage' = TRUE
    /\ unused' = [i \in 1 .. Async |-> i] /\ runq' = <<>> /\ todo' = <<>>
    /\ batch' = {}
    /\ status' = [c \in Cores |-> "ok"] /\ force' = [c \in Cores |-> FALSE]
    /\ called' = [c \in Cores |-> FALSE] /\ conn' = [c \in Cores |-> None]
    /\ waiting' = [c \in Cores |-> {}] /\ timer' = [c \in Cores |-> "none"]
    /\ chunks' = [c \in Cores |-> 0] /\ appfds' = [c \in Cores |-> {}]
    /\ proto' = [f \in Fds |-> None] /\ waitTable' = [f \in Fds |-> None]
    /\ evq' = [f \in Fds |-> "none"] /\ owner' = [f \in Fds |-> Closed]
    /\ taken' = {} /\ several' = FALSE /\ lost' = {} /\ late' = {}
    /\ signals' = signals

Next ==
    \/ SendSignal \/ GracefullyKill
    \/ LoopExpire \/ LoopEvents \/ LoopTimeout \/ LoopExit
    \/ LoopInterrupted \/ EventsDone \/ SignalEvent \/ QueueIsFull \/ AcceptFails \/ Accept
    \/ RunDone \/ Respawn
    \/ \E f \in Fds : ProtoComplete(f) \/ ProtoError(f) \/ ProtoAgain(f)
                      \/ AppEvent(f) \/ UnknownFd(f)
    \/ \E c \in Cores : Tick(c) \/ End(c) \/ Yield(c) \/ ResumeWithoutBody(c)

Spec == Init /\ [][Next]_vars

-----------------------------------------------------------------------------
\* Cores, descriptors, run queue and timers keep their types.
TypeOK ==
    /\ pc \in {"wait", "poll", "events", "run", "exit", "crashed"} /\ manage \in BOOLEAN
    /\ unused \in Seq(Cores) /\ runq \in Seq(Cores) /\ todo \in Seq(Cores)
    /\ batch \subseteq Fds \cup {Listen, SignalFd}
    /\ status \in [Cores -> {"ok", "again"}] /\ force \in [Cores -> BOOLEAN]
    /\ called \in [Cores -> BOOLEAN] /\ conn \in [Cores -> Fds \cup {None}]
    /\ waiting \in [Cores -> SUBSET Fds] /\ appfds \in [Cores -> SUBSET Fds]
    /\ timer \in [Cores -> {"none", "armed", "due"}]
    /\ chunks \in [Cores -> 0 .. MaxChunks]
    /\ proto \in [Fds -> Cores \cup {None}]
    /\ waitTable \in [Fds -> Cores \cup {None}]
    /\ evq \in [Fds -> {"none", "read", "write"}]
    /\ owner \in [Fds -> Cores \cup {Closed, Loop}]
    /\ taken \subseteq Cores /\ several \in BOOLEAN /\ lost \subseteq Fds
    /\ late \subseteq Cores
    /\ signals \in 0 .. MaxSignals

Settled == pc \in {"wait", "poll"}
Waiting(c) == waiting[c] # {} \/ (timer[c] # "none" /\ ~Parsing(c))
Hurt == UNION {Holders(f) : f \in lost}

\* Where a core may be.
Places(c) == <<c \in Range(unused), Parsing(c) /\ c \notin Range(runq),
               c \in Range(runq), Waiting(c), c \in taken>>

\* Between two turns of the loop a core is in exactly one place: free, being
\* parsed, in the run queue (a request whose timeout expired in the parser is
\* there too), waiting for a descriptor or a timeout, or taken by a signal
\* event. The stack of free cores and the run queue hold no core twice. A
\* core that holds a lost number may be nowhere: its entry in the table of
\* the parser goes to the next connection with that number.
CoreInOnePlace ==
    Settled =>
      /\ \A c \in Cores \ Hurt :
           Cardinality({i \in 1 .. 5 : Places(c)[i]}) = 1
      /\ IsInjective(unused) /\ IsInjective(runq)

\* Nothing of an earlier request is left on a free core, after a lost number
\* too: no timer that would expire in the next request, no descriptor that
\* would wake it.
FreeCoreIsClean ==
    Settled => \A c \in Range(unused) :
      /\ timer[c] = "none" /\ waiting[c] = {} /\ ~force[c] /\ ~called[c]
      /\ \A f \in Fds : proto[f] # c /\ waitTable[f] # c

\* A request that left the run queue to wait can be woken: each descriptor it
\* waits for is open, is monitored and leads back to it. And every monitored
\* descriptor belongs to a request, so that an event finds one. What a lost
\* number spoils is confined to that number.
WaiterCanBeWoken ==
    Settled =>
      /\ \A c \in Cores : \A f \in waiting[c] \ lost :
           evq[f] # "none" /\ waitTable[f] = c /\ f \in Open
      /\ \A f \in Fds \ lost :
           evq[f] # "none" => proto[f] # None \/ waitTable[f] # None

\* A number that is not lost is in one hand: a connection is its core's and an
\* application's descriptor is of the request that opened it, however often
\* numbers are closed and handed out again. (A lost number is not: the next
\* connection may get it while the first request still holds it, and each
\* closes it under the other.)
OneOwner ==
    Settled => \A f \in Fds \ lost :
      /\ Cardinality(Holders(f)) <= 1
      /\ \A c \in Holders(f) : owner[f] = IF f = conn[c] THEN Loop ELSE c

\* "unknown fd, remove it (for safety)" closes a descriptor somebody holds,
\* but only after a request waited for two at once and both became ready in
\* one batch: the first event resets the request, the second finds nobody.
LostAfterTwoWaits == lost # {} => several

\* A request is resumed without a body, which brings the process down, only on
\* a core whose timeout expired in the parser: the request itself, or one
\* that the core accepted in the same turn after the parser had failed.
CrashedInParser == pc = "crashed" => Head(todo) \in late \cup Hurt

\* The worker's process is scheduled: the loop goes on whenever it does not
\* block in the wait. That an event arrives is up to the clients, and time
\* passes.
LoopStep ==
    \/ LoopExpire \/ LoopTimeout \/ LoopExit \/ EventsDone \/ SignalEvent
    \/ QueueIsFull \/ AcceptFails \/ Accept \/ RunDone \/ Respawn
    \/ \E f \in Fds : ProtoComplete(f) \/ ProtoError(f) \/ ProtoAgain(f)
                      \/ AppEvent(f) \/ UnknownFd(f)
    \/ \E c \in Cores : End(c) \/ Yield(c) \/ ResumeWithoutBody(c)
FairSpec == Spec /\ WF_vars(LoopStep) /\ \A c \in Cores : WF_vars(Tick(c))

\* Nobody starves in the run queue: a request in it is run to its end or to a
\* wait, or the process ends.
RunQueueServed ==
    \A c \in Cores : []<>(c \notin Range(runq) \/ pc \in {"exit", "crashed"})

\* A timeout that is due fires or is overtaken by data, provided the run queue
\* is empty again and again. (A loop that finds both requests to run and
\* events at every turn never looks at its timers.)
TimeoutsFire ==
    ([]<>(pc = "wait" /\ runq = <<>>)) =>
      \A c \in Cores : []<>(timer[c] # "due" \/ pc \in {"exit", "crashed"})

\* The state of the loop is sound: a core is free and clean, or is in one place
\* and can be woken up there. A descriptor belongs to one request until the
\* loop closes it as unknown, which takes a request that waits for two; only
\* the requests that hold such a number suffer. The process goes down over no
\* request but one that timed out in the parser.
CoresSound ==
    /\ TypeOK /\ FreeCoreIsClean /\ CoreInOnePlace /\ WaiterCanBeWoken
    /\ OneOwner /\ LostAfterTwoWaits /\ CrashedInParser

\* The loop serves everyone: requests that can go on do, and timeouts fire.
LoopServes == RunQueueServed /\ TimeoutsFire
=============================================================================
