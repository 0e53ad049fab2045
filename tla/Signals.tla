------------------------------ MODULE Signals -------------------------------
(***************************************************************************)
(* The signal framework (core/signal.c): numbered signals that a worker    *)
(* raises, the master routes and a worker runs.                            *)
(*                                                                         *)
(* Every process has its own row of the shared table (row 0 is the         *)
(* master's).  A worker raises a signal by writing to the socket pair it   *)
(* shares with all the workers; the master reads it there and writes it    *)
(* either back to that pair, where any worker may take it, or to the pair  *)
(* of one worker.  The pairs are non-blocking: a full one loses signals.   *)
(***************************************************************************)
EXTENDS Bench, Integers, Sequences, FiniteSetsExt

CONSTANTS SigWorkers,   \* numproc
          SigReceivers, \* what each signal may be registered for, a sequence
          SigQueue      \* how many signals a socket pair holds

SigWids == 1..SigWorkers
SigNumbers == DOMAIN SigReceivers
NoEntry == [handler |-> FALSE, receiver |-> "", wid |-> 0]
Receivers == {"", "workers", "active-workers", "worker1", "worker2", "worker9", "subscribed"}
NotWaiting == [want |-> 0, ready |-> {}, got |-> -1, buf |-> 0, lost |-> FALSE]
NoRun == [w |-> 0, sig |-> 0, via |-> "", ok |-> TRUE]
NoResult == [want |-> 0, got |-> 0, lost |-> FALSE]

\* With threads a worker receives signals while one of its threads waits (a
\* thread of worker 1: one waiting worker is enough for that).
SignalInit ==
    /\ kind = "signal"
    /\ \E threads \in BOOLEAN :
       st = [threads |-> threads, forked |-> FALSE, tab |-> [i \in 0..SigWorkers |-> [s \in SigNumbers |-> NoEntry]],
             up |-> <<>>, pool |-> <<>>, own |-> [w \in SigWids |-> <<>>],
             active |-> [w \in SigWids |-> TRUE], wait |-> [w \in SigWids |-> NotWaiting],
             last |-> NoRun, result |-> NoResult]

\* last and result are what the step before has run and returned.
Now == [st EXCEPT !.last = NoRun, !.result = NoResult]


\* upsgi_register_signal: the master's row is copied to every worker
Registered(tab, i, s, r) ==
    LET own == [tab EXCEPT ![i][s] = [handler |-> TRUE, receiver |-> r, wid |-> i]]
    IN  IF i = 0 THEN [j \in 0..SigWorkers |-> own[0]] ELSE own

\* The master registers before it forks and never twice; a worker may
\* replace an entry of its own row.
RegisterSignal ==
    /\ At("signal")
    /\ \E i \in 0..SigWorkers, s \in SigNumbers : \E r \in SigReceivers[s] :
        /\ IF i = 0 THEN ~st.forked /\ ~st.tab[0][s].handler ELSE st.forked /\ r = ""
        /\ st' = [Now EXCEPT !.tab = Registered(@, i, s, r)]

ForkWorkers ==
    /\ At("signal") /\ ~st.forked
    /\ st' = [Now EXCEPT !.forked = TRUE]

\* upsgi_signal_send: a full queue loses the signal
Sent(q, s) == IF Len(q) < SigQueue THEN Append(q, s) ELSE q

RaiseSignal ==
    /\ At("signal") /\ st.forked
    /\ \E s \in SigNumbers : st' = [Now EXCEPT !.up = Sent(@, s)]

Targets(r) ==
    CASE r = "workers" -> SigWids
      [] r = "active-workers" -> {w \in SigWids : st.active[w]}
      [] r = "worker1" -> {1}
      [] r = "worker2" -> {2}
      [] OTHER -> {}

\* upsgi_route_signal, in the master.  A worker beyond numproc is reported
\* and then written to all the same: the descriptor read there is not one
\* of a worker, and what is written is lost.
RouteSignal ==
    /\ At("signal") /\ st.up # <<>>
    /\ LET s == Head(st.up)
           r == st.tab[0][s].receiver
       IN  st' = [Now EXCEPT !.up = Tail(@),
                            !.pool = IF r = "" THEN Sent(@, s) ELSE @,
                            !.own = [w \in SigWids |-> IF w \in Targets(r) THEN Sent(@[w], s) ELSE @[w]]]

\* A cheaped worker is not told; what was queued for it stays in its pipe.
ToggleActive ==
    /\ At("signal") /\ st.forked
    /\ \E w \in SigWids :
        st.wait[w] = NotWaiting /\ st' = [Now EXCEPT !.active[w] = ~@]

\* upsgi_signal_handler: whether worker w may run the handler of s
HandlerRuns(w, s) == st.tab[w][s].handler /\ st.tab[w][s].wid \in {0, w}

Ran(w, s, via) == [w |-> w, sig |-> s, via |-> via, ok |-> HandlerRuns(w, s)]

\* Not the code's: who waits at a pair from which a signal is taken now has
\* lost what its poll reported, unless it is the taker.
Took(waits, w, from) ==
    [v \in SigWids |-> [waits[v] EXCEPT !.lost = @ \/ (from \in waits[v].ready /\ v # w)]]

\* upsgi_receive_signal, from the loop of a worker
ReceiveSignal ==
    /\ At("signal")
    /\ \E w \in SigWids :
        /\ st.active[w] /\ (st.wait[w] = NotWaiting \/ st.threads)
        /\ \/ /\ st.pool # <<>>
              /\ st' = [Now EXCEPT !.pool = Tail(@), !.last = Ran(w, Head(st.pool), "pool"),
                                   !.wait = Took(@, 0, "pool")]
           \/ /\ st.own[w] # <<>>
              /\ st' = [Now EXCEPT !.own[w] = Tail(@), !.last = Ran(w, Head(st.own[w]), "own"),
                                   !.wait[w].lost = @ \/ "own" \in st.wait[w].ready]

\* upsgi_signal_wait, called by the application for one signal
SignalWait ==
    /\ At("signal") /\ st.forked
    /\ \E w \in SigWids, s \in SigNumbers :
        /\ st.active[w] /\ st.wait[w] = NotWaiting /\ (st.threads => w = 1)
        /\ st' = [Now EXCEPT !.wait[w].want = s]

WaitPoll ==
    /\ At("signal")
    /\ \E w \in SigWids :
        LET ready == (IF st.pool # <<>> THEN {"pool"} ELSE {}) \cup
                     (IF st.own[w] # <<>> THEN {"own"} ELSE {})
        IN  /\ st.wait[w].want # 0 /\ st.wait[w].ready = {} /\ ready # {}
            /\ st' = [Now EXCEPT !.wait[w].ready = ready]

\* A signal that was not asked for starts the wait over.
StartsOver(from, s, want) == s # want

\* One of the pairs that were ready is read, the shared one first.  Another
\* worker, or thread, may have emptied it meanwhile: the wait goes on to the
\* next pair, or ends.  After a failed read of its own pair it returns what was
\* read last, whatever that was (buf, kept here where it can matter).
WaitRead ==
    /\ At("signal")
    /\ \E w \in SigWids :
        LET x == st.wait[w]
            from == IF "pool" \in x.ready THEN "pool" ELSE "own"
            q == IF from = "pool" THEN st.pool ELSE st.own[w]
            cycle == q # <<>> /\ StartsOver(from, Head(q), x.want)
            got == CASE cycle \/ (q = <<>> /\ from = "pool") -> x.got
                     [] q = <<>> /\ from = "own" -> x.buf
                     [] OTHER -> Head(q)
            over == ~cycle /\ x.ready = {from}
            n == [Now EXCEPT
                     !.wait = [Took(@, w, from) EXCEPT
                                  ![w] = IF over THEN NotWaiting
                                         ELSE [x EXCEPT !.ready = IF cycle THEN {} ELSE @ \ {from},
                                                        !.got = got, !.lost = @ /\ ~cycle,
                                                        !.buf = IF st.threads /\ q # <<>> THEN Head(q) ELSE @]],
                     !.result = IF over THEN [want |-> x.want, got |-> got, lost |-> x.lost] ELSE @,
                     !.last = IF q = <<>> THEN @ ELSE Ran(w, Head(q), from)]
        IN  /\ x.ready # {}
            /\ st' = CASE q = <<>> -> n
                       [] q # <<>> /\ from = "pool" -> [n EXCEPT !.pool = Tail(q)]
                       [] OTHER -> [n EXCEPT !.own[w] = Tail(q)]

SignalNext ==
    \/ RegisterSignal \/ ForkWorkers \/ RaiseSignal \/ RouteSignal \/ ToggleActive
    \/ ReceiveSignal \/ SignalWait \/ WaitPoll \/ WaitRead

-----------------------------------------------------------------------------
SignalTypeOK ==
    kind = "signal" =>
        /\ \A i \in 0..SigWorkers, s \in SigNumbers : st.tab[i][s].receiver \in Receivers
        /\ Len(st.up) <= SigQueue /\ Len(st.pool) <= SigQueue
        /\ \A w \in SigWids : Len(st.own[w]) <= SigQueue /\ st.wait[w].ready \subseteq {"pool", "own"}

\* signal.c: a handler the master registered before it forked can be run by
\* every worker, whoever takes the signal and whatever single workers have
\* registered for themselves since.
MasterHandlersRun ==
    kind = "signal" /\ st.last.w # 0 /\ st.tab[0][st.last.sig].handler => st.last.ok

\* A signal comes out where its receiver says: at the pool when any worker
\* may take it, otherwise only at the workers it names.
RoutedToReceiver ==
    kind = "signal" /\ st.last.w # 0 =>
        LET r == st.tab[0][st.last.sig].receiver IN
        IF st.last.via = "pool" THEN r = ""
        ELSE r \in {"workers", "active-workers"} \/ r = (IF st.last.w = 1 THEN "worker1" ELSE "worker2")

\* A wait for one signal ends with that signal, however many signals of other
\* numbers come first, unless somebody else took a signal between its poll and
\* its read.  (Then it ends too: without any signal, or, when it was a thread of
\* the same worker, with the number that was read last.)
WaitReturnsWanted ==
    kind = "signal" =>
        \/ st.result.got = st.result.want
        \/ st.result.lost /\ (st.threads \/ st.result.got = -1)

-----------------------------------------------------------------------------
(***************************************************************************)
(* What raises signals by itself (core/signal.c, core/event.c and the      *)
(* cycle of the master in core/master.c): file monitors, timers and        *)
(* red-black timers.  Workers put them in tables of the shared memory;     *)
(* the master scans the tables without their locks, watches what is new    *)
(* and routes a signal when something has happened.                        *)
(*                                                                         *)
(* One table per behaviour.  The order of the tree is not modelled: every  *)
(* due timer is expired, in whatever order.                                *)
(***************************************************************************)
CONSTANTS SrcTable,     \* entries of a table (64)
          SrcValues,    \* periods of the red-black timers
          SrcIters,     \* how often they fire, 0 for ever
          SrcInterval,  \* the master's check interval
          SrcBusy       \* how long the rest of a cycle may take

Never == 1000
NoSlot == [sig |-> 0, value |-> 0, iters |-> 0, done |-> 0, due |-> Never, reg |-> FALSE]

\* Times are relative to now.  pend are the entries that have something to
\* tell, in order.  routed, late and batch tell of the last step: the entries
\* whose signal was routed, by how much the latest was late, and those whose
\* news the master has read.
SrcInit ==
    /\ kind = "sources"
    /\ \E what \in {"fmon", "timer", "rb"} :
        st = [what |-> what, tab |-> <<>>, slot |-> NoSlot, pc |-> "scan", wait |-> 0, pend |-> <<>>,
              routed |-> {}, late |-> 0, batch |-> {}]

SrcNow == [st EXCEPT !.routed = {}, !.late = 0, !.batch = {}]

\* upsgi_add_file_monitor, upsgi_add_timer_hr and upsgi_signal_add_rb_timer:
\* under the lock the entry behind the last is filled, and then counted.
SrcFill ==
    /\ At("sources") /\ st.slot = NoSlot /\ Len(st.tab) < SrcTable
    /\ \E v \in SrcValues, n \in SrcIters :
        /\ st.what # "rb" => n = 0 /\ v = Min(SrcValues)
        /\ st' = [SrcNow EXCEPT !.slot = [NoSlot EXCEPT !.sig = Len(st.tab) + 1, !.value = v, !.iters = n]]

SrcPublish ==
    /\ At("sources") /\ st.slot # NoSlot
    /\ st' = [SrcNow EXCEPT !.tab = Append(@, st.slot), !.slot = NoSlot]

-----------------------------------------------------------------------------
\* What the master's scan makes of an entry.
Watch(e) ==
    IF e.reg THEN e
    ELSE [e EXCEPT !.reg = TRUE, !.due = IF st.what = "rb" THEN e.value ELSE Never]

IsDue(e) == e.due # Never /\ e.due <= 0

FireAgain(e) == e.iters = 0 \/ e.done < e.iters

\* expire_rb_timeouts, of one timer
Fire(e) ==
    LET d == [e EXCEPT !.done = IF e.iters = 0 THEN 0 ELSE @ + 1]
    IN  [d EXCEPT !.due = IF FireAgain(d) THEN e.value ELSE Never]

Expired(s) ==
    LET due == {i \in DOMAIN s.tab : IsDue(s.tab[i])}
    IN  IF due = {} THEN s
        ELSE [s EXCEPT !.tab = [i \in DOMAIN @ |-> IF i \in due THEN Fire(@[i]) ELSE @[i]],
                       !.routed = due, !.late = Max({0 - s.tab[i].due : i \in due})]

\* Time passes.
Later(s, k) == [s EXCEPT !.tab = [i \in DOMAIN @ |-> IF @[i].due = Never THEN @[i]
                                                    ELSE [@[i] EXCEPT !.due = @ - k]]]

Dues(s) == {s.tab[i].due : i \in DOMAIN s.tab} \ {Never}

\* Before it waits the master expires what is overdue, or shortens the wait
\* to the next timer; after expiring it does not look for the next.
Scanned(s) ==
    LET next == IF Dues(s) = {} THEN SrcInterval ELSE Min(Dues(s))
    IN  IF next > 0 THEN [s EXCEPT !.pc = "wait", !.wait = Min({SrcInterval, next})]
        ELSE [Expired(s) EXCEPT !.pc = "wait", !.wait = SrcInterval]

SrcScan ==
    /\ At("sources") /\ st.pc = "scan"
    /\ st' = Scanned([SrcNow EXCEPT !.tab = [i \in DOMAIN @ |-> Watch(@[i])]])

\* The wait ends with nothing to read.
SrcTimeout ==
    /\ At("sources") /\ st.pc = "wait" /\ st.pend = <<>>
    /\ st' = [Expired(Later(SrcNow, st.wait)) EXCEPT !.pc = "busy"]

-----------------------------------------------------------------------------
\* A monitored file changes, a timer elapses: the kernel queues the one and
\* counts the other.
SrcHappens ==
    /\ At("sources") /\ st.what # "rb"
    /\ \E i \in DOMAIN st.tab :
        /\ st.tab[i].reg /\ Len(st.pend) < SrcTable
        /\ st.what = "timer" => \A j \in DOMAIN st.pend : st.pend[j] # i
        /\ st' = [SrcNow EXCEPT !.pend = Append(@, i)]

\* event_queue_ack_file_monitor with inotify: everything that has happened
\* is read at once, and the last entry that matches is returned.
AckFile(news) == news[Len(news)]

\* event_queue_ack_timer: a timer has a descriptor of its own; how often it
\* has elapsed is read and forgotten
AckTimer(news) == Head(news)

SrcEvent ==
    /\ At("sources") /\ st.pc = "wait" /\ st.pend # <<>>
    /\ LET file == st.what = "fmon"
           e == IF file THEN AckFile(st.pend) ELSE AckTimer(st.pend)
       IN  st' = [SrcNow EXCEPT !.pc = "busy", !.routed = {st.tab[e].sig},
                                !.batch = IF file THEN {st.pend[i] : i \in DOMAIN st.pend} ELSE {e},
                                !.pend = IF file THEN <<>> ELSE Tail(@)]

\* Something else ends the wait.
SrcOtherEvent ==
    /\ At("sources") /\ st.pc = "wait" /\ st.what = "rb"
    /\ \E k \in 0..(st.wait - 1) : st' = [Later(SrcNow, k) EXCEPT !.pc = "busy"]

SrcBusyFor ==
    /\ At("sources") /\ st.pc = "busy"
    /\ \E k \in 0..SrcBusy : st' = [Later(SrcNow, k) EXCEPT !.pc = "scan", !.wait = 0]

\* The tables are made anew when the server is started again.
SrcRestart ==
    /\ At("sources") /\ st.pc = "scan" /\ Len(st.tab) = SrcTable /\ st.slot = NoSlot
    /\ st' = [SrcNow EXCEPT !.tab = <<>>, !.pend = <<>>]

SrcNext ==
    \/ SrcFill \/ SrcPublish \/ SrcScan \/ SrcTimeout \/ SrcHappens \/ SrcEvent \/ SrcOtherEvent
    \/ SrcBusyFor \/ SrcRestart

-----------------------------------------------------------------------------
SrcTypeOK ==
    kind = "sources" =>
        /\ st.pc \in {"scan", "wait", "busy"} /\ st.routed \subseteq 1..SrcTable
        /\ \A i \in DOMAIN st.tab : st.tab[i].due = Never \/ st.tab[i].due <= Max(SrcValues)

\* master.c: a red-black timer fires as often as it was asked to and then
\* never again.
RbCountKept ==
    kind = "sources" =>
        \A i \in DOMAIN st.tab :
            LET e == st.tab[i] IN
            e.reg /\ e.iters > 0 => e.done <= e.iters /\ (e.done = e.iters <=> e.due = Never)

\* A timer is never late by more than a wait and the rest of a cycle, even
\* though other events can end every wait and the wait after an expiry is
\* not shortened for the next timer.
RbLateBounded ==
    kind = "sources" => st.late <= SrcInterval - 1 + SrcBusy

\* When one thing has happened its signal is routed, and no other.  (Of
\* several files that change before the master reads, only one is told.)
NewsRouted ==
    kind = "sources" /\ Cardinality(st.batch) = 1 => st.routed = st.batch
=============================================================================
