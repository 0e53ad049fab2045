--------------------------- MODULE BodyScheduler ---------------------------
(***************************************************************************)
(* The request-body scheduler (core/body_scheduler.c): the fields it keeps *)
(* in a wsgi_request and in its upsgi_core, and one operator per function. *)
(* A state of the scheduler is one record s; every operator returns the    *)
(* next one.  Byte counts are in any unit: the thresholds of the source    *)
(* (256K, 64K, 32K) are CONSTANTS and keep their order.  The byte accounts *)
(* granted, unused and total are kept as their balance, the two turn       *)
(* counters stop at the threshold they are compared with, and counters     *)
(* that are only reported and enter no decision are left out.              *)
(***************************************************************************)
EXTENDS Integers, Sequences, FiniteSetsExt

CONSTANTS
    BytesThreshold,      \* UPSGI_BODY_SCHED_INTERACTIVE_BYTES_THRESHOLD
    RoundsThreshold,     \* ..._INTERACTIVE_ROUNDS_THRESHOLD
    ResidencyThreshold,  \* ..._INTERACTIVE_RESIDENCY_US_THRESHOLD
    MinBytes,            \* ..._PROMOTION_MIN_BYTES
    FullTurns,           \* ..._FULL_BUDGET_PROMOTION_THRESHOLD
    InteractiveQuantum,  \* ..._INTERACTIVE_QUANTUM_BYTES
    BulkQuantum,         \* ..._BULK_QUANTUM_BYTES
    CapMultiplier,       \* ..._DEFICIT_CAP_MULTIPLIER
    BucketLimits         \* the limits of the residency histogram, ascending

ASSUME SchedulerConstants ==
    /\ BulkQuantum \in Nat \ {0} /\ InteractiveQuantum >= BulkQuantum
    /\ CapMultiplier \in Nat \ {0}
    /\ \A i \in 1..(Len(BucketLimits) - 1) : BucketLimits[i] < BucketLimits[i + 1]

\* The fields of a fresh wsgi_request (memset to 0 by upsgi_close_request).
FreshItem == [registered |-> FALSE, lane |-> "interactive", started |-> 0,
              serviced |-> 0, bytes |-> 0, rounds |-> 0, full |-> 0,
              deficit |-> 0, budget |-> 0, capped |-> FALSE, waited |-> FALSE,
              complete |-> FALSE, by |-> {}]

\* The fields of the core: gauges, the balance of the byte accounts (granted -
\* unused - total) and the residency histogram.
FreshCore == [active |-> 0, interactive |-> 0, bulk |-> 0,
              balance |-> 0, completed |-> 0,
              hist |-> [i \in DOMAIN BucketLimits |-> 0], longest |-> 0,
              p50 |-> 0, p95 |-> 0]

LaneQuantum(s) == IF s.lane = "bulk" THEN BulkQuantum ELSE InteractiveQuantum

\* observed bytes are at least 7/8 of the last budget
IsFullBudgetTurn(s, n) == s.budget # 0 /\ (n >= s.budget \/ n * 8 >= s.budget * 7)

\* Mutant: the request changes lane but the gauges do not.
PromoteKeepsGauges(s) ==
    IF s.lane = "bulk" THEN s
    ELSE [s EXCEPT !.bulk = @ + 1, !.lane = "bulk", !.deficit = Min({@, BulkQuantum})]

PromoteToBulk(s) ==
    IF s.lane = "bulk" THEN s
    ELSE [s EXCEPT !.interactive = IF @ > 0 THEN @ - 1 ELSE @,
                   !.bulk = @ + 1, !.lane = "bulk",
                   !.deficit = Min({@, BulkQuantum})]

\* The three reasons of upsgi_body_sched_update_promotions; each counts once.
PromotionReasons(s) ==
    {r \in {"bytes", "rounds", "residency"} \ s.by :
        \/ r = "bytes" /\ s.bytes >= BytesThreshold
        \/ r = "rounds" /\ s.rounds >= RoundsThreshold
                        /\ s.bytes >= MinBytes /\ s.full >= FullTurns
        \/ r = "residency" /\ s.serviced - s.started >= ResidencyThreshold
                           /\ s.bytes >= MinBytes /\ s.full > 0}

UpdatePromotions(s) ==
    IF ~s.registered \/ PromotionReasons(s) = {} THEN s
    ELSE PromoteToBulk([s EXCEPT !.by = @ \cup PromotionReasons(s)])

\* The smallest bucket limit that covers `target` of the recorded items.
BucketOf(hist, target) ==
    BucketLimits[Min({i \in DOMAIN hist : MapThenSumSet(LAMBDA j : hist[j], 1..i) >= target})]

\* upsgi_body_sched_refresh_samples
RefreshSamples(s) ==
    LET total == MapThenSumSet(LAMBDA j : s.hist[j], DOMAIN s.hist)
    IN  IF total = 0 THEN [s EXCEPT !.p50 = 0, !.p95 = 0]
        ELSE [s EXCEPT !.p50 = BucketOf(s.hist, (total + 1) \div 2),
                       !.p95 = BucketOf(s.hist, (total * 95 + 99) \div 100)]

RecordResidency(s, us) ==
    LET bucket == Min({i \in DOMAIN BucketLimits : us <= BucketLimits[i]})
    IN  RefreshSamples([s EXCEPT !.longest = IF us > @ THEN us ELSE @,
                                 !.hist[bucket] = @ + 1])

\* body: the request has a Content-Length or a chunked body
NoteRequest(s, body, now) ==
    IF s.registered \/ ~body THEN s
    ELSE [s EXCEPT !.registered = TRUE, !.lane = "interactive",
                   !.started = now, !.serviced = now,
                   !.active = @ + 1, !.interactive = @ + 1]

\* The credit of a turn: one more quantum, up to the cap of the lane.
EarnCredit(s) ==
    LET cap == LaneQuantum(s) * CapMultiplier
    IN  IF s.deficit < cap THEN [s EXCEPT !.deficit = Min({@ + LaneQuantum(s), cap})] ELSE s

Grant(s, n) == [s EXCEPT !.budget = n, !.balance = @ + n]

\* upsgi_body_sched_read_budget: the state after the call, whose `budget` is
\* the number of bytes the caller may ask the socket for.
ReadBudget(s0, n, body, now, enabled) ==
    LET s == [NoteRequest(s0, body, now) EXCEPT !.capped = FALSE, !.budget = 0]
        p == UpdatePromotions(s)
        q == LaneQuantum(p)
        e == EarnCredit(p)
        g == Min({n, e.deficit})
        spent == IF g = 0 THEN [e EXCEPT !.deficit = 0] ELSE e
        given == IF g = 0 THEN Min({n, q}) ELSE g
    IN  CASE ~NoteRequest(s0, body, now).registered -> [s0 EXCEPT !.budget = n]
          [] ~enabled -> Grant(s, n)
          [] enabled /\ p.waited -> Grant(p, Min({n, q}))
          [] OTHER -> [Grant(spent, given) EXCEPT !.capped = given < n]

\* upsgi_body_sched_note_bytes.  cl is 0 for a chunked body.
NoteBytes(s0, n, cl, now, enabled) ==
    LET s == NoteRequest(s0, TRUE, now)
        served == [s EXCEPT !.rounds = Min({@ + 1, RoundsThreshold}),
                            !.bytes = @ + n, !.serviced = now,
                            !.balance = @ - n - (IF s.budget > n THEN s.budget - n ELSE 0),
                            !.deficit = IF ~enabled THEN @ ELSE IF @ >= n THEN @ - n ELSE 0,
                            !.full = IF IsFullBudgetTurn(s, n) THEN Min({@ + 1, FullTurns}) ELSE 0]
    IN  [UpdatePromotions(served) EXCEPT
            !.complete = @ \/ (cl > 0 /\ served.bytes >= cl), !.waited = FALSE]

\* Mutant: a request that waits goes back to the interactive lane.
NoteWaitDemotes(s, body, now) ==
    LET r == NoteRequest(s, body, now)
    IN  IF r.registered /\ r.lane = "bulk"
        THEN [r EXCEPT !.waited = TRUE, !.full = 0, !.lane = "interactive",
                       !.bulk = @ - 1, !.interactive = @ + 1]
        ELSE r

\* upsgi_body_sched_note_empty_read and _note_eagain: the next budget is one
\* quantum whatever the credit.
NoteWait(s, body, now) ==
    LET r == NoteRequest(s, body, now)
    IN  IF r.registered THEN [r EXCEPT !.waited = TRUE, !.full = 0] ELSE r

NoteChunkedComplete(s, now) == [NoteRequest(s, TRUE, now) EXCEPT !.complete = TRUE]

\* upsgi_body_sched_finish, from close_and_free_request; the request is zeroed
\* by its caller afterwards.
SchedFinish(s, now) ==
    LET left == [s EXCEPT !.active = IF @ > 0 THEN @ - 1 ELSE @,
                          !.bulk = IF s.lane = "bulk" /\ @ > 0 THEN @ - 1 ELSE @,
                          !.interactive = IF s.lane # "bulk" /\ @ > 0 THEN @ - 1 ELSE @,
                          !.completed = IF s.complete THEN @ + 1 ELSE @]
        core == IF s.registered THEN RecordResidency(left, now - s.started) ELSE s
    IN  [f \in DOMAIN core |-> IF f \in DOMAIN FreshItem THEN FreshItem[f] ELSE core[f]]
=============================================================================
