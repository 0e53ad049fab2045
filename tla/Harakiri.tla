------------------------------ MODULE Harakiri ------------------------------
(***************************************************************************)
(* Harakiri: the deadlines that the cores of a worker set in shared memory *)
(* (core/utils.c, core/reader.c) and that the master looks at once per     *)
(* second (core/master_checks.c, core/master_utils.c), the worker going on *)
(* between a look and the signal that follows it.                          *)
(***************************************************************************)
EXTENDS Bench, Integers, Sequences

CONSTANTS HkConfs,             \* [cores, user, grace, hup, threshold]
          HkLimit, HkUser,     \* harakiri, and what set_user_harakiri is given
          HkChunks, HkDeaths, HkEnd

\* A timer, with the incarnation that set it.
Off == [at |-> 0, by |-> 0]
HkCore == [busy |-> FALSE, hk |-> Off, user |-> Off, due |-> 0, chunks |-> 0]

HarakiriInit ==
    /\ kind = "harakiri"
    /\ \E c \in HkConfs :
        st = [conf |-> c, now |-> 1, core |-> [j \in 1..c.cores |-> HkCore], alive |-> TRUE, term |-> FALSE, reaped |-> FALSE,
              life |-> 1, pending |-> 0, backlog |-> 0, pc |-> "look", at |-> 1, timer |-> "hk", val |-> 0,
              first |-> 0, early |-> FALSE, stale |-> FALSE]

HkCores == 1..st.conf.cores
Working == At("harakiri") /\ st.alive

-----------------------------------------------------------------------------
\* A worker that was told to stop begins no request, save in another thread than
\* the one that is in exit().
Accepting == st.term => ~st.conf.hup /\ st.conf.cores > 1

\* set_harakiri: a request begins on a core.
RequestBegins(j) ==
    /\ Working /\ ~st.core[j].busy /\ Accepting /\ st.now < HkEnd
    /\ st' = [st EXCEPT !.core[j] = [busy |-> TRUE, hk |-> [at |-> st.now + HkLimit, by |-> st.life], user |-> Off,
                                     due |-> st.now + HkLimit, chunks |-> 0]]

\* set_user_harakiri, from the application or a route.
UserHarakiri(j) ==
    /\ Working /\ st.core[j].busy /\ st.conf.user /\ st.core[j].user = Off
    /\ st' = [st EXCEPT !.core[j].user = [at |-> st.now + HkUser, by |-> st.life]]

\* inc_harakiri, for every piece of a body that is buffered.
IncHarakiri(j) ==
    /\ Working /\ st.core[j].busy /\ st.core[j].chunks < HkChunks
    /\ st' = [st EXCEPT !.core[j].hk = [at |-> @.at + HkLimit, by |-> st.life], !.core[j].due = @ + HkLimit, !.core[j].chunks = @ + 1]

\* upsgi_close_request: both timers are left.
RequestEnds(j) ==
    /\ Working /\ st.core[j].busy
    /\ st' = [st EXCEPT !.core[j] = HkCore]

\* The graceful signal: SIGTERM (end_me) ends the worker as it is, SIGHUP
\* (gracefully_kill) between requests.
WorkerStops ==
    /\ Working /\ st.term /\ (st.conf.hup => \A j \in HkCores : ~st.core[j].busy)
    /\ st' = [st EXCEPT !.alive = FALSE]

-----------------------------------------------------------------------------
\* The loops of upsgi_master_check_workers_deadline.
NextTimer(t) ==
    IF t.timer = "hk" THEN [t EXCEPT !.timer = "user"]
    ELSE IF t.at < t.conf.cores THEN [t EXCEPT !.timer = "hk", !.at = @ + 1]
    ELSE [t EXCEPT !.timer = "hk", !.at = 1, !.pc = "over"]

TimerNow == IF st.timer = "hk" THEN st.core[st.at].hk ELSE st.core[st.at].user

\* The timer is in the future, or nobody waits in the listen queue.
HkSkipped == TimerNow.at = 0 \/ TimerNow.at > st.now \/ (st.pending = 0 /\ st.backlog < st.conf.threshold)

\* upsgi_master_check_harakiri: the value is read here ...
CheckHarakiri ==
    /\ At("harakiri") /\ st.pc = "look"
    /\ st' = IF HkSkipped THEN NextTimer(st) ELSE [st EXCEPT !.pc = "strike", !.val = TimerNow.at, !.stale = @ \/ TimerNow.by # st.life]

\* The timer of the core is moved by the graceful timeout.
Moved(t) == [t EXCEPT !.core[t.at].hk = [at |-> t.val + t.conf.grace, by |-> t.life]]

\* ... and the signal is sent here (trigger_harakiri): the graceful one first.
TriggerHarakiri ==
    /\ At("harakiri") /\ st.pc = "strike"
    /\ LET graceful == st.pending = 0 /\ st.conf.grace > 0
           hit == IF st.reaped THEN st
                  ELSE IF graceful THEN [st EXCEPT !.pending = 1, !.term = TRUE, !.first = st.now]
                  ELSE [st EXCEPT !.pending = 2, !.alive = FALSE,
                                  !.early = st.alive /\ st.conf.grace > 0 /\ st.now - st.first < st.conf.grace]
           moved == IF st.conf.grace > 0 THEN Moved(hit) ELSE hit
       IN  st' = [moved EXCEPT !.pc = "over", !.at = 1, !.timer = "hk", !.val = 0]

\* waitpid(): "only to be safe", the timers of the requests are reset.
ReapWorker ==
    /\ At("harakiri") /\ st.pc = "over" /\ ~st.alive /\ ~st.reaped
    /\ st' = [st EXCEPT !.reaped = TRUE, !.core = [j \in HkCores |-> [st.core[j] EXCEPT !.hk = Off, !.busy = FALSE]]]

\* Mutant: the timer of the user is forgotten.
RespawnKeepsUser ==
    /\ At("harakiri") /\ st.pc = "over" /\ st.reaped /\ st.life <= HkDeaths
    /\ st' = [st EXCEPT !.alive = TRUE, !.reaped = FALSE, !.term = FALSE, !.life = @ + 1, !.pending = 0, !.first = 0,
                        !.early = FALSE, !.core = [j \in HkCores |-> [HkCore EXCEPT !.user = st.core[j].user]]]

\* upsgi_respawn_worker
RespawnResets ==
    /\ At("harakiri") /\ st.pc = "over" /\ st.reaped /\ st.life <= HkDeaths
    /\ st' = [st EXCEPT !.alive = TRUE, !.reaped = FALSE, !.term = FALSE, !.life = @ + 1, !.pending = 0, !.first = 0,
                        !.early = FALSE, !.core = [j \in HkCores |-> HkCore]]

\* The next second, and the next round of the master: master_check_listen_queue,
\* which looks at the backlog, comes before the deadlines.
HarakiriTick ==
    /\ At("harakiri") /\ st.pc = "over" /\ st.now < HkEnd
    /\ \E b \in 0..st.conf.threshold : st' = [st EXCEPT !.now = @ + 1, !.pc = "look", !.backlog = b]

HarakiriRest == At("harakiri") /\ st.pc = "over" /\ st.now = HkEnd /\ UNCHANGED st

HarakiriNext ==
    \/ \E j \in IF kind = "harakiri" THEN HkCores ELSE {} : RequestBegins(j) \/ UserHarakiri(j) \/ IncHarakiri(j) \/ RequestEnds(j)
    \/ WorkerStops \/ CheckHarakiri \/ TriggerHarakiri \/ ReapWorker \/ RespawnResets
    \/ HarakiriTick \/ HarakiriRest

-----------------------------------------------------------------------------
\* No request outlives its deadline (as its body has extended it) by more than
\* the graceful timeout, where no threshold of the listen queue is set: the
\* signal that follows a look always leads to an end, also if the request that
\* was looked at has given its core to another in between.
OverdueIsEnded ==
    kind = "harakiri" /\ st.pc = "over" /\ st.alive /\ st.conf.threshold = 0 =>
        \A j \in HkCores : st.core[j].busy => st.core[j].due + st.conf.grace > st.now

\* A worker is struck for a deadline of its own, never for one that its
\* predecessor in the same slot left in the shared memory.
StruckForItsOwn == kind = "harakiri" /\ st.pc = "strike" /\ ~st.reaped => ~st.stale

\* "the worker has harakiri_graceful_timeout seconds to shutdown cleanly": SIGKILL
\* does not come sooner, if the worker has one core, the application sets no timer
\* of its own and the listen queue has no threshold (see GraceIsGiven).
GraceWithOneTimer == kind = "harakiri" /\ st.conf.cores = 1 /\ ~st.conf.user /\ st.conf.threshold = 0 => ~st.early

\* The same for every worker, as the comment on upsgi_master_check_harakiri says.
GraceIsGiven == kind = "harakiri" => ~st.early
=============================================================================
