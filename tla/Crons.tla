------------------------------- MODULE Crons -------------------------------
(***************************************************************************)
(* Timed jobs (core/cron.c): commands the master runs and signals it       *)
(* routes when the local time matches.  One job per behaviour; the clock   *)
(* runs on whether the master looks or not.                                *)
(*                                                                         *)
(* The calendar is scaled: CronMinute ticks stand for the 60 seconds of a  *)
(* minute, and an hour, a day and a week have a few of the smaller unit.   *)
(* The month, which is matched as the hour is, is left out.                *)
(***************************************************************************)
EXTENDS Bench, Integers, FiniteSets

CONSTANTS CronMinute,    \* ticks of a minute, the least time between two runs
          CronUnits,     \* [hour, day, week]: minutes, hours and days in each
          CronJobs,      \* the jobs: [minute, hour, day, week, signal, unique, mercy]
          CronHarakiri,  \* --cron-harakiri
          CronEnd        \* last tick looked at

NoPid == -1

\* last is 0 and the clock is far beyond it when the master starts.  run and
\* killed are processes, named by the tick they were started at; seen is
\* whether the master has looked at the job at the last tick of this minute,
\* ran whether it has run it in this minute.
CronInit ==
    /\ kind = "cron"
    /\ \E j \in CronJobs :
        st = [job |-> j, now |-> CronMinute, last |-> 0, pid |-> NoPid, harakiri |-> 0,
              run |-> {}, killed |-> {}, seen |-> FALSE, ran |-> FALSE]

LocalTime(t) ==
    LET m == t \div CronMinute
        h == m \div CronUnits.hour
        d == h \div CronUnits.day
    IN  [minute |-> m % CronUnits.hour, hour |-> h % CronUnits.day, day |-> d + 1, week |-> d % CronUnits.week]

\* A field that is negative asks for every so many of its unit.
FieldMatches(want, is) == IF want < 0 THEN is % (-want) = 0 ELSE want = is

\* upsgi_cron_task_needs_execution; the last day of the week is also day 0,
\* and a day of the month and one of the week are alternatives
NeedsExecution(j, tm) ==
    LET day == FieldMatches(j.day, tm.day)
        week == FieldMatches(IF j.week = CronUnits.week THEN 0 ELSE j.week, tm.week)
    IN  /\ FieldMatches(j.minute, tm.minute) /\ FieldMatches(j.hour, tm.hour)
        /\ IF j.day >= 0 /\ j.week >= 0 THEN day \/ week ELSE day /\ week

Due(last, now) == now - last >= CronMinute

\* A unique job is not looked at while it runs.
Skipped(j, pid) == j.unique /\ pid # NoPid

\* The deadline of a job started now.
Deadline(j, harakiri, now) ==
    CASE j.mercy > 0 -> now + j.mercy
      [] j.mercy = 0 /\ CronHarakiri > 0 -> now + CronHarakiri
      [] OTHER -> harakiri

\* upsgi_manage_signal_cron and upsgi_manage_command_cron
RunIfDue(ok) ==
    LET j == st.job
        due == ~Skipped(j, st.pid) /\ NeedsExecution(j, LocalTime(st.now)) /\ Due(st.last, st.now)
        start == due /\ ~j.signal /\ ok
        s == [st EXCEPT !.seen = @ \/ (~Skipped(j, st.pid) /\ (st.now + 1) % CronMinute = 0)]
        t == IF due THEN [s EXCEPT !.last = st.now, !.ran = TRUE] ELSE s
    IN  IF start THEN [t EXCEPT !.pid = st.now, !.run = @ \cup {st.now},
                                !.harakiri = Deadline(j, @, st.now)]
        ELSE t

\* upsgi_master_check_crons_deadline
Overdue(s) == s.pid # NoPid /\ s.harakiri > 0 /\ s.harakiri < s.now

\* A cycle of the master: the jobs, then the deadlines.
CronLook ==
    /\ At("cron")
    /\ LET s == RunIfDue(TRUE)
       IN  st' = IF Overdue(s) THEN [s EXCEPT !.killed = @ \cup {s.pid}] ELSE s

\* upsgi_run_command cannot fork: the job counts as run.
CronForkFails ==
    /\ At("cron") /\ ~st.job.signal
    /\ st' = RunIfDue(FALSE)

\* A process ends; upsgi_master_check_cron_death
CronExit ==
    /\ At("cron")
    /\ \E p \in st.run :
        st' = [st EXCEPT !.run = @ \ {p}, !.killed = @ \ {p}, !.pid = IF p = @ THEN NoPid ELSE @]

CronTick ==
    /\ At("cron") /\ st.now < CronEnd
    /\ LET over == (st.now + 1) % CronMinute = 0
       IN  st' = [st EXCEPT !.now = @ + 1, !.seen = ~over /\ @, !.ran = ~over /\ @]

\* A later start of the server.
CronRestart ==
    /\ At("cron") /\ st.now = CronEnd /\ st.run = {}
    /\ st' = [st EXCEPT !.now = CronMinute, !.last = 0, !.harakiri = 0, !.seen = FALSE, !.ran = FALSE]

CronNext == CronLook \/ CronForkFails \/ CronExit \/ CronTick \/ CronRestart

-----------------------------------------------------------------------------
CronTypeOK ==
    kind = "cron" =>
        /\ st.now \in CronMinute..CronEnd /\ st.last \in 0..st.now
        /\ st.pid \in st.run \cup {NoPid} /\ st.killed \subseteq st.run

\* cron.c: a job is not missed in a minute it matches if the master looks
\* at it at the last tick of that minute, however late it ran in the minute
\* before and whatever the master was busy with since.
CronNotMissed ==
    kind = "cron" /\ st.seen /\ NeedsExecution(st.job, LocalTime(st.now)) => st.ran

\* A unique job has at most one process at any time, whenever the master
\* looks and however long the processes last.
CronUniqueAlone ==
    kind = "cron" /\ st.job.unique => Cardinality(st.run) <= 1

\* Only a process that has outlived its own allowance is killed: never the
\* next run for the deadline of the one before, never one without deadline.
CronKilledLate ==
    kind = "cron" =>
        \A p \in st.killed :
            LET allowed == IF st.job.mercy = 0 THEN CronHarakiri ELSE st.job.mercy
            IN  allowed > 0 /\ p + allowed < st.now
=============================================================================
