------------------------------- MODULE Alarms -------------------------------
(***************************************************************************)
(* Alarms (core/alarm.c): log lines that match a rule, calls of the api    *)
(* and file descriptors raise them; the log thread runs its own unless     *)
(* alarm-cheap is set, all others are run by the alarm thread, which reads *)
(* them from a socket of bounded room, one whole message at a time.        *)
(***************************************************************************)
EXTENDS Bench, Integers, Sequences, SequencesExt, FiniteSetsExt

CONSTANTS AlarmLines, AlarmCalls,  \* the lines that are logged, the calls that are made
          AlarmNames, AlarmLens,   \* the instances; the messages and their lengths
          AlarmRules,              \* [lines, negate, alarms] in order
          AlarmFdOptions,          \* [fd, alarm, msg, len] in order
          AlarmOwnLine,            \* the line "[upsgi-alarm", with nothing behind it
          AlarmCut,                \* what the thread reads of one that is too long
          AlarmMsgSize, AlarmFreq, AlarmRoom, AlarmRaises, AlarmEnd

AlarmRun(i, m) == [inst |-> i, msg |-> m]
Threads == {"log", "alarm"}

\* upsgi_add_alarm_fd: one entry for a descriptor and an alarm, the first.
AddAlarmFd(fds, o) ==
    IF \E a \in Range(fds) : a.fd = o.fd /\ a.alarm = o.alarm THEN fds
    ELSE Append(fds, [o EXCEPT !.len = IF @ = 0 THEN 1 ELSE @])

AlarmFds == FoldLeft(AddAlarmFd, <<>>, AlarmFdOptions)

AlarmInit ==
    /\ kind = "alarm"
    /\ \E cheap \in BOOLEAN :
        st = [cheap |-> cheap, now |-> 0, pipe |-> <<>>, raises |-> 0,
              last |-> [i \in AlarmNames |-> [msg |-> "", at |-> 0]],
              todo |-> [t \in Threads |-> <<>>], pc |-> [t \in Threads |-> "check"],
              avail |-> [f \in {a.fd : a \in Range(AlarmFds)} |-> 0], dead |-> {},
              ran |-> {}, latest |-> [i \in AlarmNames |-> [msg |-> "", at |-> 0]], storm |-> FALSE, due |-> {}, lost |-> {}]

\* upsgi_alarm_trigger_uai: the socket does not block, a full one loses it.
AlarmSent(pipe, runs) == SubSeq(pipe \o runs, 1, Min({AlarmRoom, Len(pipe) + Len(runs)}))

\* One rule of upsgi_alarm_log_check: a negated one that matches is the last.
RuleStops(found, r, line) ==
    IF found.stop \/ line \notin r.lines THEN found
    ELSE IF r.negate THEN [found EXCEPT !.stop = TRUE]
    ELSE [found EXCEPT !.runs = @ \o r.alarms]

\* upsgi_alarm_log_check.  The comparison with "[upsgi-alarm" compares lengths
\* first: a line that only begins with it is checked like any other.
LogRuns(line) ==
    IF line = AlarmOwnLine THEN <<>>
    ELSE LET found == FoldLeft(LAMBDA f, r : RuleStops(f, r, line), [stop |-> FALSE, runs |-> <<>>], AlarmRules)
         IN  [k \in DOMAIN found.runs |-> AlarmRun(found.runs[k], line)]

\* What the rules promise for a line.
RulesPromise(line) ==
    {AlarmRun(i, line) : i \in UNION {Range(AlarmRules[r].alarms) : r \in
        {r \in DOMAIN AlarmRules :
            /\ ~AlarmRules[r].negate /\ line \in AlarmRules[r].lines /\ line # AlarmOwnLine
            /\ \A q \in 1..(r - 1) : ~(AlarmRules[q].negate /\ line \in AlarmRules[q].lines)}}}

\* read() of the alarm thread: alarm_msg_size bytes at most.
Read(m) == IF AlarmLens[m] > AlarmMsgSize THEN AlarmCut ELSE m

Raise == At("alarm") /\ st.raises < AlarmRaises

\* Alarms that are due, and the ones of them that may have found no room.
AlarmDue(runs, room) == [st EXCEPT !.raises = @ + 1, !.due = @ \cup runs, !.lost = IF room THEN @ ELSE @ \cup runs]

LogCheck(line) ==
    /\ Raise /\ st.todo.log = <<>>
    /\ LET runs == LogRuns(line)
       IN  st' = IF st.cheap
                 THEN [AlarmDue({AlarmRun(x.inst, Read(line)) : x \in {y \in RulesPromise(line) : AlarmLens[line] > 1}},
                           Len(st.pipe) + Len(runs) <= AlarmRoom)
                       EXCEPT !.pipe = AlarmSent(@, runs)]
                 ELSE [AlarmDue(RulesPromise(line), TRUE) EXCEPT !.todo.log = runs]

\* upsgi_alarm_trigger: a message that is too long is dropped.
AlarmTrigger(i, m) ==
    /\ Raise
    /\ st' = IF AlarmLens[m] > AlarmMsgSize THEN AlarmDue({}, TRUE)
             ELSE [AlarmDue(IF AlarmLens[m] > 1 THEN {AlarmRun(i, m)} ELSE {}, Len(st.pipe) < AlarmRoom)
                   EXCEPT !.pipe = AlarmSent(@, <<AlarmRun(i, m)>>)]

\* Something arrives on a monitored descriptor.
FdArrives(f) ==
    /\ Raise /\ f \notin st.dead /\ st.avail[f] < 2
    /\ st' = [st EXCEPT !.raises = @ + 1, !.avail[f] = @ + 1]

-----------------------------------------------------------------------------
AlarmIdle == At("alarm") /\ st.todo.alarm = <<>>

\* The alarm thread: a message of one byte is not run.
AlarmRead ==
    /\ AlarmIdle /\ st.pipe # <<>>
    /\ LET x == Head(st.pipe)
       IN  st' = [st EXCEPT !.pipe = Tail(@),
                            !.todo.alarm = IF AlarmLens[x.msg] > 1 THEN <<AlarmRun(x.inst, Read(x.msg))>> ELSE <<>>]

\* Every alarm of the descriptor is raised.
FdRuns(f) ==
    LET all == SelectSeq(AlarmFds, LAMBDA a : a.fd = f)
    IN  [k \in DOMAIN all |-> AlarmRun(all[k].alarm, all[k].msg)]

\* The first alarm of the descriptor reads its buf_len bytes; a read that finds
\* none ends the monitoring, and the alarms are raised all the same.
FdReady(f) ==
    /\ AlarmIdle /\ f \notin st.dead /\ st.avail[f] > 0
    /\ LET want == SelectSeq(AlarmFds, LAMBDA a : a.fd = f)[1].len
       IN  st' = [st EXCEPT !.avail[f] = IF @ > want THEN @ - want ELSE 0,
                            !.dead = IF st.avail[f] < want THEN @ \cup {f} ELSE @,
                            !.todo.alarm = FdRuns(f),
                            !.due = @ \cup {AlarmRun(a.alarm, a.msg) : a \in {b \in Range(AlarmFds) : b.fd = f}}]

-----------------------------------------------------------------------------
SameAndRecent(x) == x.msg = st.last[x.inst].msg /\ st.now - st.last[x.inst].at < AlarmFreq

\* upsgi_alarm_run: the check, the alarm's function, the record of it.
RunCheck(t) ==
    /\ At("alarm") /\ st.todo[t] # <<>> /\ st.pc[t] = "check"
    /\ st' = IF SameAndRecent(Head(st.todo[t])) THEN [st EXCEPT !.todo[t] = Tail(@)] ELSE [st EXCEPT !.pc[t] = "func"]

RunFunc(t) ==
    /\ At("alarm") /\ st.todo[t] # <<>> /\ st.pc[t] = "func"
    /\ LET x == Head(st.todo[t])
       IN  st' = [st EXCEPT !.pc[t] = "set", !.ran = @ \cup {x}, !.latest[x.inst] = [msg |-> x.msg, at |-> st.now],
                            !.storm = @ \/ (x.msg = st.latest[x.inst].msg /\ st.now - st.latest[x.inst].at < AlarmFreq)]

RunSet(t) ==
    /\ At("alarm") /\ st.todo[t] # <<>> /\ st.pc[t] = "set"
    /\ LET x == Head(st.todo[t])
       IN  st' = [st EXCEPT !.pc[t] = "check", !.todo[t] = Tail(@), !.last[x.inst] = [msg |-> x.msg, at |-> st.now]]

AlarmTick == At("alarm") /\ st.now < AlarmEnd /\ st' = [st EXCEPT !.now = @ + 1]
AlarmRest == At("alarm") /\ st.now = AlarmEnd /\ UNCHANGED st

AlarmNext ==
    \/ \E line \in AlarmLines : LogCheck(line)
    \/ \E x \in AlarmCalls : AlarmTrigger(x.inst, x.msg)
    \/ \E f \in {a.fd : a \in Range(AlarmFds)} : FdArrives(f) \/ FdReady(f)
    \/ AlarmRead
    \/ \E t \in Threads : RunCheck(t) \/ RunFunc(t) \/ RunSet(t)
    \/ AlarmTick \/ AlarmRest

-----------------------------------------------------------------------------
\* Once the threads have nothing left to do, every alarm that the rules, the
\* descriptors and the callers promised, and that found room, has been run
\* with its own message.
AlarmHeard ==
    kind = "alarm" /\ st.pipe = <<>> /\ (\A t \in Threads : st.todo[t] = <<>>) =>
        st.due \ st.lost \subseteq st.ran

\* Nothing else is run: no alarm for a line that an earlier negated rule
\* excludes, nor for a message another alarm was given.  (The lines that alarms
\* cause themselves are not excluded, see LogRuns.)
AlarmOnlyDue == kind = "alarm" => st.ran \subseteq st.due

\* Where one thread runs every alarm (alarm-cheap), an alarm repeats the
\* message it ran last only after alarm-freq seconds, however many lines, calls
\* and descriptors raise it.
StormHeld == kind = "alarm" /\ st.cheap => ~st.storm
=============================================================================
