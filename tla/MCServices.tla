----------------------------- MODULE MCServices -----------------------------
EXTENDS RbTimers, Signals, EventQueue, Crons, Daemons, Metrics, Config, Sockets, Alarms, Harakiri

MCTimerValues == <<3, 1, 2, 2, 5, 4>>
MCSigReceivers == <<{"workers", "active-workers", "worker2", "worker9"}, {""}>>
MCCronUnits == [hour |-> 2, day |-> 2, week |-> 2]
MCCronJobs ==
    [minute : {-1}, hour : {-1}, day : {-1}, week : {-1}, signal : {FALSE}, unique : BOOLEAN, mercy : {-1, 0, 4}]
    \cup [minute : {0}, hour : {-1, -2}, day : {-1, 2}, week : {-1, 2}, signal : {TRUE}, unique : {FALSE}, mercy : {0}]
MCMetWorkers == <<"tx1", "tx2">>
MCCfgBodies ==
    LET lines == {CfgLine("a", 1), CfgLine("a", 2), CfgLine("b", 0), CfgLine("late", 1), CfgLine("include", 1), CfgLine("unknown", 1), CfgLine("if-out", 1)}
    IN  {<<>>} \cup {<<x>> : x \in lines} \cup {<<CfgLine("b", 0), x>> : x \in lines}
MCCfgIncluded == <<CfgLine("c", 1), CfgLine("b", 1)>>
MCIniLines ==
    {Head1(n) : n \in {"u", "o"}}
    \cup {Opt1(k, v, p) : k \in {<<"k">>}, v \in {<<>>, <<"v">>, <<"v", "=", " ", ";">>}, p \in {<<>>, <<" ", "tab">>}}
    \cup {Other1("bare", <<>>), Other1("note", <<" ">>), Other1("blank", <<>>)}
MCYamlLines ==
    {Head1(n) : n \in {"u", "o"}}
    \cup {Opt1(k, v, p) : k \in {<<"k">>}, v \in {<<"v">>, <<"v", ":", "w">>}, p \in {<<>>, <<" ", "tab">>}}
    \cup {Other1("note", <<>>), Other1("note", <<" ">>), Other1("blank", <<" ">>), Other1("list", <<>>), Other1("tight", <<>>)}
MCRef(k) == <<"%", "(", k, ")">>
MCPassValues ==
    LET parts == {<<"x">>, <<"%">>, MCRef("a"), MCRef("b"), MCRef("q"), <<"%", "(", ")">>, <<>>}
        some(s) == {p \o r : p \in s, r \in s}
    IN  [k \in {"a", "b", "z"} |->
            IF k = "z" THEN some(parts) \cup {<<"x", "%", "(", "%", "(", "a", ")", ")">>}
            ELSE IF k = "a" THEN some(parts \ {MCRef("a"), <<"%", "(", ")">>}) \cup {<<"b">>} ELSE some({<<"x">>, <<"%">>, <<>>})]
MCMagicTexts == UNION {[1..n -> {"%", "m", "(", "x"}] : n \in 0..5}
MCSockConfs ==
    [shared : BOOLEAN, socks : {<<>>, <<"A">>, <<"B">>, <<"=0">>, <<"auto">>, <<"A", "B">>, <<"B", "A">>, <<"A", "A">>, <<"A", "=0">>, <<"=0", "B">>, <<"auto", "A">>}]
    \cup [shared : {FALSE}, socks : {<<"fd">>, <<"fd", "B">>, <<"B", "fd">>, <<"A*">>, <<"A*", "AA">>, <<"AA", "A*">>, <<"A", "AA">>, <<"auto", "auto">>}]
MapTo(n, ws) == [num |-> n, ws |-> ws]
MCSockMaps == {<<>>, <<MapTo(0, <<1>>)>>, <<MapTo(0, <<1, 2>>)>>,
               <<MapTo(0, <<1>>), MapTo(1, <<2>>)>>, <<MapTo(0, <<1>>), MapTo(0, <<2, 1>>)>>}

MCSnmpCommunity == [i \in 1..72 |-> 97]
MCSnmpOthers == {[i \in 1..71 |-> 97], [i \in 1..72 |-> IF i = 72 THEN 98 ELSE 97]}
MCSnmpVersions == {<<0>>, <<1>>, <<3>>, <<0, 1>>}
MCSnmpIds == {<<7>>, <<1, 2>>, <<1, 2, 3>>, <<1, 2, 3, 4>>, <<1, 2, 3, 4, 5>>}
MCSnmpMetric(n) == [i \in 1..n |-> IF i = 1 THEN 3 ELSE i]
MCSnmpOids == {<<1, 1>>, <<1, 5>>, <<1, 101>>, <<2, 1>>, <<3, 9>>} \cup {MCSnmpMetric(n) : n \in 2..13}
MCSnmpValues ==
    [o \in {<<1, 1>>, <<2, 1>>} \cup {MCSnmpMetric(n) : n \in 2..13} |->
        [type |-> IF o[1] = 2 THEN 66 ELSE 70, val |-> <<255, 128, 2, 3, 4, 5, 6, Len(o)>>]]
MCAlarmLens == [bad |-> 2, good |-> 2, own |-> 2, tag |-> 3, tiny |-> 1, long |-> 4, cut |-> 3]
MCAlarmRules == <<[lines |-> {"bad", "own"}, negate |-> FALSE, alarms |-> <<"a">>],
                  [lines |-> {"good"}, negate |-> TRUE, alarms |-> <<"a">>],
                  [lines |-> {"bad", "good", "tag", "tiny", "long"}, negate |-> FALSE, alarms |-> <<"b", "a">>]>>
MCAlarmFdOptions == <<[fd |-> 5, alarm |-> "a", msg |-> "good", len |-> 2], [fd |-> 5, alarm |-> "b", msg |-> "bad", len |-> 0],
                      [fd |-> 5, alarm |-> "a", msg |-> "bad", len |-> 2]>>
MCAlarmCalls == {AlarmRun("a", "bad"), AlarmRun("b", "good"), AlarmRun("a", "tiny"), AlarmRun("a", "long")}

\* One core with both timers; two cores; a threshold of the listen queue.
MCHkConfs == [cores : {1}, user : BOOLEAN, grace : {0, 2}, hup : {TRUE}, threshold : {0}]
             \cup {[cores |-> 2, user |-> FALSE, grace |-> 2, hup |-> FALSE, threshold |-> 0],
                   [cores |-> 1, user |-> TRUE, grace |-> 2, hup |-> FALSE, threshold |-> 1]}

\* Timers, cron jobs and daemons: the tree of timers stays ordered and balanced
\* and expires in time, a job runs in its minute and alone, a daemon has one
\* instance (a smart one more only over a late pidfile or a new master), is
\* started again and stops with the server.
TimedWork ==
    /\ RbTypeOK /\ RbOrdered /\ RbBalanced /\ RbCountKept /\ RbLateBounded
    /\ CronTypeOK /\ CronNotMissed /\ CronUniqueAlone /\ CronKilledLate
    /\ DaemonTypeOK /\ OneInstance /\ StoppedWithServer /\ DaemonBack


\* Metrics count every update, totals are sums, threshold alarms keep apart,
\* and SNMP answers with the value in a packet whose lengths are right.
MetricsTrue ==
    /\ MetTypeOK /\ UpdatesAllCounted /\ TotalIsSum /\ AlarmsApart
    /\ SnmpLengthsShort /\ SnmpExact

\* A configuration means what is written: blocks, sections, placeholders and
\* magic strings, and every option is applied once and in order.
ConfigAsWritten ==
    /\ CfgTypeOK /\ BlocksAsWritten /\ AppliedOnceInOrder
    /\ IniSectionExact /\ YamlSectionExact /\ PlaceholdersReplaced /\ MagicExact

\* Over reloads the listeners that are still configured are kept and the others
\* closed, all listen, and a socket is served by workers of the last list for
\* number 0, the first socket by all of them.
ListenersSound ==
    /\ SockTypeOK /\ ListenersKept /\ NoForgottenListener /\ SocketsListen /\ MappedServed /\ ZergGetsEachOnce

\* Alarms are heard, only when due and not in storms; a request past its
\* deadline is ended, with the grace promised and for a deadline of its own.
WatchdogsHeard ==
    /\ AlarmHeard /\ AlarmOnlyDue /\ StormHeld
    /\ OverdueIsEnded /\ StruckForItsOwn /\ GraceWithOneTimer

Init == RbInit \/ SignalInit \/ EqInit \/ CronInit \/ SrcInit \/ DaemonInit \/ MetInit \/ CfgInit \/ TextInit \/ SockInit \/ SnmpInit \/ AlarmInit \/ HarakiriInit
Next == RbNext \/ SignalNext \/ EqNext \/ CronNext \/ SrcNext \/ DaemonNext \/ MetNext \/ CfgNext \/ TextNext \/ SockNext \/ SnmpNext \/ AlarmNext \/ HarakiriNext
Spec == Init /\ [][Next]_vars
=============================================================================
