------------------------------- MODULE Metrics -------------------------------
(***************************************************************************)
(* The metrics of core/metrics.c: values in shared memory that a thread of *)
(* the master collects once a second, that applications update through an  *)
(* API, and that files under metrics_dir keep for the next server.         *)
(*                                                                         *)
(* There is one counter per worker, read through a pointer; a total that   *)
(* sums them; an alias of the total; and a metric of the application's,    *)
(* with a threshold that resets it and raises an alarm.  A custom metric   *)
(* may have the name of a worker's and replace it.                         *)
(*                                                                         *)
(* And the SNMP agent of the master that answers for them (core/snmp.c): a *)
(* GET request for one value is turned into its response in place: the     *)
(* null at its end becomes the value, and the four lengths around it grow. *)
(* Packets are sequences of bytes; a value is its eight bytes in the order *)
(* of the machine, the lowest first.                                       *)
(***************************************************************************)
EXTENDS Bench, Integers, Sequences, SequencesExt, FiniteSetsExt

CONSTANTS MetWorkers,    \* metrics of the workers, in order
          MetCallers,    \* application processes
          MetCounts,     \* bound on what the workers count in a life
          MetMax,        \* bound on the application's metric
          MetRestarts,   \* bound on restarts
          MetFreq,       \* seconds between two collections of the application's metric
          MetLimit,      \* the threshold
          MetRate        \* seconds between two alarms

WorkerMetrics == Range(MetWorkers)
MetNames == WorkerMetrics \cup {"total", "app"}
Aliases == {"alias"}

\* An alias shares the value of what it stands for.
Cell(m) == IF m \in Aliases THEN "total" ELSE m

\* upsgi_setup_metrics, the order of the list: the workers' metrics, the
\* totals, which are appended only then, and the custom ones.  A name that is
\* taken keeps its place.
MetList(custom) ==
    FoldLeft(LAMBDA list, m : IF m \in Range(list) THEN list ELSE Append(list, m), MetWorkers \o <<"total">>, custom)

\* What collects a metric: a custom metric has no collector here, and takes
\* the place of one that had.
CollectorOf(custom, m) ==
    IF m \in Range(custom) THEN "none" ELSE IF m = "total" THEN "sum" ELSE "ptr"

\* A server that starts with these initial values.
Started(custom, initial, file, left) ==
    [list |-> MetList(custom), coll |-> [m \in MetNames |-> CollectorOf(custom, m)],
     custom |-> custom, initial |-> initial, left |-> left, file |-> file,
     value |-> [m \in MetNames |-> 0], raw |-> [m \in WorkerMetrics |-> 0],
     pc |-> "scan", at |-> 1, old |-> 0, new |-> 0, locked |-> "", call |-> [c \in MetCallers |-> -1],
     want |-> 0, age |-> MetFreq, quiet |-> MetRate, gap |-> MetRate]

\* want is the application's metric if no update were ever lost; quiet is the
\* time since last_alarm and gap the time between the last two alarms.
MetInit ==
    /\ kind = "metrics"
    /\ \E custom \in {<<"app">>, <<"app", MetWorkers[1]>>} :
        st = Started(custom, [m \in MetNames |-> 0], [m \in MetNames |-> 0], MetRestarts)

-----------------------------------------------------------------------------
\* A worker counts, in its own memory.
MetCount ==
    /\ At("metrics") /\ MapThenSumSet(LAMBDA w : st.raw[w], WorkerMetrics) < MetCounts
    /\ \E m \in WorkerMetrics : st' = [st EXCEPT !.raw[m] = @ + 1]

\* um_op: what is collected and what is an alias is not the application's.
Updatable(m) == st.coll[Cell(m)] = "none" /\ m \notin Aliases

\* Mutant: the lock is not waited for.
MetLockAny(c) == st' = [st EXCEPT !.locked = c, !.call[c] = st.value["app"]]

\* An update locks and reads ...
MetLock(c) == st.locked = "" /\ st' = [st EXCEPT !.locked = c, !.call[c] = st.value["app"]]

MetBegin ==
    /\ At("metrics")
    /\ \E c \in MetCallers : st.call[c] = -1 /\ MetLock(c)

\* ... and writes and unlocks: upsgi_metric_set, _inc, _dec, _mul and _div.
MetOps(v) == {0, v + 1, v - 1, v * 2, v \div 2} \cap 0..MetMax

MetUpdate ==
    /\ At("metrics")
    /\ \E c \in MetCallers :
        /\ st.call[c] >= 0
        /\ \E d \in {v - st.call[c] : v \in MetOps(st.call[c])} :
            st' = [st EXCEPT !.value["app"] = st.call[c] + d, !.want = @ + d, !.locked = "", !.call[c] = -1]

\* Any metric may be named; the others are set in one step.
MetSet ==
    /\ At("metrics") /\ st.locked = ""
    /\ \E m \in (MetNames \cup Aliases) \ {"app"}, v \in 0..MetMax :
        Updatable(m) /\ st' = [st EXCEPT !.value[Cell(m)] = v]

-----------------------------------------------------------------------------
\* The collectors.
Collect(s, m) ==
    CASE s.coll[m] = "ptr" -> s.initial[m] + s.raw[m]
      [] s.coll[m] = "sum" -> s.initial[m] + MapThenSumSet(LAMBDA w : s.value[w], WorkerMetrics)
      [] s.coll[m] = "none" -> s.value[m]

Current == st.list[st.at]

\* Is it time?  A metric that was never collected always is.
MetDue(m) == m = "app" => st.age >= MetFreq

MetSkip ==
    /\ At("metrics") /\ st.pc = "scan" /\ st.at <= Len(st.list) /\ ~MetDue(Current)
    /\ st' = [st EXCEPT !.at = @ + 1]

\* upsgi_metrics_loop: the value is collected under the lock,
MetCollect ==
    /\ At("metrics") /\ st.pc = "scan" /\ st.at <= Len(st.list) /\ MetDue(Current) /\ st.locked = ""
    /\ LET v == Collect(st, Current)
       IN  st' = [st EXCEPT !.old = st.value[Current], !.new = v, !.value[Current] = v,
                            !.age = IF Current = "app" THEN 0 ELSE @, !.pc = "file"]

\* written to the file if the collector changed it,
MetFile ==
    /\ At("metrics") /\ st.pc = "file"
    /\ st' = [st EXCEPT !.file[Current] = IF st.old # st.new THEN st.new ELSE @, !.pc = "limit"]

Alarmed(s) == IF s.quiet >= MetRate THEN [s EXCEPT !.gap = s.quiet, !.quiet = 0] ELSE s

\* and compared with the thresholds, which reset under the lock and raise the
\* alarm if the last one is old enough.
MetLimits ==
    /\ At("metrics") /\ st.pc = "limit"
    /\ LET hit == Current = "app" /\ st.new >= MetLimit
           s == IF hit THEN Alarmed([st EXCEPT !.value["app"] = 0, !.want = 0]) ELSE st
       IN  /\ hit => st.locked = ""
           /\ st' = [s EXCEPT !.pc = "scan", !.at = @ + 1, !.old = 0, !.new = 0]

\* sleep(1); the seconds since the last alarm are the ghost's too.
MetSleep ==
    /\ At("metrics") /\ st.at > Len(st.list)
    /\ st' = [st EXCEPT !.at = 1, !.age = IF @ < MetFreq THEN @ + 1 ELSE @,
                     !.quiet = IF @ < MetRate THEN @ + 1 ELSE @]

\* Mutant: the values of the files are not added to what is counted.
RestoredNothing(file) == [m \in MetNames |-> 0]

\* metrics_dir_restore: the files give the initial values.
Restored(file) == [m \in MetNames |-> file[m]]

\* The server is restarted, at any point.
MetRestart ==
    /\ At("metrics") /\ st.left > 0
    /\ st' = Started(st.custom, Restored(st.file), st.file, st.left - 1)

MetNext ==
    MetCount \/ MetBegin \/ MetUpdate \/ MetSet \/ MetSkip \/ MetCollect \/ MetFile \/ MetLimits \/ MetSleep \/ MetRestart

-----------------------------------------------------------------------------
MetTypeOK ==
    kind = "metrics" =>
        /\ st.value \in [MetNames -> Nat] /\ st.file \in [MetNames -> Nat]
        /\ st.at \in 1..(Len(st.list) + 1) /\ st.pc \in {"scan", "file", "limit"}
        /\ st.locked \in MetCallers \cup {""}

\* No update of an application's metric is lost but to the threshold's reset:
\* every update reads and writes under the lock the collector takes too.
UpdatesAllCounted == kind = "metrics" => st.value["app"] = st.want

\* When a pass is over the total is the sum of the workers' metrics, as the
\* totals come behind them in the list and nobody else may set what is
\* collected.  It is about a server that restored nothing: a restored total is
\* added to counters that are restored themselves.
TotalIsSum ==
    kind = "metrics" /\ st.at > Len(st.list) /\ st.initial["total"] = 0 /\ st.custom = <<"app">> =>
        st.value["total"] = MapThenSumSet(LAMBDA w : st.value[w], WorkerMetrics)

\* The file of a worker's counter never goes back, whenever the server is
\* restarted: what the files had is added to what the new workers count.
FileNeverBack ==
    [][kind = "metrics" => \A w \in WorkerMetrics : st'.file[w] >= st.file[w]]_vars

\* Two alarms of a threshold are at least the configured seconds apart.
AlarmsApart == kind = "metrics" => st.gap >= MetRate

-----------------------------------------------------------------------------
\* The SNMP agent.
CONSTANTS SnmpCommunity,   \* the community, as bytes
          SnmpOthers,      \* other communities a client may use
          SnmpIds,         \* request ids, as bytes
          SnmpOids,        \* what comes behind the base of the OID
          SnmpValues,      \* what has a value: OID -> [type, val]
          SnmpVersions,    \* versions, as bytes
          SnmpErrors

SnmpGauge == 66
SnmpCounter64 == 70
SnmpNull == 5
SnmpBase == <<43, 6, 1, 4, 1, 130, 146, 84, 17>>

\* A field: its tag, its length (short form), its content.
Ber(tag, body) == <<tag, Len(body)>> \o body

Packet(tag, r, value) ==
    Ber(48, Ber(2, r.ver) \o Ber(4, r.comm)
            \o Ber(tag, Ber(2, r.id) \o Ber(2, <<r.err>>) \o Ber(2, <<0>>)
                        \o Ber(48, Ber(48, Ber(6, SnmpBase \o r.oid) \o value))))

SnmpInit ==
    /\ kind = "snmp"
    /\ \E ver \in SnmpVersions, comm \in {SnmpCommunity} \cup SnmpOthers, id \in SnmpIds, err \in SnmpErrors, oid \in SnmpOids :
        LET r == [ver |-> ver, comm |-> comm, id |-> id, err |-> err, oid |-> oid]
        IN  st = [req |-> r, buf |-> Packet(160, r, Ber(SnmpNull, <<>>)), sent |-> <<>>, pc |-> "read"]

-----------------------------------------------------------------------------
SnmpWatermark == 127 - 8

\* buffer[i]
Byte(i) == st.buf[i + 1]
Bytes(i, n) == SubSeq(st.buf, i + 1, i + n)

\* get_snmp_integer: its length, with the byte that holds it, or -1; is it 0?
IntDelta(p) == IF Byte(p) > 4 THEN -1 ELSE Byte(p) + 1
\* Big endian: is it at most n?
IntAtMost(p, n) == \A i \in 1..Byte(p) : Byte(p + i) <= IF i = Byte(p) THEN n ELSE 0
IntIsZero(p) == \A i \in 1..Byte(p) : Byte(p + i) = 0

\* The places in the packet, each found from the one before it.
AtCommunity == 3 + IntDelta(3)
CommunityLen == Byte(AtCommunity + 1)
AtGet == AtCommunity + 2 + CommunityLen
AtError == AtGet + 3 + IntDelta(AtGet + 3)
AtIndex == AtError + 1 + IntDelta(AtError + 1)
AtBinds == AtIndex + 1 + IntDelta(AtIndex + 1)
AtOid == AtBinds + 6
OidLen == Byte(AtBinds + 5)

\* The checks of manage_snmp, in its order, down to the OID.
Understood ==
    /\ Len(st.buf) <= SnmpWatermark
    /\ Byte(1) \in 13..SnmpWatermark
    /\ Byte(2) = 2 /\ (IntDelta(3) > 0 => IntAtMost(3, 2))
    /\ Byte(AtCommunity) = 4 /\ CommunityLen \in 1..72
    /\ Bytes(AtCommunity + 2, CommunityLen) = SnmpCommunity
    /\ Byte(AtGet) = 160 /\ Byte(AtGet + 1) = Len(st.buf) - CommunityLen - 9
    /\ Byte(AtGet + 2) = 2 /\ IntDelta(AtGet + 3) > 0 /\ AtError < Len(st.buf)
    /\ Byte(AtError) = 2 /\ IntDelta(AtError + 1) > 0 /\ IntIsZero(AtError + 1)
    /\ Byte(AtIndex) = 2 /\ IntDelta(AtIndex + 1) > 0 /\ IntIsZero(AtIndex + 1)

\* The list of one binding, an OID of the base.
OneBinding ==
    /\ Byte(AtBinds) = 48 /\ Byte(AtBinds + 1) <= SnmpWatermark
    /\ Byte(AtBinds + 2) = 48 /\ Byte(AtBinds + 3) >= 15
    /\ Byte(AtBinds + 4) = 6 /\ OidLen >= 11
    /\ Bytes(AtOid, 9) = SnmpBase

\* The two tables of the old style, or a metric.
OldStyle == Byte(AtOid + 9) \in {1, 2}
OldStyleValid == Byte(AtOid + 10) \in 1..100 /\ Bytes(AtOid + 11, 2) = <<5, 0>>
AskedOid == Bytes(AtOid + 9, OidLen - 9)
ValueFound == AskedOid \in DOMAIN SnmpValues

\* get_upsgi_snmp_value, get_upsgi_custom_snmp_value: null if there is none
SnmpValueOf == IF ValueFound THEN SnmpValues[AskedOid] ELSE [type |-> SnmpNull, val |-> <<0, 0, 0, 0, 0, 0, 0, 0>>]

\* snmp_int_to_snmp: highest byte first, four of them unless it is a counter64
IntToSnmp(v) ==
    LET n == IF v.type = SnmpCounter64 THEN 8 ELSE IF v.type = SnmpNull THEN 0 ELSE 4
    IN  <<n>> \o Reverse(SubSeq(v.val, 1, n))

\* build_snmp_response, build_snmp_metric_response: the last two bytes are the
\* null; buffer[1] and the three lengths grow.
BuildResponse(v) ==
    LET field == IntToSnmp(v)
        more == Len(field) - 1
        grow == {2, AtGet + 2, AtBinds + 2, AtBinds + 4}
        head == SubSeq(st.buf, 1, Len(st.buf) - 2)
    IN  [i \in DOMAIN head |-> IF i \in grow THEN head[i] + more ELSE IF i = AtGet + 1 THEN 162 ELSE head[i]]
        \o <<v.type>> \o field

ManageSnmp ==
    /\ At("snmp") /\ st.pc = "read" /\ Understood /\ OneBinding
    /\ IF OldStyle THEN OldStyleValid ELSE ValueFound
    /\ st' = [st EXCEPT !.pc = "done", !.sent = BuildResponse(SnmpValueOf)]

\* Every failed check returns without an answer.
IgnoreSnmp ==
    /\ At("snmp") /\ st.pc = "read" /\ ~(Understood /\ OneBinding /\ IF OldStyle THEN OldStyleValid ELSE ValueFound)
    /\ st' = [st EXCEPT !.pc = "done"]

SnmpIdle == At("snmp") /\ st.pc = "done" /\ UNCHANGED st

SnmpNext == ManageSnmp \/ IgnoreSnmp \/ SnmpIdle

-----------------------------------------------------------------------------
\* The lengths of an answer, which are never moved to the long form, stay
\* below 128, for a request of any length that is accepted.
SnmpLengthsShort == kind = "snmp" /\ st.sent # <<>> => Len(st.sent) - 2 < 128

\* What the request asks for. The length the agent expects is that of a
\* packet whose version has one byte.
Answerable ==
    /\ Len(st.req.ver) = 1 /\ st.req.ver[1] <= 2 /\ st.req.comm = SnmpCommunity /\ st.req.err = 0 /\ Len(st.req.id) <= 4
    /\ Len(st.buf) <= SnmpWatermark
    /\ IF st.req.oid[1] \in {1, 2} THEN st.req.oid[2] \in 1..100 ELSE st.req.oid \in DOMAIN SnmpValues

AnswerValue ==
    LET v == IF st.req.oid \in DOMAIN SnmpValues THEN SnmpValues[st.req.oid] ELSE [type |-> SnmpNull, val |-> <<>>]
    IN  CASE v.type = SnmpNull -> Ber(SnmpNull, <<>>)
          [] v.type = SnmpGauge -> Ber(SnmpGauge, <<v.val[4], v.val[3], v.val[2], v.val[1]>>)
          [] v.type = SnmpCounter64 -> Ber(SnmpCounter64, [i \in 1..8 |-> v.val[9 - i]])

\* A request of the community for one value is answered by the response packet
\* that names the same request and OID and holds the value, every length being
\* right; all others get no answer.
SnmpExact ==
    kind = "snmp" /\ st.pc = "done" => st.sent = IF Answerable THEN Packet(162, st.req, AnswerValue) ELSE <<>>
=============================================================================
