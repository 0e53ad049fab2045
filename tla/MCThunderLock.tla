--------------------------- MODULE MCThunderLock ---------------------------
(***************************************************************************)
(* A finite instance of ThunderLock for TLC: one setup per engine.         *)
(***************************************************************************)
EXTENDS ThunderLock

Started(engine, threads, exclusive, maxEnds) ==
    [useThunderLock |-> TRUE, engine |-> engine, threads |-> threads, exclusive |-> exclusive, maxEnds |-> maxEnds]

\* Shared listeners and threads; a worker with sockets of its own; record
\* locks; plain mutexes with the deadlock detector; no thunder lock at all.
MCSetups ==
    {Started("robust", 2, {}, 1), Started("robust", 1, {}, 3), Started("ipcsem", 2, {NumProc}, 1),
     Started("fdlock", 1, {}, 2), Started("plain", 1, {}, 2),
     [Started("robust", 1, {}, 1) EXCEPT !.useThunderLock = FALSE]}

\* Plain mutexes alone, with one death.
MCPlainSetups == {Started("plain", 1, {}, 1)}
============================================================================
