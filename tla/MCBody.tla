------------------------------- MODULE MCBody -------------------------------
(* Small bodies, one of each way to read them, for TLC. *)
EXTENDS Body

\* The chunked encoding of a list of chunk sizes, the bytes numbered from 1.
RECURSIVE Encode(_, _)
Encode(sizes, from) ==
    IF sizes = <<>> THEN <<100, CR, LF, CR, LF>>
    ELSE <<100 + Head(sizes), CR, LF>> \o [i \in 1..Head(sizes) |-> from + i - 1]
            \o <<CR, LF>> \o Encode(Tail(sizes), from + Head(sizes))

Plain(kind, sched, n) ==
    [kind |-> kind, sched |-> sched, api |-> "read",
     wire |-> [i \in 1..n |-> i], body |-> [i \in 1..n |-> i], valid |-> TRUE]

ChunkedBody(api, sched, sizes) ==
    [kind |-> "chunked", sched |-> sched, api |-> api, wire |-> Encode(sizes, 1),
     body |-> [i \in 1..FoldLeft(LAMBDA a, b : a + b, 0, sizes) |-> i], valid |-> TRUE]

\* broken at one place of the wire
Broken(m, at) == [m EXCEPT !.wire[at] = 99, !.valid = FALSE]

MCModes ==
    {Plain("socket", TRUE, 4), Plain("socket", FALSE, 3), Plain("mem", TRUE, 2),
     Plain("disk", TRUE, 3), Plain("socket", TRUE, 0)}
    \cup {ChunkedBody("read", TRUE, <<2, 1>>), ChunkedBody("chunk", TRUE, <<1, 2>>),
          ChunkedBody("chunk", FALSE, <<7>>),
          [ChunkedBody("chunk", TRUE, <<1>>) EXCEPT !.wire = <<100>> \o @]}
    \cup {Broken(ChunkedBody("read", TRUE, <<1>>), 5)}
    \cup {Broken(ChunkedBody("chunk", TRUE, <<1>>), k) : k \in {2, 11}}

MCBuckets == <<0, 1, 100>>
=============================================================================
