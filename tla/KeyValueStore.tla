---------------------------- MODULE KeyValueStore ----------------------------
(***************************************************************************)
(* What a cache promises: a partial map from keys to values. A value is    *)
(* there whole or not at all, it is the one last put under that key, and   *)
(* any key may be dropped at any time (expired, evicted, removed).         *)
(***************************************************************************)
CONSTANTS Keys, Values, Absent

VARIABLE store

Init == store = [k \in Keys |-> Absent]

\* A step puts at most one key; any other key keeps its value or is dropped.
Step(k) ==
    LET old == store
        new == store'
    IN  /\ new[k] \in Values \cup {Absent}
        /\ \A x \in Keys \ {k} : new[x] \in {old[x], Absent}

Next == \E k \in Keys : Step(k)

Spec == Init /\ [][Next]_store
=============================================================================
