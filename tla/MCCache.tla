------------------------------- MODULE MCCache -------------------------------
EXTENDS Cache, TLC
MCHash == [k \in Keys |-> IF k = "c" THEN 1 ELSE 2]
Plain == [bitmap |-> FALSE, lru |-> FALSE, lazy |-> FALSE, sweep |-> 0,
          clear |-> FALSE, alone |-> FALSE]
\* The sets of options: one reader at a time where a reader changes the cache
\* (LRU and lazy expiry work under the read lock), and in the large instance.
MCModes == {
    Plain, [Plain EXCEPT !.sweep = 1, !.clear = TRUE],
    [Plain EXCEPT !.bitmap = TRUE, !.sweep = 1, !.clear = TRUE, !.alone = TRUE],
    [Plain EXCEPT !.bitmap = TRUE, !.lru = TRUE, !.alone = TRUE],
    [Plain EXCEPT !.lazy = TRUE, !.clear = TRUE, !.alone = TRUE]}
Symmetry == Permutations(Procs)
=============================================================================
