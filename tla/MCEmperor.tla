----------------------------- MODULE MCEmperor -----------------------------
EXTENDS Emperor

Plain == [names |-> {"a", "b"}, demand |-> {}, tcp |-> FALSE, wait |-> FALSE,
          hook |-> FALSE, brood |-> 0, beat |-> FALSE, black |-> FALSE,
          fork |-> FALSE, idle |-> FALSE, tyrant |-> FALSE, files |-> FALSE,
          stolen |-> FALSE]
MCModes ==
    {[Plain EXCEPT !.names = {"a"}, !.files = TRUE, !.hook = TRUE, !.idle = TRUE],
     [Plain EXCEPT !.names = {"a"}, !.black = TRUE],
     [Plain EXCEPT !.names = {"a"}, !.brood = 1],
     [Plain EXCEPT !.demand = {"a"}, !.tcp = TRUE],
     [Plain EXCEPT !.names = {"a"}, !.demand = {"a"}, !.beat = TRUE, !.idle = TRUE],
     [Plain EXCEPT !.wait = TRUE, !.fork = TRUE, !.names = {"a"}],
     [Plain EXCEPT !.names = {"a"}, !.tyrant = TRUE, !.stolen = TRUE]}
=============================================================================
