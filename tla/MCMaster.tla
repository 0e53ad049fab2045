------------------------------ MODULE MCMaster ------------------------------
(***************************************************************************)
(* Finite instances of Master for TLC: two workers, one command or signal, *)
(* one death, and the options that each question is about.                 *)
(***************************************************************************)
EXTENDS Master

Plain == [cheaperCount |-> 0, lazy |-> FALSE, needApp |-> FALSE, otherChildren |-> FALSE, commands |-> {}, signals |-> {},
          exitCodes |-> {"died"}, maxForkFails |-> 0, maxCheaper |-> 4, maxPids |-> 20]

\* Stop and chain reload by the fifo.
MCLife == {[Plain EXCEPT !.commands = {"Q", "c"}]}

\* Cheap and cheaper mode, with a fork that fails.
MCCheap == [Plain EXCEPT !.cheaperCount = 1, !.commands = {"C", "idle", "+", "-"}, !.exitCodes = {"died", "go-cheap"},
                         !.maxForkFails = 1, !.maxCheaper = 2]

\* Reloads and stops by the fifo, with the exit codes that stop the master.
MCReload == [Plain EXCEPT !.needApp = TRUE, !.commands = {"q", "r", "R", "w", "W"},
                          !.exitCodes = {"failed-app", "brutal-reload"}, !.maxPids = 4]

\* Reloads and stops by a signal, gateways running beside the workers.
MCSignals == [Plain EXCEPT !.otherChildren = TRUE, !.signals = {"TERM", "HUP", "QUIT"}, !.maxPids = 4]

MCModes == {MCCheap, MCReload, MCSignals}

\* A stop by a signal, which interrupts master_loop() anywhere.
MCAsyncStop == {[Plain EXCEPT !.signals = {"TERM"}]}
=============================================================================
