------------------------------- MODULE Bench -------------------------------
(***************************************************************************)
(* Parts of the server that do not interact share a run: kind names the    *)
(* part that is being exercised and st is its whole state.  A module that  *)
(* extends this one defines, for its kind K, the initial states, one       *)
(* action per operation (each of them enabled only At(K)) and the          *)
(* properties, which read kind = K => ...                                  *)
(***************************************************************************)
VARIABLES kind, st

vars == <<kind, st>>

At(k) == kind = k /\ kind' = kind
=============================================================================
