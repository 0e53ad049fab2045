----------------------------- MODULE MCResponse -----------------------------
(***************************************************************************)
(* Responses of every kind under every combination of the options.        *)
(***************************************************************************)
EXTENDS Response

Bodies == [kind : {"array"}, script : {<<>>, <<3>>, <<1, 1, 1>>, <<1, 3>>, <<2, 0, 1>>}] \cup
          [kind : {"getline"}, script : {<<1, 2, Dies>>, <<2, 2, Bad>>, <<1, 0, 1>>, <<1, 3>>}] \cup
          [kind : {"async"}, script : {<<2, 2>>, <<1, 1, Dies>>, <<2, Bad>>, <<1, 0, 1>>}] \cup
          [kind : {"stream"}, script : {<<2, 0, 1>>, <<0, Dies>>, <<Dies>>, <<1, 2, Dies>>}] \cup
          [kind : {"dies", "invalid", "scalar", "big"}, script : {<<>>}]

\* Tolerated write errors, or an exception at the first one.
Errors == [tol : {0, 1}, exc : {FALSE}] \cup [tol : {0}, exc : {TRUE}]

Of(b, e, v, t, r, h, n, o) ==
    [kind |-> b.kind, script |-> b.script, size |-> n, writev |-> v, route |-> r,
     trans |-> t, tol |-> e.tol, exc |-> e.exc, offload |-> o, http11 |-> h]

MCModes ==
    {Of(b, e, v, t, FALSE, h, 0, FALSE) : b \in Bodies, e \in Errors, v \in BOOLEAN,
        t \in {"none", "flush", "fixcl"}, h \in BOOLEAN} \cup
    {Of(b, e, v, t, TRUE, FALSE, 0, FALSE) : b \in Bodies, e \in Errors, v \in BOOLEAN,
        t \in {"none", "fixcl"}} \cup
    {Of(b, e, TRUE, t, r, FALSE, n, o) : b \in [kind : {"io", "path"}, script : {<<>>}],
        e \in Errors, t \in {"none", "flush", "fixcl"}, r \in BOOLEAN, n \in {0, 3}, o \in BOOLEAN}
=============================================================================
