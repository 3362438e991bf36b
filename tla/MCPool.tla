-------------------------------- MODULE MCPool --------------------------------
(* Pool for TLC. *)
EXTENDS Pool, TLC

CONSTANTS j1, j2

Pair == {j1, j2}

\* j2 depends on j1; the two depend on each other, which Schedule accepts, too.
TwoGraphs == {(j1 :> {}) @@ (j2 :> {j1}), (j1 :> {j2}) @@ (j2 :> {j1})}
=============================================================================
