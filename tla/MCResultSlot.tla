----------------------------- MODULE MCResultSlot -----------------------------
(* ResultSlot for TLC. *)
EXTENDS ResultSlot, TLC

CONSTANTS g1, g2

TwoWaiters == {g1, g2}

\* The second call of g2 can meet its own dead node, and that of g1, in the list.
Calls == (g1 :> 1) @@ (g2 :> 2)
=============================================================================
