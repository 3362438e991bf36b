------------------------------ MODULE MCSpscRing ------------------------------
(* SpscRing for TLC. *)
EXTENDS SpscRing

CONSTANTS p1, p2, q1, q2

TwoProducers == {p1, p2}
TwoPoppers == {q1, q2}

Use(drop, producers, poppers) ==
  [dropOldestOnFull |-> drop, producers |-> producers, poppers |-> poppers]

\* One producer with either policy, against a consumer and a closer; and, as Send
\* takes no lock, two producers on a ring that rejects when it is full.
ThreeUses ==
  {Use(TRUE, {p1}, {q1, q2}), Use(FALSE, {p1}, {q1, q2}), Use(FALSE, {p1, p2}, {q1})}
=============================================================================
