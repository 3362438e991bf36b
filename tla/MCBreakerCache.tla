--------------------------- MODULE MCBreakerCache ---------------------------
(* BreakerCache for TLC. *)
EXTENDS BreakerCache, TLC

CallSymmetry == Permutations(Calls)
=============================================================================
