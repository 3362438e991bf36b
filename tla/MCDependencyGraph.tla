------------------------- MODULE MCDependencyGraph -------------------------
(* DependencyGraph for TLC. *)
EXTENDS DependencyGraph, TLC

\* Linkers are interchangeable, and so are keys.
GraphSymmetry == Permutations(Linkers) \cup Permutations(Keys)
=============================================================================
