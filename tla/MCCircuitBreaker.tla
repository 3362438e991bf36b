-------------------------- MODULE MCCircuitBreaker --------------------------
EXTENDS CircuitBreaker, TLC

\* Jobs that report are interchangeable, and so are those that do not.
JobSymmetry == Permutations(Jobs \ Unreported) \cup Permutations(Unreported)
=============================================================================
