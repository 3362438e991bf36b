CONSTANTS
  Calls = {k1, k2, k3}
  Ids = {i1, i2}
  Limit = 1
  Nil = Nil
SPECIFICATION Spec
SYMMETRY CallSymmetry
INVARIANTS ExistingBreakerReturned
CHECK_DEADLOCK FALSE
