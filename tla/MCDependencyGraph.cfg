CONSTANTS
  Linkers = {c1, c2}
  Keys = {a, b, c}
  MaxCalls = 3
  MaxExpiries = 1
SPECIFICATION GraphSpec
SYMMETRY GraphSymmetry
INVARIANTS CirclesUnchecked RecordedStays
CHECK_DEADLOCK FALSE
