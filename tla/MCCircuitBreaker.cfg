CONSTANTS
  Jobs = {j1, j2, j3, j4}
  Unreported = {j4}
  Scalers = {r1}
  MaxFailures = 2
  HalfOpenMax = 2
  ResetTimeout = 1
  MaxTime = 3
SPECIFICATION Spec
SYMMETRY JobSymmetry
INVARIANTS SlotsLeakUnreported FirstResetHonoured
CHECK_DEADLOCK FALSE
