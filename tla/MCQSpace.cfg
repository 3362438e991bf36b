CONSTANTS
  Awaiters = {a1, a2}
  Storers = {s1}
  Cleaner = Cleaner
  Nil = Nil
SPECIFICATION SpaceSpec
INVARIANTS BlockedReachable ReleasedThoughSplit ReleasedUnlessSplit
           RetainedUntilExpiry
PROPERTY SpaceCloseReturns
