CONSTANTS
  j1 = j1
  j2 = j2
  Jobs <- Pair
  Graphs <- TwoGraphs
  Closers = {c1}
  Workers = 1
  Capacity = 1
  MaxAttempts = 2
  DepAttempts = 2
SPECIFICATION FairSpec
INVARIANTS DependenciesFirst CountedOnce QuietAfterClose
PROPERTIES ResultsArrive CloseReturns
CHECK_DEADLOCK FALSE
