CONSTANTS
  Observers = {o1, o2}
  MinWorkers = 2
  MaxWorkers = 4
  TargetLoad = 1
  ScaleUpThreshold = 1
  ScaleDownThreshold = 1
  Depths = {0, 3, 5}
  NoReading = NoReading
SPECIFICATION ScalerSpec
SYMMETRY ObserverSymmetry
INVARIANTS TokensCounted ActiveAgrees MinKeptAlone
CHECK_DEADLOCK FALSE
