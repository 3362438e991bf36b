CONSTANTS
  Callers = {s1, s2, scaler}
  Scaler = scaler
  Configs <- SmallConfigs
  MaxTokens = 1
  RefillRate = 2
  MaxTime = 2
  WorkerCount = 1
  PerWorkerCapacity = 1
  MaxQueueSize = 2
  TargetProcessTime = 1
  CheckInterval = 2
  MaxCPU = 2
  Latencies = {1}
SPECIFICATION ASpec
SYMMETRY SchedulerSymmetry
INVARIANTS RateKept JudgedByOwnReading SampledOncePerInterval AverageBounded
