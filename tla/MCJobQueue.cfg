CONSTANTS
  Jobs = {j1, j2, j3}
  MaxWorkers = 2
  Capacity = 2
  MaxPublishing = 2
  NoJob = NoJob
SPECIFICATION Spec
INVARIANTS NoSlotRace MetricsAgree DrainedOnClose
PROPERTIES ImplementsWorkPool PublishedJobRuns
