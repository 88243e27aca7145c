SPECIFICATION Spec
CONSTANTS
  t1 = t1  t2 = t2  t3 = t3  NoTask = NoTask
  Tasks <- ThreeTasks
  BatchTasks <- OnlyT3
  Outcomes <- AllOutcomes
  QueueSize = 2
  MinWorkers = 1
  MaxWorkers = 2
  Resizes <- SomeResizes
  TopWorkers = 2
  UtilizationPct = 75
  WaitStyle = "quiet"
  Served = 126
  MaxInt32 = 127
INVARIANTS TypeOK TaskConservation PoolIntact CountersAgree GaugeBacked
PROPERTIES ImplementsTaskPool
CHECK_DEADLOCK FALSE
