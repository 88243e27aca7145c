SPECIFICATION ServerFairSpec
CONSTANTS
  t1 = t1  t2 = t2  NoTask = NoTask
  Tasks <- TwoTasks
  BatchTasks <- OnlyT2
  Outcomes <- AllOutcomes
  QueueSize = 1
  MinWorkers = 1
  MaxWorkers = 2
  Resizes <- NoResize
  TopWorkers = 2
  UtilizationPct = 75
  WaitStyle = "quiet"
  Served = 0
  MaxInt32 = 127
INVARIANTS WaitSound StoresOutliveTasks
PROPERTIES WaitReturns WorkersStop FulfilsTaskPool SignalEnds
CHECK_DEADLOCK FALSE
