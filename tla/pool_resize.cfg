SPECIFICATION FairSpec
CONSTANTS
  t1 = t1  t2 = t2  t3 = t3  NoTask = NoTask
  Tasks <- OneTask
  BatchTasks <- NoTasks
  Outcomes <- AllOutcomes
  QueueSize = 2
  MinWorkers = 1
  MaxWorkers = 2
  Resizes <- GrowTo2
  TopWorkers = 2
  UtilizationPct = 75
  WaitStyle = "never"
  Served = 0
  MaxInt32 = 127
PROPERTIES ResizeTakesEffect
CHECK_DEADLOCK FALSE
