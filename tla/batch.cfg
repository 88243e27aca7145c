SPECIFICATION EndpointFairSpec
CONSTANTS
  r1 = r1  r2 = r2  r3 = r3
  Tasks <- ThreeRequests
  Order <- OrderOfThree
  Modes <- EveryMode
  Limit = 2
  Faults <- EveryFault
INVARIANTS AnswerConserved CountsAgree
PROPERTIES ReturnsUnlessMute FulfilsBatch NoCollectorLeaks
CHECK_DEADLOCK FALSE
