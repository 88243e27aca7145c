SPECIFICATION EndpointFairSpec
CONSTANTS
  r1 = r1  r2 = r2  r3 = r3
  Tasks <- TwoRequests
  Order <- OrderOfTwo
  Modes <- JustParallel
  Limit = 2
  Faults <- JustExpire
PROPERTIES BatchReturns
CHECK_DEADLOCK FALSE
