SPECIFICATION Spec
CONSTANTS
  q1 = q1  q2 = q2  q3 = q3  ana = ana  bob = bob
  NoSession = NoSession
  Requests <- ThreeRequests
  Users <- TwoUsers
  Setups <- OnlyBatch
  MaxMessages = 3
  ContextWindow = 2
INVARIANTS EveryMessageKept
CHECK_DEADLOCK FALSE
