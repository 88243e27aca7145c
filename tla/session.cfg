SPECIFICATION Spec
CONSTANTS
  q1 = q1  q2 = q2  q3 = q3  ana = ana  bob = bob
  NoSession = NoSession
  Requests <- ThreeRequests
  Users <- TwoUsers
  Setups <- AllSetups
  MaxMessages = 3
  ContextWindow = 2
SYMMETRY Symmetric
INVARIANTS TypeOK NotMixed HistoriesWellFormed NothingLost StoresAgree ClearedGone PromptHasHistory
PROPERTIES RowKeepsOwner
CHECK_DEADLOCK FALSE
