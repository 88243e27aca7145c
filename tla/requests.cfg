SPECIFICATION Spec
CONSTANTS
  r1 = r1  r2 = r2  None = None
  Unset = Unset  Unparsable = Unparsable
  MaxInt32 = 524287  HashWidth = 16777216
  Requests <- TwoRequests
  Prompts <- FourPrompts
  Worlds <- AllWorlds
SYMMETRY Symmetric
INVARIANTS ListedReached  EndpointsAgree AnswerFits
CHECK_DEADLOCK FALSE
