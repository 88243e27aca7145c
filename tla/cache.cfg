SPECIFICATION Spec
CONSTANTS
  r1 = r1  r2 = r2  r3 = r3  NoAnswer = NoAnswer  NoCall = NoCall
  ask = ask  quote = quote  askKey = askKey  quoteKey = quoteKey
  Requests <- ThreeRequests
  Questions <- TwoQuestions
  Keys <- TwoKeys
  Key <- KeyOf
  TextKey <- KeyOfText
  ReportLimit = 2
  Kinds <- EveryKind
  Faults <- EveryFault
SYMMETRY Symmetric
INVARIANTS ClosedNotServed RemovedForGood StatsAgree
PROPERTIES BlacklistedForGood
CHECK_DEADLOCK FALSE
