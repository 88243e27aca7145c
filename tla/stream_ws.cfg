SPECIFICATION Spec
CONSTANTS
  Transports <- OnlyWS
  Symbols <- FourSymbols
  Answers <- ShortAnswers
  WholeTexts <- WholeAnswers
  CachedTexts <- OneLine
  Caching <- Yes
  Provided <- Yes
  Native <- Yes
  Capacity = 2
  Faults <- NoFault
INVARIANTS Complete
CHECK_DEADLOCK FALSE
