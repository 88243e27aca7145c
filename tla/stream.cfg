SPECIFICATION FairSpec
CONSTANTS
  Transports <- AllTransports
  Symbols <- FourSymbols
  Answers <- EveryAnswer
  WholeTexts <- WholeAnswers
  CachedTexts <- Texts
  Caching <- Both
  Provided <- Both
  Native <- Both
  Capacity = 2
  Faults <- EveryFault
INVARIANTS TypeOK InOrder CompleteUnlessWS WordsKept
PROPERTIES FulfilsStreamPromise StreamEnds GoroutinesEnd
CHECK_DEADLOCK FALSE
