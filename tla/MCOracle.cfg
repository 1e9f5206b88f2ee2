SPECIFICATION LockSpec
CONSTANTS
  Patience = 5
  Vectors <- SuiteVectors
INVARIANTS
  FramesReturn
  StackLoadedWhole
  AlarmsExplained
  RoundsEnd
  NamedInStep
  ListingsEnd
  SearchesFind

PROPERTIES
  InterpreterAgrees
