SPECIFICATION LockSpec
CONSTANTS
  Patience = 5
  Vectors <- SuiteVectors
PROPERTY DirectOffsets
