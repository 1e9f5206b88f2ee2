SPECIFICATION Spec
CONSTANTS
  MaxTicks = 2
  Scripts <- AllScripts
INVARIANTS
  FaultDumpExact
  DumpAnswersRequest
  HitNotReadOver
  NoOrphan
PROPERTIES
  Ends
