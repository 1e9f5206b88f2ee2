SPECIFICATION Spec
CONSTANTS
  PageSize = 2
  GuestPages = 2
  ReuPages = 3
  CarryPages = 1
  ClearedPages = {0}
  VideoPage = 1
  Byte = {0, 1}
  Media <- MCMedia
INVARIANTS TypeOK CachesCoherent
PROPERTY ImplementsFlatMemory
