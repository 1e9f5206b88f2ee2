SPECIFICATION Spec
CONSTANTS
  RingSize = 3
  HostKeys = {30, 48}
  KernalLimit = 2
  BdaLimit = 2
  PortBytes = {8, 72, 128, 200}
INVARIANT RingDrained
PROPERTIES InOrder CodesAnnounced
