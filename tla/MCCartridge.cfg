SPECIFICATION Spec
CONSTANTS
  BankSize = 4
  BootstrapSize = 1
  MinimumBanks = 2
  DisableBank = 6
  RamSize = 11
  ReuSize = 16
  PayloadSizes <- SomePayloads
  BssSizes <- SomeBss
  MediaSizes <- SomeMedia
INVARIANTS
  PayloadArrives
  MediaArrives
