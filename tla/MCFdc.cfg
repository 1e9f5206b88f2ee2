SPECIFICATION Spec
CONSTANTS
  Base = 4
  RegisterBytes = {3}
  PageBytes = {1}
  MaskBytes = {2}
  SECTORS_PER_TRACK = 9
  HEADS_PER_CYLINDER = 2
  DorBytes = {4, 1}
  CommandBytes = {3, 7, 8, 15, 70, 10, 0}
  ParamBytes <- ReadParamBytes
INVARIANT PhasesExclusive
PROPERTIES SeekEndTold InterruptExplained ReadTold CopiesAuthorised
