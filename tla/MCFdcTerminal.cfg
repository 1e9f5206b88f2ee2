SPECIFICATION Spec
CONSTANTS
  Base = 4
  RegisterBytes = {3}
  PageBytes = {1}
  MaskBytes = {2}
  SECTORS_PER_TRACK = 9
  HEADS_PER_CYLINDER = 2
  DorBytes = {4}
  CommandBytes = {70}
  ParamBytes <- ReadParamBytes
PROPERTY StopsAtTerminalCount
