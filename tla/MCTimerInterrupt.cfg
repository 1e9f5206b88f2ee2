SPECIFICATION SpecBoth
CONSTANTS
  Lines = {0, 1, 6}
  CommandBytes = {}
  DataBytes = {0, 1}
  Base = 2
  Programmed = {0}
  ControlBytes = {20}
  Elapsed = {6}
  CounterBytes = {1}
PROPERTY UnmaskedTimerKeepsTime
CHECK_DEADLOCK FALSE
