SPECIFICATION PitFairSpec
CONSTANTS
  Base = 2
  Programmed = {0, 2}
  ControlBytes = {0, 36, 48, 62, 144, 148, 192}
  Elapsed = {2, 3, 6}
PROPERTIES KeepsTime StartsWhole TimerFires
