SPECIFICATION FairSpec
CONSTANTS
  Lines = {0, 1, 6}
  CommandBytes = {32, 19, 17, 18}
  DataBytes = {8, 9, 255}
PROPERTIES LatchNotOverwritten RequestsConserved EventsServe LatchedIsEntered
