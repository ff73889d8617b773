SPECIFICATION Spec
CONSTANTS
  Kinds = {"Playback"}
  MaxPts = 1
  Windows <- MCWindows
PROPERTIES
  AcceptedClientIsHeard
CHECK_DEADLOCK FALSE
