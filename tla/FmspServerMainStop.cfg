SPECIFICATION Spec
CONSTANTS
  Kinds = {"Playback"}
  MaxPts = 1
  Windows <- MCWindows
PROPERTIES
  ConnectionIsClosed
CHECK_DEADLOCK FALSE
