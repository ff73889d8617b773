SPECIFICATION Spec
CONSTANTS
  Kinds = {"Playback"}
  MaxPts = 1
  Windows <- MCWindows
PROPERTIES
  ReceiverIsDisabled
CHECK_DEADLOCK FALSE
