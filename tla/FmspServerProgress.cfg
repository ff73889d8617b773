SPECIFICATION Spec
CONSTANTS
  Kinds = {"Playback"}
  MaxPts = 0
  Windows <- MCOneFrame
PROPERTIES
  WakeUpsAreServed
  MainIsJoined
CHECK_DEADLOCK FALSE
