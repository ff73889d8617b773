SPECIFICATION Spec
CONSTANTS
  Kinds = {"Playback", "Liveview"}
  MaxPts = 1
  Windows <- MCWindows
INVARIANTS
  WakeUpInv
  NothingRunsAfterDestruct
  NoVideoBeforeLoadedTarget
CHECK_DEADLOCK FALSE
