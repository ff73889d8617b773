CONSTANTS
  MaxCommands = 3
  StorageSizes = {1000, 5000, 20000}
  Bitrates = {900, 3800}
SPECIFICATION Spec
INVARIANTS
  LifetimesNest
  NothingLost
  AudioAfterVideoTried
  SizedBufferFits
PROPERTY ProgramsProceed
CHECK_DEADLOCK FALSE
