\* A notification falls between the last fetch and the pause.
CONSTANTS
    MaxFrames = 2
    MAX_GET_DATA_ITER = 2
SPECIFICATION SessionFairSpec
PROPERTY
    StoppedUploadEnds
CHECK_DEADLOCK FALSE
