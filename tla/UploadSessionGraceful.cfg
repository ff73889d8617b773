\* A session ends by itself while the shutdown sleeps.
CONSTANTS
    MaxFrames = 2
    MAX_GET_DATA_ITER = 2
SPECIFICATION SessionSpec
PROPERTY
    GracefulEndNotTimedOut
CHECK_DEADLOCK FALSE
