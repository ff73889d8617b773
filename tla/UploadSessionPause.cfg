\* A notifier continues curl before the pause has reached it.
CONSTANTS
    MaxFrames = 2
    MAX_GET_DATA_ITER = 2
SPECIFICATION SessionSpec
INVARIANT
    WakeableWhenPaused
CHECK_DEADLOCK FALSE
