CONSTANTS
    kMaxQueueSize = 5
    MaxShots = 1
    MaxIpcMessages = 0
    kUsePreImageSubtraction = FALSE
    Camera2SendsPreImage = FALSE
    CameraFaults = TRUE
SPECIFICATION FairSpec
PROPERTIES
    ExceptionsRestart
CHECK_DEADLOCK FALSE
