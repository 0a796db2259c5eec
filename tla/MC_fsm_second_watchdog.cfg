CONSTANTS
    kMaxQueueSize = 5
    MaxShots = 2
    MaxIpcMessages = 0
    kUsePreImageSubtraction = FALSE
    Camera2SendsPreImage = FALSE
    CameraFaults = FALSE
SPECIFICATION FairSpec
PROPERTIES
    EveryHitAnswered
CHECK_DEADLOCK FALSE
