CONSTANTS
    kMaxQueueSize = 5
    MaxShots = 2
    MaxIpcMessages = 0
    kUsePreImageSubtraction = TRUE
    Camera2SendsPreImage = TRUE
    CameraFaults = TRUE
SPECIFICATION FairSpec
PROPERTIES
    StabilizationEnds
    WatchdogRescues
    ShutdownCompletes
CHECK_DEADLOCK FALSE
