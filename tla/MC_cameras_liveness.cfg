SPECIFICATION FairSystemSpec
CONSTANTS
    kMaxQueueSize = 3
    MaxShots = 2
    MaxIpcMessages = 0
    kUsePreImageSubtraction = FALSE
    Camera2SendsPreImage = FALSE
    CameraFaults = FALSE
    InitialPulses = 2
    kCameraRequiresFlushPulse = TRUE
    PauseSuffices = TRUE
    Camera2Faults = FALSE
CHECK_DEADLOCK FALSE
PROPERTY CameraReleased
