SPECIFICATION SystemSpec
CONSTANTS
    kMaxQueueSize = 2
    MaxShots = 2
    MaxIpcMessages = 0
    kUsePreImageSubtraction = FALSE
    Camera2SendsPreImage = FALSE
    CameraFaults = FALSE
    InitialPulses = 2
    kCameraRequiresFlushPulse = FALSE
    PauseSuffices = TRUE
    Camera2Faults = TRUE
CHECK_DEADLOCK FALSE
INVARIANTS
    PictureOfTheHit
PROPERTY ImplementsLaunchMonitor
