CONSTANTS
    kMaxQueueSize = 3
    MaxShots = 2
    MaxIpcMessages = 1
    kUsePreImageSubtraction = FALSE
    Camera2SendsPreImage = FALSE
    CameraFaults = TRUE
SPECIFICATION Spec
INVARIANTS
    AtMostOneDriver
    DriverPresent
    ResultsNumberedOnce
    PicturesUsedOnce
    HitBeforeResult
PROPERTIES
    ReadyIsHonest
CHECK_DEADLOCK FALSE
