SPECIFICATION ProgramsSpec
CONSTANTS
    kMaxQueueSize = 4
    MaxShots = 1
    kUsePreImageSubtraction = FALSE
    kCameraRequiresFlushPulse = FALSE
    CameraFaults = TRUE
    Programs = {p1, p2}
    Pis = {1, 2}
    Commands <- MCCommands
    MaxStarts = 4
    None = None
CHECK_DEADLOCK FALSE
INVARIANTS
    OneRestart
    MonitorRunsFree
    RequestsAreHeard
PROPERTIES
    StopsUnlessArmed
    ToldMonitorsEnd
