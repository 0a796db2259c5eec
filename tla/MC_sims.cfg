SPECIFICATION Spec
CONSTANTS
    MaxShots = 2
    GSProTalk = 2
    E6Talk = 2
    MayStop = TRUE
CHECK_DEADLOCK FALSE
INVARIANTS
    E6GetsWholeShots
    OneShotPerArm
    ClubsFollowGSPro
