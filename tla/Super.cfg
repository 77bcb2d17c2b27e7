SPECIFICATION Spec
CONSTANTS
    Which <- AllControllers
    Minutes = 4
    PerMinute = 2
    Start = 1
    Stop = 2
    MaxTrouble = 1
    HalfHour = 2
    Timeout = 2
    MaxDown = 2
    MaxUp = 4
INVARIANTS TypeOK FollowsRules
PROPERTIES CutOnlyHalted KeptOff ComesBack RebootJustified StuckLinkReboots
