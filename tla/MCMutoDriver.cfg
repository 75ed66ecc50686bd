CONSTANTS
    Legs <- MCLegs
    GaitSteps = 8
    Mapping = "calibrated"
    Twists <- MCTwists
    NotFinite = NotFinite
    Profile <- MCProfile
    PhaseRate = 50
    GaitSpeed <- MCGaitSpeed
    Hundredth = 2
    CmdVelTimeout = 2
    RawPeriod = 3
    AttitudePeriod = 2
    MaxDelay = 2
    Batch = TRUE
    MaxFaults = 1
SPECIFICATION FairSpec
INVARIANTS ReportsAreTrue TripodStands
PROPERTIES StrideIsKept ReleasedIsFinal SilenceStops BothAreServed
CHECK_DEADLOCK FALSE
