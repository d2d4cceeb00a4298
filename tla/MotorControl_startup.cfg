SPECIFICATION FairSpec
CONSTANTS
    Kinematic = {"x"}
    Extruder = "e"
    AutoRetryLimit = 1
    Events = {"retry", "print", "warn"}
    RetryMidStep = FALSE
    MaxFaults = 1
    MaxLosses = 1
INVARIANT ReadyMeansStarted
PROPERTIES ResumeClean StartupEnds KinematicFaultStops
CHECK_DEADLOCK FALSE
