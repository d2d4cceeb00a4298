SPECIFICATION Spec
CONSTANTS
    Kinematic = {"x"}
    Extruder = "e"
    AutoRetryLimit = 1
    Events = {"home", "cut", "clear_error"}
    RetryMidStep = FALSE
    MaxFaults = 2
    MaxLosses = 1
INVARIANTS StallStopSignalled
CHECK_DEADLOCK FALSE
