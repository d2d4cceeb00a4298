SPECIFICATION Spec
CONSTANTS
    Kinematic = {"x"}
    Extruder = "e"
    AutoRetryLimit = 1
    Events = {"retry"}
    RetryMidStep = TRUE
    MaxFaults = 0
    MaxLosses = 0
INVARIANTS ReadyMeansStarted
CHECK_DEADLOCK FALSE
