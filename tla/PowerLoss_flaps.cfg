SPECIFICATION Spec
CONSTANTS
    Sessions = {1}
    Positions = {1, 2, 3}
    Contexts = {1, 2}
    MaxFaults = 0
    MaxGen = 3
    MaxStops = 0
    Flaps = TRUE
INVARIANTS ContextKept
CHECK_DEADLOCK FALSE
