SPECIFICATION FairSpec
CONSTANTS
    Sessions = {1}
    Positions = {1, 2}
    Contexts = {1, 2}
    MaxFaults = 1
    MaxGen = 2
    MaxStops = 1
    Flaps = FALSE
INVARIANTS ContextKept
PROPERTIES DiscardEnds
CHECK_DEADLOCK FALSE
