SPECIFICATION FairSpec
CONSTANTS
    Sessions = {1}
    Positions = {1}
    Contexts = {1}
    MaxFaults = 2
    MaxGen = 3
    MaxStops = 1
    Flaps = FALSE
PROPERTIES DiscardDeletes
CHECK_DEADLOCK FALSE
