SPECIFICATION Spec
CONSTANTS
    Sessions = {1, 2}
    Positions = {1, 2}
    Contexts = {1}
    MaxFaults = 2
    MaxGen = 3
    MaxStops = 1
    Flaps = FALSE
INVARIANTS ResumesNotAhead DiscardedStaysGone AcknowledgedKept OfferIsThisPrint
CHECK_DEADLOCK FALSE
