SPECIFICATION FairSpec
CONSTANTS
    s1 = s1
    s2 = s2
    External = External
    NoSlot = NoSlot
    Slots <- MCOneSlot
    Selectable <- MCOneSpool
    Manual <- MCNone
    Calibrated = FALSE
INVARIANTS ActiveLoaded
PROPERTIES
    BlockedPauses
    CommandEnds
