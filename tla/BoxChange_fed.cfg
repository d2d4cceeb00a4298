SPECIFICATION Spec
CONSTANTS
    s1 = s1
    s2 = s2
    External = External
    NoSlot = NoSlot
    Slots <- MCSlots
    Selectable <- MCSlots
    Manual <- MCNone
    Calibrated = TRUE
SYMMETRY MCSymmetry
INVARIANTS
    ActiveFed
