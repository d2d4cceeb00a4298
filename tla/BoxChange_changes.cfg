SPECIFICATION Spec
CONSTANTS
    s1 = s1
    s2 = s2
    External = External
    NoSlot = NoSlot
    Slots <- MCSlots
    Selectable <- MCSlots
    Manual <- MCManual
    Calibrated = TRUE
SYMMETRY MCSymmetry
INVARIANTS
    TypeOK
    PendingBlocks
    ResumeAtPrint
    CutOnce
    SensorArmed
