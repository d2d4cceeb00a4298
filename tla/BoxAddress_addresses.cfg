SPECIFICATION Spec
CONSTANTS
  Boxes <- ThreeBoxes
  MaxAddress = 3
  TargetCount = 2
  Enumerators <- TwoGreenlets
  Bounds <- LossOrSecondRun
  b1 = b1  b2 = b2  b3 = b3  e1 = e1  e2 = e2
  None = None
SYMMETRY Symmetry
INVARIANTS OnlineTrue NoAddressConflict SavedOnce
PROPERTIES PersistedKept
CHECK_DEADLOCK FALSE
