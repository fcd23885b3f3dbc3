SPECIFICATION FairSpec
CONSTANTS
  MaxGen = 4
  MaxFaults = 4
INVARIANTS SlotIsSafe
PROPERTIES RotationIsAtomic RecoveryEnds
CHECK_DEADLOCK FALSE
