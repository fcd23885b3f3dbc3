SPECIFICATION Spec
CONSTANTS
  MaxVersion = 3
  MaxSchema = 2
  HealthAttempts = 3
  HealthConsecutive = 2
  MaxChanges = 2
INVARIANTS AcceptedWasServed BareOnlyForLegacy RestoredAsBackedUp
