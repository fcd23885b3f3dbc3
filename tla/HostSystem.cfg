SPECIFICATION SystemSpec
CONSTANTS
  j1 = j1
  j2 = j2
  NoJob = NoJob
  JobId = {j1, j2}
  Version = {1, 2, 3}
  MaxFaults = 1
SYMMETRY MCSymmetry
INVARIANTS TypeOK RecoveryPointHeld HalfRestoredStaysDown StoresAreQuiet
PROPERTIES ReportsAreTrue TerminalIsFinal CheckpointBeforeMutation PhaseMonotone FailureIsAttended IntentIsKept
