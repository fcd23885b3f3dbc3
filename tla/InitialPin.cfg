SPECIFICATION Spec
CONSTANTS
  Images = {i1, i2, i3}
  Republished = {i3}
  Unversioned = {i2}
  HealthAttempts = 3
  MaxPulls = 2
  MaxFaults = 4
  Latest = Latest
  Torn = Torn
  None = None
INVARIANTS PinnedTogether PinnedIsDurable
