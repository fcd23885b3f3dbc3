SPECIFICATION LegacyFairSpec
CONSTANTS
    JobId = {l}
    NoJob = noJob
    Version = {1, 2, 3, 4}
    MaxFaults = 3
    MaxHops = 3
INVARIANTS HopPointHeld
PROPERTIES HopsGoForward OneEdgeAtATime FailsClosed RecoveryDecides
