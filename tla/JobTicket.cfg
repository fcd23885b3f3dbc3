SPECIFICATION FairSpec
CONSTANTS
    c1 = c1
    c2 = c2
    k1 = k1
    k2 = k2
    Client = {c1, c2}
    Key = {k1, k2}
    Requests <- MCRequests
    MaxJob = 2
    MaxVersion = 3
    MaxFaults = 1
INVARIANTS OneJobPerKey TicketsStayValid KnownKeyIsReplayed WakeUpWaits
PROPERTIES RetriesEnd
