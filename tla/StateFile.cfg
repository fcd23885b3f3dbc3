SPECIFICATION FairSpec
CONSTANTS
    Updates = {u1, u2, u3}
    Nobody = Nobody
    MaxFaults = 2
INVARIANTS AnsweredIsDurable StartsAgain
PROPERTIES StoreIsRegister EveryCallReturns
CHECK_DEADLOCK FALSE
