SPECIFICATION Spec
CONSTANTS
    Requests <- MCRequests
    Derived <- MCDerived
    NoKey = NoKey
    NoRequest = NoRequest
    MaxSends = 3
    MaxFaults = 1
    MaxRestarts = 2
INVARIANTS
    SuccessIsStored
    RetryStoresOnce
PROPERTY
    ServesSerially
CHECK_DEADLOCK FALSE
