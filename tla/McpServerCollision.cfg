SPECIFICATION Spec
CONSTANTS
    Requests <- CollidingRequests
    Derived <- CollidingDerived
    NoKey = NoKey
    NoRequest = NoRequest
    MaxSends = 3
    MaxFaults = 1
    MaxRestarts = 1
INVARIANTS
    SuccessIsStored
CHECK_DEADLOCK FALSE
