\* The Swift and Kotlin wrappers under callers that never close an object
\* while one of its methods runs.  The host program may stop calling.
CONSTANTS
    t1 = t1
    t2 = t2
    Threads <- MCThreads
    MaxOpens = 2
    MaxCalls = 4
    Overlap = FALSE
SPECIFICATION Spec
INVARIANTS
    OutcomesAreTrue
    HandlesOutliveCalls
SYMMETRY MCSymmetry
CHECK_DEADLOCK FALSE
