\* A close that overlaps a method of the same object: the handle dies under the
\* call.  HandlesOutliveCalls is violated.
CONSTANTS
    t1 = t1
    t2 = t2
    Threads <- MCThreads
    MaxOpens = 2
    MaxCalls = 4
    Overlap = TRUE
SPECIFICATION Spec
INVARIANTS
    HandlesOutliveCalls
SYMMETRY MCSymmetry
CHECK_DEADLOCK FALSE
