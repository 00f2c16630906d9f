\* Two clients register a policy for the same predicate.
CONSTANTS
    Clients = {c1, c2}
    FactIds = {}
    Slots = {s1}
    Objects = {o1, o2}
    IdemKeys = {}
    Dims = {}
    Policies = {"allow", "reject"}
    Faults = {"restart"}
    NoCall = NoCall
SPECIFICATION Spec
INVARIANTS
    CacheInSync
