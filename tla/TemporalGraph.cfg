\* Two clients, two facts of one subject and predicate.
CONSTANTS
    Clients = {c1, c2}
    FactIds = {f1, f2}
    Slots = {s1}
    Objects = {o1, o2}
    IdemKeys = {k1}
    Dims = {d1, d2}
    Policies = {"warn", "reject"}
    Faults = {"error", "restart"}
    NoCall = NoCall
SPECIFICATION Spec
SYMMETRY Symmetric
CONSTRAINT OneInDoubt
INVARIANTS
    KeysAnswerOneFact
    StrictFactsAgree
    CacheFollowsStore
    VectorsFollowStore
