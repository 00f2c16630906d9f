\* The promise of one active value, with corrections under way.
CONSTANTS
    Clients = {c1, c2}
    FactIds = {f1, f2, f3}
    Slots = {s1}
    Objects = {o1, o2}
    IdemKeys = {}
    Dims = {}
    Policies = {"reject"}
    Faults = {"restart"}
    NoCall = NoCall
SPECIFICATION Spec
INVARIANTS
    SingletonHolds
