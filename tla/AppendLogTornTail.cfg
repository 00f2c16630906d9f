\* Process crashes only: what a write behind a torn tail does.
CONSTANTS
    FactIds = {f1, f2}
    IdemKeys = {k1}
    RegistryKeys = {}
    RegistryValues = {}
    Dims = {}
    Objects = {"finite"}
    Junk = Junk
    NoTail = NoTail
    NoFile = NoFile
    Faults = {"crash"}
    MaxLines = 4
SPECIFICATION Spec
INVARIANTS
    SourceOfTruth
