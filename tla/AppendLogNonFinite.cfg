\* No fault at all: a fact whose object is NaN or infinite.
CONSTANTS
    FactIds = {f1, f2}
    IdemKeys = {k1}
    RegistryKeys = {}
    RegistryValues = {}
    Dims = {}
    Objects = {"finite", "nonfinite"}
    Junk = Junk
    NoTail = NoTail
    NoFile = NoFile
    Faults = {}
    MaxLines = 4
SPECIFICATION Spec
INVARIANTS
    SourceOfTruth
