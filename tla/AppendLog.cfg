\* Every fault, two facts, one idempotency key.
CONSTANTS
    FactIds = {f1, f2}
    IdemKeys = {k1}
    RegistryKeys = {}
    RegistryValues = {}
    Dims = {}
    Objects = {"finite"}
    Junk = Junk
    NoTail = NoTail
    NoFile = NoFile
    Faults = {"io", "crash", "power"}
    MaxLines = 4
SPECIFICATION Spec
INVARIANTS
    NoSilentLoss
    MemoryMatchesLog
    KeysNameStoredFacts
PROPERTIES
    CrashAtomic
    CompactionKeepsState
    KeyKeepsItsFact
    ImplementsStore
