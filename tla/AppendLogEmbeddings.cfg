\* No I/O errors: crashes and power losses, embeddings of two lengths, one
\* registry entry.
CONSTANTS
    FactIds = {f1, f2}
    IdemKeys = {}
    RegistryKeys = {p1}
    RegistryValues = {v1}
    Dims = {2, 3}
    Objects = {"finite"}
    Junk = Junk
    NoTail = NoTail
    NoFile = NoFile
    Faults = {"crash", "power"}
    MaxLines = 4
SPECIFICATION Spec
INVARIANTS
    EmbeddingsRebuild
