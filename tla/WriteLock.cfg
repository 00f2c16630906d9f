\* Two threads in each of two processes; an inode for every opener.
CONSTANTS
    a1 = a1
    a2 = a2
    b1 = b1
    b2 = b2
    A = A
    B = B
    Openers = {a1, a2, b1, b2}
    Processes = {A, B}
    Process <- OfProcess
    Inodes = {i1, i2, i3, i4, i5}
    NoInode = NoInode
    NoOpener = NoOpener
SPECIFICATION Spec
SYMMETRY Symmetric
INVARIANTS
    OneWriterPerProcess
    SingleWriterUnlessRaced
    RefusedOnlyWhenBusy
