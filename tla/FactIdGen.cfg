\* Two threads, a sequence of two numbers, a clock set back once.
CONSTANTS
    Threads = {t1, t2}
    NoThread = NoThread
    MaxSeq = 1
    MaxClock = 2
    MaxBack = 1
SPECIFICATION FairSpec
INVARIANTS
    GeneratorOK
    YoungerThanReturned
PROPERTIES
    DrawsAreNew
    CallsReturn
