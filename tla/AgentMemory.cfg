SPECIFICATION Spec
CONSTANTS
    NoTime = NoTime
    MaxTime = 99
    ThirtyOneDays = 30
    OneHour = 1
    Scenarios <- MCScenarios
    Threads = {1, 2}
    Assertions <- MCAssertions
    Objects = {"b"}
    MaxClock = 3
    Entries <- MCEntries
    Singletons = {"works_at"}
    HighImpact = {"works_at"}
    Tolerance = 2
    StaleAfter = 2
    LowConfidence = 70
INVARIANTS
    NothingMissed
    CorrectionsPaired
    ContradictionsSurface
PROPERTY
    DefaultsKept
