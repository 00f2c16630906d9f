\* Two slots, three facts with two dates, two clients invalidating.
CONSTANTS
    FactIds = {1, 2, 3}
    Slots = {s1, s2}
    Times = {1, 2}
    Clients = {c1, c2}
    NoEnd = NoEnd
    NoRow = NoRow
    MaxLog = 4
SPECIFICATION Spec
SYMMETRY Symmetric
INVARIANTS
    TypeOK
    IndexesMatchFacts
    FactsAtExact
    ReplayRebuilds
PROPERTIES
    HistoryKept
