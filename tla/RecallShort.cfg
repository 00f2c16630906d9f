SPECIFICATION Spec
CONSTANTS
    RankConstant = 60
    TextWeight = 5
    VectorWeight = 5
    StageOneTimeless = 3
    StageOneTemporal = 2
    SampleSize = 2
    HalfWindow = 2
    NoTime = NoTime
    MaxFacts = 3
    Embedded = {1, 2}
    Shapes <- MCShapes
    Scenarios <- MCScenarios
    Threshold = 50
    DefaultMaxRows = 3
    Window = 3
    Now = 2
INVARIANT ShortOnlyAtTheEnd
