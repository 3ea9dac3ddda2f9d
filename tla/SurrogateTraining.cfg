SPECIFICATION Spec
CONSTANTS
    Losses <- MCLosses
    NaN = NaN
    None = None
    Epochs = 5
    Patience = 2
    SampleSizes <- MCSampleSizes
    TrainSeed = 42
    MaxRuns = 2
INVARIANTS
    EarlyStopping
    Delivered
CHECK_DEADLOCK FALSE
