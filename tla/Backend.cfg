SPECIFICATION FairSpec
CONSTANTS
    Callers = {c1, c2}
    MaxSpawns = 3
    MaxAttempts = 1
    PipeCap = 1
INVARIANTS
    IInv
    NoOrphan
    ReadyAnswered
PROPERTIES
    NoSpawnAfterStop
    Implements
    StartSettles
    CrashEndsCalls
    StopEnds
