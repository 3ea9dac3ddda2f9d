SPECIFICATION FairSpec
CONSTANTS
    Callers = {c1, c2}
    MaxStarts = 1
    PipeCap = 1
PROPERTIES
    CrashFailsWaiters
    CloseReleasesCalls
