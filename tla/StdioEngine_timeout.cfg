SPECIFICATION TimedSpec
CONSTANTS
    Callers = {c1, c2}
    MaxStarts = 1
    PipeCap = 1
PROPERTY CallsReturn
