SPECIFICATION Spec
CONSTANTS
    Callers = {c1, c2}
    MaxStarts = 2
    PipeCap = 1
SYMMETRY Symmetry
INVARIANTS
    OneResult
    IInv
PROPERTY Implements
