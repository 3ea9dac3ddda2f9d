SPECIFICATION Spec
CONSTANTS
    Shells = {s1, s2, s3}
    Pids = {p1, p2, p3}
    Launches = "apart"
    Faults = {"crash", "hang", "reuse"}
SYMMETRY Symmetry
INVARIANTS
    LockInv
PROPERTIES
    NoLockout
    NoTheft
