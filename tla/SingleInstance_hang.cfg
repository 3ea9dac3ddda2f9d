SPECIFICATION Spec
CONSTANTS
    Shells = {s1, s2}
    Pids = {p1, p2}
    Launches = "electron"
    Faults = {"hang"}
INVARIANT OneBackend
