SPECIFICATION FairSpec
CONSTANTS
    Tasks = {t1, t2}
    NoTask = noTask
    Views = {v1, v2}
    NoView = noView
    Reqs = {q1, q2}
    MaxErrors = 1
INVARIANT ViewInv
PROPERTIES
    DetailForward
    DetailSettles
    ListSettles
    LeftStops
