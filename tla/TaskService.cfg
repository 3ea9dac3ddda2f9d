SPECIFICATION FairSpec
CONSTANTS
    Tasks = {t1, t2}
    Users = {u1, u2}
    Requests = {r1}
    MaxRestarts = 1
    Faults = {"db", "crash"}
INVARIANT SucceededIsComputed
PROPERTIES
    StatusMonotone
    OnlyOwnerDeletes
    EveryTaskSettles
