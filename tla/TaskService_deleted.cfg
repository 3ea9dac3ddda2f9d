SPECIFICATION Spec
CONSTANTS
    Tasks = {t1}
    Users = {u1}
    Requests = {r1}
    MaxRestarts = 0
    Faults = {}
INVARIANT DeletedStaysDeleted
