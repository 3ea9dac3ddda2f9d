SPECIFICATION FairSpec
CONSTANTS
    Users = {u1, u2}
    NoUser = noUser
    Local = local
    Tokens = {k1, k2}
    NoToken = noToken
    Reqs = {q1, q2}
    MaxNavFails = 1
INVARIANTS
    SessionInv
    ShowsOwnData
    GuardStands
PROPERTY SignedOutLeaves
