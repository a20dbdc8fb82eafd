CONSTANTS
    Nobody = nobody
    Users = {u1, u2}
    Subjects = {s1, s2}
    Targets = {p, q}
    Requests = {r1, r2, r3}
    LINK_MAX_ATTEMPTS = 2
    MaxTxn = 2
    MaxFaults = 1
    MaxViews = 3
    Staff = {u2}
    MaxComments = 2
    Casts <- MCCasts
SPECIFICATION Spec
CHECK_DEADLOCK FALSE
INVARIANT TagsInSync
