CONSTANTS
    Nobody = nobody
    Players = {p, q}
    Player = p
    Requests = {r1, r2}
    Workers = {w1}
    Conns = {c1, c2}
    Casts <- MCCasts
    ClaimLimit = 2
    MaxFaults = 1
SPECIFICATION Spec
CHECK_DEADLOCK FALSE
INVARIANTS RefreshExcludes CachesAreTrue
PROPERTIES RequestsEnd ClaimsSettle
