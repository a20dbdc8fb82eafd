SPECIFICATION RouteSpec
CONSTANTS
    r1 = r1
    r2 = r2
    p1 = p1
    Readers = {r1, r2}
    Processes = {p1}
    Home <- MCHome
    Families = {"listing", "banner", "overview", "detail"}
    FreshTtl = 1
    StaleTtl = 1
    LeaseTtl = 1
    LoadTime = 1
    MaxFaults = 1
INVARIANTS ServedIsBounded
PROPERTIES LeaseEndsRightly FillsEnd
