SPECIFICATION FairSpec
CONSTANTS
    m1 = m1
    m2 = m2
    m3 = m3
    m4 = m4
    r1 = r1
    r2 = r2
    r3 = r3
    r4 = r4
    r5 = r5
    r6 = r6
    r7 = r7
    w1 = w1
    w2 = w2
    p = p
    NoMatch = none
    Matches = {m1, m2, m3, m4}
    Limited = {m3}
    Ineligible = {m4}
    Legacy = {m2}
    Projectors = {w1, w2, p}
    Rows = {r1, r2, r3, r4, r5, r6, r7}
    MatchOf <- Payloads
    BadRows = {r4}
    Unsupported = {}
    OldRows = {r2}
    Workers = {w1, w2}
    BoundFaults = TRUE
    FaultLimit = 1
    BatchSize = 2
    MaxRetries = 3
    Casts <- MCCasts
INVARIANTS CountedAtMostOnce StagesAreTrue RowsAreHonest
  
