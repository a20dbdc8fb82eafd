SPECIFICATION Spec
CONSTANTS
    Matches = {ranked, casual}
    Hours = {1}
    HourOf <- MCHourOf
    Ranked = {ranked}
    Gone = {}
    GapCheckers = {gap}
    Operators = {op}
    Lookups = {look}
    MaxFaults = 1
    MaxRuns = 2
CHECK_DEADLOCK FALSE
INVARIANTS TypeOK HoursAreHonest ReadyMeansCounted
PROPERTIES CompleteIsFinal
