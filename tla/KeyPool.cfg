SPECIFICATION Spec
CONSTANTS
    Keys = {k1}
    Backups = {}
    NoKey = NoKey
    Callers = {c1, c2}
    Syncer = syncer
    NoActor = nobody
    Reserve = 0
    FailureThreshold = 2
    Limits = {2}
    Reports = {0, 2}
    MaxCalls = 2
    Running = {"reload"}
    Disconnects = TRUE
SYMMETRY CallerSymmetry
CHECK_DEADLOCK FALSE
INVARIANTS ActiveKeyUsable FaultyKeyQuarantined
PROPERTIES CallsKept
