SPECIFICATION Spec
CONSTANTS
    Relays = {1, 2}
    Slots = {1, 2}
    Calls = {c1}
    Watched = {1}
    Nobody = nobody
    MaxFaults = 1
CHECK_DEADLOCK FALSE
INVARIANTS HandoverIsClean
PROPERTIES SingleOwner LeaseSettles ShutdownEnds
