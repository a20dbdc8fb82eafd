CONSTANTS
    Slots <- MCSlots
    PrivateEvidence <- MCEvidence
    None = None
    a = a
    b = b
    Users = {u1}
    Finalizers = {f1, f2}
    Hour = 22
    MaxFinalizations = 3
    MaxActs = 1
SYMMETRY MCSymmetry
SPECIFICATION FactsSpec
CHECK_DEADLOCK FALSE
INVARIANTS SlotsApart BookIsWhole PartyCountedOnce
PROPERTIES RecordsStay
