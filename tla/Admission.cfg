SPECIFICATION GateSpec
CONSTANTS
    Requests = {r1, r2}
    Kinds = {"developer", "login", "internal"}
    AuthLimit = 1
    SlotLimit = 1
INVARIANTS QuietAfterDrain LimitsHold
PROPERTIES DrainAnswers
