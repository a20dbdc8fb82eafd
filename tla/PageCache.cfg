SPECIFICATION Spec
CONSTANTS
    Params <- MCParams
    FreshTtl = 1
    StaleTtl = 3
INVARIANTS AnswersFit IncidentsPass
