SPECIFICATION Spec
CONSTANTS
    e1 = e1
    e2 = e2
    w1 = w1
    w2 = w2
    noJob = noJob
    noToken = noToken
    NoToken = noToken
    NoJobId = noJob
    Messages = {1}
    ThreadOf <- OneThread
    Sent = {}
    Legacy = {}
    MaxRev = 2
    MaxAttempts = 1
    MaxRevisits = 0
    Tokens = {1, 2, 3}
    Workers = {w1, w2}
    EngineOf <- OneEach
    Origins = {"arrival", "backfill"}
    Answers = {"allowed", "restricted"}
    Editable = {1}
    MaxTrouble = 1
    MaxManual = 1
    MaxCorr = 1
SYMMETRY EngineSymmetry
INVARIANTS
    VerdictIsCurrent
    HumanChoiceWins
CHECK_DEADLOCK FALSE
