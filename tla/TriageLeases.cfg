SPECIFICATION Spec
CONSTANTS
    e1 = e1
    e2 = e2
    w1 = w1
    w2 = w2
    noJob = noJob
    noToken = noToken
    NoToken = noToken
    NoJobId = noJob
    Messages = {1, 2}
    ThreadOf <- OneThread
    Sent = {}
    Legacy = {}
    MaxRev = 1
    MaxAttempts = 2
    MaxRevisits = 0
    Tokens = {1, 2, 3}
    Workers = {w1, w2}
    EngineOf <- OneEach
    Origins = {"backfill"}
    Answers = {"allowed"}
    Editable = {}
    MaxTrouble = 1
    MaxManual = 1
    MaxCorr = 0
SYMMETRY EngineSymmetry
INVARIANTS
    TypeOK
    ThreadExclusive
    LeaseHonoured
    AttemptsAccounted
PROPERTIES
    FollowupCarried
CHECK_DEADLOCK FALSE
