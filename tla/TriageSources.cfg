SPECIFICATION Spec
CONSTANTS
    e1 = e1
    e2 = e2
    w1 = w1
    w2 = w2
    noJob = noJob
    noToken = noToken
    NoToken = noToken
    NoJobId = noJob
    Messages = {1, 2, 3}
    ThreadOf <- SentBeside
    Sent = {3}
    Legacy = {1}
    MaxRev = 2
    MaxAttempts = 1
    MaxRevisits = 0
    Tokens = {1, 2, 3}
    Workers = {w1, w2}
    EngineOf <- OneEngine
    Origins = {"arrival"}
    Answers = {"allowed"}
    Editable = {1}
    MaxTrouble = 0
    MaxManual = 0
    MaxCorr = 0
SYMMETRY WorkerSymmetry
INVARIANTS
    ProvenanceHonest
    NothingForgotten
CHECK_DEADLOCK FALSE
