SPECIFICATION FairSpec
CONSTANTS
    Jobs = {1, 2}
    MaxDay = 2
    Limits = {"all", "background", "revisit"}
    Caps <- OneTwoThree
    Kinds = {{"all"}, {"all", "background"}, {"all", "background", "revisit"}}
    MaxLosses = 1
    Labels = {1}
    Consents = {1, 2}
    Workers = {1, 2}
    MaxConcurrent = 1
    MaxAttempts = 2
    Handovers = {"code", "denied"}
    MaxSessions = 1
    Opens = {1, 2, 3, 4}
    Tokens = {"ours", "junk"}
    Sent = {"ours"}
    MaxPerToken = 2
    MaxRows = 2
    DrainLimit = 2
    Mail = {1}
    Cap = 1
    Batch = 2
    MaxPushed = 2
    MaxStreamed = 4
    Parcels = {1, 2, 3}
    Legacy = {1}
    Carriers = {"a"}
    Budgeted = {"a"}
    Limit = 2
    Window = 2
    Tolerance = 2
    MaxFailures = 1
    Youngest = 5
    Written = {2}
    Hopeless = {4}
    Chunk = 2
    MaxFetches = 2
    MaxSeals = 2
    Checked = {"reconnect", "broker", "push", "carriers"}
    Flows = {1}
    Phones = {1}
    Faults = 2
    Mute = {1, 2}
    Statuses = {"delivered"}
    MaxId = 3
    MaxMail = 0
    MaxUpsets = 0
PROPERTIES
    JobsEnd
    CollectedArrives
    PusherCatchesUp
    NobodyStarves
CHECK_DEADLOCK FALSE
