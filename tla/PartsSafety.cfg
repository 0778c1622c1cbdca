SPECIFICATION PartsSpec
CONSTANTS
    Jobs = {1, 2}
    MaxDay = 2
    Limits = {"all", "background", "revisit"}
    Caps <- OneTwoThree
    Kinds = {{"all"}, {"all", "background"}, {"all", "background", "revisit"}}
    MaxLosses = 1
    Labels = {1}
    Consents = {1, 2}
    Workers = {1, 2}
    MaxConcurrent = 2
    MaxAttempts = 2
    Handovers = {"code", "denied"}
    MaxSessions = 1
    Opens = {1, 2, 3, 4}
    Tokens = {"ours", "junk"}
    Sent = {"ours"}
    MaxPerToken = 2
    MaxRows = 2
    DrainLimit = 2
    Mail = {1}
    Cap = 1
    Batch = 2
    MaxPushed = 2
    MaxStreamed = 4
    Parcels = {1, 2, 3}
    Legacy = {1}
    Carriers = {"a"}
    Budgeted = {"a"}
    Limit = 2
    Window = 2
    Tolerance = 2
    MaxFailures = 1
    Youngest = 5
    Written = {2}
    Hopeless = {4}
    Chunk = 2
    MaxFetches = 2
    MaxSeals = 2
    Checked = {"reconnect", "broker", "opens", "budget", "lane", "push", "stream",
               "carriers", "heal"}
    Flows = {1, 2}
    Phones = {1, 2}
    Faults = 2
    Mute = {}
    Statuses = {"shipped", "delivered"}
    MaxId = 2
    MaxMail = 2
    MaxUpsets = 1
INVARIANTS
    HandedOver
    LimitsAreExact
    LaneIsTrue
    PassedWasOffered
    StreamIsWhole
    BudgetRolls
    PassedIsHealed
PROPERTIES
    NewestWins
    OpensStand
    DeliveredStands
    SealsStand
CHECK_DEADLOCK FALSE
