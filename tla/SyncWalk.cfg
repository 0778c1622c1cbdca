SPECIFICATION Spec
CONSTANTS
    MaxMail = 3
    InboxMail = {1, 2}
    SentMail = {3}
    Unsubscribed = {}
    MaxTrouble = 0
    MaxBumps = 1
PROPERTIES
    WalkStepsOverNothing
