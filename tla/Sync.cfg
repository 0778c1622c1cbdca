SPECIFICATION FairSpec
CONSTANTS
    MaxMail = 4
    InboxMail = {2, 3}
    SentMail = {1, 3, 4}
    Unsubscribed = {2}
    MaxTrouble = 1
    MaxBumps = 1
INVARIANTS
    OnlyRacersSkipped
    InboundIsVisible
PROPERTIES
    MailLands
