SPECIFICATION FairSpec
CONSTANTS
    b1 = b1
    b2 = b2
    ann = ann
    bob = bob
    Nobody = Nobody
    Batches = {b1, b2}
    People = {ann, bob}
    MaxTrouble = 1
    MaxOpens = 1
INVARIANTS
    ClaimsAreTrue
    OneCopyEach
    PendingIsHeld
PROPERTIES
    FanOutsSettle
