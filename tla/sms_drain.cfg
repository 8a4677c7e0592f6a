SPECIFICATION FairSpec
CONSTANTS
    w1 = w1
    s1 = s1
    None = None
    Mailing = {1}
    Phone = {1, 2}
    Audience <- ToAll
    Pump = {w1}
    Sweeper = {s1}
    TrackerMoves <- Brief
    Stoppable = {2}
    Replies <- SomeReplies
    Codes <- SomeCodes
    Verbs = {"cancel"}
    TraceBatch = 1
    MaxAttempts = 1
    MaxCrashes = 1
INVARIANTS
    DoneIsDelivered
PROPERTIES
    EventuallyClosed
