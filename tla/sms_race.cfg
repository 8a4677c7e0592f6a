SPECIFICATION Spec
CONSTANTS
    w1 = w1
    w2 = w2
    s1 = s1
    None = None
    Mailing = {1}
    Phone = {1}
    Audience <- ToAll
    Pump = {w1, w2}
    Sweeper = {s1}
    TrackerMoves <- Gateway
    Stoppable = {1}
    Replies <- SomeReplies
    Codes <- SomeCodes
    Verbs = {"cancel", "retry", "unlist"}
    TraceBatch = 5000
    MaxAttempts = 2
    MaxCrashes = 1
INVARIANTS
    TypeOK
    TextedOnce
PROPERTIES
    ParkedStaysOpen
    StopHonoured
    ImplementsRows
