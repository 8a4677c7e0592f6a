SPECIFICATION FairSpec
CONSTANTS
    m1 = m1
    m2 = m2
    r1 = r1
    r2 = r2
    e1 = e1
    e2 = e2
    None = None
    Mailing <- OneMailing
    Recipient <- TwoRecipients
    Email = {e1, e2}
    Worker = {w1, w2}
    EmailOf <- OwnAddress
    Audience <- Everyone
    Sample <- Everyone
    Peers <- Alone
    UsesExclusion = {m1}
    Fragile = {m1}
    Suppressible = {e2}
    Verbs = {"cancel", "requeue", "retry"}
    Events = {}
    Faults = {}
    Created <- ByName
    ClaimBatch = 1
    Budget = 1
    BatchSize = 1
    MaxAttempts = 2
    MaxMails = 2
INVARIANTS
    MintFence
    NoDoubleSend
    OrphansAreHeld
PROPERTIES
    ImplementsLifecycle
    Drains
