SPECIFICATION Spec
CONSTANTS
    m1 = m1
    m2 = m2
    r1 = r1
    r2 = r2
    e1 = e1
    e2 = e2
    None = None
    Mailing <- TwoMailings
    Recipient <- TwoRecipients
    Email = {e1, e2}
    Worker = {w1}
    EmailOf <- SharedAddress
    Audience <- SecondEmpty
    Sample <- Everyone
    Peers <- Alone
    UsesExclusion = {m1}
    Fragile = {m1}
    Suppressible = {e1}
    Verbs = {"cancel", "requeue", "retry", "schedule", "suppress"}
    Events = {"open", "reply", "bounce"}
    Faults = {}
    Created <- ByName
    ClaimBatch = 2
    Budget = 1
    BatchSize = 1
    MaxAttempts = 3
    MaxMails = 2
INVARIANTS
    NoDoubleSend
    DoneMeansAccounted
    DoneMeansEnqueued
    OneDisposition
