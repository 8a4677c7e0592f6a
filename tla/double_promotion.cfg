SPECIFICATION Spec
CONSTANTS
    t1 = t1
    c1 = c1
    c2 = c2
    e1 = e1
    e2 = e2
    s1 = s1
    w1 = w1
    w2 = w2
    o1 = o1
    None = None
    Mailing = {1, 2, 3, 4}
    Test = {t1}
    Campaign = {c1, c2}
    Email = {e1, e2}
    Sweeper = {w1, w2}
    Operator = {}
    Source = {s1}
    Drafts <- OneAttributed
    Bucket <- OneEach
    Shares = {50}
    Selections = {"manual", "clicks_ratio", "sale_invoiced_amount"}
    Tallies <- FewTallies
    Amounts = {1}
    ClaimBatch = 1
    Budget = 1
    Cancellable = {}
INVARIANTS
    PromotedOnce
