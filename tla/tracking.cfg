SPECIFICATION Spec
CONSTANTS
    None = None
    Gone = Gone
    v1 = v1
    o1 = o1
    Trace = {1, 2}
    MailingOf <- EachItsMailing
    EmailOf <- OneAddress
    Campaign = "c1"
    Code = {"k1", "k2"}
    Attribution <- Attributed
    Visitor = {v1}
    Operator = {o1}
    Visited = {1}
    RouteVerbs = {"set_process", "set_pending", "set_sent", "set_opened", "set_replied", "set_bounced", "set_bounced_sms", "set_failed", "set_canceled"}
    MaxBounces = 2
    SpreadDays = 0
    MaxTime = 2
INVARIANTS
    TypeOK
    ClickedIsTouched
    Timeline
    ListedForAPattern
PROPERTIES
    FirstOpenKept
    ImplementsRows
