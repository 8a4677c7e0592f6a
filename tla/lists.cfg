SPECIFICATION Spec
CONSTANTS
    None = None
    r1 = r1
    r2 = r2
    s1 = s1
    Contact = {1, 2}
    AddressOf <- OneAddress
    Audience = {"a", "b"}
    Member <- Both
    Opening = {"a", "b"}
    Mailing = {1}
    Drafts = {1}
    Domain <- ToBoth
    Reader = {r1, r2}
    Subscriber = {s1}
    Archiver = {}
    Operator = {}
    Verbs = {"opt_out", "remove"}
INVARIANTS
    TypeOK
    StopReachesAll
PROPERTIES
    FirstOptOutKept
SYMMETRY Alike
