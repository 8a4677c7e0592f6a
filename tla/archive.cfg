SPECIFICATION Spec
CONSTANTS
    None = None
    o1 = o1
    o2 = o2
    x1 = x1
    x2 = x2
    Contact = {1}
    AddressOf <- OneAddress
    Audience = {"a", "b"}
    Member = {}
    Opening = {"a"}
    Mailing = {1, 2, 3}
    Drafts = {}
    Domain <- EachWay
    Reader = {}
    Subscriber = {}
    Archiver = {x1, x2}
    Operator = {o1, o2}
    Verbs = {"soft_delete"}
PROPERTIES
    ArchiveSafe
    ImplementsLifecycle
