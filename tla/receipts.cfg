SPECIFICATION StaffedSpec
CONSTANTS
    Clients = {c1, c2}
    Docs = {d1, d2}
    NoDoc = NoDoc
    Names = {"a"}
    BaseName <- SharedBase
    Uploads = {u1, u2}
    NoFile = NoFile
    Faults = {"storage", "database", "lost", "crash"}
    Managers = {m1, m2}
    Templates = {t1, t2}
    NoTemplate = NoTemplate
    Global = "global"
    Scopes <- TwoScopes
    TemplateFaults = {"storage", "database", "lost", "crash"}
    Payments = {p1}
    NoPayment = NoPayment
    PropertyOf <- OneProperty
    MaxNumber = 2
SYMMETRY Interchangeable
INVARIANTS ReceiptKeepsParents PrintedOnce ReceiptReadable ActiveTemplateReadable
PROPERTY ScopeKeepsTemplate
CHECK_DEADLOCK FALSE
