SPECIFICATION StaffedSpec
CONSTANTS
    Clients = {c1, c2}
    Docs = {d1, d2}
    NoDoc = NoDoc
    Names = {"a"}
    BaseName <- SharedBase
    Uploads = {u1, u2}
    NoFile = NoFile
    Faults = {}
    Managers = {m1}
    Templates = {t1}
    NoTemplate = NoTemplate
    Global = "global"
    Scopes <- TwoScopes
    TemplateFaults = {}
    Payments = {p1}
    NoPayment = NoPayment
    PropertyOf <- OneProperty
    MaxNumber = 2
SYMMETRY Interchangeable
INVARIANT PaymentAnswered
CHECK_DEADLOCK FALSE
