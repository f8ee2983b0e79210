SPECIFICATION Spec
CONSTANTS
    Clients = {c1, c2}
    Docs = {d1}
    NoDoc = NoDoc
    Names = {"a", "b"}
    BaseName <- SharedBase
    Uploads = {u1, u2, u3}
    NoFile = NoFile
    Faults = {}
INVARIANT UpdatedCorrectly
CHECK_DEADLOCK FALSE
