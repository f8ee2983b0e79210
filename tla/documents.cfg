SPECIFICATION Spec
CONSTANTS
    Clients = {c1, c2}
    Docs = {d1}
    NoDoc = NoDoc
    Names = {"a", "dir/a", "b"}
    BaseName <- SharedBase
    Uploads = {u1, u2, u3}
    NoFile = NoFile
    Faults <- AllFaults
SYMMETRY Interchangeable
INVARIANTS FileRecoverable LeftoversLogged
PROPERTY LiveFileProtected
CHECK_DEADLOCK FALSE
