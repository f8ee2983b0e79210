SPECIFICATION AgendaSpec
CONSTANTS
    Clients = {c1, c2}
    Users = {u1, u2}
    NoUser = NoUser
    Tenants = {t1}
    Properties = {q1}
    Spellings = {"ann", "bob"}
    Normalize <- LowerCase
    Passwords = {"p1"}
    Unset = Unset
    Admin = u1
    MaxStamp = 1
PROPERTY LinkNeverMoved
CHECK_DEADLOCK FALSE
