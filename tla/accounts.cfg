SPECIFICATION AgendaSpec
CONSTANTS
    Clients = {c1, c2}
    Users = {u1, u2}
    NoUser = NoUser
    Tenants = {t1, t2}
    Properties = {q1}
    Spellings = {"ann", "Ann", "bob"}
    Normalize <- LowerCase
    Passwords = {"p1", "p2"}
    Unset = Unset
    Admin = u1
    MaxStamp = 2
SYMMETRY Interchangeable
INVARIANTS TokenForPassword RevocationBites NamesUnique ReferencesLive SomeAccountRemains
PROPERTY LinkMovesOnlyBlindly
CHECK_DEADLOCK FALSE
