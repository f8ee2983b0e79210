SPECIFICATION AgendaSpec
CONSTANTS
    Clients = {c1, c2}
    Admin = Admin
    Managers = {m1, m2}
    Properties = {p1, p2}
    Tenants = {t1, t2}
    Contracts = {k1, k2}
    Collections = {g1}
    Docs = {d1}
    None = None
    p1 = p1
    p2 = p2
    t1 = t1
    t2 = t2
    k1 = k1
    k2 = k2
    m1 = m1
    m2 = m2
INVARIANT ContractAlwaysSourceOfTruth
CHECK_DEADLOCK FALSE
