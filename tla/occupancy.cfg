SPECIFICATION BoundedSpec
CONSTANTS
    Clients = {c1, c2, c3}
    Properties = {p1}
    NoProperty = noProperty
    Contracts = {k1, k2, k3}
    NoContract = noContract
    SentStatuses <- ActiveOrExpired
    DisturbedBound = 2
SYMMETRY Interchangeable
INVARIANTS OneActiveContract ParentsKept OccupancyMatches
CHECK_DEADLOCK FALSE
