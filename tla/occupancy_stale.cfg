SPECIFICATION Spec
CONSTANTS
    Clients = {c1, c2}
    Properties = {p1}
    NoProperty = noProperty
    Contracts = {k1}
    NoContract = noContract
    SentStatuses <- ActiveOrExpired
    DisturbedBound = 2
SYMMETRY Interchangeable
INVARIANT StatusReflectsContracts
CHECK_DEADLOCK FALSE
