SPECIFICATION Spec
CONSTANTS
    Clients = {c1, c2}
    Leases = {l1}
    NoLease = NoLease
    Job = Job
    CycleLength = 2
    StartDate <- StartOnDayOne
    EditedStarts = {2}
    LastDay = 1
    MaxPeriods = 2
INVARIANT PeriodsDisjoint
CHECK_DEADLOCK FALSE
