SPECIFICATION Spec
CONSTANTS
    Clients = {}
    Leases = {l1}
    NoLease = NoLease
    Job = Job
    CycleLength = 2
    StartDate <- StartOnDayOne
    EditedStarts = {}
    LastDay = 3
    MaxPeriods = 3
INVARIANT NoRecordAhead
CHECK_DEADLOCK FALSE
