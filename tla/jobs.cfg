SPECIFICATION WorkloadSpec
CONSTANTS
    Clients = {c1, c2}
    RacedLeases = {l1}
    EarlyClients = {c1}
    Leases = {l1, l2}
    NoLease = NoLease
    Job = Job
    CycleLength = 2
    StartDate <- StartOnDayOne
    EditedStarts = {2}
    LastDay = 2
    MaxPeriods = 2
    Bills = {b1, b2}
    NoBill = NoBill
    MaxCrashes = 1
INVARIANTS NoOverlap Contiguous HistoryKeepsLease CompletedRunBills
PROPERTIES SteadyWorkerBills DueRecordsMarked
CHECK_DEADLOCK FALSE
