SPECIFICATION WorkloadSpec
CONSTANTS
    Clients = {c1, c2}
    Records = {r1}
    NoRecord = NoRecord
    Payments = {p1, p2, p3}
    NoPayment = NoPayment
    Amounts = {1, 3}
    SentStatuses = {"PAID"}
    AmountDue = 2
    LeaseFee = 1
    FeeAmounts = {2}
    Cutoff = 1
    AsOfDates = {1, 2}
    MaxSum = 9
    Operations <- AllOperations
    FewPayments = 2
SYMMETRY Interchangeable
INVARIANTS RefusedOnlyIfOvertaken CorrectionTargetKept CreditOnlyAfterPayment GrowingMoneyBacked
PROPERTY NoPendingWriteOff
