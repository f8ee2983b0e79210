SPECIFICATION Spec
CONSTANTS
    Clients = {c1}
    Records = {r1}
    NoRecord = NoRecord
    Payments = {p1, p2, p3}
    NoPayment = NoPayment
    Amounts = {1, 2}
    SentStatuses = {"PAID", "VOIDED"}
    AmountDue = 2
    LeaseFee = 1
    FeeAmounts = {1, 2}
    Cutoff = 1
    AsOfDates = {1, 2}
    MaxSum = 6
    Operations <- AllOperations
SYMMETRY SamePayments
INVARIANTS OneCorrectionPerPayment
PROPERTIES PaymentReconciles ImplementsLifecycle
