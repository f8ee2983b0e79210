SPECIFICATION Spec
CONSTANTS
    Clients = {c1, c2}
    Records = {r1}
    NoRecord = NoRecord
    Payments = {p1, p2}
    NoPayment = NoPayment
    Amounts = {1, 2}
    SentStatuses = {"PAID"}
    AmountDue = 2
    LeaseFee = 1
    FeeAmounts = {1}
    Cutoff = 1
    AsOfDates = {1, 2}
    MaxSum = 6
    Operations <- PayAndWriteOff
SYMMETRY Interchangeable
PROPERTY SettledIsFinal
