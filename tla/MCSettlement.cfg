CONSTANTS
    w1 = w1
    w2 = w2
    s1 = s1
    s2 = s2
    Workers = {w1, w2}
    Sessions = {s1, s2}
    NoSession = NoSession
    Fee = 2
    Shipping = 1
    MerchantFunds = 0
    CustomerFunds = 1
    Earning = 3
    MaxEarnings = 1
    MaxFaults = 1
SYMMETRY Symmetry
CHECK_DEADLOCK FALSE
SPECIFICATION Spec
INVARIANTS
    TypeOK
    ChargedOnce
    CashAccounted
    StartedOnce
    PlatformCreditedOnce
