CONSTANTS
    Payments = {p1}
    Workers = {w1, w2}
    Share = 1
    Total = 2
    Gateway = 1
    Decided = 1
    Merchant <- MCMerchant
    Paid <- MCPaid
    Fee <- MCFee
    Verdict <- MCVerdict
    Warranted = {}
    SyncLimit = 1
    RetryLimit = 1
    MaxFaults = 1
    MaxCases = 2
SPECIFICATION Spec
CHECK_DEADLOCK FALSE
SYMMETRY MCSymmetry
INVARIANTS
    TypeOK
    ReleasedOnce
    ShareIsConserved
    StripeBeforeLedger
    WithinPaid
