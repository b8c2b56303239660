CONSTANTS
    Payments = {p1}
    Workers = {w1}
    Share = 2
    Total = 4
    Gateway = 1
    Decided = 3
    Merchant <- MCMerchant
    Paid <- MCPaid
    Fee <- MCFee
    Verdict <- MCVerdict
    Warranted = {p1}
    SyncLimit = 1
    RetryLimit = 1
    MaxFaults = 0
    MaxCases = 2
SPECIFICATION FairSpec
CHECK_DEADLOCK FALSE
PROPERTIES
    ImplementsAccount
