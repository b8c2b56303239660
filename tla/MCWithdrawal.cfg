CONSTANTS
    w1 = w1
    w2 = w2
    r1 = r1
    r2 = r2
    Workers = {w1, w2}
    Requests = {r1, r2}
    NoRequest = NoRequest
    Lines = {1, 2}
    DueAtFirst = {1}
    Amount <- MCAmount
    Debt <- MCDebt
    Method <- MCMethod
    Initial = 3
    CaseAmount = 1
    PayoutAmount = 2
    MaxPayouts = 1
    MaxFaults = 1
SYMMETRY Symmetry
CHECK_DEADLOCK FALSE
SPECIFICATION Spec
INVARIANTS
    TypeOK
    WalletConserved
    OneActive
    HoldsMatch
    TakenOnce
    LedgerFollowsStripe
    ReleasedNotSent
    SentIsTaken
