CONSTANTS
    Intents = {i1, i2, i3}
    NoIntent = NoIntent
    Workers = {w1, w2}
    HasSiblings = TRUE
    MaxDeclines = 2
    MaxFaults = 1
SPECIFICATION Spec
CHECK_DEADLOCK FALSE
SYMMETRY MCSymmetry
INVARIANTS
    TypeOK
    HeldOnce
    PreparedIsPaid
