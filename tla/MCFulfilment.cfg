\* Two requests at once on an order of two parts.
CONSTANTS
    Workers = {w1, w2}
    Parts = {p1, p2}
    MaxDocs = 3
    MaxLate = 1

SPECIFICATION Spec

INVARIANTS
    TypeOK
    OrderFollowsParts
    RefundedNotShipped
    PartFollowsReview
    CancelledPaidBack

CHECK_DEADLOCK FALSE

SYMMETRY Symmetry
