\* One request at a time on an order of two parts, until the refund of a
\* part that has left is asked for.
CONSTANTS
    Workers = {w1}
    Parts = {p1, p2}
    MaxDocs = 2
    MaxLate = 0

SPECIFICATION Spec

PROPERTY NoRefundPostShip

CHECK_DEADLOCK FALSE
