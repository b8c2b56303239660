CONSTANTS
    part1 = part1
    part2 = part2
    a = a
    b = b
    c = c
    w1 = w1
    w2 = w2
    Workers = {w1, w2}
    Offers = {a, b, c}
    Parts = {part1, part2}
    PartOf <- MCPartOf
    Odd = {a}
    MaxOffers = 2
SPECIFICATION Spec
INVARIANTS
    TypeOK
    RivalsNeverBothWin
    WithdrawnNeverWins
PROPERTIES
    DecisionsStand
SYMMETRY Sym
CHECK_DEADLOCK FALSE
