CONSTANTS
    Nil = Nil
    Proc = {p1, p2, p3}
    Pack = {k1}
    Object = {x1}
    MaxCalls = 4
SPECIFICATION Spec
SYMMETRY Symmetry
INVARIANTS
    ListingsHold
    UndisturbedReads
