CONSTANTS
    Nil = Nil
    Proc = {p1, p2}
    Pack = {k1}
    Object = {x1, x2}
    MaxCalls = 3
SPECIFICATION Spec
SYMMETRY Symmetry
INVARIANT ObjectPacksListed
