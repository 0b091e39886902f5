SPECIFICATION Spec
CONSTANTS
  Proc = {p1, p2}
  Name = {n1, n2}
  Hash = {h1, h2}
  Symbolic = {}
  NewValues = {h2}
  OldValues = {h1}
  Empty = Empty
  Torn = Torn
  Orphan = {o1, o2}
  None = None
SYMMETRY Symmetry
INVARIANTS
  IsolatedCalls
  CheckStaysValid
PROPERTIES
  OnlyWritersChange
