SPECIFICATION Spec
CONSTANTS
  Proc = {p1}
  Name = {n1}
  Hash = {h1, h2}
  Symbolic = {}
  NewValues = {h1}
  OldValues = {h1}
  Empty = Empty
  Torn = Torn
  Orphan = {o1}
  None = None
INVARIANTS
  FailedSetLeavesNothing
