SPECIFICATION Spec
CONSTANTS
  Proc = {p1, p2}
  Name = {n1}
  Hash = {h1}
  Symbolic = {}
  NewValues = {h1}
  OldValues = {}
  Empty = Empty
  Torn = Torn
  Orphan = {o1, o2}
  None = None
INVARIANTS
  LockedIsCurrent
