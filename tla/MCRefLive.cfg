SPECIFICATION FairSpec
CONSTANTS
  Proc = {p1, p2}
  Name = {n1}
  Hash = {h1}
  Symbolic = {s1}
  NewValues = {h1, s1}
  OldValues = {}
  Empty = Empty
  Torn = Torn
  Orphan = {o1, o2}
  None = None
PROPERTIES
  CallsReturn
