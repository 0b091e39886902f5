CONSTANTS
  Name = {n1, n2}
  Object = {o1, o2}
  Cell <- TwoCells
  Value = {blank, v1}
  Blank = blank
  None = None
  Shallows <- FewShallow
  MaxCalls = 4
  MaxFaults = 1
SYMMETRY Symmetry
SPECIFICATION Spec
INVARIANTS
  BaseComplete
  CommitPublishes
PROPERTIES
  ImplementsStorer
