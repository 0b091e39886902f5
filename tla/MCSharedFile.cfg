SPECIFICATION FairSpec
CONSTANTS
  Proc = {p1, p2}
  File = {f1, f2}
  Capacities = {0, 1}
  MaxGen = 3
  Nobody = Nobody
  NoFile = NoFile
CHECK_DEADLOCK FALSE
INVARIANTS
  PinnedStaysOpen
  OpenIsGoverned
  IdleWithinCapacity
PROPERTIES
  CallsReturn
  GraceCloses
