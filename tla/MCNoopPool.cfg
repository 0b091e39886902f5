SPECIFICATION FairSpec
CONSTANTS
  Proc = {p1}
  File = {f1}
  Capacities = {0}
  MaxGen = 3
  Nobody = Nobody
  NoFile = NoFile
CHECK_DEADLOCK FALSE
PROPERTIES
  NoopPoolGraceCloses
