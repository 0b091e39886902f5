CONSTANTS
  c1 = c1
  c2 = c2
  main = main
  topic = topic
  Parents <- Diverging
  Client = {c1, c2}
  Name = {main, topic}
  Leased = main
  LeaseHash = 3
  Modes = {"push"}
  Serial = {TRUE}
  Base = 2
  Kinds = {"full", "shallow"}
  MaxMoves = 2
  MaxPushes = 2
  MaxFaults = 0
SPECIFICATION Spec
PROPERTIES OnlyForceDrops
