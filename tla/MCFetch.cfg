CONSTANTS
  Parents <- Merging
  Name = {"main", "side"}
  Protocols = {"v0", "http", "v2"}
  Depths = {0, 1, 2, 99}
  Infinite = 99
  Starts <- TwoStarts
  InitialFlush = 1
  MaxInVain = 2
  MaxMoves = 1
  MaxCommits = 1
  MaxFetches = 2
  MaxFaults = 1
SPECIFICATION FairSpec
INVARIANTS FetchCompletes DepthServed
PROPERTIES FetchReturns
