CONSTANTS
  N = 4
  Times <- AllOrders
  Tree <- Reverting
  MaxParents = 2
  MaxTips = 2
  MaxCuts = 1
SPECIFICATION Spec
INVARIANTS
  ResultCompletes
  NothingResent
  ErrorsAreReal
  MergeBaseIsBest
  LogIsExact
PROPERTIES
  EveryTurnCounts
