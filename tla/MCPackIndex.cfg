SPECIFICATION SaveSpec
CONSTANTS
  Writer = {w1}
  WriteRev = TRUE
  MaxTries = 2
INVARIANTS
  IndexBeforePack
