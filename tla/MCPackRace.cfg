SPECIFICATION StreamSpec
CONSTANTS
  PackSize = 2
  MaxStream = 2
INVARIANTS
  NoEarlyEOF
