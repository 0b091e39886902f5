SPECIFICATION WriterSpec
CONSTANTS
  PackSize = 2
  MaxStream = 3
  Writer = {w1, w2}
  Own = w1
  WriteRev = TRUE
  MaxTries = 2
INVARIANTS
  PlacedIsExact
  PublishedIsWhole
PROPERTIES
  CallsReturn
