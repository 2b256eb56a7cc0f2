SPECIFICATION MCSpec
CONSTANTS
  c1 = c1
  c2 = c2
  Calls = {c1, c2}
  MaxParts = 6
  MaxPieces = 2
  Kinds <- MCKinds
  MaxFrames = 3
  MaxSequence = 2
CHECK_DEADLOCK FALSE
INVARIANTS ContentArrives OneTerminal
PROPERTY IsBlockStream
