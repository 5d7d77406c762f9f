SPECIFICATION Spec
CONSTANTS
  MaxItems = 2
  MaxWords = 7
  Given <- MCGiven
  NotGiven = NotGiven
  DefaultSize = 5
  DefaultOverlap = 2
CHECK_DEADLOCK FALSE
INVARIANTS
  EveryWordChunked
  NoRedundantChunk
  ChunksAreWindows
PROPERTY Terminates
