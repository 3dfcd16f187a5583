CONSTANTS
  NumStreams = 3
  Type <- AVSub
  File <- Subtitled
  Setups <- VerySmall
  MinSecs = 10
  MaxSeekRanges = 3
  MaxIndex = 2
  Selected = {1, 2, 3}
  SeekTimes = {0, 20}
  SeekFlags <- Back
  Imprecise = FALSE
  MaxSeeks = 1
  MaxSelects = 0
SPECIFICATION Spec
INVARIANTS PruneFindsPacket
