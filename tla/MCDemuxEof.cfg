CONSTANTS
  NumStreams = 2
  Type <- AV
  File <- AVFile6
  Setups <- Large
  MinSecs = 10
  MaxSeekRanges = 3
  MaxIndex = 2
  Selected = {1, 2}
  SeekTimes = {0, 20, 40}
  SeekFlags <- Back
  Imprecise = FALSE
  MaxSeeks = 2
  MaxSelects = 0
SPECIFICATION Spec
INVARIANTS EofIsEnd
