CONSTANTS
  NumStreams = 3
  Type <- AVSub
  File <- Subtitled
  Setups <- Small
  MinSecs = 10
  MaxSeekRanges = 3
  MaxIndex = 2
  Selected = {1, 3}
  SeekTimes = {20}
  SeekFlags <- Back
  Imprecise = FALSE
  MaxSeeks = 1
  MaxSelects = 1
SPECIFICATION Spec
INVARIANTS CacheConsistent EofIsEndWithoutCache
PROPERTIES ReadsContinue
