CONSTANTS
  NumPlanes = 2
  Size = 3
  StreamSilence = FALSE
  MaxChunk = 3
  MaxSamples = 6
SPECIFICATION FairSpec
INVARIANTS NoCellRace FramesInOrder PausedIsSilent
PROPERTIES CallsReturn LowBufferWakes
