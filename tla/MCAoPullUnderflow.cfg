CONSTANTS
  NumPlanes = 1
  Size = 2
  StreamSilence = FALSE
  MaxChunk = 2
  MaxSamples = 3
SPECIFICATION Spec
PROPERTIES UnderflowCounted
