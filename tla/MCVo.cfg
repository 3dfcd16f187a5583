\* Frames of one or two vsyncs, or timed up to a tick ahead.
CONSTANTS
  MaxLead = 1
  MaxDuration = 1
  MaxVsyncs = 2
  Vsyncs = {0, 2}
  Timings <- MCTimings
  Workloads = {"seeks", "redraws"}
  NoRedraw = FALSE
  NoFrame = NoFrame
SPECIFICATION FairSpec
INVARIANTS QueueAsserted SleepsIdle
PROPERTIES PlayerWoken CallsReturn RedrawsDrawn
