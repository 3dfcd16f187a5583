\* Periods of two samples in a device of two periods, and one driver fault.
CONSTANTS
  SoftBuffer = 3
  DeviceBuffer = 4
  Period = 2
  Margin = 1
  Latency = 1
  Excess = 0
  MaxFaults = 1
  MaxSamples = 5
SPECIFICATION FairSpec
INVARIANTS SamplesOnce NoLostWakeup
PROPERTIES EofNotEarly CallsReturn EofReported DataRequested
