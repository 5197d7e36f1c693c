SPECIFICATION Spec
CONSTANTS
  Emitters = {e1}
  MaxSubs = 1
  Jobs = {j1, j2}
  MaxQueue = 3
  MaxNesting = 2
  MaxPanics = 1
  PanicIn <- AllEntries
PROPERTIES DefersKeepOrder NextFrameStartWaits
