SPECIFICATION FairSpec
CONSTANTS
  Controller = {c}
  Lower = 0
  Upper = 4
  Durations <- SomeDurations
  Targets <- SomeTargets
  Styles <- SomeStyles
  Throw <- ThrowForward
  SimEnd = 2
  Origins <- Middle
  Logging <- AnyLogging
  Cap = 3
  MaxCalls = 3
  None = None
PROPERTIES
  SegmentsArrive
