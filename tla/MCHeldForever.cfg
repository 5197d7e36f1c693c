SPECIFICATION FairSpec
CONSTANTS
  Widgets <- Beside
  RecognizersOf <- TwoDoubleTaps
  Positions <- TwoPlaces
  HitPath <- LeftOrRight
  PressButtons = {"primary"}
  Filtered = {}
  Cached = {}
  RepaintLive = FALSE
  HoldMax = 3
  MaxEntries = 4
  DoubleTapMin = 1
  DoubleTapMax = 2
  LongPressTime = 3
  Slop = 2
  Width = 9
  Height = 9
PROPERTY HeldArenaResolves
