SPECIFICATION Spec
CONSTANTS
  Widgets <- Nested
  RecognizersOf <- Mixed
  Positions <- ThreePlaces
  HitPath <- HitNested
  PressButtons = {"primary", "secondary"}
  Filtered = {"Tap"}
  Cached = {"outer"}
  RepaintLive = TRUE
  HoldMax = 3
  MaxEntries = 6
  DoubleTapMin = 1
  DoubleTapMax = 2
  LongPressTime = 3
  Slop = 2
  Width = 9
  Height = 9
INVARIANTS
  AtMostOneGesture
  OnlyTheWinnerActs
  PendingDoubleTapIsHeld
PROPERTIES
  ImplementsArena
