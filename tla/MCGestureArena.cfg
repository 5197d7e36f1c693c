SPECIFICATION FairPointerSpec
CONSTANTS
  mouse = mouse
  Pointers <- OnePointer
  MaxEntries = 3
  HoldMax = 2
  Width = 2
  Height = 2
  Positions <- SomePositions
INVARIANTS
  NoClosedArenaKept
PROPERTIES
  HoldsKeepTheirTask
  WinnerIsFinal
  RestingArenaResolves
  DownsAreSeparated
  RepeatedDownInsideIsDropped
