SPECIFICATION FairSpec
CONSTANTS
  Workers = {w1, w2, w3}
  Callers = {c1}
  MaxTasks = 4
  MaxPanics = 2
INVARIANTS SleepersAreSpare DieIsFair
PROPERTIES TasksStart ImplementsDelivery
CHECK_DEADLOCK FALSE
