SPECIFICATION FairSpec
CONSTANTS
  Platforms <- Every
  Senders = {s1, s2, s3}
  MaxTasks = 5
  MaxFailures = 1
INVARIANTS QueuedIsSignalled
PROPERTIES TasksRun ImplementsDelivery
CHECK_DEADLOCK FALSE
