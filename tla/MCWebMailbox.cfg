SPECIFICATION Spec
CONSTANTS
  Platforms <- Browser
  Senders = {s1, s2}
  MaxTasks = 3
  MaxFailures = 0
INVARIANT MailIsSignalled
CHECK_DEADLOCK FALSE
