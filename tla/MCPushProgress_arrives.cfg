SPECIFICATION ProgressSpec
CONSTANTS
  Subjects = {orders, audit}
  Consumers = {c1}
  Patterns <- All
  Froms = {}
  BatchSizes = {1}
  BackoffBase = 1
  BackoffMax = 2
  ForceFlags = {TRUE}
  Purges = {FALSE, TRUE}
  Unsubscribes = {}
  Restarts = FALSE
  NoReceipt = NoReceipt
  Unregistered = Unregistered
  NoSubject = NoSubject
  MaxIndex = 1
  MaxSubs = 2
INVARIANTS SubjectsTakeTurns
PROPERTIES EveryMessageArrives
CHECK_DEADLOCK FALSE
