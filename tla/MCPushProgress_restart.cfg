SPECIFICATION ProgressSpec
CONSTANTS
  Subjects = {orders}
  Consumers = {c1}
  Patterns <- All
  Froms = {}
  BatchSizes = {1}
  BackoffBase = 1
  BackoffMax = 2
  ForceFlags = {}
  Purges = {FALSE}
  Unsubscribes = {}
  Restarts = TRUE
  NoReceipt = NoReceipt
  Unregistered = Unregistered
  NoSubject = NoSubject
  MaxIndex = 1
  MaxSubs = 1
PROPERTIES EveryMessageArrives
CHECK_DEADLOCK FALSE
