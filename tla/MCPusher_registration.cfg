SPECIFICATION Spec
CONSTANTS
  Subjects = {orders}
  Consumers = {c1, c2}
  Patterns <- All
  Froms = {2}
  BatchSizes = {2}
  BackoffBase = 1
  BackoffMax = 1
  ForceFlags = {TRUE}
  Purges = {FALSE}
  Unsubscribes = {c2}
  Restarts = TRUE
  NoReceipt = NoReceipt
  Unregistered = Unregistered
  NoSubject = NoSubject
  MaxIndex = 2
  MaxSubs = 3
INVARIANTS TypeOK NothingSkipped RegisteredAreServed NoLostWakeup
CHECK_DEADLOCK FALSE
