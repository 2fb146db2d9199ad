SPECIFICATION Spec
CONSTANTS
  Requesters = {r1}
  Publishers = {p1}
  Repliers = {w1}
  Patient = {r1, p1, w1}
  MaxAttempts = 2
  Forgetful <- RepliesToRequesters
INVARIANTS
  TypeOK
  EachSentOnce
  ReplyStillAhead
  DoneWasReplied
  NothingLeftBehind
PROPERTIES RequestsSettle
CHECK_DEADLOCK FALSE
