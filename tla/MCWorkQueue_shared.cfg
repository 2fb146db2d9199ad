SPECIFICATION Spec
CONSTANTS
  Consumers = {c1}
  NoReceipt = NoReceipt
  ForceFlags = {FALSE}
  SeekTargets = {}
  PowerLoss = FALSE
  MaxIndex = 2
  Groups = {g1}
  Settings = {}
  DefaultSetting <- TwoAttempts
  Leases = {}
  GroupLease = GroupLease
  Delays = {}
  GroupBackoff = GroupBackoff
  Batch = {2}
  InflightMax = 1
  ShiftMax = 3
  HasDeadChannel = TRUE
  LateAnswers = TRUE
  Crashes = TRUE
  DeletesInUse = TRUE
  MaxTime = 2
  MaxLetters = 1
INVARIANTS JobsLeaveOnce
PROPERTIES OwedJobsKept ReceiptsMoveForward StaysReadable IndexesNeverShift GroupsImplementBoard
CHECK_DEADLOCK FALSE
