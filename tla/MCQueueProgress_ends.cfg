SPECIFICATION ProgressSpec
CONSTANTS
  Consumers = {}
  NoReceipt = NoReceipt
  ForceFlags = {FALSE, TRUE}
  SeekTargets = {}
  PowerLoss = FALSE
  MaxIndex = 3
  Groups = {g1}
  Settings <- MCSettings
  DefaultSetting <- TwoAttempts
  Leases = {0}
  GroupLease = GroupLease
  Delays = {0}
  GroupBackoff = GroupBackoff
  Batch = {1, 2}
  InflightMax = 2
  ShiftMax = 3
  HasDeadChannel = TRUE
  LateAnswers = FALSE
  Crashes = TRUE
  DeletesInUse = FALSE
  MaxTime = 10
  MaxLetters = 0
INVARIANTS JobsAccountedFor ExclusiveLease
PROPERTIES EveryJobEnds
CHECK_DEADLOCK FALSE
