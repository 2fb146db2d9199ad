SPECIFICATION Spec
CONSTANTS
  Consumers = {c1}
  NoReceipt = NoReceipt
  ForceFlags = {TRUE}
  SeekTargets = {}
  PowerLoss = TRUE
  MaxIndex = 2
  Groups = {g1}
  Settings = {}
  DefaultSetting <- TwoAttempts
  Leases = {}
  GroupLease = GroupLease
  Delays = {}
  GroupBackoff = GroupBackoff
  Batch = {2}
  InflightMax = 2
  ShiftMax = 3
  HasDeadChannel = TRUE
  LateAnswers = FALSE
  Crashes = FALSE
  DeletesInUse = TRUE
  MaxTime = 2
  MaxLetters = 2
INVARIANTS TypeOK NothingSkipped ConfirmedAcksSurvive JobsAccountedFor DeadJobsHaveLetters
CHECK_DEADLOCK FALSE
