SPECIFICATION WorkersSpec
CONSTANTS
  Consumers = {}
  NoReceipt = NoReceipt
  ForceFlags = {}
  SeekTargets = {}
  PowerLoss = FALSE
  MaxIndex = 2
  Groups = {g1}
  Settings = {}
  DefaultSetting <- TwoAttempts
  Leases = {}
  GroupLease = GroupLease
  Delays = {}
  GroupBackoff = GroupBackoff
  Batch = {2}
  InflightMax = 2
  ShiftMax = 3
  HasDeadChannel = TRUE
  LateAnswers = FALSE
  Crashes = FALSE
  DeletesInUse = FALSE
  MaxTime = 13
  MaxLetters = 0
  Order <- WorkersFirst
  Auditor = "audit"
  MaxJobs = 2
  Waits = {1}
  RefusesUntil = 3
  Regroups = FALSE
  Restarts = TRUE
INVARIANTS OnlyRunJobsFinish NoJobForgotten
PROPERTIES PushedJobsEnd
CHECK_DEADLOCK FALSE
