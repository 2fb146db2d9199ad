SPECIFICATION RetentionSpec
CONSTANTS
  Consumers = {c1}
  NoReceipt = NoReceipt
  ForceFlags = {FALSE}
  SeekTargets = {2}
  PowerLoss = TRUE
  MaxIndex = 5
  Policies <- SweptPolicies
  MarksMax = 4
  HandTrims = {3}
  MarksPerWindow = 2
  Sizes = {2}
  Header = 1
  Word = 64
  NotLoaded = NotLoaded
  MaxTime = 5
  MaxSkew = 1
INVARIANTS RetentionTypeOK OverstayBounded SweepsConverge
CHECK_DEADLOCK FALSE
PROPERTIES SweepsOnlyWhatIsDue
