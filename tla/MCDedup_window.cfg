SPECIFICATION Spec
CONSTANTS
  N = 2
  Window = 2
  Word = 64
  CrashPoints = {"rotate", "ack"}
  MaxSkew = 0
  MaxTime = 8
  MaxCopies = 3
INVARIANTS TypeOK AckedInputsHaveOutputs
PROPERTIES RemembersForAWindow
CHECK_DEADLOCK FALSE
