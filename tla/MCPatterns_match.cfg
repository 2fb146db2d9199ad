SPECIFICATION Spec
CONSTANTS
  Words = {a, b}
  Odd = {odd, mixed}
  Marked = {mixed}
  Star = star
  Rest = rest
  Empty = empty
  Given <- PatternsUptoFour
  Names <- NamesUptoThree
INVARIANTS
  TypeOK
  MatchIsSelection
  LegalAreAccepted
CHECK_DEADLOCK FALSE
