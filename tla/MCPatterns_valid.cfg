SPECIFICATION Spec
CONSTANTS
  Words = {a, b}
  Odd = {odd, mixed}
  Marked = {mixed}
  Star = star
  Rest = rest
  Empty = empty
  Given <- PatternsUptoFour
  Names <- NamesUptoThree
INVARIANTS
  RestOnlyLast
CHECK_DEADLOCK FALSE
