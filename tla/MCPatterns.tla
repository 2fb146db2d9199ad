---------------------------- MODULE MCPatterns ----------------------------
(***************************************************************************)
(* All strings of up to four fields as patterns, and all names of up to     *)
(* three tokens; two words, so that a token can differ from a token.        *)
(***************************************************************************)
EXTENDS Patterns

Upto(n, fields) == UNION {[1 .. k -> fields] : k \in 1 .. n}

PatternsUptoFour == Upto(4, Fields)
NamesUptoThree == Upto(3, Words)

=============================================================================
