----------------------------- MODULE Patterns -----------------------------
(***************************************************************************)
(* Subject patterns (src/src/store.c): bjm_pattern_valid, the check when a  *)
(* pattern is given, and bjm_pattern_match, which decides what it selects,  *)
(* as the loops they are over the pattern's tokens.  A listing of subjects  *)
(* (GET /subjects?pattern=) sends every string to the two loops; a push     *)
(* subscription only the strings that bjm_pattern_is calls patterns: the    *)
(* others are checked and compared as subject names.                        *)
(*                                                                          *)
(* A string is the sequence of its fields between dots; a field may be      *)
(* empty, and the empty string is a single empty field.                     *)
(***************************************************************************)
EXTENDS Naturals, Sequences

CONSTANTS
  Words,   \* fields made of the characters a name may have
  Odd,     \* fields that have any other character, not one wildcard alone
  Marked,  \* those of them with a wildcard among their characters
  Star,    \* the field "*"
  Rest,    \* the field ">"
  Empty,   \* the field of no characters
  Given,   \* the strings a client may send as a pattern
  Names    \* the strings a subject may be tested against

Fields == Words \cup Odd \cup {Star, Rest, Empty}

Strings == Seq(Fields) \ {<< >>}

\* name_valid: no empty field, and only legal characters.
Subject(s) == \A i \in DOMAIN s : s[i] \in Words

ASSUME PatternsAssumption ==
  /\ Star \notin Words \cup Odd /\ Rest \notin Words \cup Odd
  /\ Empty \notin Words \cup Odd /\ Words \cap Odd = {}
  /\ Star # Rest /\ Star # Empty /\ Rest # Empty
  /\ Marked \subseteq Odd
  /\ Given \subseteq Strings /\ Names \subseteq Strings
  /\ \A s \in Names : Subject(s)

VARIABLES
  asked,     \* "listing" (h_subjects) or "subscription" (pattern_of, matches)
  pattern,   \* the client's string
  subject,   \* a subject there is
  at,        \* the field both loops have come to
  phase,     \* "checking" (bjm_pattern_valid), "matching", or "ended"
  valid,     \* what bjm_pattern_valid returned
  match      \* what bjm_pattern_match returned

vars == <<asked, pattern, subject, at, phase, valid, match>>

Init ==
  /\ asked \in {"listing", "subscription"}
  /\ pattern \in Given /\ subject \in Names
  /\ at = 1 /\ phase = "checking"
  /\ valid = FALSE /\ match = FALSE

\* next_token returns 0: nothing is left of the string, as after a last dot.
Exhausted(s, i) == i > Len(s) \/ (i = Len(s) /\ s[i] = Empty)

\* bjm_pattern_is: a wildcard character anywhere in the string.
PatternIs(s) == \E i \in DOMAIN s : s[i] \in Marked \cup {Star, Rest}

\* The string is a subject name to the code, and no loop of these sees it.
AsName == asked = "subscription" /\ ~PatternIs(pattern)

-----------------------------------------------------------------------------

Refuse ==
  /\ phase' = "ended"
  /\ UNCHANGED <<asked, pattern, subject, at, valid, match>>

Accept ==
  /\ phase' = "matching" /\ valid' = TRUE /\ at' = 1
  /\ UNCHANGED <<asked, pattern, subject, match>>

\* Mutant: a token is passed over.
AdvanceTwo ==
  /\ at' = at + 2
  /\ UNCHANGED <<asked, pattern, subject, phase, valid, match>>

Advance ==
  /\ at' = at + 1
  /\ UNCHANGED <<asked, pattern, subject, phase, valid, match>>

\* Without a wildcard: bjm_subject_valid.
CheckName ==
  /\ phase = "checking" /\ AsName
  /\ IF Subject(pattern) THEN Accept ELSE Refuse

\* Mutant: the rest of the string is looked at before the token is passed.
CheckRestEarly ==
  /\ phase = "checking" /\ ~AsName /\ ~Exhausted(pattern, at)
  /\ pattern[at] = Rest
  /\ IF Exhausted(pattern, at) THEN Accept ELSE Refuse

\* `>' ends the check: it is legal only with nothing after it.
CheckRest ==
  /\ phase = "checking" /\ ~AsName /\ ~Exhausted(pattern, at)
  /\ pattern[at] = Rest
  /\ IF Exhausted(pattern, at + 1) THEN Accept ELSE Refuse

CheckField ==
  /\ phase = "checking" /\ ~AsName /\ ~Exhausted(pattern, at)
  /\ pattern[at] # Rest
  /\ IF pattern[at] \in Words \cup {Star} THEN Advance ELSE Refuse

\* The loop ends; the empty string was refused before it.
CheckEnd ==
  /\ phase = "checking" /\ ~AsName /\ Exhausted(pattern, at)
  /\ IF at = 1 THEN Refuse ELSE Accept

-----------------------------------------------------------------------------

Return(r) ==
  /\ phase' = "ended" /\ match' = r
  /\ UNCHANGED <<asked, pattern, subject, at, valid>>

\* The comparison of `matches' for a name.
MatchName ==
  /\ phase = "matching" /\ AsName
  /\ Return(pattern = subject)

\* Mutant: `>' may stand for no token at all.
MatchRestNone ==
  /\ phase = "matching" /\ ~AsName /\ ~Exhausted(pattern, at)
  /\ pattern[at] = Rest
  /\ Return(TRUE)

MatchRest ==
  /\ phase = "matching" /\ ~AsName /\ ~Exhausted(pattern, at)
  /\ pattern[at] = Rest
  /\ Return(~Exhausted(subject, at))

MatchField ==
  /\ phase = "matching" /\ ~AsName /\ ~Exhausted(pattern, at)
  /\ pattern[at] # Rest
  /\ IF Exhausted(subject, at) THEN Return(FALSE)
     ELSE IF pattern[at] = Star \/ pattern[at] = subject[at] THEN Advance
     ELSE Return(FALSE)

\* The pattern has ended: the subject must have too.
MatchEnd ==
  /\ phase = "matching" /\ ~AsName /\ Exhausted(pattern, at)
  /\ Return(Exhausted(subject, at))

Next ==
  \/ CheckName \/ CheckRest \/ CheckField \/ CheckEnd
  \/ MatchName \/ MatchRest \/ MatchField \/ MatchEnd

Spec == Init /\ [][Next]_vars

-----------------------------------------------------------------------------

TypeOK ==
  /\ asked \in {"listing", "subscription"}
  /\ pattern \in Given /\ subject \in Names
  /\ at \in 1 .. Len(pattern) + 1
  /\ phase \in {"checking", "matching", "ended"}
  /\ valid \in BOOLEAN /\ match \in BOOLEAN

\* The tokens of a string: a dot that ends it starts no token.
Count(s) == IF s[Len(s)] = Empty THEN Len(s) - 1 ELSE Len(s)

Fits(p, s, i) == p[i] = Star \/ p[i] = s[i]

(***************************************************************************)
(* What a pattern selects: `*' one token, and a `>' that is the last token  *)
(* one or more of the rest.                                                 *)
(***************************************************************************)
Selects(p, s) ==
  LET n == Count(p)
  IN  IF p[n] = Rest
      THEN Len(s) >= n /\ \A i \in 1 .. n - 1 : Fits(p, s, i)
      ELSE Len(s) = n /\ \A i \in 1 .. n : Fits(p, s, i)

(***************************************************************************)
(* "`*' takes exactly one token, `>' takes that token and everything below  *)
(* it": the matcher returns 1 for a pattern that was accepted exactly when  *)
(* the pattern selects the subject.                                         *)
(***************************************************************************)
MatchIsSelection ==
  phase = "ended" /\ valid => (match <=> Selects(pattern, subject))

(***************************************************************************)
(* "'.'-separated tokens of [A-Za-z0-9_-], '*' for one token, '>' for the   *)
(* rest (last only)" (pattern_of): every field is a word or a wildcard, and *)
(* no field but the last is `>'.                                            *)
(***************************************************************************)
Legal(p) ==
  \A i \in DOMAIN p :
    p[i] \in Words \cup {Star} \/ (p[i] = Rest /\ i = Len(p))

(***************************************************************************)
(* No legal pattern is refused, by either way it may come in.               *)
(***************************************************************************)
LegalAreAccepted == phase # "checking" /\ Legal(pattern) => valid

(***************************************************************************)
(* "`>' is only legal last" (src/README.md:443): no string is accepted with *)
(* a `>' before its last field.  It fails: `orders.>.' is accepted, because *)
(* the dot that ends it starts no token (store.c:131, 151).                 *)
(***************************************************************************)
RestOnlyLast ==
  valid => \A i \in DOMAIN pattern : pattern[i] = Rest => i = Len(pattern)

=============================================================================
