--------------------------- MODULE PatternsProofs ---------------------------
(***************************************************************************)
(* The pattern check and the matcher compute what they promise for every    *)
(* set of words, every pattern and every subject, of any length.            *)
(***************************************************************************)
EXTENDS Patterns, TLAPS

(***************************************************************************)
(* What the check lets pass: a last dot ends the last token and starts no   *)
(* other.                                                                   *)
(***************************************************************************)
WellFormed(p) ==
  /\ Count(p) > 0
  /\ \A i \in 1 .. Count(p) :
       p[i] \in Words \cup {Star} \/ (p[i] = Rest /\ i = Count(p))

\* What each loop knows of the fields behind it.
Behind ==
  /\ phase = "checking" =>
       ~valid /\ \A i \in 1 .. at - 1 : pattern[i] \in Words \cup {Star}
  /\ phase = "matching" =>
       /\ valid /\ WellFormed(pattern) /\ at <= Count(pattern) + 1
       /\ AsName => Subject(pattern)
       /\ \A i \in 1 .. at - 1 :
            i <= Len(subject) /\ pattern[i] # Rest /\ Fits(pattern, subject, i)

Inv ==
  /\ TypeOK /\ Behind /\ LegalAreAccepted /\ MatchIsSelection
  /\ valid => WellFormed(pattern)

\* Fields, lengths and the end of a string, for the two strings of a state.
LEMMA StringFacts ==
  ASSUME NEW p \in Given, NEW s \in Names
  PROVE  /\ Len(p) \in Nat \ {0} /\ Len(s) \in Nat \ {0}
         /\ Len(p) = 1 \/ Len(p) > 1
         /\ DOMAIN p = 1 .. Len(p) /\ DOMAIN s = 1 .. Len(s)
         /\ \A i \in 1 .. Len(p) : p[i] \in Fields
         /\ \A i \in 1 .. Len(s) : s[i] \in Words /\ s[i] # Empty
         /\ Count(p) \in Nat /\ Count(p) <= Len(p)
         /\ \A i \in Nat \ {0} : Exhausted(s, i) <=> i > Len(s)
         /\ \A i \in Nat \ {0} : Exhausted(p, i) <=> i > Count(p)
<1>1. p \in Seq(Fields) /\ p # << >> /\ s \in Seq(Fields) /\ s # << >> /\ Subject(s)
  BY PatternsAssumption DEF Strings
<1>2. Len(p) \in Nat \ {0} /\ Len(s) \in Nat \ {0}
  BY <1>1
<1>3. DOMAIN p = 1 .. Len(p) /\ DOMAIN s = 1 .. Len(s)
  BY <1>1
<1>4. \A i \in 1 .. Len(p) : p[i] \in Fields
  BY <1>1, <1>3
<1>5. \A i \in 1 .. Len(s) : s[i] \in Words /\ s[i] # Empty
  BY <1>1, <1>3, PatternsAssumption DEF Subject
<1>6. Count(p) \in Nat /\ Count(p) <= Len(p)
  BY <1>2 DEF Count
<1>7. \A i \in Nat \ {0} : Exhausted(s, i) <=> i > Len(s)
  BY <1>2, <1>5 DEF Exhausted
<1>8. \A i \in Nat \ {0} : Exhausted(p, i) <=> i > Count(p)
  BY <1>2 DEF Exhausted, Count
<1> QED  BY <1>2, <1>3, <1>4, <1>5, <1>6, <1>7, <1>8

\* A legal pattern is well formed; a subject name is both.
LEMMA LegalFacts ==
  ASSUME NEW p \in Given
  PROVE  /\ Legal(p) => WellFormed(p)
         /\ Subject(p) => WellFormed(p) /\ Count(p) = Len(p)
<1>1. p \in Seq(Fields) /\ p # << >>
  BY PatternsAssumption DEF Strings
<1>2. Len(p) \in Nat \ {0} /\ DOMAIN p = 1 .. Len(p)
  BY <1>1
<1>3. Empty \notin Words \cup {Star} /\ Empty # Rest
  BY PatternsAssumption
<1>4. (Legal(p) \/ Subject(p)) => Count(p) = Len(p)
  <2>1. Len(p) \in DOMAIN p
    BY <1>2
  <2>2. Legal(p) \/ Subject(p) => p[Len(p)] # Empty
    BY <1>3, <2>1 DEF Legal, Subject
  <2> QED  BY <2>2 DEF Count
<1>5. Legal(p) => WellFormed(p)
  BY <1>2, <1>4 DEF Legal, WellFormed
<1>6. Subject(p) => WellFormed(p)
  BY <1>2, <1>4 DEF Subject, WellFormed
<1> QED  BY <1>4, <1>5, <1>6

LEMMA InitInv == Init => Inv
<1> SUFFICES ASSUME Init PROVE Inv
  OBVIOUS
<1>1. Len(pattern) \in Nat \ {0}
  BY StringFacts DEF Init
<1>2. phase = "checking" /\ at = 1 /\ valid = FALSE /\ match = FALSE
  BY DEF Init
<1>3. TypeOK
  <2>1. 1 \in 1 .. Len(pattern) + 1
    BY <1>1
  <2> QED  BY <1>2, <2>1, Zenon DEF Init, TypeOK
<1>4. Behind
  <2>1. \A i \in 1 .. at - 1 : pattern[i] \in Words \cup {Star}
    BY <1>2
  <2>2. phase # "matching"
    BY <1>2
  <2> QED  BY <1>2, <2>1, <2>2, Zenon DEF Behind
<1>5. LegalAreAccepted /\ MatchIsSelection
  <2>1. phase # "ended"
    BY <1>2
  <2> QED  BY <1>2, <2>1, Zenon DEF LegalAreAccepted, MatchIsSelection
<1> QED  BY <1>2, <1>3, <1>4, <1>5 DEF Inv

LEMMA StepInv == Inv /\ [Next]_vars => Inv'
<1> SUFFICES ASSUME Inv, [Next]_vars PROVE Inv'
  OBVIOUS
<1> USE DEF Inv
<1>1. /\ Len(pattern) \in Nat \ {0} /\ Len(subject) \in Nat \ {0}
      /\ \A i \in 1 .. Len(pattern) : pattern[i] \in Fields
      /\ \A i \in 1 .. Len(subject) : subject[i] \in Words
      /\ Count(pattern) \in Nat /\ Count(pattern) <= Len(pattern)
      /\ \A i \in Nat \ {0} : Exhausted(subject, i) <=> i > Len(subject)
      /\ \A i \in Nat \ {0} : Exhausted(pattern, i) <=> i > Count(pattern)
  BY StringFacts DEF TypeOK
<1>2. at \in Nat \ {0} /\ at + 1 \in Nat \ {0}
  BY <1>1 DEF TypeOK
<1>0. /\ Legal(pattern) => WellFormed(pattern)
      /\ Subject(pattern) => WellFormed(pattern) /\ Count(pattern) = Len(pattern)
  BY LegalFacts DEF TypeOK
<1>a. CASE CheckName
  <2>1. CASE Subject(pattern)
    BY <1>0, <1>1, <1>a, <2>1
       DEF CheckName, Accept, AsName, TypeOK, Behind, LegalAreAccepted, MatchIsSelection
  <2>2. CASE ~Subject(pattern)
    <3>1. ~Legal(pattern)
      <4>1. DOMAIN pattern = 1 .. Len(pattern)
        BY StringFacts DEF TypeOK
      <4> QED  BY <1>a, <2>2, <4>1
            DEF CheckName, AsName, PatternIs, Legal, Subject
    <3> QED  BY <1>a, <2>2, <3>1
          DEF CheckName, Refuse, TypeOK, Behind, LegalAreAccepted, MatchIsSelection
  <2> QED  BY <2>1, <2>2
<1>b. CASE MatchName
  <2>1. Subject(pattern) /\ valid /\ Count(pattern) = Len(pattern)
    BY <1>0, <1>b DEF MatchName, Behind
  <2>2. pattern = subject <=> Selects(pattern, subject)
    <3>1. /\ pattern \in Seq(Fields) /\ subject \in Seq(Fields)
          /\ DOMAIN pattern = 1 .. Len(pattern)
      BY StringFacts, PatternsAssumption DEF TypeOK, Strings
    <3>2. \A i \in 1 .. Len(pattern) : pattern[i] # Rest /\ pattern[i] # Star
      BY <2>1, <3>1, PatternsAssumption DEF Subject
    <3>3. Selects(pattern, subject) <=>
            Len(subject) = Len(pattern)
            /\ \A i \in 1 .. Len(pattern) : pattern[i] = subject[i]
      BY <1>1, <2>1, <3>2 DEF Selects, Fits
    <3>4. Len(subject) = Len(pattern)
          /\ (\A i \in 1 .. Len(pattern) : pattern[i] = subject[i])
          => pattern = subject
      BY <3>1
    <3> QED  BY <3>3, <3>4
  <2>3. match' = (pattern = subject)
    BY <1>b DEF MatchName, Return
  <2>4. match' <=> Selects(pattern, subject)
    BY <2>2, <2>3, Zenon
  <2>5. match' \in BOOLEAN
    BY <2>3, Zenon
  <2> QED  BY <1>b, <2>1, <2>4, <2>5
        DEF MatchName, Return, AsName, TypeOK, Behind, LegalAreAccepted, MatchIsSelection
<1>3. CASE CheckRest
  <2>1. at <= Count(pattern) /\ pattern[at] = Rest
    BY <1>1, <1>2, <1>3 DEF CheckRest
  <2>2. CASE Exhausted(pattern, at + 1)
    <3>1. at = Count(pattern)
      BY <1>1, <1>2, <2>1, <2>2
    <3>2. WellFormed(pattern)
      BY <1>1, <1>2, <1>3, <2>1, <3>1 DEF WellFormed, Behind, CheckRest
    <3> QED  BY <1>1, <1>3, <2>2, <3>2
          DEF CheckRest, Accept, AsName, TypeOK, Behind, LegalAreAccepted, MatchIsSelection
  <2>3. CASE ~Exhausted(pattern, at + 1)
    <3>1. at < Count(pattern)
      BY <1>1, <1>2, <2>1, <2>3
    <3>2. ~WellFormed(pattern)
      BY <1>1, <1>2, <2>1, <3>1, PatternsAssumption DEF WellFormed
    <3> QED  BY <1>0, <1>3, <2>3, <3>2
          DEF CheckRest, Refuse, TypeOK, Behind, LegalAreAccepted, MatchIsSelection
  <2> QED  BY <2>2, <2>3
<1>4. CASE CheckField
  <2>1. at <= Count(pattern) /\ pattern[at] # Rest
    BY <1>1, <1>2, <1>4 DEF CheckField
  <2>2. CASE pattern[at] \in Words \cup {Star}
    BY <1>1, <1>2, <1>4, <2>1, <2>2
       DEF CheckField, Advance, TypeOK, Behind, LegalAreAccepted, MatchIsSelection
  <2>3. CASE pattern[at] \notin Words \cup {Star}
    <3>1. ~WellFormed(pattern)
      BY <1>1, <1>2, <2>1, <2>3 DEF WellFormed
    <3> QED  BY <1>0, <1>4, <2>3, <3>1
          DEF CheckField, Refuse, TypeOK, Behind, LegalAreAccepted, MatchIsSelection
  <2> QED  BY <2>2, <2>3
<1>5. CASE CheckEnd
  <2>1. at > Count(pattern) /\ phase = "checking"
    BY <1>1, <1>2, <1>5 DEF CheckEnd
  <2>2. CASE at = 1
    <3>1. ~WellFormed(pattern)
      BY <1>1, <2>1, <2>2 DEF WellFormed
    <3> QED  BY <1>0, <1>5, <2>2, <3>1
          DEF CheckEnd, Refuse, TypeOK, Behind, LegalAreAccepted, MatchIsSelection
  <2>3. CASE at # 1
    <3>1. \A i \in 1 .. Count(pattern) : pattern[i] \in Words \cup {Star}
      BY <1>1, <1>2, <2>1 DEF Behind
    <3>2. Count(pattern) > 0
      <4>1. Len(pattern) = 1 => at = 2 /\ pattern[1] \in Words \cup {Star}
        BY <1>1, <1>2, <2>1, <2>3 DEF Behind, TypeOK
      <4>2. Empty \notin Words \cup {Star}
        BY PatternsAssumption
      <4>3. CASE Len(pattern) = 1
        BY <4>1, <4>2, <4>3 DEF Count
      <4>4. CASE Len(pattern) > 1
        BY <1>1, <4>4 DEF Count
      <4> QED  BY <4>3, <4>4, StringFacts DEF TypeOK
    <3>3. WellFormed(pattern)
      BY <3>1, <3>2 DEF WellFormed
    <3> QED  BY <1>1, <1>5, <2>3, <3>3
          DEF CheckEnd, Accept, AsName, TypeOK, Behind, LegalAreAccepted, MatchIsSelection
  <2> QED  BY <2>2, <2>3
<1>6. CASE MatchRest
  <2>1. at <= Count(pattern) /\ pattern[at] = Rest /\ valid /\ WellFormed(pattern)
    BY <1>1, <1>2, <1>6 DEF MatchRest, Behind
  <2>2. at = Count(pattern)
    BY <1>1, <1>2, <2>1, PatternsAssumption DEF WellFormed
  <2>3. match' <=> Selects(pattern, subject)
    <3>1. Selects(pattern, subject) <=> ~Exhausted(subject, at)
      BY <1>1, <1>2, <1>6, <2>1, <2>2 DEF MatchRest, Selects, Behind
    <3>2. match' = ~Exhausted(subject, at)
      BY <1>6 DEF MatchRest, Return
    <3> QED  BY <3>1, <3>2, Zenon
  <2> QED  BY <1>6, <2>1, <2>3
        DEF MatchRest, Return, TypeOK, Behind, LegalAreAccepted, MatchIsSelection
<1>7. CASE MatchField
  <2>1. at <= Count(pattern) /\ pattern[at] # Rest /\ valid /\ WellFormed(pattern)
    BY <1>1, <1>2, <1>7 DEF MatchField, Behind
  <2>2. CASE Exhausted(subject, at)
    <3>1. ~Selects(pattern, subject)
      BY <1>1, <1>2, <2>1, <2>2 DEF Selects
    <3> QED  BY <1>7, <2>1, <2>2, <3>1
          DEF MatchField, Return, TypeOK, Behind, LegalAreAccepted, MatchIsSelection
  <2>3. CASE ~Exhausted(subject, at) /\ Fits(pattern, subject, at)
    <3>1. Advance
      BY <1>7, <2>3 DEF MatchField, Fits
    <3> QED  BY <1>1, <1>2, <1>7, <2>1, <2>3, <3>1
          DEF MatchField, Advance, AsName, TypeOK, Behind, LegalAreAccepted, MatchIsSelection
  <2>4. CASE ~Exhausted(subject, at) /\ ~Fits(pattern, subject, at)
    <3>1. Return(FALSE)
      BY <1>7, <2>4 DEF MatchField, Fits
    <3>2. at # Count(pattern) => at < Count(pattern)
      BY <1>1, <1>2, <2>1
    <3>3. ~Selects(pattern, subject)
      BY <1>1, <1>2, <2>1, <2>4, <3>2 DEF Selects
    <3> QED  BY <1>7, <2>1, <3>1, <3>3
          DEF Return, TypeOK, Behind, LegalAreAccepted, MatchIsSelection
  <2> QED  BY <2>2, <2>3, <2>4
<1>8. CASE MatchEnd
  <2>1. at > Count(pattern) /\ valid /\ WellFormed(pattern)
    BY <1>1, <1>2, <1>8 DEF MatchEnd, Behind
  <2>2. \A i \in 1 .. Count(pattern) :
           i <= Len(subject) /\ pattern[i] # Rest /\ Fits(pattern, subject, i)
    BY <1>1, <1>2, <1>8, <2>1 DEF MatchEnd, Behind
  <2>3. at <= Count(pattern) + 1
    BY <1>8 DEF MatchEnd, Behind
  <2>4. match' <=> Selects(pattern, subject)
    <3>1. Count(pattern) > 0 /\ pattern[Count(pattern)] # Rest
      BY <1>1, <2>1, <2>2 DEF WellFormed
    <3>2. Count(pattern) <= Len(subject) /\ at = Count(pattern) + 1
      BY <1>1, <1>2, <2>1, <2>2, <2>3, <3>1
    <3>3. Selects(pattern, subject) <=> Exhausted(subject, at)
      BY <1>1, <1>2, <2>2, <3>1, <3>2 DEF Selects
    <3>4. match' = Exhausted(subject, at)
      BY <1>8 DEF MatchEnd, Return
    <3> QED  BY <3>3, <3>4, Zenon
  <2>5. match' \in BOOLEAN
    BY <1>8, Zenon DEF MatchEnd, Return, Exhausted
  <2> QED  BY <1>8, <2>1, <2>4, <2>5
        DEF MatchEnd, Return, TypeOK, Behind, LegalAreAccepted, MatchIsSelection
<1>9. CASE UNCHANGED vars
  BY <1>9 DEF vars, AsName, TypeOK, Behind, LegalAreAccepted, MatchIsSelection
<1> QED  BY <1>3, <1>4, <1>5, <1>6, <1>7, <1>8, <1>9, <1>a, <1>b DEF Next

(***************************************************************************)
(* What the checks accept and the matcher selects, for all patterns and     *)
(* subjects.                                                                *)
(***************************************************************************)
THEOREM PatternsSelectTheirSubjects ==
  Spec => [](TypeOK /\ MatchIsSelection /\ LegalAreAccepted)
<1>1. Inv => TypeOK /\ MatchIsSelection /\ LegalAreAccepted
  BY DEF Inv
<1> QED  BY InitInv, StepInv, <1>1, PTL DEF Spec

\* The cursor of both loops stays within the pattern.
THEOREM PatternsTyped == Spec => []TypeOK
BY PatternsSelectTheirSubjects, PTL

\* bjm_pattern_match agrees with the definition of what a pattern selects.
THEOREM MatchingIsCorrect == Spec => []MatchIsSelection
BY PatternsSelectTheirSubjects, PTL

\* Neither pattern_of nor h_subjects refuses a legal pattern.
THEOREM NoLegalPatternRefused == Spec => []LegalAreAccepted
BY PatternsSelectTheirSubjects, PTL

=============================================================================
