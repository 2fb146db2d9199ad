-------------------------- MODULE RetentionProofs --------------------------
(***************************************************************************)
(* Proofs about Retention, for any policies, sizes, number of marks,        *)
(* consumers and messages, and any stepping back of the clock.              *)
(***************************************************************************)
EXTENDS Retention, SubjectProofs, FiniteSetTheorems, WellFoundedInduction, TLAPS

(***************************************************************************)
(* Any set of indexes has a lowest one.                                     *)
(***************************************************************************)
LEMMA Lowest ==
  ASSUME NEW T, T \subseteq Nat, T # {}
  PROVE  \E x \in T : \A y \in T : x <= y
<1> DEFINE R == {ss \in Nat \X Nat : ss[1] < ss[2]}
<1>1. IsWellFoundedOn(R, Nat)
  BY NatLessThanWellFounded DEF OpToRel
<1> HIDE DEF R
<1>2. PICK x \in T : \A y \in T : ~(<<y, x>> \in R)
  BY <1>1, WFMin
<1>3. \A y \in T : ~(y < x)
  BY <1>2 DEF R
<1> QED
  BY <1>3

(***************************************************************************)
(* mark_publish never lets the ring outgrow BJM_MARKS_MAX: a full ring      *)
(* gives up its oldest mark first.                                          *)
(***************************************************************************)
LEMMA RingNeverOutgrown ==
  ASSUME NEW mark \in Mark, marks \subseteq Mark, IsFiniteSet(marks),
         Cardinality(marks) <= MarksMax
  PROVE  /\ MarkAdded(mark) \subseteq marks \cup {mark}
         /\ IsFiniteSet(MarkAdded(mark))
         /\ Cardinality(MarkAdded(mark)) <= MarksMax
<1> DEFINE kept == {m \in marks : \E older \in marks : older.index < m.index}
<1>0. MarksMax \in Nat \ {0} /\ Cardinality(marks) \in Nat
  BY RetentionAssumption, FS_CardinalityType
<1>1. CASE Cardinality(marks) < MarksMax
  <2>1. MarkAdded(mark) = marks \cup {mark}
    BY <1>1 DEF MarkAdded
  <2>2. /\ IsFiniteSet(marks \cup {mark})
        /\ Cardinality(marks \cup {mark}) <= Cardinality(marks) + 1
    BY <1>0, FS_AddElement
  <2>3. Cardinality(marks \cup {mark}) \in Nat
    BY <2>2, FS_CardinalityType
  <2> QED
    BY <1>0, <1>1, <2>1, <2>2, <2>3
<1>2. CASE ~(Cardinality(marks) < MarksMax)
  <2>1. MarkAdded(mark) = kept \cup {mark}
    BY <1>2 DEF MarkAdded
  <2>2. marks # {}
    BY <1>0, <1>2, FS_EmptySet
  <2>3. PICK low \in marks : \A m \in marks : low.index <= m.index
    <3> DEFINE T == {m.index : m \in marks}
    <3>1. T \subseteq Nat /\ T # {}
      BY <2>2 DEF Mark
    <3>2. PICK x \in T : \A y \in T : x <= y
      BY <3>1, Lowest
    <3> QED
      BY <3>2
  <2>4. kept \in SUBSET (marks \ {low})
    BY <2>3 DEF Mark
  <2>5. /\ IsFiniteSet(marks \ {low})
        /\ Cardinality(marks \ {low}) = Cardinality(marks) - 1
    BY <2>3, FS_RemoveElement
  <2> HIDE DEF kept
  <2>6. /\ IsFiniteSet(kept)
        /\ Cardinality(kept) <= Cardinality(marks) - 1
    BY <2>4, <2>5, FS_Subset
  <2>7. Cardinality(kept) \in Nat
    BY <2>6, FS_CardinalityType
  <2>8. /\ IsFiniteSet(kept \cup {mark})
        /\ Cardinality(kept \cup {mark}) <= Cardinality(kept) + 1
    BY <2>6, <2>7, FS_AddElement
  <2>9. Cardinality(kept \cup {mark}) \in Nat
    BY <2>8, FS_CardinalityType
  <2> QED
    BY <1>0, <2>1, <2>4, <2>6, <2>7, <2>8, <2>9
<1> QED
  BY <1>1, <1>2

-----------------------------------------------------------------------------

(***************************************************************************)
(* The inductive invariant.  Beyond the types: no live message is from the  *)
(* future; the messages lie in the file one after the other; a set of marks *)
(* is as large as the ring at most; and a mark tells no message up to it    *)
(* to be older than it is, except by as much as the clock was stepped back. *)
(* The marks on the disk are included: a power cut brings them back.        *)
(***************************************************************************)
NotFromTheFuture == \A i \in Live : born[i] <= now

EndsGrow == \A i, j \in base .. last : i <= j => ends[i] <= ends[j]

FitsTheRing(ms) == IsFiniteSet(ms) /\ Cardinality(ms) <= MarksMax

MarksAreSafe(ms) ==
  \A m \in ms :
    /\ m.index <= last
    /\ \A i \in Live : i <= m.index => born[i] <= m.time + skew

RetentionInv ==
  /\ SubjectInv
  /\ RetentionTypeOK
  /\ NotFromTheFuture
  /\ EndsGrow
  /\ FitsTheRing(marks) /\ FitsTheRing(syncedMarks)
  /\ MarksAreSafe(marks) /\ MarksAreSafe(syncedMarks)

LEMMA PoliciesAreTyped ==
  RetentionTypeOK => policy \in Policy
<1>1. Unlimited \in Policy
  BY DEF Unlimited, Policy
<1> QED
  BY <1>1, RetentionAssumption DEF RetentionTypeOK

LEMMA RetentionInvInit == Init => RetentionInv
<1> SUFFICES ASSUME Init PROVE RetentionInv
  OBVIOUS
<1>1. SubjectInv /\ last = 0 /\ base = 0
  BY SubjectInvInit DEF Init, SubjectInit
<1>2. IsFiniteSet({}) /\ Cardinality({}) = 0
  BY FS_EmptySet
<1>3. FitsTheRing(marks) /\ FitsTheRing(syncedMarks)
  BY <1>2, RetentionAssumption DEF Init, FitsTheRing
<1>4. RetentionTypeOK
  BY <1>1, <1>3, RetentionAssumption DEF Init, RetentionTypeOK, Live, FitsTheRing
<1>5. NotFromTheFuture /\ EndsGrow /\ MarksAreSafe(marks) /\ MarksAreSafe(syncedMarks)
  BY <1>1 DEF Init, NotFromTheFuture, EndsGrow, MarksAreSafe, Live
<1> QED
  BY <1>1, <1>3, <1>4, <1>5 DEF RetentionInv

(***************************************************************************)
(* A publish: the new message is the youngest, and a mark left for it is    *)
(* taken at the clock's present time.                                       *)
(***************************************************************************)
LEMMA PublishSizedInv ==
  ASSUME RetentionInv, NEW size \in Sizes, PublishSized(size)
  PROVE  RetentionInv'
<1> DEFINE index == last + 1
           age   == IF cachedAge = NotLoaded THEN policy.age ELSE cachedAge
           mark  == [index |-> index, time |-> Wall]
<1>0. /\ last \in Nat /\ base \in Nat /\ base <= last
      /\ now \in Nat /\ skew \in Nat /\ skew < now /\ Wall \in Nat
      /\ size \in Nat
      /\ born \in [Live -> Nat] /\ ends \in [base .. last -> Nat]
      /\ marks \subseteq Mark /\ Cardinality(marks) <= MarksMax
  BY RetentionAssumption
     DEF RetentionInv, RetentionTypeOK, SubjectInv, SubjectTypeOK, Wall
<1>1. SubjectInv' /\ last' = index /\ base' = base
  BY PublishInv DEF RetentionInv, PublishSized, Publish
<1>2. /\ UNCHANGED <<policy, syncedMarks, now, skew, since>>
      /\ cachedAge' = age
      /\ \/ marks' = MarkAdded(mark) /\ lastMark' = Wall
         \/ UNCHANGED <<marks, lastMark>>
      /\ born' = [i \in Live \cup {index} |-> IF i = index THEN now ELSE born[i]]
      /\ ends' = [i \in base .. index |->
                    IF i = index THEN ends[last] + size ELSE ends[i]]
  BY DEF PublishSized, clockVars
<1>3. Live' = Live \cup {index}
  BY <1>0, <1>1 DEF Live
<1>4. born' \in [Live' -> Nat] /\ \A i \in Live : i # index /\ born'[i] = born[i]
  BY <1>0, <1>2, <1>3 DEF Live
<1>5. born'[index] = now
  BY <1>2
<1>6. ends' \in [base' .. last' -> Nat]
  BY <1>0, <1>1, <1>2
<1>7. mark \in Mark
  BY <1>0 DEF Mark
<1>8. /\ marks' \subseteq marks \cup {mark}
      /\ IsFiniteSet(marks') /\ Cardinality(marks') <= MarksMax
  <2>1. IsFiniteSet(marks)
    BY DEF RetentionInv, FitsTheRing
  <2> QED
    BY <1>0, <1>2, <1>7, <2>1, RingNeverOutgrown
<1>9. age \in Nat
  BY PoliciesAreTyped DEF RetentionInv, RetentionTypeOK, Policy
<1>10. RetentionTypeOK'
  BY <1>0, <1>1, <1>2, <1>4, <1>6, <1>7, <1>8, <1>9 DEF RetentionInv, RetentionTypeOK
<1>11. NotFromTheFuture'
  BY <1>0, <1>2, <1>3, <1>4, <1>5 DEF RetentionInv, NotFromTheFuture
<1>12. EndsGrow'
  <2> SUFFICES ASSUME NEW i \in base .. index, NEW j \in base .. index, i <= j
               PROVE  ends'[i] <= ends'[j]
    BY <1>1 DEF EndsGrow
  <2>1. CASE i = index
    BY <1>0, <1>2, <2>1
  <2>2. CASE i # index /\ j = index
    <3>1. i \in base .. last /\ last \in base .. last
      BY <1>0, <2>2
    <3>2. ends[i] <= ends[last] /\ ends[i] \in Nat /\ ends[last] \in Nat
      BY <1>0, <3>1 DEF RetentionInv, EndsGrow
    <3> QED
      BY <1>0, <1>2, <2>2, <3>2
  <2>3. CASE i # index /\ j # index
    BY <1>0, <1>2, <2>3 DEF RetentionInv, EndsGrow
  <2> QED
    BY <2>1, <2>2, <2>3
<1>13. \A m \in marks \cup syncedMarks :
         /\ m.index \in Nat /\ m.time \in Nat /\ m.index <= last
         /\ \A i \in Live : i <= m.index => born[i] <= m.time + skew
  BY DEF RetentionInv, MarksAreSafe, RetentionTypeOK, Mark
<1>14. \A m \in marks \cup syncedMarks :
         /\ m.index <= last'
         /\ \A i \in Live' : i <= m.index => born'[i] <= m.time + skew'
  BY <1>0, <1>1, <1>2, <1>3, <1>4, <1>13
<1>15. /\ mark.index <= last'
       /\ \A i \in Live' : born'[i] <= mark.time + skew'
  <2>1. mark.index = last + 1 /\ mark.time + skew' = now
    BY <1>0, <1>2 DEF Wall
  <2>2. \A i \in Live' : born'[i] <= now
    BY <1>0, <1>2, <1>11 DEF NotFromTheFuture
  <2> QED
    BY <1>0, <1>1, <2>1, <2>2
<1> HIDE DEF mark, age
<1>16. MarksAreSafe(marks)' /\ MarksAreSafe(syncedMarks)'
  BY <1>2, <1>8, <1>14, <1>15 DEF MarksAreSafe
<1>17. FitsTheRing(marks)' /\ FitsTheRing(syncedMarks)'
  BY <1>2, <1>8 DEF RetentionInv, FitsTheRing
<1> QED
  BY <1>1, <1>10, <1>11, <1>12, <1>16, <1>17 DEF RetentionInv

(***************************************************************************)
(* bjm_trim raises base to no more than what was asked for, the last index  *)
(* and, unless it is forced, every receipt.                                 *)
(***************************************************************************)
LEMMA TrimStops ==
  ASSUME SubjectInv, NEW before \in Int, NEW force \in BOOLEAN,
         Trim(before, force, {})
  PROVE  /\ base' \in Nat /\ base' > base /\ base' <= last /\ base' <= before - 1
         /\ ~force => \A c \in Subscribed : base' <= receipt[c]
         /\ SubjectInv'
         /\ UNCHANGED <<last, receipt>>
<1> DEFINE limits == TrimLimits(before, force, {})
<1>1. PICK newBase \in limits :
        /\ \A limit \in limits : newBase <= limit
        /\ newBase > base
        /\ base' = newBase
  BY DEF Trim
<1>2. limits \subseteq Int /\ before - 1 \in limits /\ last \in limits
  BY SubjectAssumption DEF TrimLimits, Subscribed, Receipts, SubjectInv, SubjectTypeOK
<1>3. ~force => \A c \in Subscribed : receipt[c] \in limits
  BY DEF TrimLimits
<1> HIDE DEF limits
<1>4. /\ base' \in Nat /\ base' > base /\ base' <= last /\ base' <= before - 1
      /\ ~force => \A c \in Subscribed : base' <= receipt[c]
  <2>1. base \in Nat /\ base' \in Int /\ base' > base
    BY <1>1, <1>2 DEF SubjectInv, SubjectTypeOK
  <2>2. \A limit \in limits : base' <= limit
    BY <1>1
  <2>3. base' <= last /\ base' <= before - 1
    BY <1>2, <2>2
  <2>4. ~force => \A c \in Subscribed : base' <= receipt[c]
    BY <1>3, <2>2
  <2> QED
    BY <2>1, <2>3, <2>4
<1>5. UNCHANGED <<last, receipt, durable, joined, got, confirmed>>
  BY DEF Trim, cursorVars, historyVars
<1>6. SubjectInv'
  BY <1>4, <1>5 DEF SubjectInv, SubjectTypeOK, DurableBehind, ConfirmedAcksSurvive
<1> QED
  BY <1>4, <1>5, <1>6

LEMMA ShorterInterval ==
  ASSUME NEW a \in Nat, NEW b \in Nat, NEW c \in Nat, b > a
  PROVE  b + 1 .. c \subseteq a + 1 .. c
  OBVIOUS

(***************************************************************************)
(* What a trim leaves behind, whoever asked for it and whether or not the   *)
(* marks are pruned.                                                        *)
(***************************************************************************)
LEMMA AfterTrimInv ==
  ASSUME RetentionInv, SubjectInv', UNCHANGED last,
         base' \in Nat, base' > base, base' <= last,
         NEW prune \in BOOLEAN, AfterTrim(prune),
         UNCHANGED <<policy, syncedMarks, cachedAge, lastMark, clockVars, since>>
  PROVE  RetentionInv'
<1>0. /\ last \in Nat /\ base \in Nat /\ now \in Nat /\ skew \in Nat
      /\ born \in [Live -> Nat] /\ ends \in [base .. last -> Nat]
      /\ UNCHANGED <<now, skew>>
  BY DEF RetentionInv, RetentionTypeOK, SubjectInv, SubjectTypeOK, clockVars
<1>1. /\ marks' \in SUBSET marks
      /\ born' = [i \in base' + 1 .. last |-> born[i]]
      /\ ends' = [i \in base' .. last |-> ends[i] - ends[base']]
  BY DEF AfterTrim
<1>2. FitsTheRing(marks)' /\ FitsTheRing(syncedMarks)'
  <2>1. IsFiniteSet(marks) /\ Cardinality(marks) <= MarksMax
    BY DEF RetentionInv, FitsTheRing
  <2>2. IsFiniteSet(marks') /\ Cardinality(marks') <= Cardinality(marks)
    BY <1>1, <2>1, FS_Subset
  <2>3. Cardinality(marks) \in Nat /\ Cardinality(marks') \in Nat /\ MarksMax \in Nat
    BY <2>1, <2>2, FS_CardinalityType, RetentionAssumption
  <2> QED
    BY <2>1, <2>2, <2>3 DEF RetentionInv, FitsTheRing
<1>3. Live' \subseteq Live /\ Live' = base' + 1 .. last
  <2>1. Live' = base' + 1 .. last
    BY DEF Live
  <2>2. base' + 1 .. last \subseteq base + 1 .. last
    BY <1>0, ShorterInterval
  <2> QED
    BY <2>1, <2>2 DEF Live
<1>4. born' \in [Live' -> Nat] /\ \A i \in Live' : born'[i] = born[i]
  BY <1>0, <1>1, <1>3
<1>5. \A i \in base' .. last : /\ i \in base .. last /\ ends[base'] <= ends[i]
                               /\ ends[i] \in Nat /\ ends[base'] \in Nat
  BY <1>0 DEF RetentionInv, EndsGrow
<1>6. ends' \in [base' .. last' -> Nat]
  BY <1>0, <1>1, <1>5
<1>7. RetentionTypeOK'
  BY <1>0, <1>1, <1>2, <1>4, <1>6 DEF RetentionInv, RetentionTypeOK, FitsTheRing
<1>8. NotFromTheFuture'
  BY <1>0, <1>3, <1>4 DEF RetentionInv, NotFromTheFuture
<1>9. EndsGrow'
  BY <1>0, <1>1, <1>5 DEF RetentionInv, EndsGrow
<1>10. MarksAreSafe(marks)' /\ MarksAreSafe(syncedMarks)'
  BY <1>0, <1>1, <1>3, <1>4 DEF RetentionInv, MarksAreSafe
<1> QED
  BY <1>2, <1>7, <1>8, <1>9, <1>10 DEF RetentionInv

(***************************************************************************)
(* Every boundary policy_boundary proposes is an integer.                   *)
(***************************************************************************)
LEMMA ProposalsAreIndexes ==
  ASSUME RetentionInv
  PROVE  Proposals(policy) \subseteq Int
<1>0. /\ policy \in Policy /\ last \in Nat /\ base \in Nat /\ base <= last
      /\ ends[last] \in Nat /\ FileLen \in Nat
  BY PoliciesAreTyped, RetentionAssumption
     DEF RetentionInv, RetentionTypeOK, SubjectInv, SubjectTypeOK, FileLen
<1>1. ByMessages(policy) \subseteq Int
  BY <1>0 DEF ByMessages, Policy
<1>2. ByAge(policy) \subseteq Int
  BY DEF ByAge, RetentionInv, RetentionTypeOK, Mark
<1>3. ASSUME last # base PROVE ByBytes(policy) \subseteq Int
  <2> DEFINE live == last - base
             avg  == IF FileLen \div live = 0 THEN 1 ELSE FileLen \div live
             drop == IF Drop(policy, avg) > live THEN live ELSE Drop(policy, avg)
  <2>1. live \in Nat \ {0}
    BY <1>0, <1>3
  <2>2. FileLen \div live \in Nat
    BY <1>0, <2>1
  <2>3. avg \in Nat \ {0}
    BY <2>2
  <2> HIDE DEF avg
  <2>4. Drop(policy, avg) \in Int
    BY <1>0, <2>3 DEF Drop, Policy
  <2>5. base + drop + 1 \in Int
    BY <1>0, <2>1, <2>4
  <2> QED
    BY <2>5 DEF ByBytes, avg
<1> QED
  BY <1>1, <1>2, <1>3 DEF Proposals

(***************************************************************************)
(* A sweep is a trim at a proposed boundary, forced if the policy ignores   *)
(* the consumers.                                                           *)
(***************************************************************************)
LEMMA SweepTrims ==
  ASSUME RetentionInv, Sweep
  PROVE  /\ RetentionInv'
         /\ base' \in Nat /\ base' > base /\ base' <= last
         /\ \E before \in Proposals(policy) : base' <= before - 1
         /\ policy.ignore \/ \A c \in Subscribed : base' <= receipt[c]
<1>1. PICK before \in Proposals(policy) : Trim(before, policy.ignore, {})
  BY DEF Sweep
<1>2. before \in Int /\ policy.ignore \in BOOLEAN
  BY PoliciesAreTyped, ProposalsAreIndexes DEF RetentionInv, Policy
<1>3. /\ base' \in Nat /\ base' > base /\ base' <= last /\ base' <= before - 1
      /\ ~policy.ignore => \A c \in Subscribed : base' <= receipt[c]
      /\ SubjectInv' /\ UNCHANGED last
  BY <1>1, <1>2, TrimStops DEF RetentionInv
<1>4. RetentionInv'
  BY <1>3, AfterTrimInv DEF Sweep
<1> QED
  BY <1>3, <1>4

LEMMA TrimByHandInv ==
  ASSUME RetentionInv, NEW before \in HandTrims, NEW force \in ForceFlags,
         NEW opened \in BOOLEAN, TrimByHand(before, force, opened)
  PROVE  RetentionInv'
<1>1. before \in Int /\ force \in BOOLEAN
  BY RetentionAssumption, SubjectAssumption
<1>2. /\ base' \in Nat /\ base' > base /\ base' <= last
      /\ SubjectInv' /\ UNCHANGED last
  BY <1>1, TrimStops DEF RetentionInv, TrimByHand
<1> QED
  BY <1>2, AfterTrimInv DEF TrimByHand

(***************************************************************************)
(* The steps that touch neither the log nor its messages: the policy, the   *)
(* receipts, the process, the clock.                                        *)
(***************************************************************************)
LEMMA QuietInv ==
  ASSUME RetentionInv, SubjectInv', UNCHANGED <<last, base, messageVars>>,
         policy' \in Policies \cup {Unlimited},
         marks' \subseteq marks \cup syncedMarks, Cardinality(marks') <= MarksMax,
         syncedMarks' \in {marks', syncedMarks},
         cachedAge' \in {cachedAge, NotLoaded}, lastMark' \in {lastMark, 0},
         now' \in Nat, now' >= now, skew' \in Nat, skew' >= skew, skew' < now',
         since' \in 0 .. last
  PROVE  RetentionInv'
<1>0. /\ last \in Nat /\ base \in Nat /\ now \in Nat /\ skew \in Nat
      /\ born \in [Live -> Nat] /\ born' = born /\ ends' = ends /\ Live' = Live
  BY DEF RetentionInv, RetentionTypeOK, SubjectInv, SubjectTypeOK, messageVars, Live
<1>1. /\ marks' \subseteq Mark /\ syncedMarks' \subseteq Mark
      /\ \A m \in marks' \cup syncedMarks' : m \in marks \/ m \in syncedMarks
  BY DEF RetentionInv, RetentionTypeOK
<1>2. FitsTheRing(marks') /\ FitsTheRing(syncedMarks')
  <2>1. IsFiniteSet(marks \cup syncedMarks)
    BY FS_Union DEF RetentionInv, FitsTheRing
  <2>2. IsFiniteSet(marks')
    BY <2>1, FS_Subset
  <2> QED  BY <2>2 DEF RetentionInv, FitsTheRing
<1>3. ASSUME NEW m \in marks' \cup syncedMarks'
      PROVE  /\ m.index <= last'
             /\ \A i \in Live' : i <= m.index => born'[i] <= m.time + skew'
  <2>1. m \in Mark /\ (m \in marks \/ m \in syncedMarks)
    BY <1>1
  <2> QED  BY <1>0, <2>1 DEF RetentionInv, MarksAreSafe, Mark
<1>4. /\ FitsTheRing(marks)' /\ FitsTheRing(syncedMarks)'
      /\ MarksAreSafe(marks)' /\ MarksAreSafe(syncedMarks)'
  BY <1>2, <1>3 DEF FitsTheRing, MarksAreSafe
<1>5. RetentionTypeOK'
  BY <1>0, <1>1, <1>4 DEF RetentionInv, RetentionTypeOK, FitsTheRing
<1>6. NotFromTheFuture' /\ EndsGrow'
  BY <1>0 DEF RetentionInv, NotFromTheFuture, EndsGrow
<1> QED
  BY <1>4, <1>5, <1>6 DEF RetentionInv

LEMMA RetentionInvNext == RetentionInv /\ [Next]_vars => RetentionInv'
<1> SUFFICES ASSUME RetentionInv, [Next]_vars
             PROVE  RetentionInv'
  OBVIOUS
<1>0. /\ SubjectInv /\ RetentionTypeOK
      /\ last \in Nat /\ base \in 0 .. last /\ now \in Nat /\ skew \in Nat /\ skew < now
      /\ policy \in Policies \cup {Unlimited} /\ since \in 0 .. last
      /\ 0 \in 0 .. last /\ last \in 0 .. last
  BY DEF RetentionInv, RetentionTypeOK, SubjectInv, SubjectTypeOK
<1>k. /\ Cardinality(marks) <= MarksMax /\ {} \subseteq marks \cup syncedMarks
      /\ Cardinality({}) = 0 /\ 0 <= MarksMax
  BY FS_EmptySet, RetentionAssumption DEF RetentionInv, RetentionTypeOK
<1>1. \A p : Steady(p) \in 0 .. last
  BY <1>0 DEF Steady
<1>2. UNCHANGED subjectVars => SubjectInv' /\ UNCHANGED <<last, base>>
  BY <1>0 DEF SubjectInv, SubjectTypeOK, DurableBehind, ConfirmedAcksSurvive, subjectVars
<1>3. ASSUME NEW size \in Sizes, PublishSized(size) PROVE RetentionInv'
  BY <1>3, PublishSizedInv
<1>4. ASSUME NEW p \in Policies, PolicySet(p) PROVE RetentionInv'
  <2>1. since' \in 0 .. last
    BY <1>4, <1>1 DEF PolicySet, Steady
  <2> QED
    BY <1>4, <1>0, <1>2, <2>1, <1>k, QuietInv DEF PolicySet, clockVars
<1>5. CASE PolicyClear
  <2>1. since' \in 0 .. last
    BY <1>5, <1>0 DEF PolicyClear, Steady, Unlimited
  <2> QED
    BY <1>5, <1>0, <1>2, <2>1, <1>k, QuietInv DEF PolicyClear, clockVars
<1>6. CASE Sweep
  BY <1>6, SweepTrims
<1>7. ASSUME NEW before \in HandTrims, NEW force \in ForceFlags, NEW opened \in BOOLEAN,
             TrimByHand(before, force, opened)
      PROVE  RetentionInv'
  BY <1>7, TrimByHandInv
<1>8. ASSUME NEW c \in Consumers, NEW index \in SeekTargets, Pin(c, index)
      PROVE  RetentionInv'
  <2>1. index \in Acks(c)
    BY SubjectAssumption DEF Acks
  <2>2. SubjectInv' /\ UNCHANGED <<last, base>>
    BY <1>8, <1>0, <2>1, AckInv DEF Pin, Ack, logVars
  <2> QED
    BY <1>8, <1>0, <2>2, <1>k, QuietInv DEF Pin, clockVars, memoryVars
<1>9. CASE Restart
  <2>1. since' \in 0 .. last
    BY <1>9, <1>1 DEF Restart, Forget
  <2> QED
    BY <1>9, <1>0, <1>2, <2>1, <1>k, QuietInv DEF Restart, Forget, clockVars
<1>10. CASE PowerCut
  <2>1. since' \in 0 .. last
    BY <1>10, <1>1 DEF PowerCut, Forget
  <2>2. SubjectInv' /\ UNCHANGED <<last, base>>
    BY <1>10, <1>0, LosePowerInv DEF PowerCut, LosePower, logVars
  <2> QED
    <3>1. /\ marks' \subseteq marks \cup syncedMarks /\ syncedMarks' = marks'
          /\ Cardinality(marks') <= MarksMax
      BY <1>10 DEF PowerCut, Versions, Written
    <3> QED
      BY <1>10, <1>0, <2>1, <2>2, <3>1, <1>k, QuietInv DEF PowerCut, Forget, clockVars
<1>11. CASE Tick
  BY <1>11, <1>0, <1>2, <1>k, QuietInv DEF Tick, memoryVars
<1>12. CASE ClockBack
  <2>1. since' \in 0 .. last
    BY <1>12, <1>1 DEF ClockBack
  <2>2. skew' \in Nat /\ skew' >= skew /\ skew' < now
    BY <1>12, <1>0 DEF ClockBack, Wall
  <2> QED
    BY <1>12, <1>0, <1>2, <2>1, <2>2, <1>k, QuietInv DEF ClockBack, memoryVars
<1>13. CASE UNCHANGED vars
  BY <1>13, <1>0, <1>2, <1>k, QuietInv DEF vars, memoryVars, clockVars
<1> QED
  BY <1>3, <1>4, <1>5, <1>6, <1>7, <1>8, <1>9, <1>10, <1>11, <1>12, <1>13 DEF Next

-----------------------------------------------------------------------------

(***************************************************************************)
(* Type correctness, the bound on the ring of marks included.               *)
(***************************************************************************)
THEOREM RetentionTypeCorrect == RetentionSpec => []RetentionTypeOK
<1>1. RetentionInv => RetentionTypeOK
  BY DEF RetentionInv
<1> QED
  BY <1>1, RetentionInvInit, RetentionInvNext, PTL DEF RetentionSpec

(***************************************************************************)
(* A sweep removes a message only for a reason the policy gives, and no     *)
(* unread one unless the policy says so: the marks never make a message     *)
(* look older than it is, through trims, restarts, power cuts, changes of   *)
(* policy and steps of the clock.                                           *)
(***************************************************************************)
THEOREM OnlyDueMessagesGo == RetentionSpec => SweepsOnlyWhatIsDue
<1> DEFINE A == base' > base /\ Sweep =>
                  \A i \in base + 1 .. base' : Due(policy, i)
<1>1. RetentionInv /\ [Next]_vars => [A]_vars
  <2> SUFFICES ASSUME RetentionInv, Sweep, NEW i \in base + 1 .. base'
               PROVE  Due(policy, i)
    OBVIOUS
  <2>1. /\ base' \in Nat /\ base' <= last
        /\ policy.ignore \/ \A c \in Subscribed : base' <= receipt[c]
    BY SweepTrims
  <2>2. PICK before \in Proposals(policy) : base' <= before - 1
    BY SweepTrims
  <2>3. /\ last \in Nat /\ base \in Nat /\ policy \in Policy /\ now \in Nat /\ skew \in Nat
        /\ before \in Int /\ i \in Live /\ i <= before - 1 /\ i \in Nat
        /\ born[i] \in Nat
    <3>1. /\ last \in Nat /\ base \in Nat /\ policy \in Policy
          /\ now \in Nat /\ skew \in Nat /\ born \in [Live -> Nat]
      BY PoliciesAreTyped DEF RetentionInv, RetentionTypeOK, SubjectInv, SubjectTypeOK
    <3>2. before \in Int
      BY <2>2, ProposalsAreIndexes
    <3>3. i \in Live /\ i <= before - 1 /\ i \in Nat
      BY <2>1, <2>2, <3>1, <3>2 DEF Live
    <3> QED
      BY <3>1, <3>2, <3>3
  <2>4. policy.ignore \/ \A c \in Subscribed : i <= receipt[c]
    BY <2>1, <2>3, SubjectAssumption
       DEF RetentionInv, SubjectInv, SubjectTypeOK, Subscribed, Receipts
  <2>5. CASE before \in ByMessages(policy)
    BY <2>3, <2>4, <2>5 DEF ByMessages, Due, Policy
  <2>6. CASE before \in ByBytes(policy)
    BY <2>4, <2>6 DEF ByBytes, Due
  <2>7. CASE before \in ByAge(policy)
    <3>1. PICK m \in marks : before = m.index + 1 /\ m.time < Wall - policy.age
      BY <2>7 DEF ByAge
    <3>2. policy.age > 0 /\ policy.age \in Nat
      BY <2>3, <2>7 DEF ByAge, Policy
    <3>3. m.index \in Nat /\ m.time \in Nat /\ i <= m.index
      BY <2>3, <3>1 DEF RetentionInv, RetentionTypeOK, Mark
    <3>4. born[i] <= m.time + skew
      BY <2>3, <3>3 DEF RetentionInv, MarksAreSafe
    <3>5. now - born[i] > policy.age
      BY <2>3, <3>1, <3>2, <3>3, <3>4 DEF Wall
    <3> QED
      BY <2>4, <3>2, <3>5 DEF Due
  <2> QED
    BY <2>2, <2>5, <2>6, <2>7 DEF Proposals
<1> QED
  BY <1>1, RetentionInvInit, RetentionInvNext, PTL
     DEF RetentionSpec, SweepsOnlyWhatIsDue

(***************************************************************************)
(* While a log is beyond a bound of its policy a sweep has something to     *)
(* remove: rounding up never proposes nothing.                              *)
(***************************************************************************)
LEMMA QuotientAtLeastOne ==
  ASSUME NEW a \in Nat, NEW b \in Nat \ {0}, a >= b
  PROVE  a \div b >= 1
  OBVIOUS

THEOREM RetentionBoundsHold == RetentionSpec => []SweepsConverge
<1>1. RetentionInv => SweepsConverge
  <2> SUFFICES ASSUME RetentionInv, ~Within(policy)
               PROVE  \E before \in Proposals(policy) : before > base + 1
    BY DEF SweepsConverge
  <2>1. /\ policy \in Policy /\ last \in Nat /\ base \in Nat /\ base <= last
        /\ FileLen \in Nat
    BY PoliciesAreTyped, RetentionAssumption
       DEF RetentionInv, RetentionTypeOK, SubjectInv, SubjectTypeOK, FileLen
  <2>2. policy.messages \in Nat /\ policy.bytes \in Nat
    BY <2>1 DEF Policy
  <2>3. CASE policy.messages > 0 /\ ~(last - base <= policy.messages)
    <3> DEFINE before == last - policy.messages + 1
    <3>1. before \in ByMessages(policy) /\ last # base /\ before > base + 1
      BY <2>1, <2>2, <2>3 DEF ByMessages
    <3> QED
      BY <3>1 DEF Proposals
  <2>4. CASE policy.bytes > 0 /\ ~(FileLen <= policy.bytes \/ last = base)
    <3> DEFINE live == last - base
               avg  == IF FileLen \div live = 0 THEN 1 ELSE FileLen \div live
               drop == IF Drop(policy, avg) > live THEN live ELSE Drop(policy, avg)
    <3>1. live \in Nat \ {0} /\ FileLen > policy.bytes
      BY <2>1, <2>2, <2>4
    <3>2. avg \in Nat \ {0}
      <4>1. FileLen \div live \in Nat
        BY <2>1, <3>1
      <4> QED
        BY <4>1
    <3>3. ByBytes(policy) = {base + drop + 1}
      BY <2>4, <3>1 DEF ByBytes
    <3> HIDE DEF avg
    <3>4. Drop(policy, avg) \in Int /\ Drop(policy, avg) >= 1
      <4> DEFINE a == FileLen - policy.bytes + avg - 1
      <4>1. a \in Nat /\ a >= avg
        BY <2>1, <2>2, <3>1, <3>2
      <4>2. Drop(policy, avg) = a \div avg
        BY DEF Drop
      <4> HIDE DEF a
      <4>3. a \div avg \in Nat
        BY <3>2, <4>1
      <4> QED
        BY <3>2, <4>1, <4>2, <4>3, QuotientAtLeastOne
    <3>5. base + drop + 1 > base + 1
      BY <2>1, <3>1, <3>4
    <3> QED
      BY <2>4, <3>3, <3>5 DEF Proposals
  <2> QED
    BY <2>3, <2>4 DEF Within
<1> QED
  BY <1>1, RetentionInvInit, RetentionInvNext, PTL DEF RetentionSpec

-----------------------------------------------------------------------------

(***************************************************************************)
(* Overstaying.  The second inductive invariant says what the marks are     *)
(* worth once a policy is in force and the clock steady, that is of the     *)
(* messages above `since'.  It speaks of the intervals that can pass within *)
(* the bound on the clock: of longer ones there is nothing to say.          *)
(***************************************************************************)
Reckoned == policy.age > 0 /\ Interval(policy.age) <= MaxTime

\* The publisher's copy of the age is the policy's, and its last mark is
\* not in the future of real time (it may be in the future of the clock).
CopiesAgree ==
  now <= MaxTime /\ lastMark <= now /\ cachedAge \in {NotLoaded, policy.age}

BornInOrder == \A i, j \in Live : i <= j => born[i] <= born[j]

OneMarkEach(ms) == \A m, n \in ms : m.index = n.index => m = n

\* The first publish above `since' settles lastMark.
LastMarkKnown == last > since => lastMark # 0 /\ lastMark <= Wall

\* A mark above `since' has the time of the message it names.
MarksTrue ==
  \A m \in marks :
    m.index > since =>
      /\ m.time <= lastMark
      /\ m.index \in Live => m.time + skew = born[m.index]

MarksSpaced ==
  \A m, n \in marks :
    since < m.index /\ m.index < n.index =>
      m.time + Interval(policy.age) <= n.time

\* The ring gives up its oldest mark, so the newest is there.
NewestKept ==
  \A i \in Live :
    i > since /\ lastMark + skew > born[i] => \E m \in marks : m.index > i

\* The ring holds as many marks as it can and all were left after message j.
RolledOver(j) ==
  Cardinality(marks) = MarksMax /\ \A m \in marks : m.index > j

\* Between two messages an interval apart there is a mark, or was.
PairsMarked ==
  \A i, j \in Live :
    since < i /\ born[j] - born[i] >= Interval(policy.age) =>
      RolledOver(j) \/ \E m \in marks : i <= m.index /\ m.index <= j

SteadyMarks ==
  LastMarkKnown /\ MarksTrue /\ MarksSpaced /\ NewestKept /\ PairsMarked

OverstayInv ==
  /\ CopiesAgree
  /\ BornInOrder
  /\ OneMarkEach(marks \cup syncedMarks)
  /\ Reckoned => SteadyMarks

LEMMA IntervalsArePositive ==
  ASSUME NEW age \in Nat
  PROVE  Interval(age) \in Nat /\ Interval(age) >= 1
<1>1. age \div MarksPerWindow \in Nat
  BY RetentionAssumption
<1> QED
  BY <1>1 DEF Interval

(***************************************************************************)
(* What mark_publish's unsigned difference comes to, for intervals within   *)
(* the bound on the clock.                                                  *)
(***************************************************************************)
LEMMA SmallRemainder ==
  ASSUME NEW w \in Nat \ {0}, NEW x \in 0 .. w - 1
  PROVE  x % w = x
  OBVIOUS

LEMMA WrappedRemainder ==
  ASSUME NEW w \in Nat \ {0}, NEW x \in 1 .. w - 1
  PROVE  (-x) % w = w - x
  OBVIOUS

LEMMA DueUnlessRecent ==
  ASSUME NEW age \in Nat, age > 0, Interval(age) <= MaxTime,
         now \in Nat, skew \in Nat, skew < now, now <= MaxTime,
         lastMark \in Nat, lastMark <= now
  PROVE  MarkDue(age) <=> \/ lastMark = 0
                          \/ lastMark > Wall
                          \/ Wall - lastMark >= Interval(age)
<1>1. /\ Wall \in Nat /\ Wall > 0 /\ Wall <= MaxTime
      /\ MaxTime \in Nat /\ Word \in Nat /\ Word > 2 * MaxTime
      /\ Interval(age) \in Nat
  BY RetentionAssumption, IntervalsArePositive DEF Wall
<1>2. CASE lastMark <= Wall
  <2>1. Wall - lastMark \in 0 .. Word - 1 /\ Word \in Nat \ {0}
    BY <1>1, <1>2
  <2>2. (Wall - lastMark) % Word = Wall - lastMark
    BY <2>1, SmallRemainder
  <2> QED
    BY <1>1, <1>2, <2>2 DEF MarkDue
<1>3. CASE lastMark > Wall
  <2> DEFINE x == lastMark - Wall
  <2>1. x \in 1 .. Word - 1 /\ Word \in Nat \ {0} /\ Wall - lastMark = -x /\ x <= MaxTime
    BY <1>1, <1>3
  <2>2. (Wall - lastMark) % Word = Word - x
    BY <2>1, WrappedRemainder
  <2>3. Word - x >= Interval(age)
    BY <1>1, <2>1
  <2> QED
    BY <1>3, <2>2, <2>3 DEF MarkDue
<1> QED
  BY <1>1, <1>2, <1>3

(***************************************************************************)
(* What mark_publish does to a ring of marks that each name a message of    *)
(* their own: a full ring loses the lowest one and stays full.              *)
(***************************************************************************)
LEMMA RingRolls ==
  ASSUME NEW mark \in Mark, marks \subseteq Mark, FitsTheRing(marks),
         OneMarkEach(marks), \A m \in marks : m.index < mark.index
  PROVE  \/ Cardinality(marks) < MarksMax /\ MarkAdded(mark) = marks \cup {mark}
         \/ \E low \in marks :
              /\ \A m \in marks \ {low} : low.index < m.index
              /\ MarkAdded(mark) = (marks \ {low}) \cup {mark}
              /\ Cardinality(MarkAdded(mark)) = MarksMax
<1> DEFINE kept == {m \in marks : \E older \in marks : older.index < m.index}
<1>0. /\ MarksMax \in Nat \ {0} /\ Cardinality(marks) \in Nat /\ IsFiniteSet(marks)
      /\ Cardinality(marks) <= MarksMax
  BY RetentionAssumption, FS_CardinalityType DEF FitsTheRing
<1>1. CASE Cardinality(marks) < MarksMax
  BY <1>1 DEF MarkAdded
<1>2. CASE ~(Cardinality(marks) < MarksMax)
  <2>1. MarkAdded(mark) = kept \cup {mark} /\ Cardinality(marks) = MarksMax
    BY <1>0, <1>2 DEF MarkAdded
  <2>2. marks # {}
    BY <1>0, <1>2, FS_EmptySet
  <2>3. PICK low \in marks : \A m \in marks : low.index <= m.index
    <3> DEFINE T == {m.index : m \in marks}
    <3>1. T \subseteq Nat /\ T # {}
      BY <2>2 DEF Mark
    <3>2. PICK x \in T : \A y \in T : x <= y
      BY <3>1, Lowest
    <3> QED
      BY <3>2
  <2>4. \A m \in marks : m.index \in Nat
    BY DEF Mark
  <2>5. \A m \in marks \ {low} : low.index < m.index
    BY <2>3, <2>4 DEF OneMarkEach
  <2>6. kept = marks \ {low}
    BY <2>3, <2>4, <2>5
  <2>7. /\ IsFiniteSet(marks \ {low})
        /\ Cardinality(marks \ {low}) = MarksMax - 1
    BY <1>0, <2>1, <2>3, FS_RemoveElement
  <2>8. mark \notin marks \ {low}
    <3>1. mark.index \in Nat
      BY DEF Mark
    <3> QED
      BY <3>1
  <2>9. Cardinality((marks \ {low}) \cup {mark}) = MarksMax
    <3>1. Cardinality((marks \ {low}) \cup {mark}) = Cardinality(marks \ {low}) + 1
      BY <2>7, <2>8, FS_AddElement
    <3> QED
      BY <1>0, <2>7, <3>1
  <2> QED
    BY <2>1, <2>3, <2>5, <2>6, <2>9
<1> QED
  BY <1>1, <1>2

(***************************************************************************)
(* At the start the log and the ring are empty.                             *)
(***************************************************************************)
LEMMA OverstayInvInit == Init => OverstayInv
<1> SUFFICES ASSUME Init PROVE OverstayInv
  OBVIOUS
<1>1. /\ last = 0 /\ base = 0 /\ marks = {} /\ syncedMarks = {} /\ since = 0
      /\ now = 1 /\ skew = 0 /\ lastMark = 0 /\ cachedAge = NotLoaded
      /\ policy = Unlimited
  BY DEF Init, SubjectInit
<1>2. Live = {}
  BY <1>1 DEF Live
<1>3. ~Reckoned
  BY <1>1 DEF Reckoned, Unlimited
<1>4. CopiesAgree
  BY <1>1, RetentionAssumption DEF CopiesAgree
<1> QED
  BY <1>1, <1>2, <1>3, <1>4 DEF OverstayInv, BornInOrder, OneMarkEach

(***************************************************************************)
(* Steps that leave the log and the marks of live messages alone, whatever  *)
(* they do to trimmed messages, and to the time that passes.                *)
(***************************************************************************)
LEMMA ShrinkKeepsMarks ==
  ASSUME RetentionInv, OverstayInv,
         base' \in Nat, base' >= base, UNCHANGED last,
         UNCHANGED <<policy, syncedMarks, cachedAge, lastMark, skew, since>>,
         now' \in Nat, now' >= now, now' <= MaxTime,
         \A i \in base' + 1 .. last : born'[i] = born[i],
         marks' \subseteq marks, \A m \in marks : m.index > base' => m \in marks'
  PROVE  OverstayInv'
<1>0. /\ last \in Nat /\ base \in Nat /\ now \in Nat /\ skew \in Nat
      /\ lastMark \in Nat /\ since \in Nat /\ MaxTime \in Nat
      /\ born \in [Live -> Nat] /\ marks \subseteq Mark
      /\ \A m \in marks : m.index \in Nat /\ m.time \in Nat /\ m.index <= last
  BY RetentionAssumption
     DEF RetentionInv, RetentionTypeOK, SubjectInv, SubjectTypeOK, MarksAreSafe, Mark
<1>1. Live' \subseteq Live /\ \A i \in Live' : born'[i] = born[i] /\ i > base' /\ i \in Nat
  <2>1. Live' = base' + 1 .. last /\ Live = base + 1 .. last
    BY DEF Live
  <2>2. \A a, b, c \in Nat : b >= a =>
          /\ b + 1 .. c \subseteq a + 1 .. c
          /\ \A i \in b + 1 .. c : i > b /\ i \in Nat
    OBVIOUS
  <2>3. /\ base' + 1 .. last \subseteq base + 1 .. last
        /\ \A i \in base' + 1 .. last : i > base' /\ i \in Nat
    BY <1>0, <2>2, Zenon
  <2> QED
    BY <2>1, <2>3
<1>2. \A i \in Live : born[i] \in Nat
  BY <1>0
<1>3. CopiesAgree'
  BY <1>0 DEF OverstayInv, CopiesAgree
<1>4. BornInOrder'
  BY <1>1 DEF OverstayInv, BornInOrder
<1>5. OneMarkEach(marks \cup syncedMarks)'
  BY DEF OverstayInv, OneMarkEach
<1>6. ASSUME Reckoned, SteadyMarks PROVE SteadyMarks'
  <2>1. LastMarkKnown'
    <3>1. Wall \in Int /\ Wall' \in Int /\ Wall <= Wall'
      <4>1. \A a, b, c \in Nat : a <= b => a - c \in Int /\ b - c \in Int /\ a - c <= b - c
        OBVIOUS
      <4>2. Wall = now - skew /\ Wall' = now' - skew
        BY DEF Wall
      <4>3. now <= now'
        BY <1>0
      <4> QED
        BY <1>0, <4>1, <4>2, <4>3
    <3>2. last > since => lastMark # 0 /\ lastMark <= Wall
      BY <1>6 DEF SteadyMarks, LastMarkKnown
    <3> QED
      BY <1>0, <3>1, <3>2 DEF LastMarkKnown
  <2>2. MarksTrue'
    BY <1>0, <1>1, <1>6 DEF SteadyMarks, MarksTrue
  <2>3. MarksSpaced'
    BY <1>6 DEF SteadyMarks, MarksSpaced
  <2>4. NewestKept'
    <3> SUFFICES ASSUME NEW i \in Live', i > since, lastMark + skew > born[i]
                 PROVE  \E m \in marks' : m.index > i
      BY <1>1 DEF NewestKept
    <3>1. PICK m \in marks : m.index > i
      BY <1>1, <1>6 DEF SteadyMarks, NewestKept
    <3>2. m \in marks'
      BY <1>0, <1>1, <3>1
    <3> QED
      BY <3>1, <3>2
  <2>5. PairsMarked'
    <3> SUFFICES ASSUME NEW i \in Live', NEW j \in Live', since < i,
                        born[j] - born[i] >= Interval(policy.age)
                 PROVE  RolledOver(j)' \/ \E m \in marks' : i <= m.index /\ m.index <= j
      BY <1>1 DEF PairsMarked
    <3>1. RolledOver(j) \/ \E m \in marks : i <= m.index /\ m.index <= j
      BY <1>1, <1>6 DEF SteadyMarks, PairsMarked
    <3>2. CASE RolledOver(j)
      <4>1. \A m \in marks : m \in marks'
        BY <1>0, <1>1, <3>2 DEF RolledOver
      <4>2. marks' = marks
        BY <4>1
      <4> QED
        BY <3>2, <4>2 DEF RolledOver
    <3>3. ASSUME NEW m \in marks, i <= m.index, m.index <= j
          PROVE  \E n \in marks' : i <= n.index /\ n.index <= j
      <4>1. m \in marks'
        BY <1>0, <1>1, <3>3
      <4> QED
        BY <3>3, <4>1
    <3> QED
      BY <3>1, <3>2, <3>3
  <2> QED
    BY <2>1, <2>2, <2>3, <2>4, <2>5 DEF SteadyMarks
<1>7. Reckoned' => Reckoned
  BY DEF Reckoned
<1> QED
  BY <1>3, <1>4, <1>5, <1>6, <1>7 DEF OverstayInv

(***************************************************************************)
(* Steps that begin anew: a policy set or cleared, a restart, a power cut,  *)
(* a clock stepped back.  No message is above `since' after them, unless    *)
(* the policy has no age.                                                   *)
(***************************************************************************)
LEMMA BeginningAnew ==
  ASSUME RetentionInv, OverstayInv,
         UNCHANGED <<last, base, born, now>>,
         marks' \subseteq marks \cup syncedMarks, Cardinality(marks') <= MarksMax,
         syncedMarks' \in {marks', syncedMarks},
         lastMark' \in {lastMark, 0},
         cachedAge' \in {NotLoaded, policy'.age},
         since' = Steady(policy')
  PROVE  OverstayInv'
<1>0. /\ last \in Nat /\ base \in Nat
      /\ \A m \in marks \cup syncedMarks : m.index \in Nat /\ m.index <= last
  BY DEF RetentionInv, RetentionTypeOK, SubjectInv, SubjectTypeOK, MarksAreSafe, Mark
<1>1. Live' = Live
  BY DEF Live
<1>2. CopiesAgree'
  <2>1. 0 <= now /\ now <= MaxTime /\ lastMark <= now
    BY DEF OverstayInv, CopiesAgree, RetentionInv, RetentionTypeOK
  <2> QED
    BY <2>1 DEF CopiesAgree
<1>3. BornInOrder'
  BY <1>1 DEF OverstayInv, BornInOrder
<1>4. OneMarkEach(marks \cup syncedMarks)'
  BY DEF OverstayInv, OneMarkEach
<1>5. ASSUME Reckoned' PROVE SteadyMarks'
  <2>1. since' = last
    BY <1>5 DEF Reckoned, Steady
  <2>2. LastMarkKnown'
    BY <1>0, <2>1 DEF LastMarkKnown
  <2>3. \A m \in marks' : ~(m.index > last) /\ ~(last < m.index)
    BY <1>0
  <2>4. MarksTrue' /\ MarksSpaced'
    BY <2>1, <2>3 DEF MarksTrue, MarksSpaced
  <2>5. \A i \in Live' : ~(i > last) /\ ~(last < i)
    BY <1>0, <1>1 DEF Live
  <2>6. NewestKept' /\ PairsMarked'
    BY <2>1, <2>5 DEF NewestKept, PairsMarked
  <2> QED
    BY <2>2, <2>4, <2>6 DEF SteadyMarks
<1> QED
  BY <1>2, <1>3, <1>4, <1>5 DEF OverstayInv

(***************************************************************************)
(* A publish.  The one that is due leaves the mark its interval needs; the  *)
(* one that is not comes less than an interval after the mark before it.    *)
(***************************************************************************)
LEMMA PublishMarks ==
  ASSUME RetentionInv, OverstayInv, NEW size \in Sizes, PublishSized(size)
  PROVE  OverstayInv'
<1> DEFINE index == last + 1
           mark  == [index |-> index, time |-> Wall]
<1>0. /\ last \in Nat /\ base \in Nat /\ base <= last /\ since \in Nat
      /\ now \in Nat /\ skew \in Nat /\ skew < now /\ now <= MaxTime
      /\ MaxTime \in Nat /\ lastMark \in Nat /\ lastMark <= now
      /\ born \in [Live -> Nat] /\ marks \subseteq Mark /\ FitsTheRing(marks)
      /\ \A m \in marks \cup syncedMarks :
           m.index \in Nat /\ m.time \in Nat /\ m.index <= last
  BY RetentionAssumption
     DEF RetentionInv, RetentionTypeOK, SubjectInv, SubjectTypeOK, MarksAreSafe, Mark,
         OverstayInv, CopiesAgree
<1>1. Wall \in Nat /\ Wall > 0 /\ Wall <= now /\ Wall + skew = now
  BY <1>0 DEF Wall
<1>2. policy.age \in Nat
  BY PoliciesAreTyped DEF RetentionInv, Policy
<1>3. /\ last' = index /\ base' = base
      /\ UNCHANGED <<policy, syncedMarks, now, skew, since>>
      /\ cachedAge' = policy.age
      /\ IF MarkDue(policy.age)
           THEN marks' = MarkAdded(mark) /\ lastMark' = Wall
           ELSE UNCHANGED <<marks, lastMark>>
      /\ born' = [i \in Live \cup {index} |-> IF i = index THEN now ELSE born[i]]
  <2>1. (IF cachedAge = NotLoaded THEN policy.age ELSE cachedAge) = policy.age
    BY DEF OverstayInv, CopiesAgree
  <2>2. last' = index /\ base' = base
    BY DEF PublishSized, Publish
  <2> QED
    BY <2>1, <2>2 DEF PublishSized, clockVars
<1>4. mark \in Mark /\ mark.index = index /\ mark.time = Wall
  BY <1>0, <1>1 DEF Mark
<1>5. index \in Nat /\ index > last /\ index # last
  BY <1>0
<1>6. Live' = Live \cup {index} /\ \A i \in Live : i \in Nat /\ i <= last /\ i < index
  BY <1>0, <1>3 DEF Live
<1>7. /\ \A i \in Live : born'[i] = born[i] /\ born[i] \in Nat /\ born[i] <= now
      /\ born'[index] = now
  BY <1>0, <1>3, <1>5, <1>6 DEF RetentionInv, NotFromTheFuture
<1>o. OneMarkEach(marks)
  BY DEF OverstayInv, OneMarkEach
<1>8. \/ Cardinality(marks) < MarksMax /\ MarkAdded(mark) = marks \cup {mark}
      \/ \E low \in marks :
           /\ \A m \in marks \ {low} : low.index < m.index
           /\ MarkAdded(mark) = (marks \ {low}) \cup {mark}
           /\ Cardinality(MarkAdded(mark)) = MarksMax
  BY <1>0, <1>4, <1>5, <1>o, RingRolls DEF OverstayInv
<1>9. /\ \A m \in marks : m.index < index
      /\ mark \in MarkAdded(mark) /\ MarkAdded(mark) \subseteq marks \cup {mark}
  BY <1>0, <1>8
<1> HIDE DEF index, mark
<1>10. CopiesAgree'
  BY <1>0, <1>1, <1>3 DEF CopiesAgree
<1>11. BornInOrder'
  <2> SUFFICES ASSUME NEW i \in Live', NEW j \in Live', i <= j
               PROVE  born'[i] <= born'[j]
    BY DEF BornInOrder
  <2>1. CASE i = index
    <3>1. j = index
      BY <1>5, <1>6, <2>1
    <3> QED
      BY <1>0, <1>7, <2>1, <3>1
  <2>2. CASE i \in Live /\ j = index
    BY <1>7, <2>2
  <2>3. CASE i \in Live /\ j \in Live
    BY <1>7, <2>3 DEF OverstayInv, BornInOrder
  <2> QED
    BY <1>6, <2>1, <2>2, <2>3
<1>12. OneMarkEach(marks \cup syncedMarks)'
  <2>1. \A m, n \in marks \cup syncedMarks \cup {mark} : m.index = n.index => m = n
    BY <1>0, <1>4, <1>5, <1>9 DEF OverstayInv, OneMarkEach
  <2>2. marks' \subseteq marks \cup {mark}
    BY <1>3, <1>9
  <2> QED
    BY <1>3, <2>1, <2>2 DEF OverstayInv, OneMarkEach
<1>13. ASSUME Reckoned, SteadyMarks PROVE SteadyMarks'
  <2> DEFINE I == Interval(policy.age)
  <2>0. I \in Nat /\ I >= 1 /\ I <= MaxTime /\ policy.age > 0
    BY <1>2, <1>13, IntervalsArePositive DEF Reckoned
  <2>1. MarkDue(policy.age) <=> lastMark = 0 \/ lastMark > Wall \/ Wall - lastMark >= I
    BY <1>0, <1>2, <2>0, DueUnlessRecent
  <2>2. \A m \in marks :
          m.index > since =>
            /\ m.time <= lastMark
            /\ m.index \in Live => m.time + skew = born[m.index]
            /\ lastMark # 0 /\ lastMark <= Wall
    BY <1>0, <1>13 DEF SteadyMarks, MarksTrue, LastMarkKnown
  <2> HIDE DEF I
  <2>3. \A m \in marks : m.index \in Live' => m.index \in Live
    BY <1>0, <1>5, <1>6
  <2>4. \A m, n \in marks : since < m.index /\ m.index < n.index => m.time + I <= n.time
    BY <1>13 DEF SteadyMarks, MarksSpaced, I
  <2>5. \A i \in Live : i > since /\ lastMark + skew > born[i] => \E m \in marks : m.index > i
    BY <1>13 DEF SteadyMarks, NewestKept
  <2>6. \A i, j \in Live : since < i /\ born[j] - born[i] >= I =>
          RolledOver(j) \/ \E m \in marks : i <= m.index /\ m.index <= j
    BY <1>13 DEF SteadyMarks, PairsMarked, I
  <2>7. \A j \in Live' : ~(born'[j] - born'[index] >= I)
    BY <1>0, <1>6, <1>7, <2>0
  <2>8. CASE MarkDue(policy.age)
    <3>1. marks' = MarkAdded(mark) /\ lastMark' = Wall
      BY <1>3, <2>8
    <3>2. \A m \in marks : m.index > since => m.time + I <= Wall /\ m.time <= Wall
      BY <1>0, <1>1, <2>0, <2>1, <2>2, <2>8
    <3>3. LastMarkKnown'
      BY <1>1, <1>3, <3>1 DEF LastMarkKnown, Wall
    <3>4. MarksTrue'
      <4>1. \A m \in marks : m.index > since =>
              m.time <= Wall /\ (m.index \in Live' => m.time + skew = born'[m.index])
        BY <1>7, <2>2, <2>3, <3>2
      <4>2. mark.time <= Wall /\ mark.time + skew = born'[mark.index]
        BY <1>1, <1>4, <1>7
      <4> QED
        BY <1>3, <1>9, <3>1, <4>1, <4>2 DEF MarksTrue
    <3>5. MarksSpaced'
      <4>1. \A m, n \in marks \cup {mark} :
              since < m.index /\ m.index < n.index => m.time + I <= n.time
        <5> SUFFICES ASSUME NEW m \in marks \cup {mark}, NEW n \in marks \cup {mark},
                            since < m.index, m.index < n.index
                     PROVE  m.time + I <= n.time
          OBVIOUS
        <5>1. CASE m \in marks /\ n \in marks
          BY <2>4, <5>1
        <5>2. CASE m \in marks /\ n = mark
          BY <1>0, <1>4, <3>2, <5>2
        <5>3. m # mark
          BY <1>0, <1>4, <1>5, <1>9
        <5> QED
          BY <5>1, <5>2, <5>3
      <4> QED
        BY <1>3, <1>9, <3>1, <4>1 DEF MarksSpaced, I
    <3>6. NewestKept'
      <4> SUFFICES ASSUME NEW i \in Live', lastMark' + skew' > born'[i]
                   PROVE  \E m \in marks' : m.index > i
        BY DEF NewestKept
      <4>1. i # index
        BY <1>0, <1>1, <1>3, <1>7, <3>1
      <4>2. mark \in marks' /\ mark.index > i
        BY <1>4, <1>6, <1>9, <3>1, <4>1
      <4> QED
        BY <4>2
    <3>7. PairsMarked'
      <4> SUFFICES ASSUME NEW i \in Live', NEW j \in Live', since < i,
                          born'[j] - born'[i] >= I
                   PROVE  RolledOver(j)' \/ \E m \in marks' : i <= m.index /\ m.index <= j
        BY <1>3 DEF PairsMarked, I
      <4>1. i \in Live
        BY <1>6, <2>7
      <4>2. CASE j = index
        <5>1. mark \in marks' /\ i <= mark.index /\ mark.index <= j
          BY <1>4, <1>5, <1>6, <1>9, <3>1, <4>1, <4>2
        <5> QED
          BY <5>1
      <4>3. CASE j \in Live
        <5>1. RolledOver(j) \/ \E m \in marks : i <= m.index /\ m.index <= j
          BY <1>7, <2>6, <4>1, <4>3
        <5>2. mark.index > j
          BY <1>4, <1>6, <4>3
        <5>3. CASE Cardinality(marks) < MarksMax /\ MarkAdded(mark) = marks \cup {mark}
          <6>1. Cardinality(marks) # MarksMax
            BY <5>3, RetentionAssumption
          <6>2. PICK m \in marks : i <= m.index /\ m.index <= j
            BY <5>1, <6>1 DEF RolledOver
          <6> QED
            BY <3>1, <5>3, <6>2
        <5>4. ASSUME NEW low \in marks,
                     \A m \in marks \ {low} : low.index < m.index,
                     MarkAdded(mark) = (marks \ {low}) \cup {mark},
                     Cardinality(MarkAdded(mark)) = MarksMax
              PROVE  RolledOver(j)' \/ \E m \in marks' : i <= m.index /\ m.index <= j
          <6>1. CASE \A m \in marks \ {low} : m.index > j
            <7>1. \A m \in marks' : m.index > j
              BY <3>1, <5>2, <5>4, <6>1
            <7> QED
              BY <3>1, <5>4, <7>1 DEF RolledOver
          <6>2. ASSUME NEW m \in marks \ {low}, ~(m.index > j)
                PROVE  \E n \in marks' : i <= n.index /\ n.index <= j
            <7>1. PICK n \in marks : i <= n.index /\ n.index <= j
              BY <5>1, <6>2 DEF RolledOver
            <7>2. CASE n # low
              BY <3>1, <5>4, <7>1, <7>2
            <7>3. CASE n = low
              <8>1. i <= m.index /\ m.index <= j
                BY <1>0, <1>6, <4>1, <4>3, <5>4, <6>2, <7>1, <7>3
              <8> QED
                BY <3>1, <5>4, <6>2, <8>1
            <7> QED
              BY <7>2, <7>3
          <6> QED
            BY <6>1, <6>2
        <5> QED
          BY <1>8, <5>3, <5>4
      <4> QED
        BY <1>6, <4>2, <4>3
    <3> QED
      BY <3>3, <3>4, <3>5, <3>6, <3>7 DEF SteadyMarks
  <2>9. CASE ~MarkDue(policy.age)
    <3>1. marks' = marks /\ lastMark' = lastMark
      BY <1>3, <2>9
    <3>2. lastMark # 0 /\ lastMark <= Wall /\ Wall - lastMark < I
      BY <1>0, <1>1, <2>0, <2>1, <2>9
    <3>3. LastMarkKnown'
      BY <1>3, <3>1, <3>2 DEF LastMarkKnown, Wall
    <3>4. MarksTrue'
      BY <1>3, <1>7, <2>2, <2>3, <3>1 DEF MarksTrue
    <3>5. MarksSpaced'
      BY <1>3, <2>4, <3>1 DEF MarksSpaced, I
    <3>6. NewestKept'
      <4> SUFFICES ASSUME NEW i \in Live', i > since, lastMark + skew > born'[i]
                   PROVE  \E m \in marks : m.index > i
        BY <1>3, <3>1 DEF NewestKept
      <4>1. i # index
        BY <1>0, <1>1, <1>7, <3>2
      <4> QED
        BY <1>6, <1>7, <2>5, <4>1
    <3>7. PairsMarked'
      <4> SUFFICES ASSUME NEW i \in Live', NEW j \in Live', since < i,
                          born'[j] - born'[i] >= I
                   PROVE  RolledOver(j)' \/ \E m \in marks : i <= m.index /\ m.index <= j
        BY <1>3, <3>1 DEF PairsMarked, I
      <4>1. i \in Live
        BY <1>6, <2>7
      <4>2. CASE j = index
        <5>1. now - born[i] >= I
          BY <1>7, <4>1, <4>2
        <5>2. lastMark + skew > born[i]
          BY <1>0, <1>1, <1>7, <2>0, <3>2, <4>1, <5>1
        <5>3. i > since
          BY <1>0, <1>6, <4>1
        <5>4. PICK m \in marks : m.index > i
          BY <2>5, <4>1, <5>2, <5>3
        <5>5. i <= m.index /\ m.index <= j
          BY <1>0, <1>6, <1>9, <4>1, <4>2, <5>4, <1>5
        <5> QED
          BY <5>5
      <4>3. CASE j \in Live
        <5>1. RolledOver(j) \/ \E m \in marks : i <= m.index /\ m.index <= j
          BY <1>7, <2>6, <4>1, <4>3
        <5> QED
          BY <3>1, <5>1 DEF RolledOver
      <4> QED
        BY <1>6, <4>2, <4>3
    <3> QED
      BY <3>3, <3>4, <3>5, <3>6, <3>7 DEF SteadyMarks
  <2> QED
    BY <2>8, <2>9
<1>14. Reckoned' <=> Reckoned
  BY <1>3 DEF Reckoned
<1> QED
  BY <1>10, <1>11, <1>12, <1>13, <1>14 DEF OverstayInv

LEMMA OverstayInvNext ==
  RetentionInv /\ OverstayInv /\ [Next]_vars => OverstayInv'
<1> SUFFICES ASSUME RetentionInv, OverstayInv, [Next]_vars
             PROVE  OverstayInv'
  OBVIOUS
<1>0. /\ last \in Nat /\ base \in Nat /\ now \in Nat /\ now <= MaxTime
      /\ MaxTime \in Nat /\ cachedAge \in {NotLoaded, policy.age}
      /\ born \in [Live -> Nat]
  BY RetentionAssumption
     DEF RetentionInv, RetentionTypeOK, SubjectInv, SubjectTypeOK, OverstayInv, CopiesAgree
<1>1. \A i \in base + 1 .. last : born[i] = born[i]
  OBVIOUS
<1>k. /\ Cardinality(marks) <= MarksMax /\ {} \subseteq marks \cup syncedMarks
      /\ Cardinality({}) = 0 /\ 0 <= MarksMax
  BY FS_EmptySet, RetentionAssumption DEF RetentionInv, RetentionTypeOK
<1>2. ASSUME NEW size \in Sizes, PublishSized(size) PROVE OverstayInv'
  BY <1>2, PublishMarks
<1>3. ASSUME NEW p \in Policies, PolicySet(p) PROVE OverstayInv'
  BY <1>3, <1>k, BeginningAnew DEF PolicySet, subjectVars, clockVars, messageVars, logVars
<1>4. CASE PolicyClear
  BY <1>4, <1>k, BeginningAnew DEF PolicyClear, subjectVars, clockVars, messageVars, logVars
<1>5. ASSUME NEW prune \in BOOLEAN, AfterTrim(prune),
             base' \in Nat, base' > base, UNCHANGED last,
             UNCHANGED <<policy, syncedMarks, cachedAge, lastMark, clockVars, since>>
      PROVE  OverstayInv'
  <2>1. marks' = {m \in marks : prune => m.index > base'}
    BY <1>5 DEF AfterTrim
  <2>2. marks' \subseteq marks /\ \A m \in marks : m.index > base' => m \in marks'
    BY <2>1
  <2>3. \A i \in base' + 1 .. last : born'[i] = born[i]
    BY <1>5 DEF AfterTrim
  <2>4. base' >= base
    BY <1>0, <1>5
  <2>5. UNCHANGED <<now, skew>> /\ now' >= now /\ now' <= MaxTime /\ now' \in Nat
    BY <1>0, <1>5 DEF clockVars
  <2> QED
    BY <1>5, <2>2, <2>3, <2>4, <2>5, ShrinkKeepsMarks
<1>6. CASE Sweep
  <2>1. base' \in Nat /\ base' > base
    BY <1>6, SweepTrims
  <2>2. UNCHANGED last
    BY <1>6 DEF Sweep, Trim
  <2> QED
    BY <1>5, <1>6, <2>1, <2>2 DEF Sweep
<1>7. ASSUME NEW before \in HandTrims, NEW force \in ForceFlags, NEW opened \in BOOLEAN,
             TrimByHand(before, force, opened)
      PROVE  OverstayInv'
  <2>1. before \in Int /\ force \in BOOLEAN
    BY RetentionAssumption, SubjectAssumption
  <2>2. base' \in Nat /\ base' > base /\ UNCHANGED last
    BY <1>7, <2>1, TrimStops DEF RetentionInv, TrimByHand
  <2> QED
    BY <1>5, <1>7, <2>2 DEF TrimByHand
<1>8. ASSUME UNCHANGED <<last, base, policy, marks, syncedMarks, cachedAge, lastMark,
                         skew, born, since>>,
             now' \in Nat, now' >= now, now' <= MaxTime
      PROVE  OverstayInv'
  <2>1. base' \in Nat /\ base' >= base
    BY <1>0, <1>8
  <2>2. marks' \subseteq marks /\ \A m \in marks : m.index > base' => m \in marks'
    BY <1>8
  <2>3. \A i \in base' + 1 .. last : born'[i] = born[i]
    BY <1>8
  <2> QED
    BY <1>8, <2>1, <2>2, <2>3, ShrinkKeepsMarks
<1>9. ASSUME NEW c \in Consumers, NEW index \in SeekTargets, Pin(c, index)
      PROVE  OverstayInv'
  <2>1. UNCHANGED <<last, base>>
    BY <1>9 DEF Pin, Ack, logVars
  <2> QED
    BY <1>0, <1>8, <1>9, <2>1 DEF Pin, memoryVars, clockVars, messageVars
<1>10. CASE Restart
  BY <1>10, <1>k, BeginningAnew
     DEF Restart, Forget, subjectVars, clockVars, messageVars, logVars
<1>11. CASE PowerCut
  <2>1. UNCHANGED <<last, base>>
    BY <1>11 DEF PowerCut, LosePower, logVars
  <2>2. /\ marks' \subseteq marks \cup syncedMarks /\ syncedMarks' = marks'
        /\ Cardinality(marks') <= MarksMax
    BY <1>11 DEF PowerCut, Versions, Written
  <2> QED
    BY <1>11, <2>1, <2>2, <1>k, BeginningAnew DEF PowerCut, Forget, clockVars, messageVars
<1>12. CASE Tick
  BY <1>0, <1>8, <1>12 DEF Tick, subjectVars, memoryVars, messageVars, logVars
<1>13. CASE ClockBack
  BY <1>0, <1>13, <1>k, BeginningAnew
     DEF ClockBack, subjectVars, memoryVars, messageVars, logVars
<1>14. CASE UNCHANGED vars
  BY <1>0, <1>8, <1>14
     DEF vars, subjectVars, memoryVars, clockVars, messageVars, logVars
<1> QED
  BY <1>2, <1>3, <1>4, <1>6, <1>7, <1>9, <1>10, <1>11, <1>12, <1>13, <1>14 DEF Next

(***************************************************************************)
(* A ring of two windows of marks, as BJM_MARKS_MAX is, is longer than the  *)
(* policy's window unless that window is exactly as many seconds as the     *)
(* ring has gaps between its marks.                                         *)
(***************************************************************************)
LEMMA QuotientBelow ==
  ASSUME NEW a \in Nat, NEW b \in Nat \ {0}, NEW c \in Nat, a < b * c
  PROVE  a \div b < c
  OBVIOUS

LEMMA TwoWindowsAreEnough ==
  ASSUME NEW age \in Nat, MarksPerWindow >= 2, MarksMax >= 2 * MarksPerWindow,
         age # 2 * MarksPerWindow - 1
  PROVE  (age \div Interval(age)) + 1 < MarksMax
<1> DEFINE w == MarksPerWindow
           q == age \div w
<1>0. w \in Nat \ {0} /\ w >= 2 /\ MarksMax \in Nat /\ 2 * w - 1 \in Nat
  BY RetentionAssumption
<1>1. q \in Nat /\ q * w <= age /\ age < (q + 1) * w
  BY <1>0
<1>2. Interval(age) = IF q < 1 THEN 1 ELSE q
  BY DEF Interval
<1> HIDE DEF w, q
<1>3. ASSUME q <= 1 PROVE age \div Interval(age) < 2 * w - 1
  <2>1. Interval(age) = 1
    BY <1>1, <1>2, <1>3
  <2>2. age < 2 * w - 1
    <3>1. CASE q = 0
      BY <1>0, <1>1, <3>1
    <3>2. CASE q = 1
      BY <1>0, <1>1, <3>2 DEF w
    <3> QED
      BY <1>1, <1>3, <3>1, <3>2
  <2> QED
    BY <1>0, <2>1, <2>2
<1>4. ASSUME q >= 2 PROVE age \div Interval(age) < 2 * w - 1
  <2>1. Interval(age) = q
    BY <1>1, <1>2, <1>4
  <2>2. \A a, b \in Nat : a >= 2 /\ b >= 2 => (a + 1) * b <= a * (2 * b - 1)
    <3>1. \A a, b \in Nat : a >= 2 /\ b >= 2 =>
            a * (2 * b - 1) - (a + 1) * b = (a - 1) * (b - 1) - 1
      OBVIOUS
    <3>2. \A a, b \in Nat : a >= 2 /\ b >= 2 => (a - 1) * (b - 1) >= 1
      OBVIOUS
    <3> QED
      BY <3>1, <3>2
  <2>3. (q + 1) * w <= q * (2 * w - 1)
    BY <1>0, <1>1, <1>4, <2>2
  <2>4. (q + 1) * w \in Nat /\ q * (2 * w - 1) \in Nat
    BY <1>0, <1>1
  <2>5. age < q * (2 * w - 1)
    BY <1>1, <2>3, <2>4
  <2> QED
    BY <1>0, <1>1, <1>4, <2>1, <2>5, QuotientBelow
<1>5. age \div Interval(age) \in Nat
  BY IntervalsArePositive
<1> QED
  BY <1>0, <1>1, <1>3, <1>4, <1>5 DEF w

(***************************************************************************)
(* Marks an interval apart, as many as the ring holds, cannot all be inside *)
(* the window: two of them would be in one interval.                        *)
(***************************************************************************)
LEMMA QuotientsGrow ==
  ASSUME NEW d \in Nat \ {0}, NEW x \in Nat, NEW y \in Nat, x <= y
  PROVE  x \div d \in Nat /\ x \div d <= y \div d
<1>1. x \div d \in Nat /\ y \div d \in Nat
  OBVIOUS
<1>2. d * (x \div d) <= x /\ y < d * ((y \div d) + 1)
  OBVIOUS
<1>3. \A a, b \in Nat : d * a < d * (b + 1) => a <= b
  OBVIOUS
<1>4. d * (x \div d) \in Nat /\ d * ((y \div d) + 1) \in Nat
  BY <1>1
<1>5. d * (x \div d) < d * ((y \div d) + 1)
  BY <1>2, <1>4
<1> QED
  BY <1>1, <1>3, <1>5

LEMMA OneQuotient ==
  ASSUME NEW d \in Nat \ {0}, NEW x \in Nat, NEW y \in Nat, x \div d = y \div d
  PROVE  ~(x + d <= y)
<1> DEFINE q == x \div d
<1>1. q \in Nat /\ d * q <= x /\ y < d * (q + 1)
  OBVIOUS
<1> HIDE DEF q
<1>2. d * (q + 1) = d * q + d /\ d * q \in Nat
  BY <1>1
<1> QED
  BY <1>1, <1>2

LEMMA FullRingOutlasts ==
  ASSUME RetentionInv, marks \subseteq Mark, NEW age \in Nat, NEW gap \in Nat \ {0},
         Cardinality(marks) = MarksMax, (age \div gap) + 1 < MarksMax,
         OneMarkEach(marks),
         \A m \in marks : m.time <= Wall,
         \A m, n \in marks : m.index < n.index => m.time + gap <= n.time
  PROVE  \E m \in marks : m.time < Wall - age
<1> SUFFICES ASSUME \A m \in marks : ~(m.time < Wall - age)
             PROVE  FALSE
  OBVIOUS
<1> DEFINE low == Wall - age
           K   == age \div gap
           f   == [m \in marks |-> (m.time - low) \div gap]
<1>0. /\ Wall \in Nat /\ IsFiniteSet(marks) /\ K \in Nat /\ MarksMax \in Nat
      /\ \A m \in marks : m.index \in Nat /\ m.time \in Nat
  BY RetentionAssumption DEF RetentionInv, RetentionTypeOK, Wall, FitsTheRing, Mark
<1>1. \A m \in marks : m.time - low \in Nat /\ m.time - low <= age
  BY <1>0
<1>2. \A m \in marks : (m.time - low) \div gap \in 0 .. K
  <2> SUFFICES ASSUME NEW m \in marks PROVE (m.time - low) \div gap \in 0 .. K
    OBVIOUS
  <2> DEFINE x == m.time - low
  <2>1. x \in Nat /\ x <= age
    BY <1>1
  <2> HIDE DEF x
  <2>2. x \div gap \in Nat /\ x \div gap <= K
    BY <2>1, QuotientsGrow
  <2> QED
    BY <1>0, <2>2 DEF x
<1>3. f \in [marks -> 0 .. K]
  BY <1>2
<1> HIDE DEF K
<1>4. IsFiniteSet(0 .. K) /\ Cardinality(0 .. K) = K + 1
  <2>1. K \in Int /\ 0 \in Int /\ ~(0 > K)
    BY <1>0
  <2>2. /\ IsFiniteSet(0 .. K)
        /\ Cardinality(0 .. K) = IF 0 > K THEN 0 ELSE K - 0 + 1
    BY <2>1, FS_Interval
  <2> QED
    BY <2>1, <2>2
<1>5. Cardinality(0 .. K) < Cardinality(marks)
  BY <1>0, <1>4 DEF K
<1> HIDE DEF f
<1>6. PICK m \in marks, n \in marks : m # n /\ f[m] = f[n]
  BY <1>0, <1>3, <1>4, <1>5, FS_PigeonHole
<1>7. (m.time - low) \div gap = (n.time - low) \div gap
  BY <1>6 DEF f
<1>8. /\ ~((m.time - low) + gap <= n.time - low)
      /\ ~((n.time - low) + gap <= m.time - low)
  BY <1>1, <1>7, OneQuotient
<1>9. m.index < n.index \/ n.index < m.index
  BY <1>0, <1>6 DEF OneMarkEach
<1> QED
  BY <1>0, <1>8, <1>9

(***************************************************************************)
(* "A trim keeps at most one interval's worth of messages longer than       *)
(* asked", for a ring of two windows of marks, and of any policies but one  *)
(* whose age is the one number of seconds that many marks do not outlast    *)
(* (255 for the code's 128 and 256).                                        *)
(***************************************************************************)
THEOREM OverstayingIsBounded ==
  ASSUME MarksPerWindow >= 2, MarksMax >= 2 * MarksPerWindow,
         \A p \in Policies : p.age # 2 * MarksPerWindow - 1
  PROVE  RetentionSpec => []OverstayBounded
<1>1. RetentionInv /\ OverstayInv => OverstayBounded
  <2> SUFFICES ASSUME RetentionInv, OverstayInv, policy.age > 0,
                      \A before \in Proposals(policy) : before <= base + 1,
                      NEW i \in Overstayed, NEW j \in Overstayed
               PROVE  born[j] - born[i] < Interval(policy.age)
    BY DEF OverstayBounded
  <2> DEFINE I == Interval(policy.age)
  <2>0. /\ last \in Nat /\ base \in Nat /\ since \in Nat
        /\ now \in Nat /\ skew \in Nat /\ skew < now /\ now <= MaxTime /\ MaxTime \in Nat
        /\ policy.age \in Nat /\ lastMark \in Nat /\ MarksMax \in Nat
        /\ marks \subseteq Mark
        /\ \A m \in marks : m.index \in Nat /\ m.time \in Nat /\ m.index <= last
    <3>1. policy.age \in Nat
      BY PoliciesAreTyped DEF RetentionInv, Policy
    <3> QED
      BY <3>1, RetentionAssumption
         DEF RetentionInv, RetentionTypeOK, SubjectInv, SubjectTypeOK, MarksAreSafe,
             Mark, OverstayInv, CopiesAgree
  <2>1. I \in Nat \ {0} /\ Wall \in Nat /\ Wall + skew = now
    BY <2>0, IntervalsArePositive DEF Wall
  <2>2. /\ i \in Live /\ j \in Live /\ i > since /\ j > since
        /\ now - born[i] > policy.age /\ now - born[j] > policy.age
        /\ i \in Nat /\ j \in Nat /\ i > base /\ j > base /\ last # base
    BY <2>0 DEF Overstayed, Live
  <2>3. /\ born[i] \in Nat /\ born[j] \in Nat /\ born[j] <= now
    BY <2>2 DEF RetentionInv, RetentionTypeOK, NotFromTheFuture
  <2> HIDE DEF I
  <2>4. \A m \in marks : m.index > base => ~(m.time < Wall - policy.age)
    <3> SUFFICES ASSUME NEW m \in marks, m.index > base, m.time < Wall - policy.age
                 PROVE  FALSE
      OBVIOUS
    <3>1. Wall > policy.age
      BY <2>0, <2>1
    <3>2. m.index + 1 \in ByAge(policy)
      BY <3>1 DEF ByAge
    <3>3. m.index + 1 \in Proposals(policy)
      BY <2>2, <3>2 DEF Proposals
    <3> QED
      BY <2>0, <3>3
  <2>5. CASE ~(born[j] - born[i] >= I)
    BY <2>1, <2>3, <2>5 DEF I
  <2>6. ASSUME born[j] - born[i] >= I PROVE FALSE
    <3>1. Reckoned /\ SteadyMarks
      <4>1. I <= MaxTime
        BY <2>0, <2>1, <2>3, <2>6
      <4> QED
        BY <4>1 DEF Reckoned, OverstayInv, I
    <3>2. RolledOver(j) \/ \E m \in marks : i <= m.index /\ m.index <= j
      BY <2>2, <2>6, <3>1 DEF SteadyMarks, PairsMarked, I
    <3>3. ASSUME NEW m \in marks, i <= m.index, m.index <= j PROVE FALSE
      <4>1. m.index \in Live /\ m.index > since /\ m.index > base
        BY <2>0, <2>2, <3>3 DEF Live
      <4>2. m.time + skew = born[m.index]
        BY <3>1, <4>1 DEF SteadyMarks, MarksTrue
      <4>3. born[m.index] <= born[j]
        BY <2>2, <3>3, <4>1 DEF OverstayInv, BornInOrder
      <4>4. m.time + skew < now - policy.age
        BY <2>0, <2>2, <2>3, <4>2, <4>3
      <4>5. m.time < Wall - policy.age
        BY <2>0, <2>1, <4>4
      <4> QED
        BY <2>4, <4>1, <4>5
    <3>4. CASE RolledOver(j)
      <4>1. \A m \in marks : m.index > since /\ m.index > base
        BY <2>0, <2>2, <3>4 DEF RolledOver
      <4>2. \A m \in marks : m.time <= Wall
        <5>1. last > since => lastMark <= Wall
          BY <3>1 DEF SteadyMarks, LastMarkKnown
        <5>2. \A m \in marks : m.time <= lastMark /\ last > since
          BY <2>0, <3>1, <4>1 DEF SteadyMarks, MarksTrue
        <5> QED
          BY <2>0, <2>1, <5>1, <5>2
      <4>3. \A m, n \in marks : m.index < n.index => m.time + I <= n.time
        BY <2>0, <3>1, <4>1 DEF SteadyMarks, MarksSpaced, I
      <4>4. (policy.age \div I) + 1 < MarksMax
        <5>1. policy \in Policies
          BY <2>0 DEF RetentionInv, RetentionTypeOK, Unlimited
        <5> QED
          BY <2>0, <5>1, TwoWindowsAreEnough DEF I
      <4>5. \E m \in marks : m.time < Wall - policy.age
        <5>o. OneMarkEach(marks)
          BY <2>0 DEF OverstayInv, OneMarkEach
        <5> QED
          BY <2>0, <2>1, <3>4, <4>2, <4>3, <4>4, <5>o, FullRingOutlasts
             DEF RolledOver, OverstayInv
      <4> QED
        BY <2>4, <4>1, <4>5
    <3> QED
      BY <3>2, <3>3, <3>4
  <2> QED
    BY <2>1, <2>3, <2>5, <2>6
<1> QED
  BY <1>1, RetentionInvInit, RetentionInvNext, OverstayInvInit, OverstayInvNext, PTL
     DEF RetentionSpec

=============================================================================
