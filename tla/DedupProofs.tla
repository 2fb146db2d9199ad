----------------------------- MODULE DedupProofs -----------------------------
(***************************************************************************)
(* Proofs about Dedup, for any number of ids, any window and unbounded      *)
(* time.                                                                    *)
(***************************************************************************)
EXTENDS Dedup, TLAPS

(***************************************************************************)
(* The inductive invariant.  Beyond the types: the clock is after the       *)
(* epoch; an id in either generation, and the id of a request past its      *)
(* append, has a message; a request that will ack is for the input after    *)
(* the receipt; and every input up to the receipt has its output.           *)
(***************************************************************************)
ClockInv ==
  /\ skew <= MaxSkew /\ MaxSkew < now
  /\ \A i \in Ids : stamp[i] <= now

OutputInv ==
  /\ \A t \in {0, 1} : \A i \in tree[t] : copies[i] > 0
  /\ stage.at # "idle" => stage.id \in Ids /\ copies[stage.id] > 0
  /\ stage.ack => stage.id = receipt + 1
  /\ stage.at = "ack" => stage.ack
  /\ stage.at = "idle" => ~stage.ack
  /\ AckedInputsHaveOutputs

DedupInv == TypeOK /\ ClockInv /\ OutputInv

LEMMA IdleType == Idle \in Stage
  BY DEF Idle, Stage

LEMMA DedupInvInit == Init => DedupInv
  BY DedupAssumption, IdleType
  DEF Init, DedupInv, TypeOK, ClockInv, OutputInv, AckedInputsHaveOutputs, Idle,
      Ids

\* What dedup_rotate and bjm_dedup_lookup compute is well typed, and they
\* bring in no id that was not there.
LEMMA RotationTypes ==
  ASSUME DedupInv
  PROVE  /\ clock \in Nat
         /\ RotatedCur \in {0, 1}
         /\ RotatedAt \in Nat
         /\ RotatedTree \in [{0, 1} -> SUBSET Ids]
         /\ \A t \in {0, 1} : RotatedTree[t] \subseteq tree[t]
<1>1. clock \in Nat
  BY DedupAssumption DEF DedupInv, TypeOK, ClockInv, clock
<1>2. RotatedCur \in {0, 1} /\ RotatedAt \in Nat
  BY <1>1 DEF RotatedCur, RotatedAt, DedupInv, TypeOK
<1>3. \A t \in {0, 1} : RotatedTree[t] \subseteq tree[t]
  BY DEF RotatedTree
<1>4. RotatedTree \in [{0, 1} -> SUBSET Ids]
  BY DEF RotatedTree, DedupInv, TypeOK
<1> QED
  BY <1>1, <1>2, <1>3, <1>4

LEMMA LookupTypes ==
  ASSUME DedupInv, NEW i \in Ids
  PROVE  /\ LookedUp(i) \in [{0, 1} -> SUBSET Ids]
         /\ \A t \in {0, 1} : LookedUp(i)[t] \subseteq tree[0] \cup tree[1]
         /\ \A t \in {0, 1} : RotatedTree[t] \subseteq LookedUp(i)[t]
         /\ Remembered(i) => copies[i] > 0
<1>1. Remembered(i) => i \in tree[0] \cup tree[1]
  BY RotationTypes DEF Remembered
<1>2. LookedUp(i) \in [{0, 1} -> SUBSET Ids]
  BY RotationTypes DEF LookedUp
<1>3. \A t \in {0, 1} : /\ LookedUp(i)[t] \subseteq tree[0] \cup tree[1]
                        /\ RotatedTree[t] \subseteq LookedUp(i)[t]
  BY <1>1, RotationTypes DEF LookedUp
<1> QED
  BY <1>1, <1>2, <1>3 DEF DedupInv, OutputInv

LEMMA RequestInv ==
  ASSUME DedupInv, NEW i \in Ids, NEW ack \in BOOLEAN, Request(i, ack),
         ack => i = receipt + 1
  PROVE  DedupInv'
<1>1. /\ cur' = RotatedCur /\ rotated' = RotatedAt /\ tree' = LookedUp(i)
      /\ now' = now /\ skew' = skew /\ receipt' = receipt
  BY DEF Request
<1>2. CASE Remembered(i)
  <2>1. /\ stage' = IF ack THEN [at |-> "ack", id |-> i, ack |-> TRUE] ELSE Idle
        /\ copies' = copies /\ stamp' = stamp
    BY <1>2 DEF Request
  <2>2. stage' \in Stage
    BY <2>1, IdleType DEF Stage
  <2>3. TypeOK'
    BY <1>1, <2>1, <2>2, LookupTypes, RotationTypes DEF DedupInv, TypeOK
  <2>4. ClockInv'
    BY <1>1, <2>1 DEF DedupInv, TypeOK, ClockInv
  <2>5. OutputInv'
    BY <1>1, <1>2, <2>1, LookupTypes
    DEF DedupInv, TypeOK, OutputInv, AckedInputsHaveOutputs, Idle
  <2> QED
    BY <2>3, <2>4, <2>5 DEF DedupInv
<1>3. CASE ~Remembered(i)
  <2>1. /\ stage' = [at |-> "record", id |-> i, ack |-> ack]
        /\ copies' = [copies EXCEPT ![i] = @ + 1]
        /\ stamp' = [stamp EXCEPT ![i] = now]
    BY <1>3 DEF Request
  <2>2. stage' \in Stage
    BY <2>1 DEF Stage
  <2>3. TypeOK'
    BY <1>1, <2>1, <2>2, LookupTypes, RotationTypes DEF DedupInv, TypeOK
  <2>4. ClockInv'
    BY <1>1, <2>1 DEF DedupInv, TypeOK, ClockInv
  <2>5. \A j \in Ids : copies'[j] >= copies[j] /\ copies[j] \in Nat
    BY <2>1 DEF DedupInv, TypeOK
  <2>6. \A t \in {0, 1} : \A j \in tree'[t] : copies'[j] > 0
    BY <1>1, <2>1, <2>5, LookupTypes DEF DedupInv, TypeOK, OutputInv
  <2>7. OutputInv'
    BY <1>1, <2>1, <2>5, <2>6
    DEF DedupInv, TypeOK, OutputInv, AckedInputsHaveOutputs
  <2> QED
    BY <2>3, <2>4, <2>7 DEF DedupInv
<1> QED
  BY <1>2, <1>3

LEMMA OtherInv ==
  ASSUME DedupInv,
         \/ Record \/ AckInput \/ CrashInRequest \/ CrashInRotate \/ Tick
         \/ UNCHANGED vars
  PROVE  DedupInv'
<1> USE DEF DedupInv, TypeOK, ClockInv, OutputInv, AckedInputsHaveOutputs
<1>1. CASE Record
  BY <1>1, IdleType DEF Record, Idle, Stage
<1>2. CASE AckInput
  <2>1. stage.id = receipt + 1 /\ stage.id \in Ids /\ copies[stage.id] > 0
    BY <1>2 DEF AckInput
  <2> QED
    BY <1>2, <2>1, IdleType DEF AckInput, Idle, index, Ids
<1>3. CASE CrashInRequest
  BY <1>3, IdleType DEF CrashInRequest, Idle, index
<1>4. CASE CrashInRotate
  BY <1>4 DEF CrashInRotate
<1>5. CASE Tick
  BY <1>5, DedupAssumption DEF Tick, index
<1>6. CASE UNCHANGED vars
  BY <1>6 DEF vars
<1> QED
  BY <1>1, <1>2, <1>3, <1>4, <1>5, <1>6

LEMMA DedupInvNext == DedupInv /\ [Next]_vars => DedupInv'
  BY RequestInv, OtherInv DEF Next

(***************************************************************************)
(* Type correctness of the dedup index.                                     *)
(***************************************************************************)
THEOREM DedupTypeCorrect == Spec => []TypeOK
<1>1. DedupInv => TypeOK
  BY DEF DedupInv
<1> QED
  BY <1>1, DedupInvInit, DedupInvNext, PTL DEF Spec

(***************************************************************************)
(* An acknowledged input always has its output in the log, wherever the     *)
(* process dies and whatever the clock does (h_publish's ?ack_subject=).    *)
(***************************************************************************)
THEOREM AcksFollowOutputs == Spec => []AckedInputsHaveOutputs
<1>1. DedupInv => AckedInputsHaveOutputs
  BY DEF DedupInv, OutputInv
<1> QED
  BY <1>1, DedupInvInit, DedupInvNext, PTL DEF Spec

-----------------------------------------------------------------------------

(***************************************************************************)
(* Remembering.  An id whose last message is younger than a window is where *)
(* the next lookup will find it: about to be recorded, or in the current    *)
(* generation and asked for before that generation's window ended, or in    *)
(* the older one and asked for before the last rotation.  A rotation turns  *)
(* the second into the third, and clears only ids past their window.        *)
(***************************************************************************)
Fresh(i) ==
  \/ stage.at = "record" /\ stage.id = i /\ stamp[i] < rotated + Window
  \/ i \in tree[cur] /\ stamp[i] < rotated + Window
  \/ i \in tree[1 - cur] /\ stamp[i] <= rotated

RememberInv ==
  /\ skew = 0
  /\ rotated <= now
  /\ \A i \in Ids : copies[i] > 0 /\ now < stamp[i] + Window => Fresh(i)

LEMMA SteadyClock ==
  ASSUME DedupInv, RememberInv
  PROVE  clock = now /\ Elapsed = now - rotated
  BY DEF DedupInv, TypeOK, RememberInv, clock, Elapsed

\* The rotation of a lookup keeps every id younger than a window.
LEMMA RotationKeeps ==
  ASSUME DedupInv, RememberInv, stage.at = "idle", NEW i \in Ids,
         copies[i] > 0, now < stamp[i] + Window
  PROVE  \/ i \in RotatedTree[RotatedCur] /\ stamp[i] < RotatedAt + Window
         \/ i \in RotatedTree[1 - RotatedCur] /\ stamp[i] <= RotatedAt
<1> USE DedupAssumption DEF DedupInv, TypeOK
<1>1. clock = now /\ Elapsed = now - rotated
  BY SteadyClock
<1>2. \/ i \in tree[cur] /\ stamp[i] < rotated + Window
      \/ i \in tree[1 - cur] /\ stamp[i] <= rotated
  BY DEF RememberInv, Fresh
<1>3. stamp[i] <= now /\ rotated <= now /\ stamp[i] \in Nat
  BY DEF ClockInv, RememberInv
<1>4. CASE Elapsed < Window
  <2>1. RotatedTree = tree /\ RotatedCur = cur /\ RotatedAt = rotated
    BY <1>4 DEF RotatedTree, RotatedCur, RotatedAt, Retired
  <2> QED
    BY <1>2, <2>1
<1>5. CASE Elapsed >= Window /\ Elapsed < 2 * Window
  <2>1. RotatedCur = 1 - cur /\ RotatedAt = now /\ Retired = {1 - cur}
    BY <1>1, <1>3, <1>5 DEF RotatedCur, RotatedAt, Retired
  <2>2. i \in tree[cur]
    BY <1>1, <1>2, <1>3, <1>5
  <2>3. i \in RotatedTree[cur] /\ 1 - RotatedCur = cur
    BY <2>1, <2>2 DEF RotatedTree
  <2> QED
    BY <1>3, <2>1, <2>3
<1>6. CASE Elapsed >= 2 * Window
  BY <1>1, <1>2, <1>3, <1>6
<1> QED
  BY <1>1, <1>3, <1>4, <1>5, <1>6

LEMMA RequestRemembers ==
  ASSUME DedupInv, RememberInv, NEW i \in Ids, NEW ack \in BOOLEAN, Request(i, ack)
  PROVE  /\ RememberInv'
         /\ copies' # copies => copies[i] = 0 \/ now >= stamp[i] + Window
         /\ \A j \in Ids : j # i => copies'[j] = copies[j]
<1> USE DedupAssumption DEF DedupInv, TypeOK
<1>1. /\ cur' = RotatedCur /\ rotated' = RotatedAt /\ tree' = LookedUp(i)
      /\ now' = now /\ skew' = skew /\ stage.at = "idle"
  BY DEF Request
<1>2. clock = now /\ Elapsed = now - rotated
  BY SteadyClock
<1>3. RotatedAt \in Nat /\ RotatedAt <= now /\ now < RotatedAt + Window
  BY <1>2 DEF RotatedAt, RememberInv
<1>4. RotatedCur \in {0, 1} /\ 1 - RotatedCur \in {0, 1}
  BY RotationTypes
<1>5. \A t \in {0, 1} : RotatedTree[t] \subseteq tree'[t]
  BY <1>1, LookupTypes
<1>6. ASSUME NEW j \in Ids, copies[j] > 0, now < stamp[j] + Window
      PROVE  \/ j \in tree'[cur'] /\ stamp[j] < rotated' + Window
             \/ j \in tree'[1 - cur'] /\ stamp[j] <= rotated'
  BY <1>1, <1>4, <1>5, <1>6, RotationKeeps
<1>7. ASSUME ~Remembered(i)
      PROVE  copies[i] = 0 \/ now >= stamp[i] + Window
  BY <1>1, <1>4, <1>7, RotationKeeps DEF Remembered
<1>8. CASE Remembered(i)
  <2>1. copies' = copies /\ stamp' = stamp
    BY <1>8 DEF Request
  <2> QED
    BY <1>1, <1>3, <1>6, <2>1 DEF RememberInv, Fresh
<1>9. CASE ~Remembered(i)
  <2>1. /\ stage' = [at |-> "record", id |-> i, ack |-> ack]
        /\ copies' = [copies EXCEPT ![i] = @ + 1]
        /\ stamp' = [stamp EXCEPT ![i] = now]
    BY <1>9 DEF Request
  <2>2. Fresh(i)'
    BY <1>1, <1>3, <2>1 DEF Fresh
  <2>3. ASSUME NEW j \in Ids, copies'[j] > 0, now < stamp'[j] + Window
        PROVE  Fresh(j)'
    <3>1. CASE j = i
      BY <2>2, <3>1
    <3>2. CASE j # i
      BY <1>6, <2>1, <2>3, <3>2 DEF Fresh
    <3> QED
      BY <3>1, <3>2
  <2> QED
    BY <1>1, <1>3, <1>7, <1>9, <2>1, <2>3 DEF RememberInv
<1> QED
  BY <1>8, <1>9

LEMMA OtherRemembers ==
  ASSUME DedupInv, RememberInv, MaxSkew = 0, "record" \notin CrashPoints,
         \/ Record \/ AckInput \/ CrashInRequest \/ CrashInRotate \/ Tick
         \/ UNCHANGED vars
  PROVE  RememberInv' /\ copies' = copies
<1> USE DedupAssumption DEF DedupInv, TypeOK
<1>1. CASE Record
  BY <1>1 DEF Record, RememberInv, Fresh
<1>2. CASE AckInput
  BY <1>2 DEF AckInput, RememberInv, Fresh, index
<1>3. CASE CrashInRequest
  BY <1>3 DEF CrashInRequest, RememberInv, Fresh, index
<1>4. CASE CrashInRotate
  <2>1. PICK cleared \in SUBSET Retired :
          tree' = [t \in {0, 1} |-> IF t \in cleared THEN {} ELSE tree[t]]
    BY <1>4 DEF CrashInRotate
  <2>2. /\ stage.at = "idle"
        /\ UNCHANGED <<now, skew, cur, rotated, copies, receipt, stage, stamp>>
    BY <1>4 DEF CrashInRotate
  <2>3. clock = now /\ Elapsed = now - rotated
    BY SteadyClock
  <2>4. ASSUME NEW i \in Ids, copies[i] > 0, now < stamp[i] + Window
        PROVE  Fresh(i)'
    <3>1. \/ i \in tree[cur] /\ stamp[i] < rotated + Window
          \/ i \in tree[1 - cur] /\ stamp[i] <= rotated
      BY <2>2, <2>4 DEF RememberInv, Fresh
    <3>2. cur \in {0, 1} /\ 1 - cur \in {0, 1} /\ cur # 1 - cur
      OBVIOUS
    <3>3. CASE i \in tree[cur] /\ stamp[i] < rotated + Window
      <4>1. cur \notin Retired
        BY <2>3, <2>4, <3>2, <3>3 DEF Retired, RememberInv
      <4> QED
        BY <2>1, <2>2, <3>2, <3>3, <4>1 DEF Fresh
    <3>4. CASE i \in tree[1 - cur] /\ stamp[i] <= rotated
      <4>1. Retired = {}
        BY <2>3, <2>4, <3>4 DEF Retired, RememberInv
      <4> QED
        BY <2>1, <2>2, <3>2, <3>4, <4>1 DEF Fresh
    <3> QED
      BY <3>1, <3>3, <3>4
  <2> QED
    BY <2>2, <2>4 DEF RememberInv
<1>5. CASE Tick
  BY <1>5 DEF Tick, RememberInv, Fresh, index
<1>6. CASE UNCHANGED vars
  BY <1>6 DEF vars, RememberInv, Fresh
<1> QED
  BY <1>1, <1>2, <1>3, <1>4, <1>5, <1>6

(***************************************************************************)
(* An id is remembered for at least one window: with a clock that is never  *)
(* stepped back and a process that does not die between the append and the  *)
(* record, no message is appended twice under one id within a window of the *)
(* first (dedup_rotate, bjm_dedup_lookup, bjm_dedup_record).                *)
(***************************************************************************)
THEOREM RetriesCollapse ==
  ASSUME MaxSkew = 0, "record" \notin CrashPoints
  PROVE  Spec => RemembersForAWindow
<1> DEFINE A == \A i \in Ids : copies'[i] > copies[i] =>
                  copies[i] = 0 \/ now >= stamp[i] + Window
<1>1. Init => RememberInv
  BY DedupAssumption DEF Init, RememberInv, Ids
<1>2. DedupInv /\ RememberInv /\ [Next]_vars => RememberInv' /\ [A]_vars
  <2> SUFFICES ASSUME DedupInv, RememberInv, [Next]_vars
               PROVE  RememberInv' /\ A
    OBVIOUS
  <2>1. \A i \in Ids : copies[i] \in Nat
    BY DEF DedupInv, TypeOK
  <2>2. ASSUME NEW i \in Ids, NEW ack \in BOOLEAN, Request(i, ack)
        PROVE  RememberInv' /\ A
    BY <2>1, <2>2, RequestRemembers
  <2>3. CASE \/ Record \/ AckInput \/ CrashInRequest \/ CrashInRotate \/ Tick
             \/ UNCHANGED vars
    BY <2>1, <2>3, OtherRemembers
  <2> QED
    BY <2>2, <2>3 DEF Next
<1> QED
  BY <1>1, <1>2, DedupInvInit, DedupInvNext, PTL DEF Spec, RemembersForAWindow

=============================================================================
