---------------------------- MODULE SubjectProofs ----------------------------
(***************************************************************************)
(* Proofs about Subject, for any number of consumers and messages.          *)
(***************************************************************************)
EXTENDS Subject, TLAPS

(***************************************************************************)
(* bjm_cursor_set returns a receipt no lower than the one there was and no  *)
(* lower than the index given, and it returns one of the two.               *)
(***************************************************************************)
LEMMA CursorSetForward ==
  ASSUME NEW r \in Receipts, NEW i \in Nat
  PROVE  /\ CursorSet(r, i) \in Nat
         /\ CursorSet(r, i) >= i
         /\ r # NoReceipt => CursorSet(r, i) >= r
         /\ CursorSet(r, i) \in {r, i}
  BY SubjectAssumption DEF CursorSet, Receipts

(***************************************************************************)
(* The receipt a subscribe request leaves behind (h_subscribe).             *)
(***************************************************************************)
LEMMA FirstSightForward ==
  ASSUME SubjectTypeOK, NEW c \in Consumers, NEW r \in Receipts,
         NEW startLast \in BOOLEAN
  PROVE  /\ FirstSight(c, r, startLast) \in Nat
         /\ r # NoReceipt => FirstSight(c, r, startLast) = r
  BY SubjectAssumption DEF FirstSight, Receipts, SubjectTypeOK

LEMMA AcksAreIndexes ==
  ASSUME SubjectTypeOK, NEW c \in Consumers
  PROVE  Acks(c) \subseteq Nat \ {0}
  BY SubjectAssumption DEF Acks, SubjectTypeOK

-----------------------------------------------------------------------------

(***************************************************************************)
(* A step of the subject when queue groups owe the jobs above `owed'.       *)
(* SubjectNext is the case of no groups.                                    *)
(***************************************************************************)
StepWith(owed) ==
  \/ Publish
  \/ CursorStep
  \/ \E before \in 1 .. last + 2, force \in ForceFlags : Trim(before, force, owed)
  \/ LosePower

(***************************************************************************)
(* The inductive invariant.  Beyond the types: the log's bounds are in      *)
(* order; what is on disk is never ahead of the receipt, and is gone when   *)
(* the receipt is gone; and a confirmed ack is in both.                     *)
(***************************************************************************)
DurableBehind ==
  \A c \in Consumers :
    durable[c] # NoReceipt => receipt[c] # NoReceipt /\ durable[c] <= receipt[c]

SubjectInv ==
  /\ SubjectTypeOK
  /\ base <= last
  /\ DurableBehind
  /\ ConfirmedAcksSurvive

LEMMA SubjectInvInit == SubjectInit => SubjectInv
  BY SubjectAssumption DEF SubjectInit, SubjectInv, SubjectTypeOK, DurableBehind,
     ConfirmedAcksSurvive, Receipts

LEMMA PublishInv == SubjectInv /\ Publish => SubjectInv'
  BY DEF Publish, SubjectInv, SubjectTypeOK, DurableBehind,
         ConfirmedAcksSurvive, cursorVars, historyVars

LEMMA SubscribeInv ==
  ASSUME SubjectInv, NEW c \in Consumers, NEW ack \in {0} \cup Acks(c),
         NEW startLast \in BOOLEAN, NEW upto \in 0 .. last,
         Subscribe(c, ack, startLast, upto)
  PROVE  /\ SubjectInv'
         /\ receipt[c] # NoReceipt =>
              receipt'[c] >= receipt[c] /\ receipt'[c] \in {receipt[c], ack}
<1> DEFINE set == IF ack = 0 THEN receipt[c] ELSE CursorSet(receipt[c], ack)
           acked == FirstSight(c, set, startLast)
           batch == IF acked >= base THEN (acked + 1) .. upto ELSE {}
<1> USE DEF SubjectInv
<1>1. ack \in Nat
  BY AcksAreIndexes
<1>2. /\ set \in Receipts
      /\ receipt[c] # NoReceipt =>
           set # NoReceipt /\ set >= receipt[c] /\ set \in {receipt[c], ack}
  <2>1. receipt[c] \in Receipts
    BY DEF SubjectTypeOK
  <2>2. CASE ack = 0
    BY <2>1, <2>2, SubjectAssumption DEF Receipts
  <2>3. CASE ack # 0
    <3>1. set = CursorSet(receipt[c], ack)
      BY <2>3
    <3>2. /\ set \in Nat /\ set \in {receipt[c], ack}
          /\ receipt[c] # NoReceipt => set >= receipt[c]
      BY <1>1, <2>1, <3>1, CursorSetForward
    <3> QED
      BY <3>2, SubjectAssumption DEF Receipts
  <2> QED
    BY <2>2, <2>3
<1>3. acked \in Nat /\ (set # NoReceipt => acked = set)
  BY <1>2, FirstSightForward
<1>4. batch \in SUBSET Nat
  BY <1>3
<1>5. /\ receipt' = [receipt EXCEPT ![c] = acked]
      /\ joined' = IF receipt[c] = NoReceipt
                     THEN [joined EXCEPT ![c] = acked] ELSE joined
      /\ got' = [got EXCEPT ![c] = @ \cup batch]
      /\ UNCHANGED <<last, base, durable, confirmed>>
  BY DEF Subscribe, logVars
<1>6. SubjectTypeOK'
  BY <1>3, <1>4, <1>5 DEF SubjectTypeOK, Receipts
<1>7. /\ receipt'[c] \in Nat
      /\ receipt[c] # NoReceipt => receipt'[c] >= receipt[c]
      /\ \A d \in Consumers : d # c => receipt'[d] = receipt[d]
  BY <1>2, <1>3, <1>5 DEF SubjectTypeOK
<1>8. DurableBehind'
  BY <1>5, <1>7, SubjectAssumption DEF DurableBehind, SubjectTypeOK, Receipts
<1>9. ConfirmedAcksSurvive'
  BY <1>5, <1>7, SubjectAssumption
     DEF ConfirmedAcksSurvive, SubjectTypeOK, Receipts
<1> QED
  BY <1>2, <1>3, <1>5, <1>6, <1>7, <1>8, <1>9 DEF SubjectTypeOK

LEMMA AckInv ==
  ASSUME SubjectInv, NEW c \in Consumers, NEW index \in Acks(c), Ack(c, index)
  PROVE  /\ SubjectInv'
         /\ receipt[c] # NoReceipt =>
              receipt'[c] >= receipt[c] /\ receipt'[c] \in {receipt[c], index}
<1> USE DEF SubjectInv
<1>1. index \in Nat
  BY AcksAreIndexes
<1> DEFINE r == CursorSet(receipt[c], index)
           k == CursorSet(confirmed[c], index)
<1>2. /\ r \in Nat /\ r >= index /\ r \in {receipt[c], index}
      /\ receipt[c] # NoReceipt => r >= receipt[c]
  BY <1>1, CursorSetForward DEF SubjectTypeOK
<1>3. k \in Nat /\ k \in {confirmed[c], index}
  BY <1>1, CursorSetForward DEF SubjectTypeOK, Receipts
<1>4. /\ receipt' = [receipt EXCEPT ![c] = r]
      /\ durable' = receipt'
      /\ joined' = IF receipt[c] = NoReceipt
                     THEN [joined EXCEPT ![c] = index] ELSE joined
      /\ confirmed' = [confirmed EXCEPT ![c] = k]
      /\ UNCHANGED <<last, base, got>>
  BY DEF Ack, logVars
<1> HIDE DEF r, k
<1>5. SubjectTypeOK'
  BY <1>1, <1>2, <1>3, <1>4 DEF SubjectTypeOK, Receipts
<1>6. DurableBehind'
  BY <1>4, <1>5, SubjectAssumption DEF DurableBehind, SubjectTypeOK, Receipts
<1>7. r >= k
  BY <1>2, <1>3, SubjectAssumption DEF ConfirmedAcksSurvive, SubjectTypeOK, Receipts
<1>8. ConfirmedAcksSurvive'
  BY <1>2, <1>3, <1>4, <1>7 DEF ConfirmedAcksSurvive, SubjectTypeOK
<1> QED
  BY <1>2, <1>4, <1>5, <1>6, <1>8 DEF SubjectTypeOK

LEMMA UnsubscribeInv ==
  ASSUME SubjectInv, NEW c \in Consumers, Unsubscribe(c)
  PROVE  SubjectInv'
<1> USE DEF SubjectInv
<1>1. /\ receipt' = [receipt EXCEPT ![c] = NoReceipt]
      /\ durable' = receipt'
      /\ got' = [got EXCEPT ![c] = {}]
      /\ confirmed' = [confirmed EXCEPT ![c] = 0]
      /\ UNCHANGED <<last, base, joined>>
  BY DEF Unsubscribe, logVars
<1>2. SubjectTypeOK'
  BY <1>1 DEF SubjectTypeOK, Receipts
<1>3. DurableBehind'
  BY <1>1, <1>2, SubjectAssumption DEF DurableBehind, SubjectTypeOK, Receipts
<1>4. ConfirmedAcksSurvive'
  BY <1>1 DEF ConfirmedAcksSurvive, SubjectTypeOK
<1> QED
  BY <1>1, <1>2, <1>3, <1>4

(***************************************************************************)
(* A trim raises base, not past last, and unless it is forced not past any  *)
(* receipt and not past anything owed to a queue group (bjm_trim).          *)
(***************************************************************************)
LEMMA TrimBounds ==
  ASSUME SubjectInv, NEW owed \in SUBSET Nat, NEW before \in 1 .. last + 2,
         NEW force \in ForceFlags, Trim(before, force, owed)
  PROVE  /\ base' \in Nat /\ base' > base /\ base' <= last
         /\ ~force => /\ \A f \in owed : base' <= f
                      /\ \A c \in Consumers : receipt[c] # NoReceipt => base' <= receipt[c]
<1> USE DEF SubjectInv, SubjectTypeOK
<1>1. TrimLimits(before, force, owed) \subseteq Nat
  BY SubjectAssumption DEF TrimLimits, Subscribed, Receipts
<1>2. last \in TrimLimits(before, force, owed)
  BY DEF TrimLimits
<1>3. ~force => /\ owed \subseteq TrimLimits(before, force, owed)
                /\ \A c \in Consumers : receipt[c] # NoReceipt =>
                     receipt[c] \in TrimLimits(before, force, owed)
  BY DEF TrimLimits, Subscribed
<1> QED
  BY <1>1, <1>2, <1>3 DEF Trim

LEMMA TrimInv ==
  ASSUME SubjectInv, NEW owed \in SUBSET Nat, NEW before \in 1 .. last + 2,
         NEW force \in ForceFlags, Trim(before, force, owed)
  PROVE  SubjectInv'
  BY TrimBounds DEF Trim, SubjectInv, SubjectTypeOK, DurableBehind,
     ConfirmedAcksSurvive, cursorVars, historyVars

LEMMA LosePowerInv ==
  ASSUME SubjectInv, LosePower
  PROVE  SubjectInv'
<1> USE DEF SubjectInv
<1>1. PICK gone \in SUBSET Consumers :
        receipt' = [c \in Consumers |-> IF c \in gone THEN durable[c] ELSE receipt[c]]
  BY DEF LosePower
<1>2. /\ durable' = receipt'
      /\ got' = [c \in Consumers |-> IF receipt'[c] = NoReceipt THEN {} ELSE got[c]]
      /\ UNCHANGED <<last, base, joined, confirmed>>
  BY DEF LosePower, logVars
<1>3. SubjectTypeOK'
  BY <1>1, <1>2 DEF SubjectTypeOK
<1>4. DurableBehind'
  BY <1>2, <1>3, SubjectAssumption DEF DurableBehind, SubjectTypeOK, Receipts
<1>5. ConfirmedAcksSurvive'
  BY <1>1, <1>2 DEF ConfirmedAcksSurvive, SubjectTypeOK
<1> QED
  BY <1>2, <1>3, <1>4, <1>5

LEMMA SubjectInvStep ==
  ASSUME SubjectInv, NEW owed \in SUBSET Nat, StepWith(owed)
  PROVE  SubjectInv'
  BY PublishInv, SubscribeInv, AckInv, UnsubscribeInv, TrimInv, LosePowerInv
  DEF StepWith, CursorStep

LEMMA SubjectInvNext == SubjectInv /\ [SubjectNext]_subjectVars => SubjectInv'
<1>1. SubjectNext = StepWith({})
  BY DEF SubjectNext, StepWith
<1>2. SubjectInv /\ UNCHANGED subjectVars => SubjectInv'
  BY DEF SubjectInv, SubjectTypeOK, DurableBehind, ConfirmedAcksSurvive, subjectVars
<1> QED
  BY <1>1, <1>2, SubjectInvStep

-----------------------------------------------------------------------------

(***************************************************************************)
(* Type correctness of the subject.                                         *)
(***************************************************************************)
THEOREM SubjectTypeCorrect == SubjectSpec => []SubjectTypeOK
<1>1. SubjectInv => SubjectTypeOK
  BY DEF SubjectInv
<1> QED
  BY <1>1, SubjectInvInit, SubjectInvNext, PTL DEF SubjectSpec

(***************************************************************************)
(* An ack that was answered is never lost while the subscription exists:    *)
(* neither late acks nor power cuts take a receipt below it.                *)
(***************************************************************************)
THEOREM ConfirmedAcksAreKept == SubjectSpec => []ConfirmedAcksSurvive
<1>1. SubjectInv => ConfirmedAcksSurvive
  BY DEF SubjectInv
<1> QED
  BY <1>1, SubjectInvInit, SubjectInvNext, PTL DEF SubjectSpec

-----------------------------------------------------------------------------

(***************************************************************************)
(* What a step may not do, with whatever queue groups share the subject.    *)
(***************************************************************************)
Grows == last' >= last /\ base' >= base /\ base' <= last'

Forward ==
  \A c \in Consumers : receipt[c] # NoReceipt =>
    receipt'[c] = NoReceipt \/ receipt'[c] >= receipt[c]

Readable ==
  \A c \in Consumers :
    /\ receipt[c] # NoReceipt /\ receipt[c] >= base
    /\ receipt'[c] # NoReceipt
    => receipt'[c] >= base'

LEMMA LogGrows ==
  ASSUME SubjectInv, NEW owed \in SUBSET Nat, StepWith(owed)
  PROVE  Grows
<1>1. SubjectInv'
  BY SubjectInvStep
<1>2. last \in Nat /\ base \in Nat /\ base' \in Nat /\ base' <= last'
  BY <1>1 DEF SubjectInv, SubjectTypeOK
<1>3. CASE Publish
  BY <1>2, <1>3 DEF Publish, Grows
<1>4. CASE CursorStep
  BY <1>2, <1>4 DEF CursorStep, Subscribe, Ack, Unsubscribe, logVars, Grows
<1>5. ASSUME NEW before \in 1 .. last + 2, NEW force \in ForceFlags,
             Trim(before, force, owed)
      PROVE  Grows
  BY <1>2, <1>5, TrimBounds DEF Trim, Grows
<1>6. CASE LosePower
  BY <1>2, <1>6 DEF LosePower, logVars, Grows
<1> QED
  BY <1>3, <1>4, <1>5, <1>6 DEF StepWith

(***************************************************************************)
(* bjm_cursor_set only moves forward, and so does everything that calls it; *)
(* only a power cut takes a receipt back.                                   *)
(***************************************************************************)
LEMMA ReceiptsForward ==
  ASSUME PowerLoss = FALSE, SubjectInv, NEW owed \in SUBSET Nat, StepWith(owed)
  PROVE  Forward
<1> SUFFICES ASSUME NEW c \in Consumers, receipt[c] # NoReceipt, receipt'[c] # NoReceipt
             PROVE  receipt'[c] >= receipt[c]
  BY DEF Forward
<1>1. receipt[c] \in Nat
  BY DEF SubjectInv, SubjectTypeOK, Receipts
<1>2. CASE receipt' = receipt
  BY <1>1, <1>2
<1>3. CASE CursorStep
  <2>1. PICK d \in Consumers :
          \/ \E ack \in {0} \cup Acks(d), startLast \in BOOLEAN, upto \in 0 .. last :
               Subscribe(d, ack, startLast, upto)
          \/ \E index \in Acks(d) : Ack(d, index)
          \/ Unsubscribe(d)
    BY <1>3 DEF CursorStep
  <2>2. CASE d # c
    BY <1>1, <2>1, <2>2 DEF Subscribe, Ack, Unsubscribe, SubjectInv, SubjectTypeOK
  <2>3. CASE d = c
    <3>1. ~Unsubscribe(c)
      BY DEF Unsubscribe, SubjectInv, SubjectTypeOK
    <3> QED
      BY <2>1, <2>3, <3>1, SubscribeInv, AckInv
  <2> QED
    BY <2>2, <2>3
<1>4. ~LosePower
  BY DEF LosePower
<1> QED
  BY <1>2, <1>3, <1>4 DEF StepWith, Publish, Trim, cursorVars

\* An unforced trim stops at the lowest receipt.
LEMMA ReadersWaitedFor ==
  ASSUME ForceFlags = {FALSE}, PowerLoss = FALSE, SubjectInv, NEW owed \in SUBSET Nat,
         StepWith(owed)
  PROVE  Readable
<1> SUFFICES ASSUME NEW c \in Consumers, receipt[c] # NoReceipt, receipt[c] >= base,
                    receipt'[c] # NoReceipt
             PROVE  receipt'[c] >= base'
  BY DEF Readable
<1>1. SubjectInv'
  BY SubjectInvStep
<1>2. receipt[c] \in Nat /\ receipt'[c] \in Nat /\ base \in Nat
  BY <1>1 DEF SubjectInv, SubjectTypeOK, Receipts
<1>3. receipt'[c] >= receipt[c]
  BY ReceiptsForward DEF Forward
<1>4. CASE base' = base
  BY <1>2, <1>3, <1>4
<1>5. ASSUME NEW before \in 1 .. last + 2, NEW force \in ForceFlags,
             Trim(before, force, owed)
      PROVE  receipt'[c] >= base'
  <2>1. ~force
    OBVIOUS
  <2> QED
    BY <1>2, <1>5, <2>1, TrimBounds DEF Trim, cursorVars
<1>6. Publish \/ CursorStep \/ LosePower => base' = base
  BY DEF Publish, CursorStep, Subscribe, Ack, Unsubscribe, LosePower, logVars
<1> QED
  BY <1>4, <1>5, <1>6 DEF StepWith

(***************************************************************************)
(* The bounds of the log only grow, and stay in order.                      *)
(***************************************************************************)
THEOREM IndexesAreStable == SubjectSpec => IndexesNeverShift
<1>1. SubjectInv /\ [SubjectNext]_subjectVars => [Grows]_subjectVars
  BY LogGrows DEF SubjectNext, StepWith
<1> QED
  BY <1>1, SubjectInvInit, SubjectInvNext, PTL DEF SubjectSpec, IndexesNeverShift, Grows

(***************************************************************************)
(* A receipt only ever moves forward, short of deleting the subscription,   *)
(* on a machine that keeps its power (bjm_cursor_set, bjm_cursor_sync).     *)
(***************************************************************************)
THEOREM ReceiptsOnlyMoveForward ==
  ASSUME PowerLoss = FALSE
  PROVE  SubjectSpec => ReceiptsMoveForward
<1>1. SubjectInv /\ [SubjectNext]_subjectVars => [Forward]_subjectVars
  <2>1. SubjectNext = StepWith({}) /\ {} \in SUBSET Nat
    BY DEF SubjectNext, StepWith
  <2> QED
    BY <2>1, ReceiptsForward
<1> QED
  BY <1>1, SubjectInvInit, SubjectInvNext, PTL DEF SubjectSpec, ReceiptsMoveForward, Forward

(***************************************************************************)
(* Without forced trims and power cuts a subscription that can read on can  *)
(* always read on: retention never overtakes a reader (bjm_trim's clamp     *)
(* against the lowest receipt, with bjm_cursor_set never moving back).      *)
(***************************************************************************)
THEOREM RetentionWaitsForReaders ==
  ASSUME ForceFlags = {FALSE}, PowerLoss = FALSE
  PROVE  SubjectSpec => StaysReadable
<1>1. SubjectInv /\ [SubjectNext]_subjectVars => [Readable]_subjectVars
  <2>1. SubjectNext = StepWith({}) /\ {} \in SUBSET Nat
    BY DEF SubjectNext, StepWith
  <2> QED
    BY <2>1, ReadersWaitedFor
<1> QED
  BY <1>1, SubjectInvInit, SubjectInvNext, PTL DEF SubjectSpec, StaysReadable, Readable

-----------------------------------------------------------------------------

(***************************************************************************)
(* At-least-once delivery.  NothingSkipped is not inductive: a late ack may *)
(* jump ahead of the receipt to anything the consumer was once handed, and  *)
(* what is between the two must have been handed to it as well.  So what a  *)
(* consumer was handed has no gaps above the point where it joined, and a   *)
(* consumer without a receipt has nothing left to acknowledge.              *)
(***************************************************************************)
Delivered(c) ==
  /\ receipt[c] = NoReceipt => got[c] = {}
  /\ \A i \in got[c], j \in Nat : joined[c] < j /\ j <= i => j \in got[c]
  /\ receipt[c] # NoReceipt =>
       \A i \in Nat : joined[c] < i /\ i <= receipt[c] => i \in got[c]

DeliveryInv == SubjectInv /\ \A c \in Consumers : Delivered(c)

LEMMA SubscribeDelivers ==
  ASSUME SubjectInv, NEW c \in Consumers, Delivered(c), SeekTargets = {},
         NEW ack \in {0} \cup Acks(c), NEW startLast \in BOOLEAN,
         NEW upto \in 0 .. last, Subscribe(c, ack, startLast, upto)
  PROVE  Delivered(c)'
<1> USE DEF SubjectInv
<1> DEFINE set == IF ack = 0 THEN receipt[c] ELSE CursorSet(receipt[c], ack)
           acked == FirstSight(c, set, startLast)
           batch == IF acked >= base THEN (acked + 1) .. upto ELSE {}
<1>1. SubjectTypeOK'
  BY SubscribeInv
<1>2. /\ receipt'[c] = acked
      /\ joined'[c] = IF receipt[c] = NoReceipt THEN acked ELSE joined[c]
      /\ got'[c] = got[c] \cup batch
  BY DEF Subscribe, SubjectTypeOK
<1>3. acked \in Nat
  <2>1. ack \in Nat
    BY AcksAreIndexes
  <2>2. set \in Receipts
    BY <2>1, CursorSetForward DEF SubjectTypeOK, Receipts
  <2> QED
    BY <2>2, FirstSightForward
<1>4. batch \subseteq Nat /\ \A i \in batch : i > acked
                          /\ \A j \in Nat : acked < j /\ j <= i => j \in batch
  BY <1>3 DEF SubjectTypeOK
<1>5. CASE receipt[c] = NoReceipt
  <2>1. got[c] = {}
    BY <1>5 DEF Delivered
  <2> QED
    BY <1>2, <1>3, <1>4, <1>5, <2>1, SubjectAssumption DEF Delivered
<1>6. CASE receipt[c] # NoReceipt
  <2>1. acked \in {receipt[c], ack} /\ (acked = ack => ack \in got[c] \/ ack = receipt[c])
    <3>1. receipt'[c] \in {receipt[c], ack} /\ receipt'[c] >= receipt[c]
      BY <1>6, SubscribeInv
    <3>2. ack = 0 => set = receipt[c]
      OBVIOUS
    <3>3. ack = 0 => acked = receipt[c]
      BY <1>6, <3>2, FirstSightForward DEF SubjectTypeOK
    <3> QED
      BY <1>2, <3>1, <3>3 DEF Acks
  <2>2. \A i \in Nat : joined[c] < i /\ i <= acked => i \in got[c]
    BY <1>3, <1>6, <2>1 DEF Delivered, SubjectTypeOK, Receipts
  <2>3. joined[c] \in Nat /\ got[c] \subseteq Nat
    BY DEF SubjectTypeOK
  <2>4. \A i \in got'[c], j \in Nat : joined[c] < j /\ j <= i => j \in got'[c]
    <3> SUFFICES ASSUME NEW i \in got'[c], NEW j \in Nat, joined[c] < j, j <= i
                 PROVE  j \in got'[c]
      OBVIOUS
    <3>1. CASE i \in got[c]
      BY <1>2, <3>1 DEF Delivered
    <3>2. CASE i \in batch
      BY <1>2, <1>3, <1>4, <2>2, <3>2
    <3> QED
      BY <1>2, <3>1, <3>2
  <2> QED
    BY <1>2, <1>3, <1>6, <2>2, <2>4, SubjectAssumption DEF Delivered
<1> QED
  BY <1>5, <1>6

LEMMA AckDelivers ==
  ASSUME SubjectInv, NEW c \in Consumers, Delivered(c), SeekTargets = {},
         NEW index \in Acks(c), Ack(c, index)
  PROVE  Delivered(c)'
<1>1. index \in got[c] /\ index \in Nat /\ got[c] # {}
  BY AcksAreIndexes DEF Acks, SubjectInv
<1>2. receipt[c] # NoReceipt
  BY <1>1 DEF Delivered
<1>3. joined'[c] = joined[c] /\ got'[c] = got[c]
  BY <1>2 DEF Ack
<1>4. receipt'[c] \in {receipt[c], index} /\ receipt'[c] >= receipt[c]
  BY <1>2, AckInv
<1>5. receipt[c] \in Nat
  BY <1>2 DEF SubjectInv, SubjectTypeOK, Receipts
<1> QED
  BY <1>1, <1>2, <1>3, <1>4, <1>5, SubjectAssumption DEF Delivered

(***************************************************************************)
(* A consumer that acknowledges only what it was handed never has its       *)
(* receipt move past a message it was not handed: not by late or duplicated *)
(* acks, by unsubscribing and rejoining, by a forced trim or by a power cut *)
(* (h_subscribe, h_ack, bjm_cursor_set).                                    *)
(***************************************************************************)
THEOREM AtLeastOnce ==
  ASSUME SeekTargets = {}
  PROVE  SubjectSpec => []NothingSkipped
<1>1. SubjectInit => DeliveryInv
  BY SubjectInvInit DEF SubjectInit, DeliveryInv, Delivered
<1>2. DeliveryInv /\ [SubjectNext]_subjectVars => DeliveryInv'
  <2> SUFFICES ASSUME DeliveryInv, [SubjectNext]_subjectVars
               PROVE  DeliveryInv'
    OBVIOUS
  <2>1. SubjectInv /\ SubjectInv'
    BY SubjectInvNext DEF DeliveryInv
  <2>2. SUFFICES ASSUME NEW c \in Consumers
                 PROVE  Delivered(c)'
    BY <2>1 DEF DeliveryInv
  <2>3. Delivered(c)
    BY DEF DeliveryInv
  <2>4. CASE UNCHANGED <<receipt, joined, got>>
    BY <2>3, <2>4 DEF Delivered
  <2>5. ASSUME NEW d \in Consumers, d # c,
               \/ \E ack \in {0} \cup Acks(d), startLast \in BOOLEAN, upto \in 0 .. last :
                    Subscribe(d, ack, startLast, upto)
               \/ \E index \in Acks(d) : Ack(d, index)
               \/ Unsubscribe(d)
        PROVE  Delivered(c)'
    <3>1. /\ receipt'[c] = receipt[c]
          /\ joined'[c] = joined[c]
          /\ got'[c] = got[c]
      BY <2>1, <2>5 DEF Subscribe, Ack, Unsubscribe, SubjectInv, SubjectTypeOK
    <3> QED
      BY <2>3, <3>1 DEF Delivered
  <2>6. CASE Unsubscribe(c)
    <3>1. receipt'[c] = NoReceipt /\ got'[c] = {}
      BY <2>1, <2>6 DEF Unsubscribe, SubjectInv, SubjectTypeOK
    <3> QED
      BY <3>1 DEF Delivered
  <2>7. CASE CursorStep
    BY <2>1, <2>3, <2>5, <2>6, <2>7, SubscribeDelivers, AckDelivers DEF CursorStep
  <2>8. CASE LosePower
    <3>1. /\ joined'[c] = joined[c]
          /\ got'[c] = IF receipt'[c] = NoReceipt THEN {} ELSE got[c]
          /\ receipt'[c] \in {receipt[c], durable[c]}
      BY <2>8 DEF LosePower
    <3>2. durable[c] # NoReceipt =>
            /\ receipt[c] \in Nat /\ durable[c] \in Nat
            /\ durable[c] <= receipt[c]
      BY <2>1, SubjectAssumption DEF SubjectInv, DurableBehind, SubjectTypeOK, Receipts
    <3>3. joined[c] \in Nat
      BY <2>1 DEF SubjectInv, SubjectTypeOK
    <3>4. CASE receipt'[c] = NoReceipt
      BY <3>1, <3>4 DEF Delivered
    <3>5. CASE receipt'[c] # NoReceipt
      <4>1. receipt[c] # NoReceipt
        BY <3>1, <3>2, <3>5, SubjectAssumption
      <4>2. \A i \in Nat : joined[c] < i /\ i <= receipt'[c] => i \in got[c]
        BY <2>3, <3>1, <3>2, <3>3, <3>5, <4>1 DEF Delivered
      <4> QED
        BY <2>3, <3>1, <3>5, <4>2 DEF Delivered
    <3> QED
      BY <3>4, <3>5
  <2>9. CASE Publish
    BY <2>4, <2>9 DEF Publish, cursorVars, historyVars
  <2>10. CASE \E before \in 1 .. last + 2, force \in ForceFlags : Trim(before, force, {})
    BY <2>4, <2>10 DEF Trim, cursorVars, historyVars
  <2>11. CASE UNCHANGED subjectVars
    BY <2>4, <2>11 DEF subjectVars
  <2> QED
    BY <2>7, <2>8, <2>9, <2>10, <2>11 DEF SubjectNext
<1>3. DeliveryInv => NothingSkipped
  BY DEF DeliveryInv, Delivered, NothingSkipped, Subscribed, SubjectInv,
         SubjectTypeOK, Receipts
<1> QED
  BY <1>1, <1>2, <1>3, PTL DEF SubjectSpec

=============================================================================
