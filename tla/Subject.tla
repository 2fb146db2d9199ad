------------------------------- MODULE Subject -------------------------------
(***************************************************************************)
(* One subject of the store (src/src/store.c): its entry log, the read      *)
(* receipts of its durable subscriptions, and trimming.  The log holds the  *)
(* messages with indexes in (base, last]; a publish appends one, a trim     *)
(* raises base, and nothing else changes it, so the model keeps only the    *)
(* two bounds and not the payloads.  A receipt is the highest index a       *)
(* consumer has acknowledged.                                               *)
(*                                                                          *)
(* Receipts live in a B+ tree that survives the death of the process but is *)
(* fsynced only by an explicit ack, by the pusher and by deletions:         *)
(* `durable' is what a power cut falls back to.                             *)
(*                                                                          *)
(* Every handler runs to completion on the broker's one thread, so a        *)
(* request is one step.  The module WorkQueue extends this one with the     *)
(* queue groups of the same subject.                                        *)
(***************************************************************************)
EXTENDS Naturals

CONSTANTS
  Consumers,      \* names of durable subscriptions
  NoReceipt,      \* the consumer has no record in _cursors.bpt
  ForceFlags,     \* values of ?force= a trim may carry: a subset of BOOLEAN
  SeekTargets,    \* indexes an operator may `sukkal seek' to
  PowerLoss,      \* whether the machine may lose what was not fsynced
  MaxIndex        \* bound: no more than this many messages are published

ASSUME SubjectAssumption ==
  /\ NoReceipt \notin Nat
  /\ ForceFlags \subseteq BOOLEAN
  /\ SeekTargets \subseteq Nat \ {0}
  /\ PowerLoss \in BOOLEAN
  /\ MaxIndex \in Nat

VARIABLES
  last,       \* elog_last_index: 0 until the first publish creates the subject
  base,       \* elog_base_index: everything at or below it has been trimmed
  receipt,    \* _cursors.bpt: consumer -> acknowledged index, or NoReceipt
  durable,    \* what of it has reached the disk
  joined,     \* history: where the current subscription of a consumer began
  got,        \* history: the indexes handed to it since then
  confirmed   \* history: the highest index whose explicit ack was answered

logVars == <<last, base>>
cursorVars == <<receipt, durable>>
historyVars == <<joined, got, confirmed>>
subjectVars == <<last, base, receipt, durable, joined, got, confirmed>>

Receipts == Nat \cup {NoReceipt}

SubjectTypeOK ==
  /\ last \in Nat
  /\ base \in 0 .. last
  /\ receipt \in [Consumers -> Receipts]
  /\ durable \in [Consumers -> Receipts]
  /\ joined \in [Consumers -> Nat]
  /\ got \in [Consumers -> SUBSET Nat]
  /\ confirmed \in [Consumers -> Nat]

SubjectInit ==
  /\ last = 0
  /\ base = 0
  /\ receipt = [c \in Consumers |-> NoReceipt]
  /\ durable = [c \in Consumers |-> NoReceipt]
  /\ joined = [c \in Consumers |-> 0]
  /\ got = [c \in Consumers |-> {}]
  /\ confirmed = [c \in Consumers |-> 0]

Exists == last > 0
Subscribed == {c \in Consumers : receipt[c] # NoReceipt}

(***************************************************************************)
(* bjm_publish: append, fsync the log, notify.  The message is durable      *)
(* before the publisher is answered.                                        *)
(***************************************************************************)
Publish ==
  /\ last < MaxIndex
  /\ last' = last + 1
  /\ UNCHANGED <<base, cursorVars, historyVars>>

\* Mutant: the receipt follows every ack, older ones too.
CursorSetAnyway(current, index) == index

(***************************************************************************)
(* bjm_cursor_set: a receipt is created where it was missing and otherwise  *)
(* only ever moves forward.                                                 *)
(***************************************************************************)
CursorSet(current, index) ==
  IF current # NoReceipt /\ index <= current THEN current ELSE index

\* Mutant: ?start=last is honoured for a consumer that has a receipt.
FirstSightAlways(c, acked, startLast) ==
  IF startLast THEN last ELSE IF acked = NoReceipt THEN 0 ELSE acked

(***************************************************************************)
(* h_subscribe with ?consumer=: the piggybacked ack (0 when absent) is      *)
(* applied, a consumer seen for the first time is given a receipt at the    *)
(* start or at the end of the log, and the batch that follows the receipt   *)
(* is returned: the messages up to `upto', as many as fit ?max= (at least   *)
(* one), or none.  None of it is fsynced.  A receipt below base is answered *)
(* 416 and hands out nothing.                                               *)
(***************************************************************************)
FirstSight(c, acked, startLast) ==
  IF acked # NoReceipt THEN acked ELSE IF startLast THEN last ELSE 0

Subscribe(c, ack, startLast, upto) ==
  LET set   == IF ack = 0 THEN receipt[c] ELSE CursorSet(receipt[c], ack)
      acked == FirstSight(c, set, startLast)
      batch == IF acked >= base THEN (acked + 1) .. upto ELSE {}
  IN  /\ Exists
      /\ acked < last => acked < upto
      /\ receipt' = [receipt EXCEPT ![c] = acked]
      /\ joined' = IF receipt[c] = NoReceipt
                     THEN [joined EXCEPT ![c] = acked] ELSE joined
      /\ got' = [got EXCEPT ![c] = @ \cup batch]
      /\ UNCHANGED <<logVars, durable, confirmed>>

\* Mutant: answered without the fsync.
AckUnsynced(c, index) ==
  /\ receipt' = [receipt EXCEPT ![c] = CursorSet(receipt[c], index)]
  /\ joined' = IF receipt[c] = NoReceipt
                 THEN [joined EXCEPT ![c] = index] ELSE joined
  /\ confirmed' = [confirmed EXCEPT ![c] = CursorSet(@, index)]
  /\ UNCHANGED <<logVars, durable, got>>

(***************************************************************************)
(* h_ack (also `sukkal seek'): move the receipt and fsync the whole tree    *)
(* before answering.  The handler does not look at the log.                 *)
(***************************************************************************)
Ack(c, index) ==
  /\ receipt' = [receipt EXCEPT ![c] = CursorSet(receipt[c], index)]
  /\ durable' = receipt'
  /\ joined' = IF receipt[c] = NoReceipt
                 THEN [joined EXCEPT ![c] = index] ELSE joined
  /\ confirmed' = [confirmed EXCEPT ![c] = CursorSet(@, index)]
  /\ UNCHANGED <<logVars, got>>

(***************************************************************************)
(* h_unsubscribe: bjm_cursor_delete removes the record and fsyncs the tree, *)
(* or does nothing when there was no record.                                *)
(***************************************************************************)
Unsubscribe(c) ==
  /\ receipt[c] # NoReceipt
  /\ receipt' = [receipt EXCEPT ![c] = NoReceipt]
  /\ durable' = receipt'
  /\ got' = [got EXCEPT ![c] = {}]
  /\ confirmed' = [confirmed EXCEPT ![c] = 0]
  /\ UNCHANGED <<logVars, joined>>

\* Mutant: no clamp to the receipts.
TrimLimitsUnread(before, force, owed) == {before - 1, last} \cup owed

(***************************************************************************)
(* bjm_trim.  The new base is the least of what was asked for, the last     *)
(* index and, unless the trim is forced, every receipt and everything a     *)
(* queue group still owes (`owed', bjm_queue_floor); a trim that would not  *)
(* raise the base does nothing.  The compacted log replaces the old one     *)
(* with one rename, so a crash leaves either of them whole.                 *)
(***************************************************************************)
TrimLimits(before, force, owed) ==
  {before - 1, last} \cup
  (IF force THEN {} ELSE owed \cup {receipt[c] : c \in Subscribed})

\* Mutant: no early return when there is nothing to remove.
TrimDown(before, force, owed) ==
  /\ Exists
  /\ \E newBase \in TrimLimits(before, force, owed) :
       /\ \A limit \in TrimLimits(before, force, owed) : newBase <= limit
       /\ base' = newBase
  /\ UNCHANGED <<last, cursorVars, historyVars>>

Trim(before, force, owed) ==
  /\ Exists
  /\ \E newBase \in TrimLimits(before, force, owed) :
       /\ \A limit \in TrimLimits(before, force, owed) : newBase <= limit
       /\ newBase > base
       /\ base' = newBase
  /\ UNCHANGED <<last, cursorVars, historyVars>>

(***************************************************************************)
(* A power cut: of the receipts written since the last fsync any may be     *)
(* lost.  (The death of the process alone loses none of them.)  Losing the  *)
(* whole record ends that subscription as deleting it does.                 *)
(***************************************************************************)
LosePower ==
  /\ PowerLoss
  /\ \E gone \in SUBSET Consumers :
       receipt' = [c \in Consumers |->
                     IF c \in gone THEN durable[c] ELSE receipt[c]]
  /\ durable' = receipt'
  /\ got' = [c \in Consumers |->
               IF receipt'[c] = NoReceipt THEN {} ELSE got[c]]
  /\ UNCHANGED <<logVars, joined, confirmed>>

\* A consumer acknowledges what it was handed, late or twice included; only
\* an operator names any other index.
Acks(c) == (got[c] \cup SeekTargets) \ {0}

CursorStep ==
  \E c \in Consumers :
    \/ \E ack \in {0} \cup Acks(c), startLast \in BOOLEAN, upto \in 0 .. last :
         Subscribe(c, ack, startLast, upto)
    \/ \E index \in Acks(c) : Ack(c, index)
    \/ Unsubscribe(c)

SubjectNext ==
  \/ Publish
  \/ CursorStep
  \/ \E before \in 1 .. last + 2, force \in ForceFlags : Trim(before, force, {})
  \/ LosePower

SubjectSpec == SubjectInit /\ [][SubjectNext]_subjectVars

-----------------------------------------------------------------------------

(***************************************************************************)
(* At-least-once: the receipt of a consumer that acknowledges only what it  *)
(* was handed never passes a message it was not handed.  (h_subscribe's     *)
(* first sight, piggybacked and late acks, unsubscribing and rejoining,     *)
(* forced trims and power cuts included; without `sukkal seek'.)            *)
(***************************************************************************)
NothingSkipped ==
  \A c \in Subscribed : \A i \in joined[c] + 1 .. receipt[c] : i \in got[c]

(***************************************************************************)
(* An explicit ack that was answered is never taken back, by a late or      *)
(* duplicated ack or by a power cut (h_ack fsyncs before it answers), for   *)
(* as long as the subscription exists.                                      *)
(***************************************************************************)
ConfirmedAcksSurvive ==
  \A c \in Consumers :
    confirmed[c] > 0 => /\ receipt[c] \in Nat /\ receipt[c] >= confirmed[c]
                        /\ durable[c] \in Nat /\ durable[c] >= confirmed[c]

(***************************************************************************)
(* "A receipt only ever moves forward" (bjm_cursor_set): no step short of   *)
(* deleting the subscription takes a receipt back.  Only for a machine that *)
(* keeps its power.                                                         *)
(***************************************************************************)
ReceiptsMoveForward ==
  [][\A c \in Consumers : receipt[c] # NoReceipt =>
       receipt'[c] = NoReceipt \/ receipt'[c] >= receipt[c]]_subjectVars

(***************************************************************************)
(* A subscription that can read on can always read on: once the receipt is  *)
(* not below the base, no unforced trim and no sequence of acks brings the  *)
(* next message of that subscription below the base (where h_subscribe      *)
(* answers 416 and bjm_pusher moves the receipt over the gap).              *)
(***************************************************************************)
StaysReadable ==
  [][\A c \in Consumers :
       /\ receipt[c] # NoReceipt /\ receipt[c] >= base
       /\ receipt'[c] # NoReceipt
       => receipt'[c] >= base']_subjectVars

(***************************************************************************)
(* A consumer whose messages were trimmed away may "start over by deleting  *)
(* the subscription" (the 416 of h_subscribe): the receipt a consumer is    *)
(* given at first sight is one it can read on from.  The code does not keep *)
(* this: without ?start=last the receipt is 0 (see the README).             *)
(***************************************************************************)
StartingOverWorks ==
  [][\A c \in Consumers : receipt[c] = NoReceipt /\ receipt'[c] # NoReceipt
       => receipt'[c] >= base']_subjectVars

(***************************************************************************)
(* Indexes never shift: the log's bounds only grow and base never passes    *)
(* last, so an index names one message for ever (bjm_trim, elog_compact).   *)
(***************************************************************************)
IndexesNeverShift ==
  [][last' >= last /\ base' >= base /\ base' <= last']_subjectVars

=============================================================================
