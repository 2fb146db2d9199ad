-------------------------------- MODULE Dedup --------------------------------
(***************************************************************************)
(* Publishing with an idempotency key: h_publish (src/src/server.c) over    *)
(* the two-generation dedup index (src/src/store.c, "producer               *)
(* idempotency"), with the acknowledgement of a pipeline's input that may   *)
(* ride on the publish.                                                     *)
(*                                                                          *)
(* Ids is 1..N: the key `sukkal pipe' derives from the index of an input    *)
(* message, so id i is the output of input i, and `receipt' is the          *)
(* pipeline's read receipt on the input subject.  A plain publisher's       *)
(* retries are the requests that carry no ack.                              *)
(*                                                                          *)
(* The handler appends and fsyncs the message, then records the id, then    *)
(* moves and fsyncs the receipt: `stage' says how far it got, time passes   *)
(* in between, and the process may die there.  The store reads wall-clock   *)
(* time, which may be stepped back: `now' is real time, now - skew the      *)
(* clock.                                                                   *)
(***************************************************************************)
EXTENDS Naturals

CONSTANTS
  N,            \* number of ids
  Window,       \* bjm_dedup_window, in ticks
  Word,         \* unsigned arithmetic is modulo Word (2^64)
  CrashPoints,  \* where the process may die: a subset of {"rotate", "record", "ack"}
  MaxSkew,      \* bound: how far the clock may be stepped back in all
  MaxTime,      \* bound: time stops here
  MaxCopies     \* bound: the process does not die once an id has so many copies

Ids == 1 .. N

ASSUME DedupAssumption ==
  /\ N \in Nat
  /\ Window \in Nat \ {0}
  /\ MaxTime \in Nat /\ MaxCopies \in Nat
  /\ MaxSkew \in Nat /\ MaxSkew < MaxTime
  /\ Word \in Nat /\ Word > MaxTime + 2 * Window
  /\ CrashPoints \subseteq {"rotate", "record", "ack"}

VARIABLES
  now,       \* real time
  skew,      \* how far the wall clock has been stepped back
  tree,      \* the two generations: tree[0] and tree[1], sets of ids
  cur,       \* dd_gen
  rotated,   \* dd_rotated_ms
  copies,    \* messages of each id in the output log
  receipt,   \* the pipeline's receipt on the input subject
  stage,     \* where the handler of the current request stands
  stamp      \* history: when the last copy of an id was asked for

index == <<tree, cur, rotated>>
vars == <<now, skew, tree, cur, rotated, copies, receipt, stage, stamp>>

Stage == [at : {"idle", "record", "ack"}, id : Ids \cup {0}, ack : BOOLEAN]
Idle == [at |-> "idle", id |-> 0, ack |-> FALSE]

TypeOK ==
  /\ now \in Nat /\ skew \in Nat
  /\ tree \in [{0, 1} -> SUBSET Ids]
  /\ cur \in {0, 1}
  /\ rotated \in Nat
  /\ copies \in [Ids -> Nat]
  /\ receipt \in Nat
  /\ stage \in Stage
  /\ stamp \in [Ids -> Nat]

\* The store has just been opened for the first time (dedup_open).  The clock
\* is far from 0: it cannot be stepped back to before the epoch.
Init ==
  /\ now = MaxSkew + 1 /\ skew = 0
  /\ tree = [t \in {0, 1} |-> {}]
  /\ cur = 0
  /\ rotated = now
  /\ copies = [i \in Ids |-> 0]
  /\ receipt = 0
  /\ stage = Idle
  /\ stamp = [i \in Ids |-> 0]

clock == now - skew

\* uint64_t elapsed = now - dd_rotated_ms
Elapsed == IF clock >= rotated THEN clock - rotated ELSE clock + Word - rotated

\* Mutant: a rotation always clears both generations.
RetiredBoth == IF Elapsed < Window THEN {} ELSE {0, 1}

(***************************************************************************)
(* dedup_rotate, on every lookup: nothing within a window; one generation   *)
(* is cleared and becomes the current one after a window; both after two.   *)
(* bpt_reset and the new state are both on disk when it returns.            *)
(***************************************************************************)
Retired ==
  IF Elapsed < Window THEN {}
  ELSE IF Elapsed >= 2 * Window THEN {0, 1} ELSE {1 - cur}

RotatedTree == [t \in {0, 1} |-> IF t \in Retired THEN {} ELSE tree[t]]

\* Mutant: the generation number is not taken modulo two.
RotatedCurOn == IF Elapsed < Window THEN cur
                ELSE IF Elapsed >= 2 * Window THEN 0 ELSE cur + 1

RotatedCur == IF Elapsed < Window THEN cur
              ELSE IF Elapsed >= 2 * Window THEN 0 ELSE 1 - cur

RotatedAt == IF Elapsed < Window THEN rotated ELSE clock

(***************************************************************************)
(* bjm_dedup_lookup: the current generation, then the older one, from which *)
(* an id that is found is copied forward.                                   *)
(***************************************************************************)
Remembered(i) == \E t \in {0, 1} : i \in RotatedTree[t]

LookedUp(i) ==
  IF Remembered(i) THEN [RotatedTree EXCEPT ![RotatedCur] = @ \cup {i}]
  ELSE RotatedTree

(***************************************************************************)
(* h_publish with ?id=i up to the append: look the id up; a duplicate is    *)
(* not appended, any other message is, and is durable at once.              *)
(***************************************************************************)
Request(i, ack) ==
  /\ stage.at = "idle"
  /\ cur' = RotatedCur
  /\ rotated' = RotatedAt
  /\ tree' = LookedUp(i)
  /\ IF Remembered(i)
       THEN /\ stage' = IF ack THEN [at |-> "ack", id |-> i, ack |-> TRUE] ELSE Idle
            /\ UNCHANGED <<copies, stamp>>
       ELSE /\ stage' = [at |-> "record", id |-> i, ack |-> ack]
            /\ copies' = [copies EXCEPT ![i] = @ + 1]
            /\ stamp' = [stamp EXCEPT ![i] = now]
  /\ UNCHANGED <<now, skew, receipt>>

\* bjm_dedup_record: the id goes into the current generation, unsynced.
Record ==
  /\ stage.at = "record"
  /\ tree' = [tree EXCEPT ![cur] = @ \cup {stage.id}]
  /\ stage' = IF stage.ack THEN [stage EXCEPT !.at = "ack"] ELSE Idle
  /\ UNCHANGED <<now, skew, cur, rotated, copies, receipt, stamp>>

\* Mutant: the receipt is moved to the next input to read.
AckNext ==
  /\ stage.at = "ack"
  /\ receipt' = IF stage.id < receipt THEN receipt ELSE stage.id + 1
  /\ stage' = Idle
  /\ UNCHANGED <<now, skew, index, copies, stamp>>

\* h_publish's ?ack_subject=: bjm_cursor_set and bjm_cursor_sync on the input.
AckInput ==
  /\ stage.at = "ack"
  /\ receipt' = IF stage.id <= receipt THEN receipt ELSE stage.id
  /\ stage' = Idle
  /\ UNCHANGED <<now, skew, index, copies, stamp>>

(***************************************************************************)
(* The process dies and restarts; the trees survive it.  It dies before the *)
(* record, before the ack, or inside dedup_rotate with some of the retired  *)
(* generations cleared and the new state not yet saved.                     *)
(***************************************************************************)
CrashInRequest ==
  /\ stage.at \in CrashPoints
  /\ copies[stage.id] < MaxCopies
  /\ stage' = Idle
  /\ UNCHANGED <<now, skew, index, copies, receipt, stamp>>

CrashInRotate ==
  /\ stage.at = "idle"
  /\ "rotate" \in CrashPoints
  /\ \E cleared \in SUBSET Retired :
       tree' = [t \in {0, 1} |-> IF t \in cleared THEN {} ELSE tree[t]]
  /\ UNCHANGED <<now, skew, cur, rotated, copies, receipt, stage, stamp>>

\* Real time passes, and the wall clock may be stepped back meanwhile.
Tick ==
  /\ now < MaxTime
  /\ now' = now + 1
  /\ skew' \in skew .. MaxSkew
  /\ UNCHANGED <<index, copies, receipt, stage, stamp>>

\* The pipeline is handed the input that follows its receipt, and reruns its
\* handler on it until the ack has gone through.
Next ==
  \/ \E i \in Ids : Request(i, FALSE)
  \/ \E i \in Ids : i = receipt + 1 /\ Request(i, TRUE)
  \/ Record
  \/ AckInput
  \/ CrashInRequest
  \/ CrashInRotate
  \/ Tick

Spec == Init /\ [][Next]_vars

-----------------------------------------------------------------------------

(***************************************************************************)
(* "An id is remembered for at least one window": a message is appended a   *)
(* second time under its id only when a whole window has passed since the   *)
(* request that appended it before, however rotations, restarts inside a    *)
(* rotation and other ids' requests fall.                                   *)
(***************************************************************************)
RemembersForAWindow ==
  [][\A i \in Ids : copies'[i] > copies[i] =>
       copies[i] = 0 \/ now >= stamp[i] + Window]_vars

(***************************************************************************)
(* "Publish first, ack second": an input whose receipt has moved has its    *)
(* output in the log, whatever the process died in the middle of.  (The     *)
(* other order would lose the message.)                                     *)
(***************************************************************************)
AckedInputsHaveOutputs == \A i \in Ids : i <= receipt => copies[i] > 0

=============================================================================
