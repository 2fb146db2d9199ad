------------------------------- MODULE Pusher --------------------------------
(***************************************************************************)
(* The delivery engine (src/src/push.c) with the handlers that register and *)
(* unregister subscriptions (src/src/server.c) and the libcurl transport    *)
(* (src/src/push_posix.c).  The broker POSTs batches to the callback of     *)
(* every registered subscription, at most one at a time, and takes the      *)
(* answer as the acknowledgement.                                           *)
(*                                                                          *)
(* The broker's one thread alternates between the pump, the transport and   *)
(* the requests, so each is one step; what interleaves is a delivery with   *)
(* everything that happens between its start and its answer.  A psub        *)
(* remembers the batch it is delivering; the receipt it will move, and the  *)
(* registration it came from, may change meanwhile.                         *)
(*                                                                          *)
(* This module covers subscribers; pushed workers (?group=) are not in it.  *)
(***************************************************************************)
EXTENDS Naturals, Sequences, FiniteSets

CONSTANTS
  Subjects,      \* names of subjects
  Consumers,     \* names of subscriptions
  Patterns,      \* what a registration may name: sets of subjects
  Froms,         \* values of ?from= a registration may carry
  BatchSizes,    \* how many messages may fit in a batch
  BackoffBase,   \* PUSH_BACKOFF_MS, in ticks
  BackoffMax,    \* PUSH_MAX_BACKOFF_MS, in ticks
  ForceFlags,    \* values of ?force= a trim may carry
  Purges,        \* values of ?purge= a DELETE may carry
  Unsubscribes,  \* the consumers whose receipts DELETE /consumers may delete
  Restarts,      \* whether the broker may die and be started again
  NoReceipt,     \* no record in _cursors.bpt
  Unregistered,  \* no record in _push.bpt
  NoSubject,     \* the subject of a psub that is delivering nothing
  MaxIndex,      \* bound: messages per subject
  MaxSubs        \* bound: no psub is added to an array of so many

ASSUME PusherAssumption ==
  /\ IsFiniteSet(Subjects) /\ IsFiniteSet(Consumers)
  /\ Patterns \subseteq SUBSET Subjects
  /\ Unregistered \notin Patterns
  /\ Froms \subseteq Nat
  /\ BatchSizes \subseteq Nat \ {0}
  /\ BackoffBase \in Nat \ {0} /\ BackoffMax \in Nat /\ BackoffBase <= BackoffMax
  /\ ForceFlags \subseteq BOOLEAN /\ Purges \subseteq BOOLEAN
  /\ Unsubscribes \subseteq Consumers /\ Restarts \in BOOLEAN
  /\ NoReceipt \notin Nat /\ NoSubject \notin Subjects
  /\ MaxIndex \in Nat /\ MaxSubs \in Nat

\* Stated for the provers, which know nothing of exponentiation.
ASSUME PowersOfTwo == \A n \in 0 .. BackoffMax : 2^n \in Nat /\ n < 2^n

VARIABLES
  last, base,  \* the bounds of each subject's log
  receipt,     \* _cursors.bpt: consumer -> subject -> index or NoReceipt
  registry,    \* _push.bpt: consumer -> pattern or Unregistered
  names,       \* the pusher's list of subject names
  subs,        \* the pusher's array of psubs (`passed' is history)
  work,        \* "something may be deliverable"
  poll,        \* how long the last pump said the loop may block
  joined,      \* history: where a subscription to a subject began
  settled      \* history: indexes its subscriber accepted, or was told are lost

logVars == <<last, base>>
storeVars == <<last, base, receipt, registry>>
pushVars == <<names, subs, work, poll>>
vars == <<last, base, receipt, registry, names, subs, work, poll, joined, settled>>

Receipts == Nat \cup {NoReceipt}

Psub == [consumer : Consumers, pattern : Patterns, conn : BOOLEAN,
         inflight : BOOLEAN, gone : BOOLEAN, subject : Subjects \cup {NoSubject},
         first : Nat, last : Nat, wait : 0 .. BackoffMax,
         failures : 0 .. BackoffMax, rr : Nat, passed : [Subjects -> Nat]]

TypeOK ==
  /\ last \in [Subjects -> Nat]
  /\ base \in [Subjects -> Nat]
  /\ receipt \in [Consumers -> [Subjects -> Receipts]]
  /\ registry \in [Consumers -> Patterns \cup {Unregistered}]
  /\ names \in Seq(Subjects)
  /\ subs \in Seq(Psub)
  /\ work \in BOOLEAN
  /\ poll \in {"tick", "now", "due", "idle"}
  /\ joined \in [Consumers -> [Subjects -> Nat]]
  /\ settled \in [Consumers -> [Subjects -> SUBSET Nat]]

(***************************************************************************)
(* psub_new: the connection is opened if the transport is installed, which  *)
(* it is for a registration, but not yet when bjm_pusher_new loads the      *)
(* registered subscriptions (bjm_serve installs it afterwards).             *)
(***************************************************************************)
NewPsub(c, pattern, transport) ==
  [consumer |-> c, pattern |-> pattern, conn |-> transport, inflight |-> FALSE,
   gone |-> FALSE, subject |-> NoSubject, first |-> 0, last |-> 0, wait |-> 0,
   failures |-> 0, rr |-> 0, passed |-> [s \in Subjects |-> 0]]

Init ==
  /\ last = [s \in Subjects |-> 0]
  /\ base = [s \in Subjects |-> 0]
  /\ receipt = [c \in Consumers |-> [s \in Subjects |-> NoReceipt]]
  /\ registry = [c \in Consumers |-> Unregistered]
  /\ names = << >>
  /\ subs = << >>
  /\ work = TRUE
  /\ poll = "idle"
  /\ joined = [c \in Consumers |-> [s \in Subjects |-> 0]]
  /\ settled = [c \in Consumers |-> [s \in Subjects |-> {}]]

Acked(c, s) == IF receipt[c][s] = NoReceipt THEN 0 ELSE receipt[c][s]
Higher(m, n) == IF m > n THEN m ELSE n

-----------------------------------------------------------------------------

\* Mutant: the pusher is not told.
PublishQuiet(s) ==
  /\ last[s] < MaxIndex
  /\ last' = [last EXCEPT ![s] = @ + 1]
  /\ UNCHANGED <<base, receipt, registry, names, subs, work, poll, joined, settled>>

\* names_add: the name goes to the end of the list if it is new.
NamesAdd(s) == IF \E n \in DOMAIN names : names[n] = s THEN names ELSE Append(names, s)

\* bjm_publish, and bjm_pusher_notify by way of on_publish.
Publish(s) ==
  /\ last[s] < MaxIndex
  /\ last' = [last EXCEPT ![s] = @ + 1]
  /\ names' = NamesAdd(s)
  /\ work' = TRUE
  /\ UNCHANGED <<base, receipt, registry, subs, poll, joined, settled>>

\* Mutant: psubs waiting to be reaped are found too.
FoundAny(c) == {i \in DOMAIN subs : subs[i].consumer = c}

\* find: the first psub of that consumer that is not waiting to be reaped.
Found(c) == {i \in DOMAIN subs : subs[i].consumer = c /\ ~subs[i].gone}

\* bjm_pusher_add: an existing psub takes the new settings and keeps the rest.
Added(c, pattern) ==
  IF Found(c) = {} THEN Append(subs, NewPsub(c, pattern, TRUE))
  ELSE [i \in DOMAIN subs |->
          IF i \in Found(c) THEN [subs[i] EXCEPT !.pattern = pattern] ELSE subs[i]]

(***************************************************************************)
(* bjm_pusher_seed: a new subscription is given a receipt on every subject  *)
(* of its pattern that exists, unless it still has one from before.         *)
(***************************************************************************)
SeedAt(s, atEnd, from) ==
  IF atEnd THEN last[s] ELSE IF from > 1 THEN from - 1 ELSE 0

Seeded(c, pattern) ==
  {s \in pattern : receipt[c][s] = NoReceipt /\ \E n \in DOMAIN names : names[n] = s}

\* h_push_put
Put(c, pattern, atEnd, from) ==
  LET seeded == IF registry[c] = Unregistered THEN Seeded(c, pattern) ELSE {}
      at     == [s \in Subjects |-> SeedAt(s, atEnd, from)]
  IN  /\ Found(c) # {} \/ Len(subs) < MaxSubs
      /\ receipt' = [receipt EXCEPT ![c] =
                       [s \in Subjects |-> IF s \in seeded THEN at[s] ELSE @[s]]]
      /\ joined' = [joined EXCEPT ![c] =
                      [s \in Subjects |-> IF s \in seeded THEN at[s] ELSE @[s]]]
      /\ registry' = [registry EXCEPT ![c] = pattern]
      /\ subs' = Added(c, pattern)
      /\ work' = TRUE
      /\ UNCHANGED <<last, base, names, poll, settled>>

\* p->subs[i] = p->subs[--p->nsubs]
Reaped(i) == [j \in 1 .. Len(subs) - 1 |-> IF j = i THEN subs[Len(subs)] ELSE subs[j]]

(***************************************************************************)
(* bjm_pusher_remove: the first psub of that consumer in the array, whether *)
(* or not it is already waiting to be reaped.                               *)
(***************************************************************************)
Removed(c) ==
  LET mine == {i \in DOMAIN subs : subs[i].consumer = c}
      i    == CHOOSE i \in mine : \A j \in mine : i <= j
  IN  IF mine = {} THEN subs
      ELSE IF subs[i].inflight THEN [subs EXCEPT ![i].gone = TRUE]
      ELSE Reaped(i)

\* Forgetting a receipt ends the subscription's history on that subject.
Forget(c, forgotten) ==
  /\ receipt' = [receipt EXCEPT ![c] =
                   [s \in Subjects |-> IF s \in forgotten THEN NoReceipt ELSE @[s]]]
  /\ joined' = [joined EXCEPT ![c] =
                  [s \in Subjects |-> IF s \in forgotten THEN 0 ELSE @[s]]]
  /\ settled' = [settled EXCEPT ![c] =
                   [s \in Subjects |-> IF s \in forgotten THEN {} ELSE @[s]]]

\* h_push_delete; ?purge=1 also deletes every receipt of the consumer.
Delete(c, purge) ==
  /\ registry' = [registry EXCEPT ![c] = Unregistered]
  /\ subs' = Removed(c)
  /\ Forget(c, IF purge THEN Subjects ELSE {})
  /\ UNCHANGED <<logVars, names, work, poll>>

\* h_unsubscribe: only the receipt goes.
Unsubscribe(c, s) ==
  /\ c \in Unsubscribes
  /\ receipt[c][s] # NoReceipt
  /\ Forget(c, {s})
  /\ UNCHANGED <<logVars, registry, pushVars>>

\* bjm_trim, for a subject with no queue group.
Trim(s, newBase, force) ==
  /\ newBase \in base[s] + 1 .. last[s]
  /\ ~force => \A c \in Consumers :
                 receipt[c][s] # NoReceipt => newBase <= receipt[c][s]
  /\ base' = [base EXCEPT ![s] = newBase]
  /\ UNCHANGED <<last, receipt, registry, pushVars, joined, settled>>

-----------------------------------------------------------------------------

(***************************************************************************)
(* start_delivery: go through the matching subjects in round-robin order. A *)
(* receipt below the base is moved up to it, and what it skips reported     *)
(* lost; the first subject with a message after the receipt is delivered.   *)
(***************************************************************************)
Turn(p, n) == ((p.rr + n) % Len(names)) + 1

Reached(c, s) == IF Acked(c, s) < last[s] THEN Higher(Acked(c, s), base[s])
                 ELSE Acked(c, s)

Waiting(p, n) ==
  LET s == names[Turn(p, n)] IN s \in p.pattern /\ Reached(p.consumer, s) < last[s]

Turns == 0 .. Len(names) - 1

\* The position in the round of the subject to deliver, or the end of it.
Pick(p) ==
  IF \E n \in Turns : Waiting(p, n)
    THEN CHOOSE n \in Turns : Waiting(p, n) /\ \A m \in Turns : m < n => ~Waiting(p, m)
    ELSE Len(names)

\* The subjects looked at whose receipt pointed below the base.
Skipped(p) ==
  {s \in p.pattern : \E n \in Turns :
     n <= Pick(p) /\ names[Turn(p, n)] = s /\ Reached(p.consumer, s) # Acked(p.consumer, s)}

\* History: how often each waiting subject was passed over since its turn.
PassedOver(p, s) ==
  [t \in Subjects |->
     IF t # s /\ \E n \in Turns : names[Turn(p, n)] = t /\ Waiting(p, n)
       THEN p.passed[t] + 1 ELSE 0]

\* Mutant: the next round starts with the same subject.
StartedStay(p, size) ==
  LET turn == Turn(p, Pick(p))
      s    == names[turn]
      from == Reached(p.consumer, s)
  IN  IF Pick(p) = Len(names) \/ ~p.conn THEN p
      ELSE [p EXCEPT !.subject = s, !.first = from + 1,
                     !.last = IF from + size < last[s] THEN from + size ELSE last[s],
                     !.rr = turn - 1, !.inflight = TRUE,
                     !.passed = PassedOver(p, s)]

\* A send without a connection fails, and only the round has moved on.
Started(p, size) ==
  LET turn == Turn(p, Pick(p))
      s    == names[turn]
      from == Reached(p.consumer, s)
  IN  IF Pick(p) = Len(names) THEN p
      ELSE IF ~p.conn THEN [p EXCEPT !.rr = turn % Len(names)]
      ELSE [p EXCEPT !.subject = s, !.first = from + 1,
                     !.last = IF from + size < last[s] THEN from + size ELSE last[s],
                     !.rr = turn % Len(names), !.inflight = TRUE,
                     !.passed = PassedOver(p, s)]

Live == {i \in DOMAIN subs : ~subs[i].gone}
Eligible == {i \in Live : ~subs[i].inflight /\ subs[i].wait = 0}

(***************************************************************************)
(* bjm_pusher_pump.  With `work' set every live psub that is neither in     *)
(* flight nor backing off is asked; if none was busy and none started,      *)
(* there is nothing to do until a publish or a registration.  (Two live     *)
(* psubs never share a consumer, so asking them one by one is asking them   *)
(* all at once.)                                                            *)
(***************************************************************************)
\* Mutant: a subscription in backoff does not count as busy.
BusyInflight == \E i \in Live : subs[i].inflight

Busy == \E i \in Live : subs[i].inflight \/ subs[i].wait > 0
NextDue == \E i \in Live : ~subs[i].inflight /\ subs[i].wait > 0

Pump ==
  LET asked == IF work THEN Eligible ELSE {}
      skips(c) == UNION {Skipped(subs[i]) : i \in {j \in asked : subs[j].consumer = c}}
  IN  /\ \E size \in [asked -> BatchSizes] :
           subs' = [i \in DOMAIN subs |->
                      IF i \in asked THEN Started(subs[i], size[i]) ELSE subs[i]]
      /\ receipt' = [c \in Consumers |-> [s \in Subjects |->
                       IF s \in skips(c) THEN base[s] ELSE receipt[c][s]]]
      /\ settled' = [c \in Consumers |-> [s \in Subjects |->
                       IF s \in skips(c) THEN settled[c][s] \cup (Acked(c, s) + 1 .. base[s])
                       ELSE settled[c][s]]]
      /\ work' = (work /\ (Busy \/ \E i \in asked : subs'[i].inflight))
      /\ poll' = IF \E i \in DOMAIN subs : subs'[i].inflight THEN "tick"
                 ELSE IF work' THEN "now"
                 ELSE IF work /\ NextDue THEN "due" ELSE "idle"
      /\ UNCHANGED <<logVars, registry, names, joined>>

\* Mutant: no ceiling.
WaitUncapped(n) == BackoffBase * 2^n

\* backoff: doubling from the base, up to the ceiling.  The count of failures
\* does not matter once the ceiling is reached, and stops there.
Wait(n) == IF BackoffBase * 2^(n - 1) < BackoffMax THEN BackoffBase * 2^(n - 1)
           ELSE BackoffMax

\* The batch is not looked at again once its delivery has ended.
Ended(p) == [p EXCEPT !.inflight = FALSE, !.subject = NoSubject, !.first = 0, !.last = 0]

BackedOff(p) ==
  [Ended(p) EXCEPT !.wait = Wait(p.failures + 1),
            !.failures = IF Wait(@ + 1) < BackoffMax THEN @ + 1 ELSE @]

\* Mutant: X-Sukkal-Ack is not looked at.
FinishWhole(i, ack) ==
  LET p == subs[i]
  IN  /\ p.inflight /\ ~p.gone
      /\ ack \in p.first .. p.last
      /\ subs' = [subs EXCEPT ![i] = [Ended(p) EXCEPT !.wait = 0, !.failures = 0]]
      /\ receipt' = [receipt EXCEPT ![p.consumer][p.subject] = p.last]
      /\ settled' = [settled EXCEPT ![p.consumer][p.subject] = @ \cup (p.first .. ack)]
      /\ work' = TRUE
      /\ UNCHANGED <<logVars, registry, names, poll, joined>>

(***************************************************************************)
(* finish: the transport reports the end of a delivery.  `ack' is how far   *)
(* the subscriber took the batch, and 0 when it refused it, took nothing of *)
(* it, or was not reached at all.  A psub deleted meanwhile is only reaped. *)
(***************************************************************************)
Finish(i, ack) ==
  LET p == subs[i]
  IN  /\ p.inflight
      /\ ack \in {0} \cup (p.first .. p.last)
      /\ IF p.gone
           THEN /\ subs' = Reaped(i)
                /\ UNCHANGED <<receipt, settled, work>>
           ELSE IF ack = 0
           THEN /\ subs' = [subs EXCEPT ![i] = BackedOff(p)]
                /\ UNCHANGED <<receipt, settled, work>>
           ELSE /\ subs' = [subs EXCEPT ![i] = [Ended(p) EXCEPT !.wait = 0, !.failures = 0]]
                /\ receipt' = [receipt EXCEPT ![p.consumer][p.subject] =
                                 IF @ # NoReceipt /\ ack <= @ THEN @ ELSE ack]
                /\ settled' = [settled EXCEPT ![p.consumer][p.subject] =
                                 @ \cup (p.first .. ack)]
                /\ work' = TRUE
      /\ UNCHANGED <<logVars, registry, names, poll, joined>>

\* Time passes: the waits of backed-off subscriptions run down.
Tick ==
  /\ \E i \in DOMAIN subs : subs[i].wait > 0
  /\ subs' = [i \in DOMAIN subs |->
                [subs[i] EXCEPT !.wait = IF @ = 0 THEN 0 ELSE @ - 1]]
  /\ UNCHANGED <<storeVars, names, work, poll, joined, settled>>

(***************************************************************************)
(* bjm_serve after the death of the broker: the subjects are listed from    *)
(* the directory and the subscriptions loaded from _push.bpt, both in any   *)
(* order.  What was in flight is forgotten.                                 *)
(***************************************************************************)
Orders(S) == {q \in [1 .. Cardinality(S) -> S] : \A x \in S : \E n \in DOMAIN q : q[n] = x}

NamesLoad == Orders({s \in Subjects : last[s] > 0})
PushEach == Orders({c \in Consumers : registry[c] # Unregistered})

Restart ==
  /\ Restarts
  /\ names' \in NamesLoad
  /\ \E q \in PushEach :
       subs' = [n \in DOMAIN q |-> NewPsub(q[n], registry[q[n]], FALSE)]
  /\ work' = TRUE
  /\ poll' = "idle"
  /\ UNCHANGED <<storeVars, joined, settled>>

Next ==
  \/ \E s \in Subjects : Publish(s)
  \/ \E c \in Consumers, pattern \in Patterns :
       \/ Put(c, pattern, TRUE, 0)
       \/ \E from \in {0} \cup Froms : Put(c, pattern, FALSE, from)
  \/ \E c \in Consumers, purge \in Purges : Delete(c, purge)
  \/ \E c \in Consumers, s \in Subjects : Unsubscribe(c, s)
  \/ \E s \in Subjects, n \in 1 .. MaxIndex, force \in ForceFlags : Trim(s, n, force)
  \/ Pump
  \/ \E i \in DOMAIN subs : \E ack \in 0 .. MaxIndex : Finish(i, ack)
  \/ Tick
  \/ Restart

Spec == Init /\ [][Next]_vars

-----------------------------------------------------------------------------

(***************************************************************************)
(* At-least-once: a receipt the pusher moved covers nothing the subscriber  *)
(* did not accept or was not told is lost, however registrations, restarts  *)
(* and trims fall between the start of a delivery, which reads the receipt, *)
(* and its end, which moves it (start_delivery, finish).  (For consumers    *)
(* whose receipts are not deleted by hand under a delivery; see the README.)*)
(***************************************************************************)
NothingSkipped ==
  \A c \in Consumers \ Unsubscribes, s \in Subjects :
    receipt[c][s] # NoReceipt =>
      joined[c][s] + 1 .. receipt[c][s] \subseteq settled[c][s]

(***************************************************************************)
(* Every registered subscription has a psub of its own that is not about to *)
(* be reaped and has its current settings, so no sequence of PUT and DELETE *)
(* around deliveries in flight leaves it registered and never delivered to  *)
(* (bjm_pusher_add, bjm_pusher_remove, finish).                             *)
(***************************************************************************)
RegisteredAreServed ==
  \A c \in Consumers : registry[c] # Unregistered =>
    \E i \in Live : /\ subs[i].consumer = c /\ subs[i].pattern = registry[c]
                    /\ \A j \in Live : subs[j].consumer = c => i = j

(***************************************************************************)
(* No wakeup is lost: when bjm_pusher_pump has decided that there is        *)
(* nothing to do until a publish or a completion says otherwise, no         *)
(* registered subscription with a connection has a message waiting.  (Not   *)
(* for a consumer whose receipts are deleted by hand: that wakes nobody.)   *)
(***************************************************************************)
Served(i) ==
  /\ subs[i].conn
  /\ registry[subs[i].consumer] # Unregistered
  /\ subs[i].consumer \notin Unsubscribes

NoLostWakeup ==
  ~work => \A i \in Live : Served(i) =>
             /\ ~subs[i].inflight /\ subs[i].wait = 0
             /\ \A n \in Turns : ~Waiting(subs[i], n)

(***************************************************************************)
(* "Fairness: next subject goes first": a subject with a message for a      *)
(* subscription is not passed over by as many of its deliveries as there    *)
(* are subjects, whether those are accepted or refused and while subjects   *)
(* are added to the round (the rr of start_delivery).                       *)
(***************************************************************************)
SubjectsTakeTurns ==
  \A i \in DOMAIN subs : \A s \in Subjects : subs[i].passed[s] < Cardinality(Subjects)

-----------------------------------------------------------------------------
\* What the documentation says and the code does not keep (see the README).

(***************************************************************************)
(* "At most one delivery in flight per subscription."                       *)
(***************************************************************************)
OneDeliveryAtATime ==
  \A i, j \in DOMAIN subs :
    subs[i].inflight /\ subs[j].inflight /\ subs[i].consumer = subs[j].consumer => i = j

(***************************************************************************)
(* "Unregistering says `stop sending to that address'": no delivery starts  *)
(* for a subscription that is not registered.                               *)
(***************************************************************************)
UnregisteredAreSilent ==
  [][\A i \in DOMAIN subs \cap DOMAIN subs' :
       ~subs[i].inflight /\ subs'[i].inflight =>
         registry[subs'[i].consumer] # Unregistered]_vars

(***************************************************************************)
(* With ?purge=1 a subscription's "position should go with it": the receipt *)
(* of a subscription that is not registered does not come back.             *)
(***************************************************************************)
PurgedStayPurged ==
  [][\A c \in Consumers, s \in Subjects :
       /\ registry[c] = Unregistered /\ registry'[c] = Unregistered
       /\ receipt[c][s] = NoReceipt
       => receipt'[c][s] = NoReceipt]_vars

(***************************************************************************)
(* "Trimming can never discard a message a subscription has not read": an   *)
(* unforced trim keeps everything a registered subscription has still to be *)
(* delivered.                                                               *)
(***************************************************************************)
UnreadKept ==
  [][\A c \in Consumers, s \in Subjects :
       base'[s] > base[s] /\ registry[c] # Unregistered /\ s \in registry[c] =>
         base'[s] <= Acked(c, s)]_vars

(***************************************************************************)
(* "Returns how many milliseconds the caller may block before pumping       *)
(* again": the pump asks to be called again at once only if there is        *)
(* something it could start, not while all there is to do is to wait for a  *)
(* backoff to end.                                                          *)
(***************************************************************************)
BackoffSleeps ==
  poll = "now" => \E i \in DOMAIN subs : subs[i].wait = 0

=============================================================================
