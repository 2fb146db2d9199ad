---------------------------- MODULE WorkersProofs ----------------------------
(***************************************************************************)
(* Proofs about Workers, for any number of workers, groups and jobs.  The   *)
(* queue groups under the pusher keep the invariant of WorkQueueProofs.     *)
(***************************************************************************)
EXTENDS Workers, WorkQueueProofs

-----------------------------------------------------------------------------

(***************************************************************************)
(* finish_jobs settles a whole batch: some entries of the table are dropped *)
(* and reported done, others are given a new expiry.                        *)
(***************************************************************************)
LEMMA DropRecord ==
  ASSUME NEW b \in Nat, NEW q \in Record, NEW fin \in SUBSET Nat,
         NEW dead \in SUBSET Nat, NEW given \in SUBSET Nat,
         RecordInv(b, q, fin, dead, given), NEW D \in SUBSET q.inflight,
         NEW r \in Record, r.next = q.next, r.inflight = q.inflight \ D
  PROVE  RecordInv(b, r, fin \cup {e.index : e \in D}, dead, given)
<1> DEFINE over == fin \cup {e.index : e \in D}
<1> USE DEF RecordInv
<1>1. IsFiniteSet(r.inflight)
  BY FS_Subset DEF Covers
<1>2. q.next \in Nat /\ \A e \in q.inflight : e.index \in Nat
  BY DEF Record, Entry
<1>3. \A e \in r.inflight : e.index >= 1 /\ e.index < r.next
  BY <1>2 DEF Covers
<1>4. \A e, f \in r.inflight : e.index = f.index => e = f
  BY DEF Covers
<1>5. ASSUME NEW i \in Nat, b < i, i < r.next
      PROVE  \/ i \in over \/ i \in dead \/ i \in given
             \/ \E e \in r.inflight : e.index = i
  BY <1>5 DEF Covers
<1>6. r.next >= 1
  BY DEF Covers
<1>7. ASSUME ~PowerLoss
      PROVE  OnceOver(r, over, dead, given)
  <2>1. \A i \in Nat : i \in over \/ i \in dead \/ i \in given => i < r.next
    BY <1>7 DEF Covers, OnceOver
  <2>2. \A e \in r.inflight :
          e.index \notin over /\ e.index \notin dead /\ e.index \notin given
    BY <1>2, <1>7 DEF Covers, OnceOver
  <2>3. \A i \in over : i \notin dead
    BY <1>2, <1>7 DEF Covers, OnceOver
  <2> HIDE DEF over
  <2> QED
    BY <2>1, <2>2, <2>3 DEF OnceOver
<1> HIDE DEF over
<1>8. Covers(b, r, over, dead, given)
  BY <1>1, <1>3, <1>4, <1>5, <1>6 DEF Covers
<1> QED
  BY <1>7, <1>8 DEF over

LEMMA SettleInv ==
  ASSUME QueueInv, NEW s, psub[s] \in Psub, NEW good \in SUBSET psub[s].jobs,
         Settle(s, good)
  PROVE  /\ QueueInv'
         /\ \A g \in Groups : queues'[g].next = queues[g].next
         /\ \A g \in Groups : \A i \in finished'[g] :
              i \in finished[g] \/ (g = psub[s].group /\ \E h \in good : h.index = i)
         /\ handed' \subseteq handed
         /\ UNCHANGED <<subjectVars, now, known, dying, dlq>>
<1> DEFINE g == psub[s].group
           q == queues[g]
           mine == {e \in q.inflight : g \in known /\ \E h \in psub[s].jobs : h.index = e.index}
           done == {e \in mine : e.index \in Reported(s, good)}
           F == mine \ done
           w(e) == BackoffFor(q.setting, e.attempts)
           put == {[e EXCEPT !.expires = now + w(e)] : e \in F}
           f == [e \in F |-> [e EXCEPT !.expires = now + w(e)]]
           r == [q EXCEPT !.inflight = (q.inflight \ mine) \cup put]
           q1 == [q EXCEPT !.inflight = q.inflight \ done]
           fin == finished[g] \cup {e.index : e \in done}
<1>1. g \in Groups /\ q \in Record /\ now \in Nat
  BY DEF QueueInv, TypeOK, Psub
<1>2. q.inflight \subseteq Entry /\ q.setting \in Setting /\ q.next \in Nat
  BY <1>1 DEF Record
<1>3. mine \subseteq q.inflight /\ done \subseteq mine /\ F \subseteq q.inflight
  OBVIOUS
<1>4. \A e \in F : w(e) \in Nat
  BY <1>2, <1>3, BackoffIsNat DEF Entry
<1>5. /\ f \in [F -> put]
      /\ \A p \in put : \E e \in F : f[e] = p
      /\ \A e \in F : f[e].index = e.index
  <2>1. \A e \in F : f[e].index = e.index
    BY <1>2 DEF Entry
  <2> QED
    BY <2>1
<1>6. put \subseteq Entry
  BY <1>1, <1>2, <1>3, <1>4 DEF Entry
<1>7. r \in Record /\ r.next = q.next /\ r.inflight = (q.inflight \ mine) \cup put
  BY <1>1, <1>2, <1>6 DEF Record
<1>8. q1 \in Record /\ q1.next = q.next /\ q1.inflight = q.inflight \ done
  BY <1>1, <1>2 DEF Record
<1>9. \A e \in done : e.index \in Nat /\ e \in q.inflight /\ \E h \in good : h.index = e.index
  BY <1>2, <1>3 DEF Reported, Entry
<1>10. fin \in SUBSET Nat /\ finished[g] \in SUBSET Nat
  BY <1>1, <1>9 DEF QueueInv, TypeOK
<1>11. /\ queues' = [queues EXCEPT ![g] = r]
       /\ finished' = [finished EXCEPT ![g] = fin]
       /\ handed' \subseteq handed
       /\ UNCHANGED <<subjectVars, now, known, dying, dlq, died, loose>>
       /\ onDisk' = onDisk \/ onDisk' = Stored'
       /\ finished[g] \subseteq fin
  BY <1>1 DEF Settle, WrittenBack, QueueInv, TypeOK
<1>12. g \notin known => fin = {}
  BY <1>1 DEF QueueInv
<1> HIDE DEF g, q, mine, done, F, w, put, f, r, q1, fin
<1>13. ASSUME g \in known
       PROVE  RecordInv(base, r, fin, died[g], loose[g])
  <2>1. RecordInv(base, q, finished[g], died[g], loose[g])
    BY <1>13 DEF QueueInv, q
  <2>2. /\ died[g] \in SUBSET Nat /\ loose[g] \in SUBSET Nat /\ base \in Nat
    BY <1>1 DEF QueueInv, TypeOK, SubjectTypeOK
  <2>3. RecordInv(base, q1, fin, died[g], loose[g])
    BY <1>1, <1>3, <1>8, <1>10, <2>1, <2>2, DropRecord DEF fin
  <2>4. F \in SUBSET q1.inflight
    BY <1>3, <1>8 DEF F
  <2>5. IsFiniteSet(put)
    <3>1. IsFiniteSet(F)
      BY <1>3, <2>1, FS_Subset DEF RecordInv, Covers
    <3> QED
      BY <1>5, <3>1, FiniteImage
  <2>6. /\ \A e \in F : \E p \in put : p.index = e.index
        /\ \A p \in put : \E e \in F : p.index = e.index
    BY <1>5
  <2>7. \A p, k \in put : p.index = k.index => p = k
    BY <1>3, <1>5, <2>1 DEF RecordInv, Covers
  <2>8. r.next = q1.next /\ r.inflight = (q1.inflight \ F) \cup put
    BY <1>3, <1>7, <1>8 DEF F
  <2>9. /\ base \in Nat /\ q1 \in Record /\ fin \in SUBSET Nat
        /\ died[g] \in SUBSET Nat /\ loose[g] \in SUBSET Nat /\ r \in Record
    BY <1>7, <1>8, <1>10, <2>2
  <2>10. Swaps(F, put)
    BY <2>5, <2>6, <2>7 DEF Swaps
  <2> QED
    BY <2>3, <2>4, <2>8, <2>9, <2>10, FailRecord
<1>14. QueueInv'
  BY <1>1, <1>7, <1>10, <1>11, <1>12, <1>13, ReplaceRecord
<1>15. \A k \in Groups : queues'[k].next = queues[k].next
  BY <1>1, <1>7, <1>11 DEF QueueInv, TypeOK, q
<1>16. \A k \in Groups : \A i \in finished'[k] :
         i \in finished[k] \/ (k = g /\ \E h \in good : h.index = i)
  BY <1>1, <1>9, <1>11 DEF QueueInv, TypeOK, fin
<1> QED
  BY <1>11, <1>14, <1>15, <1>16 DEF g

\* A step that only forgets leases given out and letters to be published.
LEMMA ForgetfulInv ==
  ASSUME QueueInv, handed' \subseteq handed, dying' \subseteq dying,
         UNCHANGED <<subjectVars, now, known, queues, onDisk, dlq, finished, died, loose>>
  PROVE  QueueInv'
<1> USE DEF QueueInv
<1>1. SubjectInv' /\ base' = base
  BY DEF subjectVars, SubjectInv, SubjectTypeOK, DurableBehind, ConfirmedAcksSurvive
<1>2. TypeOK'
  BY <1>1 DEF TypeOK, SubjectInv
<1>3. ASSUME NEW k \in known'
      PROVE  RecordInv(base', queues'[k], finished'[k], died'[k], loose'[k])
  BY <1>1, <1>3
<1>4. SavedInv'
  BY <1>1 DEF SavedInv
<1> QED
  BY <1>1, <1>2, <1>3, <1>4

-----------------------------------------------------------------------------

(***************************************************************************)
(* What the pusher relies on in the queue groups: nothing is trimmed, every *)
(* lease handed out is of a job below `next', and a group that was taken    *)
(* from belongs to a subject that exists.                                   *)
(***************************************************************************)
HandedBelow == \A h \in handed : h.group \in known /\ h.index < queues[h.group].next

JobsInv ==
  /\ QueueInv
  /\ base = 0
  /\ HandedBelow
  /\ known # {} => last > 0

Psubs == psub \in [Subscriptions -> Psub]

\* The end of a delivery to the Auditor.
AuditorDone == AuditorAnswers \/ \E wait \in Waits : AuditorRefuses(wait)

LEMMA OrderNames ==
  /\ DOMAIN Order = 1 .. Len(Order) /\ Len(Order) \in Nat
  /\ \A n \in DOMAIN Order : Order[n] \in Subscriptions
  /\ \A s \in Subscriptions : \E n \in DOMAIN Order : Order[n] = s
<1>1. Order \in Seq(Subscriptions)
  BY WorkersAssumption
<1>2. DOMAIN Order = 1 .. Len(Order) /\ Len(Order) \in Nat
  BY <1>1
<1> QED
  BY <1>2 DEF Subscriptions

LEMMA TakeMakes ==
  ASSUME JobsInv, NEW g \in Groups, Take(g, MaxJobs, GroupLease)
  PROVE  /\ QueueInv' /\ Exists /\ dying = {}
         /\ UNCHANGED <<subjectVars, now, dlq, finished>>
         /\ known' = known \cup {g} /\ handed \subseteq handed'
         /\ \A h \in handed' \ handed : h.group = g /\ h.index < queues'[g].next
         /\ queues'[g].next \in Nat /\ queues'[g].next >= QueueLoad(g).next
         /\ \A k \in Groups : k # g => queues'[k] = queues[k]
<1>1. PICK lease \in Nat : \E scanned, dead, again, new, table, upto :
        Taken(g, MaxJobs, lease, scanned, dead, again, new, table, upto)
  BY TakeIsTaken DEF JobsInv
<1>2. PICK scanned, dead, again, new, table, upto :
        Taken(g, MaxJobs, lease, scanned, dead, again, new, table, upto)
  BY <1>1
<1> DEFINE q == QueueLoad(g)
<1>3. q \in Record /\ RecordInv(base, q, finished[g], died[g], loose[g])
  BY LoadedRecord DEF JobsInv
<1>4. /\ scanned \in SUBSET Expired(q) /\ again = {Renewed(e, lease) : e \in scanned \ dead}
      /\ upto \in q.next .. last + 1
      /\ new = {NewLease(i, lease) : i \in q.next .. upto - 1}
      /\ handed' = handed \cup {Given(g, e) : e \in {f \in again \cup new : f.index > base}}
      /\ known' = known \cup {g} /\ dying = {}
      /\ UNCHANGED <<subjectVars, now, dlq, finished>>
  BY <1>2 DEF Taken
<1>5. queues'[g].next = upto /\ \A k \in Groups : k # g => queues'[k] = queues[k]
  BY <1>2 DEF Taken, JobsInv, QueueInv, TypeOK
<1>6. q.next \in Nat /\ last \in Nat /\ upto \in Nat /\ upto >= q.next
  BY <1>3, <1>4 DEF Record, JobsInv, QueueInv, TypeOK, SubjectTypeOK
<1> HIDE DEF q
<1>7. \A e \in again \cup new : e.index < upto
  <2>1. \A e \in scanned : e.index \in Nat /\ e.index < q.next
    BY <1>3, <1>4 DEF Expired, RecordInv, Covers, Record, Entry
  <2>2. ASSUME NEW e \in again PROVE e.index < upto
    <3>1. PICK f \in scanned : e = Renewed(f, lease)
      BY <1>4, <2>2
    <3>2. e.index = f.index
      BY <3>1 DEF Renewed
    <3> QED
      BY <1>6, <2>1, <3>2
  <2>3. ASSUME NEW e \in new PROVE e.index < upto
    <3>1. PICK i \in q.next .. upto - 1 : e = NewLease(i, lease)
      BY <1>4, <2>3
    <3>2. e.index = i
      BY <3>1 DEF NewLease
    <3> QED
      BY <1>6, <3>2
  <2> QED
    BY <2>2, <2>3
<1>8. ASSUME NEW h \in handed' \ handed
      PROVE  h.group = g /\ h.index < queues'[g].next
  <2>1. PICK e \in again \cup new : h = Given(g, e)
    BY <1>4, <1>8
  <2> QED
    BY <1>5, <1>7, <2>1 DEF Given
<1>9. QueueInv' /\ Exists
  <2>1. QueueInv /\ GroupLease \in Leases \cup {GroupLease}
    BY DEF JobsInv
  <2>2. QueueInv'
    BY <2>1, TakeInv
  <2>3. Exists
    BY DEF Take
  <2> QED
    BY <2>2, <2>3
<1> QED
  BY <1>4, <1>5, <1>6, <1>8, <1>9 DEF q

\* A step that takes nothing.
LEMMA JobsInvStays ==
  ASSUME JobsInv, QueueInv', base' = base, last' \in Nat, last' >= last,
         handed' \subseteq handed, known' = known,
         \A g \in Groups : queues'[g].next = queues[g].next
  PROVE  JobsInv'
<1>1. last \in Nat /\ known \subseteq Groups
  BY DEF JobsInv, QueueInv, TypeOK, SubjectTypeOK
<1>2. HandedBelow'
  BY <1>1 DEF JobsInv, HandedBelow
<1> QED
  BY <1>1, <1>2 DEF JobsInv

LEMMA JobsInvStep ==
  ASSUME JobsInv, Psubs, [WorkersStep]_workersVars
  PROVE  JobsInv'
<1>1. /\ QueueInv /\ base \in Nat /\ last \in Nat /\ now \in Nat
      /\ known \subseteq Groups /\ queues \in [Groups -> Record] /\ handed \subseteq Hand
      /\ last <= last
  BY DEF JobsInv, QueueInv, TypeOK, SubjectTypeOK
<1>2. ASSUME UNCHANGED vars
      PROVE  JobsInv'
  <2>1. QueueInv'
    BY <1>1, <1>2, OtherStepInv
  <2> QED
    BY <1>1, <1>2, <2>1, JobsInvStays DEF vars, subjectVars, queueVars
<1>3. ASSUME NEW g \in Groups, Take(g, MaxJobs, GroupLease)
      PROVE  JobsInv'
  <2>1. /\ QueueInv' /\ base' = base /\ last' = last /\ last > 0
        /\ known' = known \cup {g}
        /\ \A h \in handed' \ handed : h.group = g /\ h.index < queues'[g].next
        /\ queues'[g].next \in Nat /\ queues'[g].next >= QueueLoad(g).next
        /\ \A k \in Groups : k # g => queues'[k] = queues[k]
    BY <1>3, TakeMakes DEF subjectVars, Exists
  <2>2. ASSUME NEW h \in handed'
        PROVE  h.group \in known' /\ h.index < queues'[h.group].next
    <3>1. CASE h \in handed
      <4>1. h.group \in known /\ h.index < queues[h.group].next /\ h.index \in Nat
        BY <1>1, <3>1 DEF JobsInv, HandedBelow, Hand
      <4>2. queues[h.group].next \in Nat
        BY <1>1, <4>1 DEF Record
      <4>3. CASE h.group = g
        BY <2>1, <4>1, <4>2, <4>3 DEF QueueLoad
      <4>4. CASE h.group # g
        BY <1>1, <2>1, <4>1, <4>4
      <4> QED
        BY <4>3, <4>4
    <3>2. CASE h \notin handed
      BY <2>1, <3>2
    <3> QED
      BY <3>1, <3>2
  <2> QED
    BY <1>1, <2>1, <2>2 DEF JobsInv, HandedBelow
<1>4. ASSUME PublishJob
      PROVE  JobsInv'
  <2>1. /\ Publish /\ UNCHANGED queueVars /\ base' = base /\ last' = last + 1
    BY <1>4 DEF PublishJob, Publish
  <2>2. QueueInv'
    BY <1>1, <2>1, SubjectStepInv DEF StepWith
  <2> QED
    BY <1>1, <2>1, <2>2, JobsInvStays DEF queueVars
<1>5. ASSUME NEW d \in dying, PublishLetter(d)
      PROVE  JobsInv'
  <2>1. DeadLetter(d)
    BY <1>5 DEF PublishLetter
  <2>2. QueueInv'
    BY <1>1, <2>1, OtherStepInv
  <2> QED
    BY <1>1, <2>1, <2>2, JobsInvStays DEF DeadLetter, subjectVars
<1>6. ASSUME PumpTake
      PROVE  JobsInv'
  <2>1. Order[at] \in Subscriptions
    BY <1>6, OrderNames DEF PumpTake, Asking
  <2>2. psub[Order[at]].group \in Groups
    BY <2>1 DEF Psubs, Psub
  <2>3. \/ UNCHANGED vars
        \/ Take(psub[Order[at]].group, MaxJobs, GroupLease)
    BY <1>6 DEF PumpTake
  <2> QED
    BY <1>2, <1>3, <2>2, <2>3
<1>7. ASSUME NEW s \in Members, NEW good \in SUBSET psub[s].jobs, Settle(s, good)
      PROVE  JobsInv'
  <2>1. psub[s] \in Psub
    BY DEF Psubs, Members
  <2>2. /\ QueueInv' /\ \A g \in Groups : queues'[g].next = queues[g].next
        /\ handed' \subseteq handed /\ UNCHANGED <<subjectVars, known>>
    BY <1>1, <1>7, <2>1, SettleInv
  <2> QED
    BY <1>1, <2>2, JobsInvStays DEF subjectVars
<1>8. ASSUME handed' \subseteq handed, dying' \subseteq dying,
             UNCHANGED <<subjectVars, now, known, queues, onDisk, dlq, finished, died, loose>>
      PROVE  JobsInv'
  <2>1. QueueInv'
    BY <1>1, <1>8, ForgetfulInv
  <2> QED
    BY <1>1, <1>8, <2>1, JobsInvStays DEF subjectVars
<1>9. ASSUME NEW s \in Members, DeliveryEnds(s)
      PROVE  JobsInv'
  <2>1. {} \in SUBSET psub[s].jobs
    OBVIOUS
  <2>2. CASE \E good \in SUBSET psub[s].jobs : WorkerAnswers(s, good)
    BY <1>7, <2>2 DEF WorkerAnswers
  <2>3. CASE \E wait \in Waits : WorkerRefuses(s, wait)
    BY <1>7, <2>1, <2>3 DEF WorkerRefuses
  <2>4. CASE \E good \in SUBSET psub[s].jobs, wait \in Waits : WorkerLost(s, good, wait)
    BY <1>8, <2>4 DEF WorkerLost
  <2> QED
    BY <1>9, <2>2, <2>3, <2>4 DEF DeliveryEnds
<1>10. ASSUME TickPushed
       PROVE  JobsInv'
  <2>1. Tick
    BY <1>10 DEF TickPushed
  <2>2. QueueInv'
    BY <1>1, <2>1, OtherStepInv
  <2> QED
    BY <1>1, <2>1, <2>2, JobsInvStays DEF Tick, subjectVars
<1>11. ASSUME RestartPushed
       PROVE  JobsInv'
  BY <1>8, <1>11 DEF RestartPushed
<1>12. CASE \/ PumpStart \/ PumpSkip \/ PumpRead \/ PumpEnd \/ AuditorDone
            \/ \E s \in Members, g \in Groups : Reregister(s, g)
            \/ UNCHANGED workersVars
  BY <1>2, <1>12
  DEF PumpStart, PumpSkip, PumpRead, PumpEnd,
      AuditorDone, AuditorAnswers, AuditorRefuses, Reregister, workersVars
<1> QED
  BY <1>4, <1>5, <1>6, <1>9, <1>10, <1>11, <1>12 DEF WorkersStep, WorkersNext, AuditorDone, Pump

-----------------------------------------------------------------------------

(***************************************************************************)
(* What the steps make of the pusher's records.                             *)
(***************************************************************************)
LEMMA DeliveringType ==
  ASSUME Psubs, NEW s \in Subscriptions, NEW given \in SUBSET Hand
  PROVE  /\ Delivering(s, given) \in Psub
         /\ Delivering(s, given).group = psub[s].group
         /\ Delivering(s, given).conn = psub[s].conn
         /\ Delivering(s, given).due = psub[s].due
         /\ Delivering(s, given).upto = psub[s].upto
         /\ Delivering(s, given).jobs = given
         /\ Delivering(s, given).inflight <=> given # {} /\ psub[s].conn
         /\ Delivering(s, given).wake <=> given = {} /\ Wake(psub[s].group)
<1> DEFINE p == psub[s]
<1>1. p \in Psub /\ p.conn \in BOOLEAN
  BY DEF Psubs, Psub
<1>2. PICK w \in BOOLEAN : w <=> given = {} /\ Wake(p.group)
  OBVIOUS
<1>3. PICK i \in BOOLEAN : i <=> given # {} /\ p.conn
  OBVIOUS
<1>4. w = (given = {} /\ Wake(p.group))
  BY <1>2 DEF Wake
<1>5. i = (given # {} /\ p.conn)
  BY <1>1, <1>3
<1>6. Delivering(s, given) = [p EXCEPT !.wake = w, !.inflight = i, !.jobs = given]
  BY <1>4, <1>5, Zenon DEF Delivering
<1> HIDE DEF p
<1>7. /\ [p EXCEPT !.wake = w, !.inflight = i, !.jobs = given] \in Psub
      /\ [p EXCEPT !.wake = w, !.inflight = i, !.jobs = given].group = p.group
      /\ [p EXCEPT !.wake = w, !.inflight = i, !.jobs = given].conn = p.conn
      /\ [p EXCEPT !.wake = w, !.inflight = i, !.jobs = given].due = p.due
      /\ [p EXCEPT !.wake = w, !.inflight = i, !.jobs = given].upto = p.upto
      /\ [p EXCEPT !.wake = w, !.inflight = i, !.jobs = given].jobs = given
      /\ [p EXCEPT !.wake = w, !.inflight = i, !.jobs = given].inflight = i
      /\ [p EXCEPT !.wake = w, !.inflight = i, !.jobs = given].wake = w
  BY <1>1 DEF Psub
<1> QED
  BY <1>2, <1>3, <1>6, <1>7 DEF p

\* The record of one subscription is replaced.
OnlyAt(s, p) == psub' \in [Subscriptions -> Psub] /\ psub'[s] = p
                /\ \A t \in Subscriptions : t # s => psub'[t] = psub[t]

LEMMA ReplacedAt ==
  ASSUME Psubs, NEW s \in Subscriptions, NEW p \in Psub, psub' = [psub EXCEPT ![s] = p]
  PROVE  OnlyAt(s, p)
  BY DEF OnlyAt, Psubs

\* given: the leases of this take.
LEMMA PumpTakeMakes ==
  ASSUME JobsInv, JobsInv', Psubs, PumpTake
  PROVE  LET s     == Order[at]
             given == handed' \ handed
         IN  /\ s \in Members /\ ~Resting(s) /\ given \in SUBSET Hand
             /\ OnlyAt(s, Delivering(s, given))
             /\ \A h \in given : h.group = psub[s].group
             /\ at \in DOMAIN Order /\ at' = at + 1 /\ dying = {}
             /\ \/ /\ Exists /\ Take(psub[s].group, MaxJobs, GroupLease)
                \/ ~Exists /\ UNCHANGED vars
             /\ UNCHANGED <<now, dlq, finished, base, last, seen, work, ran>>
<1> DEFINE s == Order[at]
           given == handed' \ handed
<1>1. /\ at \in DOMAIN Order /\ at' = at + 1 /\ dying = {} /\ s # Auditor /\ ~Resting(s)
      /\ psub' = [psub EXCEPT ![s] = Delivering(s, given)]
      /\ UNCHANGED <<seen, work, ran>>
      /\ IF Exists THEN Take(psub[s].group, MaxJobs, GroupLease) ELSE UNCHANGED vars
  BY DEF PumpTake, Asking
<1>2. s \in Members /\ s \in Subscriptions
  BY <1>1, OrderNames DEF Members
<1>3. given \in SUBSET Hand
  BY DEF JobsInv, QueueInv, TypeOK
<1>4. Delivering(s, given) \in Psub
  BY <1>2, <1>3, DeliveringType
<1>5. psub[s].group \in Groups
  BY <1>2 DEF Psubs, Psub
<1>6. OnlyAt(s, Delivering(s, given))
  BY <1>1, <1>2, <1>4, ReplacedAt
<1>7. CASE Exists
  <2>1. Take(psub[s].group, MaxJobs, GroupLease)
    BY <1>1, <1>7
  <2>2. /\ UNCHANGED <<subjectVars, now, dlq, finished>>
        /\ \A h \in given : h.group = psub[s].group
    BY <1>5, <2>1, TakeMakes
  <2>3. UNCHANGED <<base, last>>
    BY <2>2 DEF subjectVars
  <2> HIDE DEF given
  <2>4. UNCHANGED <<now, dlq, finished, base, last, seen, work, ran>>
    BY <1>1, <2>2, <2>3
  <2> QED
    BY <1>1, <1>2, <1>3, <1>6, <1>7, <2>1, <2>2, <2>4 DEF given
<1>8. CASE ~Exists
  <2>1. UNCHANGED vars
    BY <1>1, <1>8
  <2>2. given = {} /\ UNCHANGED <<now, dlq, finished, base, last>>
    BY <2>1 DEF vars, queueVars, subjectVars
  <2> HIDE DEF given
  <2> QED
    BY <1>1, <1>2, <1>3, <1>6, <1>8, <2>1, <2>2 DEF given
<1> QED
  BY <1>7, <1>8

\* The other steps that write one record.
LEMMA EndedType ==
  ASSUME Psubs, NEW s \in Subscriptions, NEW due \in Nat, Ended(s, due)
  PROVE  \E p \in Psub : /\ OnlyAt(s, p) /\ ~p.inflight /\ p.jobs = {} /\ p.due = due
                         /\ p.group = psub[s].group /\ p.conn = psub[s].conn
                         /\ p.upto = psub[s].upto
<1> DEFINE p == [psub[s] EXCEPT !.inflight = FALSE, !.jobs = {}, !.due = due]
<1>1. psub[s] \in Psub
  BY DEF Psubs
<1>2. /\ p \in Psub /\ ~p.inflight /\ p.jobs = {} /\ p.due = due
      /\ p.group = psub[s].group /\ p.conn = psub[s].conn /\ p.upto = psub[s].upto
  BY <1>1 DEF Psub
<1>3. psub' = [psub EXCEPT ![s] = p]
  BY DEF Ended, Psubs
<1> HIDE DEF p
<1> QED
  BY <1>2, <1>3, ReplacedAt

LEMMA PumpReadType ==
  ASSUME Psubs, dlq \in Seq(Letter), PumpRead
  PROVE  \E p \in Psub :
           /\ OnlyAt(Auditor, p) /\ p.conn = psub[Auditor].conn
           /\ p.due = psub[Auditor].due
           /\ p.inflight <=> Len(dlq) > seen /\ psub[Auditor].conn
           /\ p.upto \in 0 .. Len(dlq)
           /\ started' = (started \/ p.inflight)
<1> DEFINE send == Len(dlq) > seen /\ psub[Auditor].conn
           upto == IF send THEN Len(dlq) ELSE 0
<1>1. /\ psub[Auditor] \in Psub /\ Len(dlq) \in Nat /\ Auditor \in Subscriptions
      /\ psub[Auditor].conn \in BOOLEAN
  BY WorkersAssumption DEF Psubs, Psub
<1>2. send \in BOOLEAN
  BY <1>1
<1>3. upto \in 0 .. Len(dlq)
  BY <1>1
<1>4. psub' = [psub EXCEPT ![Auditor].inflight = send, ![Auditor].upto = upto]
      /\ started' = (started \/ send)
  BY DEF PumpRead
<1> HIDE DEF upto
<1>5. PICK i \in {TRUE, FALSE} : i = send
  BY <1>2
<1> DEFINE Sent(e, k, u) == [e EXCEPT !.inflight = k, !.upto = u]
           p == Sent(psub[Auditor], i, upto)
<1>6. /\ p \in Psub /\ p.conn = psub[Auditor].conn /\ p.due = psub[Auditor].due
      /\ p.inflight = i /\ p.upto = upto
  <2>1. upto \in Nat
    BY <1>1, <1>3
  <2>2. \A e \in Psub, k \in {TRUE, FALSE}, u \in Nat :
          /\ Sent(e, k, u) \in Psub /\ Sent(e, k, u).conn = e.conn
          /\ Sent(e, k, u).due = e.due /\ Sent(e, k, u).inflight = k
          /\ Sent(e, k, u).upto = u
    BY ZenonT(60) DEF Psub
  <2>3. psub[Auditor] \in Psub
    BY <1>1
  <2> HIDE DEF Sent
  <2>4. \A e \in Psub, u \in Nat :
          /\ Sent(e, i, u) \in Psub /\ Sent(e, i, u).conn = e.conn
          /\ Sent(e, i, u).due = e.due /\ Sent(e, i, u).inflight = i
          /\ Sent(e, i, u).upto = u
    BY ONLY i \in {TRUE, FALSE}, <2>2, Zenon
  <2> DEFINE w == psub[Auditor]
  <2> HIDE DEF w
  <2>5. w \in Psub
    BY <2>3 DEF w
  <2>6. /\ Sent(w, i, upto) \in Psub /\ Sent(w, i, upto).conn = w.conn
        /\ Sent(w, i, upto).due = w.due /\ Sent(w, i, upto).inflight = i
        /\ Sent(w, i, upto).upto = upto
    BY ONLY <2>1, <2>4, <2>5, Zenon
  <2> QED
    BY ONLY <2>6 DEF w, p
<1>7. psub' = [psub EXCEPT ![Auditor] = p]
  BY <1>1, <1>4, <1>5 DEF Psubs
<1> HIDE DEF p
<1>8. OnlyAt(Auditor, p)
  BY <1>1, <1>6, <1>7, ReplacedAt
<1> QED
  BY <1>3, <1>4, <1>5, <1>6, <1>8

LEMMA AuditorDoneType ==
  ASSUME Psubs, now \in Nat, AuditorDone
  PROVE  \E p \in Psub : OnlyAt(Auditor, p) /\ ~p.inflight /\ p.upto = 0
<1>1. PICK due \in Nat : AuditorEnded(due)
  BY WorkersAssumption DEF AuditorDone, AuditorAnswers, AuditorRefuses
<1> DEFINE p == [psub[Auditor] EXCEPT !.inflight = FALSE, !.upto = 0, !.due = due]
<1>2. psub[Auditor] \in Psub /\ Auditor \in Subscriptions
  BY WorkersAssumption DEF Psubs
<1>3. p \in Psub /\ ~p.inflight /\ p.upto = 0
  BY <1>2 DEF Psub
<1>4. psub' = [psub EXCEPT ![Auditor] = p]
  BY <1>1 DEF AuditorEnded, Psubs
<1> HIDE DEF p
<1> QED
  BY <1>2, <1>3, <1>4, ReplacedAt

LEMMA ReregisterType ==
  ASSUME Psubs, NEW s \in Members, NEW g \in Groups, Reregister(s, g)
  PROVE  \E p \in Psub : /\ OnlyAt(s, p) /\ p.group = g
                         /\ p.inflight = psub[s].inflight /\ p.conn = psub[s].conn
<1> DEFINE p == [psub[s] EXCEPT !.group = g]
<1>1. psub[s] \in Psub /\ s \in Subscriptions
  BY DEF Psubs, Members
<1>2. p \in Psub /\ p.group = g /\ p.inflight = psub[s].inflight /\ p.conn = psub[s].conn
  BY <1>1 DEF Psub
<1>3. psub' = [psub EXCEPT ![s] = p]
  BY DEF Reregister, Psubs
<1> HIDE DEF p
<1> QED
  BY <1>1, <1>2, <1>3, ReplacedAt

LEMMA NewPsubType ==
  ASSUME NEW g \in Groups, NEW transport \in BOOLEAN
  PROVE  /\ NewPsub(g, transport) \in Psub /\ NewPsub(g, transport).conn = transport
         /\ ~NewPsub(g, transport).inflight /\ NewPsub(g, transport).upto = 0
  BY DEF NewPsub, Psub

LEMMA RanType ==
  ASSUME ran \in [Groups -> SUBSET Nat], NEW s, NEW good \in SUBSET Hand, Ran(s, good)
  PROVE  /\ ran' \in [Groups -> SUBSET Nat]
         /\ \A g \in Groups : ran[g] \subseteq ran'[g]
         /\ \A h \in good : h.index \in ran'[h.group]
<1>1. \A h \in good : h.index \in Nat /\ h.group \in Groups
  BY DEF Hand
<1>2. \A g \in Groups : {h.index : h \in {k \in good : k.group = g}} \in SUBSET Nat
  BY <1>1
<1>3. ran' = [g \in Groups |-> ran[g] \cup {h.index : h \in {k \in good : k.group = g}}]
  BY DEF Ran
<1> QED
  BY <1>1, <1>2, <1>3

-----------------------------------------------------------------------------

\* Only a subscription with a connection delivers.
Connected == \A s \in Subscriptions : psub[s].inflight => psub[s].conn

AuditorBehind == psub[Auditor].upto <= Len(dlq)

WorkersInv == JobsInv /\ WorkersTypeOK /\ Connected /\ AuditorBehind

LEMMA WorkersInitInv == ASSUME WorkersInit PROVE WorkersInv
<1>1. QueueInv
  BY QueueInvInit DEF WorkersInit
<1>2. base = 0 /\ known = {} /\ handed = {} /\ dlq = << >>
  BY DEF WorkersInit, Init, SubjectInit
<1>3. JobsInv
  BY <1>1, <1>2 DEF JobsInv, HandedBelow
<1>4. Len(dlq) = 0 /\ Len(Order) \in Nat
  BY <1>2, OrderNames
<1>5. psub \in [Subscriptions -> Psub] /\ \A s \in Subscriptions : psub[s].conn /\ psub[s].upto = 0
  <2>1. \A s \in Subscriptions : \E g \in Groups : psub[s] = NewPsub(g, TRUE)
    BY DEF WorkersInit
  <2>2. \A g \in Groups : /\ NewPsub(g, TRUE) \in Psub /\ NewPsub(g, TRUE).conn
                          /\ NewPsub(g, TRUE).upto = 0
    BY NewPsubType
  <2>3. DOMAIN psub = Subscriptions /\ psub = [s \in DOMAIN psub |-> psub[s]]
    BY DEF WorkersInit
  <2> QED
    BY <2>1, <2>2, <2>3, Zenon
<1>6. ran \in [Groups -> SUBSET Nat]
  BY DEF WorkersInit
<1>7. seen \in 0 .. Len(dlq) /\ at \in 0 .. Len(Order) + 1
      /\ work \in BOOLEAN /\ started \in BOOLEAN /\ busy \in BOOLEAN
  <2>1. seen \in 0 .. Len(dlq) /\ at \in 0 .. Len(Order) + 1
    BY <1>4 DEF WorkersInit
  <2>2. work \in BOOLEAN /\ started \in BOOLEAN /\ busy \in BOOLEAN
    BY Zenon DEF WorkersInit
  <2> QED
    BY <2>1, <2>2
<1>8. AuditorBehind /\ Connected
  BY <1>4, <1>5, WorkersAssumption DEF AuditorBehind, Connected
<1> QED
  BY <1>1, <1>3, <1>5, <1>6, <1>7, <1>8 DEF WorkersInv, WorkersTypeOK, QueueInv

\* The dead-letter channel only grows.
LEMMA LettersGrow ==
  ASSUME JobsInv, Psubs, [WorkersStep]_workersVars
  PROVE  Len(dlq) \in Nat /\ Len(dlq') \in Nat /\ Len(dlq) <= Len(dlq')
<1>1. dlq \in Seq(Letter) /\ dying \subseteq Letter
  BY DEF JobsInv, QueueInv, TypeOK
<1>2. JobsInv'
  BY JobsInvStep
<1>3. dlq' = dlq \/ \E d \in dying : dlq' = Append(dlq, d)
  <2>1. CASE \E d \in dying : PublishLetter(d)
    BY <2>1 DEF PublishLetter, DeadLetter
  <2>2. CASE PumpTake
    BY <1>2, <2>2, PumpTakeMakes
  <2>3. CASE \E s \in Members : DeliveryEnds(s)
    BY <2>3 DEF DeliveryEnds, WorkerAnswers, WorkerRefuses, WorkerLost, Settle
  <2>4. CASE PublishJob
    BY <2>4 DEF PublishJob, queueVars
  <2>5. CASE TickPushed
    BY <2>5 DEF TickPushed, Tick
  <2>6. CASE RestartPushed
    BY <2>6 DEF RestartPushed
  <2>7. CASE \/ PumpStart \/ PumpSkip \/ PumpRead \/ PumpEnd \/ AuditorDone
             \/ \E s \in Members, g \in Groups : Reregister(s, g)
             \/ UNCHANGED workersVars
    BY <2>7 DEF PumpStart, PumpSkip, PumpRead, PumpEnd,
    AuditorDone, AuditorAnswers, AuditorRefuses, Reregister,
                workersVars, vars, queueVars
  <2> QED
    BY <2>1, <2>2, <2>3, <2>4, <2>5, <2>6, <2>7 DEF WorkersStep, WorkersNext, AuditorDone, Pump
<1> QED
  BY <1>1, <1>3

\* What a step does to the records and the receipt, whatever it is.
LEMMA PsubsStep ==
  ASSUME WorkersInv, [WorkersStep]_workersVars
  PROVE  Psubs' /\ Connected' /\ AuditorBehind' /\ seen' \in 0 .. Len(dlq')
<1>1. /\ JobsInv /\ Psubs /\ Connected /\ AuditorBehind /\ seen \in 0 .. Len(dlq)
      /\ Auditor \in Subscriptions /\ now \in Nat
  BY WorkersAssumption DEF WorkersInv, WorkersTypeOK, Psubs, JobsInv, QueueInv, TypeOK
<1>2. JobsInv' /\ Len(dlq) \in Nat /\ Len(dlq') \in Nat /\ Len(dlq) <= Len(dlq')
  BY <1>1, JobsInvStep, LettersGrow
<1>3. psub[Auditor].upto \in Nat
  BY <1>1 DEF Psubs, Psub
<1>4. ASSUME NEW s \in Subscriptions, NEW p \in Psub, OnlyAt(s, p),
             p.inflight => p.conn,
             s = Auditor => p.upto <= Len(dlq')
      PROVE  Psubs' /\ Connected' /\ AuditorBehind'
  <2>1. Psubs'
    BY <1>4 DEF OnlyAt, Psubs
  <2>2. Connected'
    BY <1>1, <1>4 DEF OnlyAt, Connected
  <2>3. AuditorBehind'
    BY <1>1, <1>2, <1>3, <1>4 DEF OnlyAt, AuditorBehind
  <2> QED
    BY <2>1, <2>2, <2>3
<1>5. ASSUME psub' = psub, seen' = seen
      PROVE  Psubs' /\ Connected' /\ AuditorBehind' /\ seen' \in 0 .. Len(dlq')
  BY <1>1, <1>2, <1>3, <1>5 DEF Psubs, Connected, AuditorBehind
<1>6. CASE PumpTake
  <2> DEFINE s == Order[at]
             given == handed' \ handed
  <2>1. /\ s \in Members /\ s \in Subscriptions /\ given \in SUBSET Hand
        /\ OnlyAt(s, Delivering(s, given)) /\ seen' = seen /\ s # Auditor
    BY <1>1, <1>2, <1>6, PumpTakeMakes DEF Members
  <2>2. /\ Delivering(s, given) \in Psub
        /\ Delivering(s, given).inflight => Delivering(s, given).conn
    BY <1>1, <2>1, DeliveringType
  <2> HIDE DEF s, given
  <2> QED
    BY <1>1, <1>2, <1>4, <2>1, <2>2
<1>7. CASE PumpRead
  <2>1. dlq \in Seq(Letter) /\ dlq' = dlq /\ seen' = seen
    BY <1>1, <1>7 DEF PumpRead, vars, queueVars, JobsInv, QueueInv, TypeOK
  <2>2. PICK p \in Psub : /\ OnlyAt(Auditor, p) /\ p.conn = psub[Auditor].conn
                          /\ p.inflight <=> Len(dlq) > seen /\ psub[Auditor].conn
                          /\ p.upto \in 0 .. Len(dlq)
    BY <1>1, <1>7, <2>1, PumpReadType
  <2> QED
    BY <1>1, <1>2, <1>4, <2>1, <2>2
<1>8. CASE AuditorDone
  <2>1. PICK p \in Psub : OnlyAt(Auditor, p) /\ ~p.inflight /\ p.upto = 0
    BY <1>1, <1>8, AuditorDoneType
  <2>2. seen' = seen \/ seen' \in seen + 1 .. psub[Auditor].upto
    BY <1>8 DEF AuditorDone, AuditorAnswers, AuditorRefuses
  <2> QED
    BY <1>1, <1>2, <1>3, <1>4, <2>1, <2>2 DEF AuditorBehind
<1>9. ASSUME NEW s \in Members, DeliveryEnds(s)
      PROVE  Psubs' /\ Connected' /\ AuditorBehind' /\ seen' \in 0 .. Len(dlq')
  <2>1. (\E due \in Nat : Ended(s, due)) /\ seen' = seen
    BY <1>1, <1>9, WorkersAssumption
    DEF DeliveryEnds, WorkerAnswers, WorkerRefuses, WorkerLost
  <2>2. s \in Subscriptions /\ s # Auditor
    BY DEF Members
  <2>3. PICK p \in Psub : OnlyAt(s, p) /\ ~p.inflight
    BY <1>1, <2>1, <2>2, EndedType
  <2> QED
    BY <1>1, <1>2, <1>4, <2>1, <2>2, <2>3
<1>10. ASSUME NEW s \in Members, NEW g \in Groups, Reregister(s, g)
       PROVE  Psubs' /\ Connected' /\ AuditorBehind' /\ seen' \in 0 .. Len(dlq')
  <2>1. PICK p \in Psub : /\ OnlyAt(s, p)
                          /\ p.inflight = psub[s].inflight /\ p.conn = psub[s].conn
    BY <1>1, <1>10, ReregisterType
  <2>2. seen' = seen /\ s \in Subscriptions /\ s # Auditor
    BY <1>10 DEF Reregister, Members
  <2>3. p.inflight => p.conn
    BY <1>1, <2>1, <2>2 DEF Connected
  <2> QED
    BY <1>1, <1>2, <1>4, <2>1, <2>2, <2>3
<1>11. CASE RestartPushed
  <2>1. /\ psub' = [s \in Subscriptions |-> NewPsub(psub[s].group, FALSE)]
        /\ seen' = seen
    BY <1>11 DEF RestartPushed
  <2>2. \A s \in Subscriptions : psub[s].group \in Groups
    BY <1>1 DEF Psubs, Psub
  <2>3. \A s \in Subscriptions : psub'[s] \in Psub /\ ~psub'[s].inflight /\ psub'[s].upto = 0
    BY <2>1, <2>2, NewPsubType
  <2>4. Psubs'
    BY <2>1, <2>3 DEF Psubs
  <2>5. Connected'
    BY <2>3 DEF Connected
  <2>6. AuditorBehind'
    BY <1>1, <1>2, <2>3 DEF AuditorBehind
  <2> QED
    BY <1>1, <1>2, <2>1, <2>4, <2>5, <2>6
<1>12. CASE \/ PublishJob \/ (\E d \in dying : PublishLetter(d))
            \/ PumpStart \/ PumpSkip \/ PumpEnd \/ TickPushed \/ UNCHANGED workersVars
  BY <1>5, <1>12
  DEF PublishJob, PublishLetter, PumpStart, PumpSkip, PumpEnd, TickPushed, pushVars,
      workersVars
<1>13. seen' = seen => seen' \in 0 .. Len(dlq')
  BY <1>1, <1>2
<1> QED
  BY <1>6, <1>7, <1>8, <1>9, <1>10, <1>11, <1>12 DEF WorkersStep, WorkersNext, AuditorDone, Pump

LEMMA WorkersInvStep ==
  ASSUME WorkersInv, [WorkersStep]_workersVars
  PROVE  WorkersInv'
<1>1. /\ JobsInv /\ Psubs /\ ran \in [Groups -> SUBSET Nat]
      /\ at \in 0 .. Len(Order) + 1 /\ Len(Order) \in Nat /\ DOMAIN Order = 1 .. Len(Order)
      /\ work \in BOOLEAN /\ started \in BOOLEAN /\ busy \in BOOLEAN
  BY OrderNames DEF WorkersInv, WorkersTypeOK, Psubs
<1>2. JobsInv' /\ Psubs' /\ Connected' /\ AuditorBehind' /\ seen' \in 0 .. Len(dlq')
  BY <1>1, JobsInvStep, PsubsStep
<1>3. \A s \in Members : psub[s].jobs \subseteq Hand
  BY <1>1 DEF Psubs, Psub, Members
<1>4. /\ ran' \in [Groups -> SUBSET Nat] /\ at' \in 0 .. Len(Order) + 1
      /\ work' \in BOOLEAN
  <2>1. CASE \E s \in Members : DeliveryEnds(s)
    <3>1. PICK s \in Members : DeliveryEnds(s)
      BY <2>1
    <3>2. at' = at /\ work' \in {work, TRUE}
      BY <3>1 DEF DeliveryEnds, WorkerAnswers, WorkerRefuses, WorkerLost
    <3>3. ran' = ran \/ \E good \in SUBSET psub[s].jobs : Ran(s, good)
      BY <3>1 DEF DeliveryEnds, WorkerAnswers, WorkerRefuses, WorkerLost
    <3>4. ran' \in [Groups -> SUBSET Nat]
      BY <1>1, <1>3, <3>3, RanType
    <3> QED
      BY <1>1, <3>2, <3>4
  <2>2. CASE PumpTake \/ PumpSkip \/ PumpRead
    <3>1. at \in DOMAIN Order /\ at' = at + 1 /\ ran' = ran /\ work' = work
      BY <2>2 DEF PumpTake, PumpSkip, PumpRead, Asking
    <3> QED
      BY <1>1, <3>1
  <2>3. CASE \/ PublishJob \/ (\E d \in dying : PublishLetter(d)) \/ PumpStart
             \/ PumpEnd \/ AuditorDone
             \/ (\E s \in Members, g \in Groups : Reregister(s, g))
             \/ TickPushed \/ RestartPushed \/ UNCHANGED workersVars
    <3>1. (at' = at \/ at' = 0 \/ at' = 1) /\ ran' = ran
      BY <2>3
      DEF PublishJob, PublishLetter, PumpStart, PumpEnd,
          AuditorDone, AuditorAnswers, AuditorRefuses, Reregister,
          TickPushed, RestartPushed, workersVars, pushVars
    <3>2. work' \in BOOLEAN
      BY <1>1, <2>3
      DEF PublishJob, PublishLetter, PumpStart, PumpEnd,
          AuditorDone, AuditorAnswers, AuditorRefuses, Reregister,
          TickPushed, RestartPushed, workersVars, pushVars
    <3>3. at' \in 0 .. Len(Order) + 1
      BY <1>1, <3>1
    <3> QED
      BY <1>1, <3>1, <3>2, <3>3
  <2> QED
    BY <2>1, <2>2, <2>3 DEF WorkersStep, WorkersNext, AuditorDone, Pump
<1>5. started' \in BOOLEAN /\ busy' \in BOOLEAN
  <2>1. CASE PumpTake
    <3>1. Order[at] \in Subscriptions
      BY <2>1, OrderNames DEF PumpTake, Asking
    <3>2. psub'[Order[at]].inflight \in BOOLEAN /\ psub'[Order[at]].wake \in BOOLEAN
      BY <1>2, <3>1 DEF Psubs, Psub
    <3> QED
      BY <1>1, <2>1, <3>2 DEF PumpTake
  <2>2. CASE PumpRead
    BY <1>1, <2>2 DEF PumpRead
  <2>3. CASE \/ PublishJob \/ (\E d \in dying : PublishLetter(d)) \/ PumpStart \/ PumpSkip
             \/ PumpEnd \/ AuditorDone \/ (\E s \in Members : DeliveryEnds(s))
             \/ (\E s \in Members, g \in Groups : Reregister(s, g))
             \/ TickPushed \/ RestartPushed \/ UNCHANGED workersVars
    BY <1>1, <2>3
    DEF PublishJob, PublishLetter, PumpStart, PumpSkip, PumpEnd,
        AuditorDone, AuditorAnswers, AuditorRefuses, Reregister,
        TickPushed, RestartPushed, workersVars, pushVars, DeliveryEnds, WorkerAnswers,
        WorkerRefuses, WorkerLost
  <2> QED
    BY <2>1, <2>2, <2>3 DEF WorkersStep, WorkersNext, AuditorDone, Pump
<1>6. TypeOK'
  BY <1>2 DEF JobsInv, QueueInv
<1> QED
  BY <1>2, <1>4, <1>5, <1>6 DEF WorkersInv, WorkersTypeOK, Psubs

(***************************************************************************)
(* Throughout a pump, its takes, and the workers' answers.                  *)
(***************************************************************************)
THEOREM WorkersTyped == WorkersSpec => []WorkersInv
<1>1. WorkersInit => WorkersInv
  BY WorkersInitInv
<1>2. WorkersInv /\ [WorkersStep]_workersVars => WorkersInv'
  BY WorkersInvStep
<1> QED
  BY <1>1, <1>2, PTL DEF WorkersSpec

(***************************************************************************)
(* The variables keep their types; in particular the Auditor's receipt      *)
(* never passes the end of the dead-letter channel, and the pump's index    *)
(* never leaves its array (bjm_pusher_pump, finish).                        *)
(***************************************************************************)
THEOREM WorkersTypeCorrect == WorkersSpec => []WorkersTypeOK
<1>1. WorkersInv => WorkersTypeOK
  BY DEF WorkersInv
<1> QED
  BY <1>1, WorkersTyped, PTL

-----------------------------------------------------------------------------

\* A worker delivers jobs of the group it is in.
FlightsOwn ==
  \A s \in Members : psub[s].inflight => \A h \in psub[s].jobs : h.group = psub[s].group

LEMMA FlightsStep ==
  ASSUME Regroups = FALSE, WorkersInv, FlightsOwn, [WorkersStep]_workersVars
  PROVE  FlightsOwn'
<1>1. /\ JobsInv /\ JobsInv' /\ Psubs /\ now \in Nat /\ Auditor \in Subscriptions
      /\ dlq \in Seq(Letter)
  BY WorkersInvStep, WorkersAssumption
  DEF WorkersInv, WorkersTypeOK, Psubs, JobsInv, QueueInv, TypeOK
<1>2. ASSUME NEW s \in Subscriptions, NEW p \in Psub, OnlyAt(s, p),
             s # Auditor /\ p.inflight => \A h \in p.jobs : h.group = p.group
      PROVE  FlightsOwn'
  BY <1>2 DEF OnlyAt, FlightsOwn, Members
<1>3. CASE PumpTake
  <2> DEFINE s == Order[at]
             given == handed' \ handed
  <2>1. /\ s \in Subscriptions /\ given \in SUBSET Hand
        /\ OnlyAt(s, Delivering(s, given)) /\ \A h \in given : h.group = psub[s].group
    BY <1>1, <1>3, PumpTakeMakes DEF Members
  <2>2. /\ Delivering(s, given) \in Psub
        /\ Delivering(s, given).group = psub[s].group /\ Delivering(s, given).jobs = given
    BY <1>1, <2>1, DeliveringType
  <2> HIDE DEF s, given
  <2> QED
    BY <1>2, <2>1, <2>2
<1>4. CASE PumpRead
  <2>1. \E p \in Psub : OnlyAt(Auditor, p)
    BY <1>1, <1>4, PumpReadType
  <2> QED
    BY <1>1, <1>2, <2>1
<1>5. CASE AuditorDone
  <2>1. \E p \in Psub : OnlyAt(Auditor, p)
    BY <1>1, <1>5, AuditorDoneType
  <2> QED
    BY <1>1, <1>2, <2>1
<1>6. ASSUME NEW s \in Members, DeliveryEnds(s)
      PROVE  FlightsOwn'
  <2>1. (\E due \in Nat : Ended(s, due)) /\ s \in Subscriptions
    BY <1>1, <1>6, WorkersAssumption
    DEF DeliveryEnds, WorkerAnswers, WorkerRefuses, WorkerLost, Members
  <2>2. \E p \in Psub : OnlyAt(s, p) /\ ~p.inflight
    BY <1>1, <2>1, EndedType
  <2> QED
    BY <1>2, <2>1, <2>2
<1>7. ASSUME NEW s \in Members, NEW g \in Groups, Reregister(s, g)
      PROVE  FlightsOwn'
  <2>1. ~psub[s].inflight /\ s \in Subscriptions
    BY <1>7 DEF Reregister, Members
  <2>2. PICK p \in Psub : OnlyAt(s, p) /\ p.inflight = psub[s].inflight
    BY <1>1, <1>7, ReregisterType
  <2> QED
    BY <1>2, <2>1, <2>2
<1>8. CASE RestartPushed
  <2>1. psub' = [s \in Subscriptions |-> NewPsub(psub[s].group, FALSE)]
    BY <1>8 DEF RestartPushed
  <2>2. \A s \in Members : ~psub'[s].inflight
    BY <2>1 DEF Members, NewPsub
  <2> QED
    BY <2>2 DEF FlightsOwn
<1>9. CASE \/ PublishJob \/ (\E d \in dying : PublishLetter(d))
           \/ PumpStart \/ PumpSkip \/ PumpEnd \/ TickPushed \/ UNCHANGED workersVars
  <2>1. psub' = psub
    BY <1>9
    DEF PublishJob, PublishLetter, PumpStart, PumpSkip, PumpEnd, TickPushed, pushVars,
        workersVars
  <2> QED
    BY <2>1 DEF FlightsOwn
<1> QED
  BY <1>3, <1>4, <1>5, <1>6, <1>7, <1>8, <1>9 DEF WorkersStep, WorkersNext, AuditorDone, Pump

LEMMA FinishedStep ==
  ASSUME WorkersInv, FlightsOwn, OnlyRunJobsFinish, [WorkersStep]_workersVars
  PROVE  OnlyRunJobsFinish'
<1>1. /\ JobsInv /\ JobsInv' /\ QueueInv /\ Psubs /\ ran \in [Groups -> SUBSET Nat]
      /\ \A s \in Members : psub[s] \in Psub /\ psub[s].jobs \subseteq Hand
  BY WorkersInvStep DEF WorkersInv, WorkersTypeOK, Psubs, Psub, Members, JobsInv
<1>2. ASSUME finished' = finished, \A g \in Groups : ran[g] \subseteq ran'[g]
      PROVE  OnlyRunJobsFinish'
  BY <1>2 DEF OnlyRunJobsFinish
<1>3. ASSUME NEW s \in Members, NEW good \in SUBSET psub[s].jobs, WorkerAnswers(s, good)
      PROVE  OnlyRunJobsFinish'
  <2>1. /\ Settle(s, good) /\ Ran(s, good) /\ good \in SUBSET Hand
        /\ \A h \in good : h.group = psub[s].group
    BY <1>1, <1>3 DEF WorkerAnswers, FlightsOwn
  <2>2. /\ \A g \in Groups : ran[g] \subseteq ran'[g]
        /\ \A h \in good : h.index \in ran'[h.group]
    BY <1>1, <2>1, RanType
  <2>3. \A g \in Groups : \A i \in finished'[g] :
          i \in finished[g] \/ (g = psub[s].group /\ \E h \in good : h.index = i)
    BY <1>1, <2>1, SettleInv
  <2> QED
    BY <2>1, <2>2, <2>3 DEF OnlyRunJobsFinish
<1>4. ASSUME NEW s \in Members, NEW wait \in Waits, WorkerRefuses(s, wait)
      PROVE  OnlyRunJobsFinish'
  <2>1. Settle(s, {}) /\ ran' = ran /\ {} \in SUBSET psub[s].jobs
    BY <1>4 DEF WorkerRefuses
  <2>2. \A g \in Groups : \A i \in finished'[g] :
          i \in finished[g] \/ (g = psub[s].group /\ \E h \in {} : h.index = i)
    BY <1>1, <2>1, SettleInv
  <2> QED
    BY <2>1, <2>2 DEF OnlyRunJobsFinish
<1>5. ASSUME NEW s \in Members, NEW good \in SUBSET psub[s].jobs, NEW wait \in Waits,
             WorkerLost(s, good, wait)
      PROVE  OnlyRunJobsFinish'
  <2>1. Ran(s, good) /\ finished' = finished /\ good \in SUBSET Hand
    BY <1>1, <1>5 DEF WorkerLost
  <2> QED
    BY <1>1, <1>2, <2>1, RanType
<1>6. CASE PumpTake
  BY <1>1, <1>2, <1>6, PumpTakeMakes
<1>7. CASE \/ PublishJob \/ (\E d \in dying : PublishLetter(d)) \/ PumpStart \/ PumpSkip
           \/ PumpRead \/ PumpEnd \/ AuditorDone
           \/ (\E s \in Members, g \in Groups : Reregister(s, g))
           \/ TickPushed \/ RestartPushed \/ UNCHANGED workersVars
  <2>1. finished' = finished /\ ran' = ran
    BY <1>7
    DEF PublishJob, PublishLetter, DeadLetter, PumpStart, PumpSkip, PumpRead, PumpEnd,
        AuditorDone, AuditorAnswers, AuditorRefuses, Reregister, TickPushed, Tick,
        RestartPushed, workersVars, vars, queueVars, pushVars
  <2> QED
    BY <1>2, <2>1
<1> QED
  BY <1>3, <1>4, <1>5, <1>6, <1>7 DEF WorkersStep, WorkersNext, AuditorDone, Pump, DeliveryEnds

(***************************************************************************)
(* A job is finished only by being run, for workers that are not moved to   *)
(* another group while they deliver: finish_jobs settles a batch in the     *)
(* group the subscription has by then, and for one that was moved the       *)
(* statement does not hold.                                                 *)
(***************************************************************************)
THEOREM JobsFinishByBeingRun ==
  ASSUME Regroups = FALSE
  PROVE  WorkersSpec => []OnlyRunJobsFinish
<1> DEFINE RunInv == WorkersInv /\ FlightsOwn /\ OnlyRunJobsFinish
<1>1. WorkersInit => RunInv
  <2> SUFFICES ASSUME WorkersInit PROVE FlightsOwn /\ OnlyRunJobsFinish
    BY WorkersInitInv
  <2>1. FlightsOwn
    BY DEF WorkersInit, FlightsOwn, Members, NewPsub
  <2>2. OnlyRunJobsFinish
    BY DEF WorkersInit, Init, OnlyRunJobsFinish
  <2> QED
    BY <2>1, <2>2
<1>2. RunInv /\ [WorkersStep]_workersVars => RunInv'
  BY WorkersInvStep, FlightsStep, FinishedStep
<1>3. RunInv => OnlyRunJobsFinish
  OBVIOUS
<1> HIDE DEF RunInv
<1> QED
  BY <1>1, <1>2, <1>3, PTL DEF WorkersSpec

-----------------------------------------------------------------------------

(***************************************************************************)
(* What a take does when there is nothing to give out.                      *)
(***************************************************************************)
Drained(g) == QueueLoad(g).inflight = {} /\ QueueLoad(g).next = last + 1

\* The parts of a take that say how far it goes.
TakeUpTo(g, lease, again, new, table, upto) ==
  /\ new = {NewLease(i, lease) : i \in QueueLoad(g).next .. upto - 1}
  /\ upto \in QueueLoad(g).next .. last + 1
  /\ again = {} => (upto - QueueLoad(g).next = MaxJobs \/ upto = last + 1
                      \/ (lease # 0 /\ Cardinality(table) >= InflightMax))
  /\ again \subseteq table /\ (lease # 0 => new \subseteq table)
  /\ handed' = handed \cup {Given(g, e) : e \in {f \in again \cup new : f.index > base}}
  /\ queues' = [queues EXCEPT ![g] = queues'[g]]
  /\ queues'[g].next = upto /\ queues'[g].inflight = table
  /\ known' = known \cup {g} /\ last' = last

LEMMA TakeGoesUpTo ==
  ASSUME JobsInv, NEW g \in Groups, Take(g, MaxJobs, GroupLease)
  PROVE  \E lease \in Nat : \E again, new, table, upto :
           /\ TakeUpTo(g, lease, again, new, table, upto)
           /\ QueueLoad(g).inflight = {} => again = {} /\ (new = {} => table = {})
\* The lease is written as Take writes it.
<1> DEFINE q == QueueLoad(g)
           lease == IF GroupLease = GroupLease THEN q.setting.lease ELSE GroupLease
<1>1. /\ q \in Record /\ lease \in Nat /\ queues \in [Groups -> Record]
  BY LoadedRecord DEF Record, Setting, JobsInv, QueueInv, TypeOK
<1>2. PICK scanned \in SUBSET Expired(q), upto \in q.next .. last + 1 :
        LET dead   == {e \in scanned : Exhausted(q, e)}
            again  == {Renewed(e, lease) : e \in scanned \ dead}
            kept   == (q.inflight \ scanned) \cup again
            new    == {NewLease(i, lease) : i \in q.next .. upto - 1}
            table  == kept \cup (IF lease = 0 THEN {} ELSE new)
            full   == lease # 0 /\ Cardinality(table) >= InflightMax
        IN  /\ \/ Cardinality(scanned \ dead) + (upto - q.next) = MaxJobs
               \/ upto = last + 1
               \/ full
            /\ QueueStore(g, [next      |-> upto,
                              setting   |-> [q.setting EXCEPT !.lease = lease],
                              inflight  |-> table,
                              deadTotal |-> q.deadTotal + Cardinality(dead)])
            /\ handed' = handed \cup
                 {Given(g, e) : e \in {f \in again \cup new : f.index > base}}
            /\ UNCHANGED subjectVars
  BY DEF Take, QueueStore
<1> DEFINE dead   == {e \in scanned : Exhausted(q, e)}
           again  == {Renewed(e, lease) : e \in scanned \ dead}
           kept   == (q.inflight \ scanned) \cup again
           new    == {NewLease(i, lease) : i \in q.next .. upto - 1}
           table  == kept \cup (IF lease = 0 THEN {} ELSE new)
           r      == [next      |-> upto,
                      setting   |-> [q.setting EXCEPT !.lease = lease],
                      inflight  |-> table,
                      deadTotal |-> q.deadTotal + Cardinality(dead)]
<1>3. /\ \/ Cardinality(scanned \ dead) + (upto - q.next) = MaxJobs
         \/ upto = last + 1
         \/ lease # 0 /\ Cardinality(table) >= InflightMax
      /\ queues' = [queues EXCEPT ![g] = r] /\ known' = known \cup {g}
      /\ handed' = handed \cup
           {Given(g, e) : e \in {f \in again \cup new : f.index > base}}
      /\ last' = last
  BY <1>2 DEF QueueStore, subjectVars
<1>4. again = {} => Cardinality(scanned \ dead) = 0
  BY FS_EmptySet
<1>5. q.inflight = {} => again = {} /\ (new = {} => table = {})
  BY DEF Expired
<1>6. again \subseteq table /\ (lease # 0 => new \subseteq table)
  OBVIOUS
<1>7. r.next = upto /\ r.inflight = table
  OBVIOUS
<1>8. upto \in q.next .. last + 1 /\ q.next \in Nat /\ last \in Nat
  BY <1>1, <1>2 DEF Record, JobsInv, QueueInv, TypeOK, SubjectTypeOK
<1>9. new = {NewLease(i, lease) : i \in q.next .. upto - 1}
  OBVIOUS
<1> HIDE DEF dead, again, kept, new, table, r
<1>10. queues'[g] = r /\ queues' = [queues EXCEPT ![g] = queues'[g]]
  BY <1>1, <1>3
<1>11. again = {} => upto - q.next = MaxJobs \/ upto = last + 1
                      \/ (lease # 0 /\ Cardinality(table) >= InflightMax)
  BY <1>3, <1>4, <1>8
<1>12. TakeUpTo(g, lease, again, new, table, upto)
  BY <1>3, <1>6, <1>7, <1>8, <1>9, <1>10, <1>11 DEF TakeUpTo
<1> QED
  BY <1>1, <1>5, <1>12

\* Of a group that is drained a take makes nothing; of others, too.
LEMMA TakeOfNothing ==
  ASSUME JobsInv, JobsInv', NEW g \in Groups, Take(g, MaxJobs, GroupLease),
         NEW k \in Groups, Drained(k)
  PROVE  Drained(k)'
<1>1. PICK lease \in Nat : \E again, new, table, upto :
        /\ TakeUpTo(g, lease, again, new, table, upto)
        /\ QueueLoad(g).inflight = {} => again = {} /\ (new = {} => table = {})
  BY TakeGoesUpTo
<1>2. PICK again, new, table, upto :
        /\ TakeUpTo(g, lease, again, new, table, upto)
        /\ QueueLoad(g).inflight = {} => again = {} /\ (new = {} => table = {})
  BY <1>1
<1>3. /\ queues \in [Groups -> Record] /\ base = 0 /\ base' = 0 /\ last \in Nat
      /\ known' = known \cup {g} /\ last' = last
  BY <1>2 DEF TakeUpTo, JobsInv, QueueInv, TypeOK, SubjectTypeOK
<1>4. CASE k # g
  <2>1. queues'[k] = queues[k] /\ (k \in known' <=> k \in known)
    BY <1>2, <1>3, <1>4 DEF TakeUpTo
  <2> QED
    BY <1>3, <2>1 DEF Drained, QueueLoad, Fresh
<1>5. CASE k = g
  <2>1. upto = last + 1 /\ new = {}
    BY <1>2, <1>3, <1>5 DEF TakeUpTo, Drained
  <2>2. queues'[g].next = last + 1 /\ queues'[g].inflight = {}
    BY <1>2, <1>5, <2>1 DEF TakeUpTo, Drained
  <2> QED
    BY <1>3, <1>5, <2>2 DEF Drained, QueueLoad
<1> QED
  BY <1>4, <1>5

\* A take that gives nothing and leaves no lease behind has drained the group.
LEMMA TakeLeavesNothing ==
  ASSUME JobsInv, NEW g \in Groups, Take(g, MaxJobs, GroupLease),
         handed' \ handed = {}, ~Wake(g)
  PROVE  Drained(g)'
<1>1. PICK lease \in Nat : \E again, new, table, upto :
        TakeUpTo(g, lease, again, new, table, upto)
  BY TakeGoesUpTo
<1>2. PICK again, new, table, upto : TakeUpTo(g, lease, again, new, table, upto)
  BY <1>1
<1> DEFINE q == QueueLoad(g)
<1>3. /\ q \in Record /\ RecordInv(base, q, finished[g], died[g], loose[g])
      /\ base = 0 /\ last \in Nat
  BY LoadedRecord DEF JobsInv, QueueInv, TypeOK, SubjectTypeOK
<1>4. q.next \in Nat /\ q.next >= 1
  BY <1>3 DEF Record
<1>5. table = {} /\ g \in known'
  BY <1>2 DEF TakeUpTo, Wake
<1>6. again = {}
  BY <1>2, <1>5 DEF TakeUpTo
<1> HIDE DEF q
<1>7. upto = q.next
  <2> SUFFICES ASSUME upto # q.next PROVE FALSE
    OBVIOUS
  <2>1. upto \in q.next .. last + 1
    BY <1>2 DEF TakeUpTo, q
  <2>2. q.next \in q.next .. upto - 1
    BY <1>3, <1>4, <2>1
  <2> DEFINE e == NewLease(q.next, lease)
  <2>3. e \in new
    BY <1>2, <2>2 DEF TakeUpTo, q
  <2>4. lease = 0
    BY <1>2, <1>5, <2>3 DEF TakeUpTo
  <2>5. e.index = q.next /\ Given(g, e).group = g /\ Given(g, e).index = q.next
    BY DEF NewLease, Given
  <2>6. e.index > base
    BY <1>3, <1>4, <2>5
  <2> HIDE DEF e
  <2>7. Given(g, e) \in handed'
    BY <1>2, <2>3, <2>6 DEF TakeUpTo
  <2>8. Given(g, e) \in handed
    BY <2>7
  <2>9. g \in known /\ q.next < queues[g].next
    BY <2>5, <2>8 DEF JobsInv, HandedBelow
  <2>10. q = queues[g]
    BY <2>9 DEF q, QueueLoad
  <2> QED
    BY <1>4, <2>9, <2>10
<1>8. upto = last + 1
  <2>1. upto - q.next = MaxJobs \/ upto = last + 1 \/ Cardinality(table) >= InflightMax
    BY <1>2, <1>6 DEF TakeUpTo, q
  <2>2. Cardinality(table) = 0
    BY <1>5, FS_EmptySet
  <2> QED
    BY <1>4, <1>7, <2>1, <2>2, WorkersAssumption, QueueAssumption
<1>9. queues'[g].inflight = {} /\ queues'[g].next = last' + 1 /\ g \in known'
  BY <1>2, <1>5, <1>8 DEF TakeUpTo
<1> QED
  BY <1>9 DEF Drained, QueueLoad

\* A subject without messages has no groups yet, and none of them has a job.
LEMMA NothingYet ==
  ASSUME JobsInv, ~Exists, NEW g \in Groups
  PROVE  Drained(g)
<1>1. last = 0 /\ base = 0
  BY DEF JobsInv, QueueInv, TypeOK, SubjectTypeOK, Exists
<1>2. known = {}
  BY <1>1 DEF JobsInv
<1> QED
  BY <1>1, <1>2 DEF Drained, QueueLoad, Fresh

-----------------------------------------------------------------------------

(***************************************************************************)
(* The invariant behind the pump's "nothing to send means there is nothing  *)
(* to send": a pass that has started nothing and met nobody to wait for has *)
(* found everyone it asked idle, and they stay so to its end, because only  *)
(* the pass itself publishes letters and the Auditor is asked last.         *)
(***************************************************************************)
Idle(s) ==
  psub[s].conn => /\ ~Resting(s)
                  /\ IF s = Auditor THEN seen = Len(dlq) ELSE Drained(psub[s].group)

AskedIdle == \A n \in DOMAIN Order : n < at => Idle(Order[n])

PassInv ==
  /\ dying # {} => at > 0 /\ at <= Len(Order)
  /\ at > 0 => work
  /\ ~work => \A s \in Subscriptions : Idle(s)
  /\ at > 0 /\ ~started /\ ~busy => AskedIdle

AuditorLast == \A n \in DOMAIN Order : Order[n] = Auditor => n = Len(Order)

\* Idleness reads these variables and no other.
LEMMA IdleStays ==
  ASSUME NEW s \in Subscriptions, Idle(s), psub'[s] = psub[s], now' = now,
         s = Auditor => seen' = seen /\ dlq' = dlq,
         s # Auditor => (Drained(psub[s].group) => Drained(psub[s].group)')
  PROVE  Idle(s)'
<1>1. Resting(s)' <=> Resting(s)
  BY DEF Resting
<1>2. CASE s = Auditor
  BY <1>1, <1>2 DEF Idle
<1>3. CASE s # Auditor
  BY <1>1, <1>3 DEF Idle
<1> QED
  BY <1>2, <1>3

\* s: the worker asked; g: its group; given: the leases of this take.
LEMMA PumpTakePass ==
  ASSUME AuditorLast, WorkersInv, WorkersInv', PassInv, PumpTake
  PROVE  PassInv'
<1>1. PICK s \in Members : s = Order[at]
  BY PumpTakeMakes DEF WorkersInv, WorkersTypeOK, Psubs
<1>2. /\ JobsInv /\ JobsInv' /\ Psubs /\ s \in Subscriptions /\ s # Auditor
      /\ DOMAIN Order = 1 .. Len(Order) /\ Len(Order) \in Nat
      /\ \A n \in DOMAIN Order : Order[n] \in Subscriptions
      /\ \A t \in Subscriptions : psub[t].group \in Groups
  BY OrderNames DEF WorkersInv, WorkersTypeOK, Psubs, Psub, Members
<1>3. PICK g \in Groups : g = psub[s].group
  BY <1>2
<1>4. PICK given \in SUBSET Hand : given = handed' \ handed
  BY <1>1, <1>2, PumpTakeMakes
<1>5. /\ ~Resting(s) /\ OnlyAt(s, Delivering(s, given))
      /\ at \in DOMAIN Order /\ at \in Nat /\ at > 0 /\ at' = at + 1
      /\ \/ Exists /\ Take(g, MaxJobs, GroupLease)
         \/ ~Exists /\ UNCHANGED vars
      /\ UNCHANGED <<now, last, seen, work>>
  BY <1>1, <1>2, <1>3, <1>4, PumpTakeMakes
<1>6. at < Len(Order)
  <2>1. PICK n \in DOMAIN Order : Order[n] = Auditor
    BY OrderNames, WorkersAssumption
  <2>2. n = Len(Order) /\ n # at
    BY <1>1, <1>2, <2>1 DEF AuditorLast
  <2> QED
    BY <1>2, <1>5, <2>2
<1>7. work = TRUE /\ work' = TRUE
  BY <1>5 DEF PassInv, WorkersInv, WorkersTypeOK
<1>8. /\ started' = (started \/ psub'[s].inflight) /\ busy' = (busy \/ psub'[s].wake)
  BY <1>1 DEF PumpTake
<1>9. \A k \in Groups : Drained(k) => Drained(k)'
  <2>1. CASE Exists /\ Take(g, MaxJobs, GroupLease)
    BY <1>2, <2>1, TakeOfNothing
  <2>2. CASE UNCHANGED vars
    BY <2>2 DEF Drained, QueueLoad, Fresh, vars, subjectVars, queueVars
  <2> QED
    BY <1>5, <2>1, <2>2
<1>10. /\ psub'[s] = Delivering(s, given)
       /\ \A t \in Subscriptions : t # s => psub'[t] = psub[t]
  BY <1>5 DEF OnlyAt
<1>11. /\ psub'[s].group = g /\ psub'[s].conn = psub[s].conn /\ psub'[s].due = psub[s].due
       /\ psub'[s].inflight <=> given # {} /\ psub[s].conn
       /\ psub'[s].wake <=> given = {} /\ Wake(psub[s].group)
  BY <1>2, <1>3, <1>10, DeliveringType
<1>12. Wake(psub[s].group) <=> Wake(g)
  BY <1>3
<1>13. ASSUME ~started', ~busy'
       PROVE  AskedIdle'
  <2>1. AskedIdle /\ ~psub'[s].inflight /\ ~psub'[s].wake
    BY <1>5, <1>8, <1>13 DEF PassInv
  <2>2. ASSUME NEW n \in DOMAIN Order, n < at
        PROVE  Idle(Order[n])'
    <3>1. Idle(Order[n]) /\ Order[n] \in Subscriptions
      BY <1>2, <2>1, <2>2 DEF AskedIdle
    <3>2. Order[n] # Auditor
      BY <1>2, <1>5, <1>6, <2>2 DEF AuditorLast
    <3>3. Order[n] # s
      BY <1>1, <1>2, <1>5, <2>2, WorkersAssumption
    <3>4. psub'[Order[n]] = psub[Order[n]] /\ now' = now
      BY <1>5, <1>10, <3>1, <3>3
    <3>5. PICK k \in Groups : k = psub[Order[n]].group
      BY <1>2, <3>1
    <3>6. Drained(psub[Order[n]].group)' <=> Drained(k)'
      BY <3>4, <3>5
    <3>7. Drained(psub[Order[n]].group) => Drained(psub[Order[n]].group)'
      BY <1>9, <3>5, <3>6
    <3> QED
      BY <3>1, <3>2, <3>4, <3>7, IdleStays
  <2>3. Idle(s)'
    <3> SUFFICES ASSUME psub'[s].conn PROVE ~Resting(s)' /\ Drained(psub[s].group)'
      BY <1>2 DEF Idle
    <3>1. given = {} /\ ~Wake(g)
      BY <1>11, <1>12, <2>1
    <3>2. ~Resting(s)'
      BY <1>5, <1>11, <2>1 DEF Resting
    <3>3. Drained(g)'
      <4>1. CASE Exists /\ Take(g, MaxJobs, GroupLease)
        BY <1>2, <1>4, <3>1, <4>1, TakeLeavesNothing
      <4>2. CASE ~Exists
        BY <1>2, <1>9, <4>2, NothingYet
      <4> QED
        BY <1>5, <4>1, <4>2
    <3>4. Drained(psub[s].group)' <=> Drained(g)'
      BY <1>11
    <3> QED
      BY <3>2, <3>3, <3>4
  <2>4. \A n \in DOMAIN Order : n < at' => n < at \/ n = at
    BY <1>2, <1>5
  <2> QED
    BY <1>1, <2>2, <2>3, <2>4 DEF AskedIdle
<1> QED
  BY <1>2, <1>5, <1>6, <1>7, <1>8, <1>13 DEF PassInv

LEMMA PumpReadPass ==
  ASSUME AuditorLast, WorkersInv, PassInv, PumpRead
  PROVE  PassInv'
<1>1. /\ Order[at] = Auditor /\ ~Resting(Auditor) /\ at' = at + 1 /\ dying = {}
      /\ at \in DOMAIN Order /\ UNCHANGED <<vars, seen, work, busy>>
  BY DEF PumpRead, Asking
<1>2. /\ Psubs /\ dlq \in Seq(Letter) /\ seen \in 0 .. Len(dlq) /\ Len(dlq) \in Nat
      /\ DOMAIN Order = 1 .. Len(Order) /\ Len(Order) \in Nat /\ at \in Nat /\ at > 0
      /\ \A n \in DOMAIN Order : Order[n] \in Subscriptions
      /\ Auditor \in Subscriptions
  BY <1>1, OrderNames, WorkersAssumption
  DEF WorkersInv, WorkersTypeOK, Psubs, JobsInv, QueueInv, TypeOK
<1>3. PICK p \in Psub :
        /\ OnlyAt(Auditor, p) /\ p.conn = psub[Auditor].conn /\ p.due = psub[Auditor].due
        /\ p.inflight <=> Len(dlq) > seen /\ psub[Auditor].conn
        /\ started' = (started \/ p.inflight)
  BY <1>2, PumpReadType
<1>4. /\ psub'[Auditor] = p
      /\ \A t \in Subscriptions : t # Auditor => psub'[t] = psub[t]
      /\ now' = now /\ dlq' = dlq /\ seen' = seen /\ dying' = dying
  BY <1>1, <1>3 DEF OnlyAt, vars, queueVars
<1>5. \A k : Drained(k)' <=> Drained(k)
  BY <1>1 DEF Drained, QueueLoad, Fresh, vars, subjectVars, queueVars
<1>6. ASSUME ~started', ~busy'
      PROVE  AskedIdle'
  <2>1. AskedIdle /\ ~p.inflight
    BY <1>1, <1>2, <1>3, <1>6 DEF PassInv
  <2>2. ASSUME NEW n \in DOMAIN Order, n < at
        PROVE  Idle(Order[n])'
    <3>1. Idle(Order[n]) /\ Order[n] \in Subscriptions
      BY <1>2, <2>1, <2>2 DEF AskedIdle
    <3>2. Order[n] # Auditor
      BY <1>1, <1>2, <2>2, WorkersAssumption
    <3>3. psub'[Order[n]] = psub[Order[n]]
      BY <1>4, <3>1, <3>2
    <3>4. Drained(psub[Order[n]].group) => Drained(psub[Order[n]].group)'
      BY <1>5, <3>3 DEF Drained, QueueLoad, Fresh
    <3> QED
      BY <1>4, <3>1, <3>2, <3>3, <3>4, IdleStays
  <2>3. Idle(Auditor)'
    BY <1>1, <1>2, <1>3, <1>4, <2>1 DEF Idle, Resting
  <2>4. \A n \in DOMAIN Order : n < at' => n < at \/ n = at
    BY <1>1, <1>2
  <2> QED
    BY <1>1, <2>2, <2>3, <2>4 DEF AskedIdle
<1> QED
  BY <1>1, <1>2, <1>4, <1>6 DEF PassInv

\* A worker with a delivery in flight keeps the pump at work.
LEMMA FlightsAreWork ==
  ASSUME WorkersInv, PassInv, NEW s \in Subscriptions, psub[s].inflight
  PROVE  work
<1>1. psub[s].conn
  BY DEF WorkersInv, Connected
<1> QED
  BY <1>1 DEF PassInv, Idle, Resting

LEMMA PassInvStep ==
  ASSUME AuditorLast, WorkersInv, PassInv, [WorkersStep]_workersVars
  PROVE  PassInv'
<1>1. /\ WorkersInv' /\ JobsInv /\ Psubs /\ now \in Nat /\ at \in Nat /\ work \in BOOLEAN
      /\ Len(Order) \in Nat /\ DOMAIN Order = 1 .. Len(Order)
      /\ \A n \in DOMAIN Order : Order[n] \in Subscriptions
      /\ \A s \in Subscriptions : \E n \in DOMAIN Order : Order[n] = s
      /\ \A s \in Subscriptions : psub[s].due \in Nat
  BY WorkersInvStep, OrderNames
  DEF WorkersInv, WorkersTypeOK, Psubs, Psub, JobsInv, QueueInv, TypeOK
<1>2. ASSUME at' = 0, dying' = {}, work'
      PROVE  PassInv'
  BY <1>2 DEF PassInv
<1>3. ASSUME UNCHANGED <<vars, psub, seen>>, NEW s \in Subscriptions, Idle(s)
      PROVE  Idle(s)'
  BY <1>3 DEF Idle, Resting, Drained, QueueLoad, Fresh, vars, subjectVars, queueVars
<1>4. ASSUME NEW d \in dying, PublishLetter(d)
      PROVE  PassInv'
  <2>1. /\ UNCHANGED <<base, last, now, known, queues, psub, seen, at, started, busy>>
        /\ work' = TRUE /\ dying' \subseteq dying
    BY <1>4 DEF PublishLetter, DeadLetter, subjectVars
  <2>2. at > 0 /\ at <= Len(Order)
    BY <1>4 DEF PassInv
  <2>3. ASSUME NEW n \in DOMAIN Order, n < at, Idle(Order[n])
        PROVE  Idle(Order[n])'
    <3>1. Order[n] # Auditor
      BY <1>1, <2>2, <2>3 DEF AuditorLast
    <3> QED
      BY <2>1, <2>3, <3>1 DEF Idle, Resting, Drained, QueueLoad, Fresh
  <2>4. AskedIdle => AskedIdle'
    BY <2>1, <2>3 DEF AskedIdle
  <2> QED
    BY <2>1, <2>2, <2>4 DEF PassInv
<1>5. CASE PumpStart
  <2>1. at' = 1 /\ work' = TRUE /\ dying' = {}
    BY <1>1, <1>5 DEF PumpStart, Between, vars, queueVars
  <2>2. AskedIdle'
    BY <1>1, <2>1 DEF AskedIdle
  <2> QED
    BY <2>1, <2>2 DEF PassInv
<1>6. CASE PumpSkip
  <2>1. /\ at' = at + 1 /\ work' = work /\ dying' = {} /\ busy' = TRUE
        /\ at \in DOMAIN Order
    BY <1>6 DEF PumpSkip, Asking, vars, queueVars
  <2> QED
    BY <1>1, <2>1 DEF PassInv
<1>7. CASE PumpEnd
  <2>1. /\ at = Len(Order) + 1 /\ at' = 0 /\ dying = {} /\ UNCHANGED <<vars, psub, seen>>
        /\ work' = (work /\ (started \/ busy))
    BY <1>7 DEF PumpEnd
  <2>2. dying' = {}
    BY <2>1 DEF vars, queueVars
  <2>3. ASSUME ~work', NEW s \in Subscriptions
        PROVE  Idle(s)'
    <3>1. AskedIdle
      BY <1>1, <2>1, <2>3 DEF PassInv
    <3>2. PICK n \in DOMAIN Order : Order[n] = s
      BY <1>1
    <3>3. n < at
      BY <1>1, <2>1
    <3>4. Idle(s)
      BY <3>1, <3>2, <3>3 DEF AskedIdle
    <3> QED
      BY <1>3, <2>1, <3>4
  <2> QED
    BY <2>1, <2>2, <2>3 DEF PassInv
<1>8. ASSUME NEW s \in Members, DeliveryEnds(s)
      PROVE  PassInv'
  <2>1. at = 0 /\ at' = at /\ dying' = dying /\ dying = {} /\ work' \in {work, TRUE}
        /\ psub[s].inflight
    BY <1>8
    DEF DeliveryEnds, WorkerAnswers, WorkerRefuses, WorkerLost, Settle, Between
  <2>2. work
    BY <2>1, FlightsAreWork DEF Members
  <2> QED
    BY <1>1, <1>2, <2>1, <2>2
<1>9. CASE \/ PublishJob \/ AuditorAnswers \/ RestartPushed
           \/ \E s \in Members, g \in Groups : Reregister(s, g)
  <2>1. at' = 0 /\ dying' = {} /\ work' = TRUE
    BY <1>9
    DEF PublishJob, AuditorAnswers, RestartPushed, Reregister, Between, vars, queueVars
  <2> QED
    BY <1>2, <2>1
<1>12. ASSUME NEW wait \in Waits, AuditorRefuses(wait)
       PROVE  PassInv'
  <2>1. at' = 0 /\ dying' = {} /\ work' = work /\ psub[Auditor].inflight
    BY <1>12 DEF AuditorRefuses, Between, vars, queueVars
  <2>2. work
    BY <2>1, FlightsAreWork, WorkersAssumption
  <2> QED
    BY <1>1, <1>2, <2>1, <2>2
<1>10. CASE TickPushed
  <2>1. /\ at = 0 /\ dying = {} /\ now' = now + 1
        /\ UNCHANGED <<psub, seen, work, at, started, busy, known, queues, dying, dlq>>
        /\ UNCHANGED <<base, last>>
    BY <1>10 DEF TickPushed, Between, Tick, pushVars, subjectVars
  <2>2. ASSUME NEW s \in Subscriptions, Idle(s)
        PROVE  Idle(s)'
    <3>1. ~Resting(s) => ~Resting(s)'
      BY <1>1, <2>1 DEF Resting
    <3>2. Drained(psub[s].group) => Drained(psub[s].group)'
      BY <2>1 DEF Drained, QueueLoad, Fresh
    <3> QED
      BY <2>1, <2>2, <3>1, <3>2 DEF Idle
  <2> QED
    BY <2>1, <2>2 DEF PassInv
<1>11. CASE UNCHANGED workersVars
  <2>1. UNCHANGED <<vars, psub, seen, work, at, started, busy>> /\ dying' = dying
    BY <1>11 DEF workersVars, pushVars, vars, queueVars
  <2>2. AskedIdle => AskedIdle'
    BY <1>1, <1>3, <2>1 DEF AskedIdle
  <2> QED
    BY <1>3, <2>1, <2>2 DEF PassInv
<1> QED
  BY <1>1, <1>4, <1>5, <1>6, <1>7, <1>8, <1>9, <1>10, <1>11, <1>12, PumpTakePass, PumpReadPass
  DEF WorkersStep, WorkersNext, AuditorDone, Pump

(***************************************************************************)
(* When bjm_pusher_pump has stopped scanning there is nothing to send, for  *)
(* any number of workers in any groups, when the reader of the dead letters *)
(* is the last in the array.  In another place a letter of the same pass    *)
(* may be published after it was asked; publishing sets `work' again, but   *)
(* the end of the pass clears it.                                           *)
(***************************************************************************)
THEOREM JobsAreNotForgotten ==
  ASSUME AuditorLast
  PROVE  WorkersSpec => []NoJobForgotten
<1> DEFINE I == WorkersInv /\ PassInv
<1>1. WorkersInit => I
  <2> SUFFICES ASSUME WorkersInit PROVE PassInv
    BY WorkersInitInv
  <2>1. at = 0 /\ dying = {} /\ work
    BY DEF WorkersInit, Init
  <2> QED
    BY <2>1 DEF PassInv
<1>2. I /\ [WorkersStep]_workersVars => I'
  BY WorkersInvStep, PassInvStep
<1>3. I => NoJobForgotten
  BY DEF PassInv, NoJobForgotten, Idle, Drained
<1> HIDE DEF I
<1> QED
  BY <1>1, <1>2, <1>3, PTL DEF WorkersSpec

=============================================================================
