------------------------------ MODULE WorkQueue ------------------------------
(***************************************************************************)
(* The queue groups of one subject (src/src/store.c, "queue groups"): each  *)
(* message goes to one member of a group, under a lease.  A group's record  *)
(* is the lowest index never handed out, its settings, and the in-flight    *)
(* table of leases; "done" is the absence of an entry below `next'.  A job  *)
(* that exhausts its attempts is republished to the dead-letter channel.    *)
(*                                                                          *)
(* bjm_take stores the leases, answers, and only then publishes the dead    *)
(* letters, one by one: between the two `dying' is not empty and the broker *)
(* does nothing else, but the process may die there.                        *)
(*                                                                          *)
(* Takes and answers commit _queues.bpt without a sync: a power cut leaves  *)
(* the records as some earlier commit had them (`onDisk'), and jobs that    *)
(* were over come back.  Only the settings and deletions are synced.        *)
(*                                                                          *)
(* The workers are the environment: `handed' holds the leases they were     *)
(* given and have not answered.                                             *)
(***************************************************************************)
EXTENDS Subject, Integers, FiniteSets, Sequences

CONSTANTS
  Groups,         \* names of queue groups
  Settings,       \* settings POST /queue may give: a set of records
  DefaultSetting, \* the settings of a group nobody configured
  Leases,         \* values of ?lease= a take may carry
  GroupLease,     \* "no ?lease= given"
  Delays,         \* values of ?delay= a fail may carry
  GroupBackoff,   \* "no ?delay= given"
  Batch,          \* values of ?max= a take may carry, after clamping
  InflightMax,    \* BJM_INFLIGHT_MAX
  ShiftMax,       \* the largest doubling of backoff_for
  HasDeadChannel, \* FALSE for a subject named "<subject>.dead"
  LateAnswers,    \* whether workers may answer after expiry, or twice
  Crashes,        \* whether the broker may die inside a take
  DeletesInUse,   \* whether a group may be deleted under its workers' leases
  MaxTime,        \* bound: the clock stops here
  MaxLetters      \* bound: with so many letters no group is deleted and no
                  \* power cut

Setting == [lease : Nat, maxAttempts : Nat, backoff : Nat, maxBackoff : Nat]

ASSUME QueueAssumption ==
  /\ Settings \subseteq Setting
  /\ DefaultSetting \in Setting
  /\ Leases \subseteq Nat /\ GroupLease \notin Nat
  /\ Delays \subseteq Nat /\ GroupBackoff \notin Nat
  /\ Batch \subseteq Nat \ {0}
  /\ InflightMax \in Nat /\ ShiftMax \in Nat
  /\ HasDeadChannel \in BOOLEAN
  /\ LateAnswers \in BOOLEAN
  /\ Crashes \in BOOLEAN
  /\ DeletesInUse \in BOOLEAN
  /\ MaxTime \in Nat /\ MaxLetters \in Nat

\* Stated for the provers, which know nothing of exponentiation.
ASSUME PowersOfTwo == \A s \in 0 .. ShiftMax : 2^s \in Nat

VARIABLES
  now,        \* the host's clock
  known,      \* the groups that have a record in _queues.bpt
  queues,     \* the records
  onDisk,     \* the commit of _queues.bpt that a power cut leaves
  dying,      \* jobs the current take gave up on and has still to publish
  dlq,        \* the log of "<subject>.dead"
  handed,     \* environment: leases given to workers, not yet answered
  finished,   \* history: jobs each group's workers reported done
  died,       \* history: jobs that ran out of attempts
  loose       \* history: jobs handed out with no lease

queueVars ==
  <<now, known, queues, onDisk, dying, dlq, handed, finished, died, loose>>
vars == <<subjectVars, queueVars>>

Entry == [index : Nat, expires : Nat, attempts : Nat]
Record == [next : Nat \ {0}, setting : Setting, inflight : SUBSET Entry,
           deadTotal : Nat]
Commit == [known : SUBSET Groups, queues : [Groups -> Record]]
Letter == [group : Groups, index : Nat, attempts : Nat]
Hand == [group : Groups, index : Nat, expires : Nat, attempts : Nat]

TypeOK ==
  /\ SubjectTypeOK
  /\ now \in Nat
  /\ known \subseteq Groups
  /\ queues \in [Groups -> Record]
  /\ onDisk \in Commit
  /\ dying \subseteq Letter
  /\ dlq \in Seq(Letter)
  /\ handed \subseteq Hand
  /\ finished \in [Groups -> SUBSET Nat]
  /\ died \in [Groups -> SUBSET Nat]
  /\ loose \in [Groups -> SUBSET Nat]

\* Mutant: a new group starts one too low.
FreshAtBase == [next |-> base, setting |-> DefaultSetting, inflight |-> {},
                deadTotal |-> 0]

(***************************************************************************)
(* queue_load: the stored record, or a fresh one that starts at the oldest  *)
(* surviving message.                                                       *)
(***************************************************************************)
Fresh == [next |-> base + 1, setting |-> DefaultSetting, inflight |-> {},
          deadTotal |-> 0]

QueueLoad(g) == IF g \in known THEN queues[g] ELSE Fresh

\* What the file holds for the process, synced or not.
Stored == [known |-> known, queues |-> queues]

\* queue_store commits without a sync: the system writes it back, or not yet.
WrittenBack == onDisk' = Stored' \/ (PowerLoss /\ onDisk' = onDisk)

\* A caller that goes on to bpt_sync.
Synced == onDisk' = Stored'

QueueStore(g, q) ==
  /\ known' = known \cup {g}
  /\ queues' = [queues EXCEPT ![g] = q]

Init ==
  /\ SubjectInit
  /\ now = 0
  /\ known = {}
  /\ queues = [g \in Groups |-> Fresh]
  /\ onDisk = Stored
  /\ dying = {}
  /\ dlq = << >>
  /\ handed = {}
  /\ finished = [g \in Groups |-> {}]
  /\ died = [g \in Groups |-> {}]
  /\ loose = [g \in Groups |-> {}]

-----------------------------------------------------------------------------

\* Mutant: a lease lapses a tick early.
ExpiredEarly(q) == {e \in q.inflight : e.expires <= now + 1}

\* Mutant: a job with no attempts left is passed over, and stays in the table.
ExpiredRetriable(q) ==
  {e \in q.inflight : /\ e.expires <= now
                      /\ q.setting.maxAttempts # 0 => e.attempts < q.setting.maxAttempts}

Expired(q) == {e \in q.inflight : e.expires <= now}

\* Mutant: one attempt too many.
ExhaustedLate(q, e) ==
  q.setting.maxAttempts # 0 /\ e.attempts > q.setting.maxAttempts

Exhausted(q, e) ==
  q.setting.maxAttempts # 0 /\ e.attempts >= q.setting.maxAttempts

Renewed(e, lease) ==
  [index |-> e.index, expires |-> now + lease, attempts |-> e.attempts + 1]

NewLease(i, lease) == [index |-> i, expires |-> now + lease, attempts |-> 1]

Given(g, e) == [group |-> g, index |-> e.index, expires |-> e.expires,
                attempts |-> e.attempts]

\* A fresh message is leased only while the table has a free slot.
NoOverflow(q, table, lease, upto) ==
  lease # 0 /\ upto > q.next => Cardinality(table) <= InflightMax

(***************************************************************************)
(* bjm_take.  The table is scanned for expired leases until `max' jobs are  *)
(* chosen; a scanned job with no attempts left leaves the table, any other  *)
(* is leased again.  What is left of `max' is filled with messages never    *)
(* handed out, up to `next' = upto, as far as the log and the table reach.  *)
(* With a lease of 0 a fresh message is handed out and forgotten.  The      *)
(* order of the table's slots is abstracted: any part of the expired leases *)
(* may come first.  A message trimmed away is leased but not handed out.    *)
(***************************************************************************)
Take(g, max, asked) ==
  LET q     == QueueLoad(g)
      lease == IF asked = GroupLease THEN q.setting.lease ELSE asked
  IN \E scanned \in SUBSET Expired(q), upto \in q.next .. last + 1 :
       LET dead   == {e \in scanned : Exhausted(q, e)}
           again  == {Renewed(e, lease) : e \in scanned \ dead}
           kept   == (q.inflight \ scanned) \cup again
           new    == {NewLease(i, lease) : i \in q.next .. upto - 1}
           table  == kept \cup (IF lease = 0 THEN {} ELSE new)
           full   == lease # 0 /\ Cardinality(table) >= InflightMax
           chosen == again \cup new
       IN /\ dying = {}
          /\ Exists
          /\ Cardinality(scanned \ dead) <= max
          /\ scanned # Expired(q) => Cardinality(scanned \ dead) = max
          /\ Cardinality(scanned \ dead) + (upto - q.next) <= max
          /\ NoOverflow(q, table, lease, upto)
          /\ \/ Cardinality(scanned \ dead) + (upto - q.next) = max
             \/ upto = last + 1
             \/ full
          /\ QueueStore(g, [next      |-> upto,
                            setting   |-> [q.setting EXCEPT !.lease = lease],
                            inflight  |-> table,
                            deadTotal |-> q.deadTotal + Cardinality(dead)])
          /\ WrittenBack
          /\ dying' = IF HasDeadChannel
                        THEN {[group |-> g, index |-> e.index,
                               attempts |-> e.attempts] : e \in dead}
                        ELSE {}
          /\ handed' = handed \cup {Given(g, e) : e \in {f \in chosen : f.index > base}}
          /\ died' = [died EXCEPT ![g] = @ \cup {e.index : e \in dead}]
          /\ loose' = IF lease = 0
                        THEN [loose EXCEPT ![g] = @ \cup (q.next .. upto - 1)]
                        ELSE loose
          /\ UNCHANGED <<subjectVars, now, dlq, finished>>

\* Mutant: the loop ends with the first letter.
DeadLetterFirst(d) ==
  /\ dying' = {}
  /\ dlq' = IF d.index > base THEN Append(dlq, d) ELSE dlq
  /\ UNCHANGED <<subjectVars, now, known, queues, onDisk, handed, finished, died,
                 loose>>

(***************************************************************************)
(* The tail of bjm_take: publish one dead letter.  A job whose message was  *)
(* trimmed leaves no letter.                                                *)
(***************************************************************************)
DeadLetter(d) ==
  /\ dying' = dying \ {d}
  /\ dlq' = IF d.index > base THEN Append(dlq, d) ELSE dlq
  /\ UNCHANGED <<subjectVars, now, known, queues, onDisk, handed, finished, died,
                 loose>>

\* A worker that answered is done with the lease, unless its answer was lost
\* on the way and it will repeat it.
Answered(h) == handed' = handed \ {h} \/ (LateAnswers /\ handed' = handed)

InTime(h) == LateAnswers \/ h.expires > now

\* Mutant: later jobs are found too.
FoundFrom(h) == {e \in queues[h.group].inflight :
                   h.group \in known /\ e.index >= h.index}

\* The entries queue_release finds: it goes by the index alone.
Found(h) == {e \in queues[h.group].inflight :
               h.group \in known /\ e.index = h.index}

\* Mutant: the record without the lease is not stored.
DoneUnstored(h) ==
  /\ dying = {}
  /\ InTime(h)
  /\ finished' = IF Found(h) = {} THEN finished
                 ELSE [finished EXCEPT ![h.group] = @ \cup {h.index}]
  /\ Answered(h)
  /\ UNCHANGED <<subjectVars, now, known, queues, onDisk, dying, dlq, died, loose>>

(***************************************************************************)
(* bjm_done: drop the lease of that index, whoever holds it; a job with no  *)
(* lease changes nothing.                                                   *)
(***************************************************************************)
Done(h) ==
  /\ dying = {}
  /\ InTime(h)
  /\ queues' = [queues EXCEPT ![h.group].inflight = @ \ Found(h)]
  /\ finished' = IF Found(h) = {} THEN finished
                 ELSE [finished EXCEPT ![h.group] = @ \cup {h.index}]
  /\ Answered(h)
  /\ UNCHANGED <<subjectVars, now, known, dying, dlq, died, loose>>
  /\ WrittenBack

(***************************************************************************)
(* backoff_for: the base delay doubled once per attempt, capped.  (The      *)
(* 64-bit overflow of the shift is not modelled.)                           *)
(***************************************************************************)
BackoffFor(setting, attempts) ==
  LET shift == IF attempts = 0 THEN 0
               ELSE IF attempts - 1 > ShiftMax THEN ShiftMax ELSE attempts - 1
      d     == setting.backoff * 2^shift
  IN  IF setting.maxBackoff # 0 /\ d > setting.maxBackoff
        THEN setting.maxBackoff ELSE d

(***************************************************************************)
(* bjm_fail: the job becomes available again after the delay given, or      *)
(* after the group's backoff.                                               *)
(***************************************************************************)
Fail(h, delay) ==
  LET q == queues[h.group]
      wait(e) == IF delay = GroupBackoff THEN BackoffFor(q.setting, e.attempts)
                 ELSE delay
  IN  /\ dying = {}
      /\ InTime(h)
      /\ queues' = [queues EXCEPT ![h.group].inflight =
                      (@ \ Found(h)) \cup
                      {[e EXCEPT !.expires = now + wait(e)] : e \in Found(h)}]
      /\ Answered(h)
      /\ UNCHANGED <<subjectVars, now, known, dying, dlq, finished, died, loose>>
      /\ WrittenBack

\* bjm_queue_config: store the settings, creating the group if it is new.
QueueConfig(g, setting) ==
  /\ dying = {}
  /\ QueueStore(g, [QueueLoad(g) EXCEPT !.setting = setting])
  /\ Synced
  /\ UNCHANGED <<subjectVars, now, dying, dlq, handed, finished, died, loose>>

\* bjm_queue_delete: forget the group.  Its next use starts over; workers
\* that hold leases of it are not told.
QueueDelete(g) ==
  /\ dying = {}
  /\ g \in known
  /\ Len(dlq) < MaxLetters
  /\ known' = known \ {g}
  /\ DeletesInUse \/ \A h \in handed : h.group = g => h.expires <= now
  /\ finished' = [finished EXCEPT ![g] = {}]
  /\ died' = [died EXCEPT ![g] = {}]
  /\ loose' = [loose EXCEPT ![g] = {}]
  /\ queues' = [queues EXCEPT ![g] = Fresh]
  /\ Synced
  /\ UNCHANGED <<subjectVars, now, dying, dlq, handed>>

\* bjm_requeue: a dead letter is published to the subject again, under a new
\* index; the letter stays.
Requeue(n) ==
  /\ dying = {}
  /\ n \in DOMAIN dlq
  /\ Publish
  /\ UNCHANGED queueVars

\* Mutant: leased jobs are not counted as owed.
OwedNext == {queues[g].next - 1 : g \in known}

\* bjm_queue_floor: one below everything some group may still hand out.
Owed == UNION {{queues[g].next - 1} \cup {e.index - 1 : e \in queues[g].inflight} :
                 g \in known}

SubjectStep ==
  /\ dying = {}
  /\ \/ Publish
     \/ CursorStep
     \/ \E before \in 1 .. last + 2, force \in ForceFlags : Trim(before, force, Owed)
  /\ UNCHANGED queueVars

\* The clock.  A worker that answers in time forgets a lease that lapsed.
Tick ==
  /\ dying = {}
  /\ now < MaxTime
  /\ now' = now + 1
  /\ handed' = {h \in handed : LateAnswers \/ h.expires > now'}
  /\ UNCHANGED <<subjectVars, known, queues, onDisk, dying, dlq, finished, died, loose>>

\* The broker process dies and is started again: _queues.bpt survives, the
\* dead letters not yet published do not.
Crash ==
  /\ Crashes
  /\ dying # {}
  /\ dying' = {}
  /\ UNCHANGED <<subjectVars, now, known, queues, onDisk, dlq, handed, finished,
                 died, loose>>

(***************************************************************************)
(* A power cut: the receipts and the records of the groups go back to what  *)
(* the disk holds, each file for itself; the log and the dead letters are   *)
(* synced with every publish.  The workers are told nothing.  A group whose *)
(* record is lost ends, and its next use starts over.                       *)
(***************************************************************************)
PowerCut ==
  /\ Crashes \/ dying = {}
  /\ Len(dlq) < MaxLetters
  /\ LosePower
  /\ known' = onDisk.known
  /\ queues' = onDisk.queues
  /\ dying' = {}
  /\ finished' = [g \in Groups |-> IF g \in known' THEN finished[g] ELSE {}]
  /\ died' = [g \in Groups |-> IF g \in known' THEN died[g] ELSE {}]
  /\ loose' = [g \in Groups |-> IF g \in known' THEN loose[g] ELSE {}]
  /\ UNCHANGED <<now, onDisk, dlq, handed>>

Next ==
  \/ SubjectStep
  \/ \E g \in Groups, max \in Batch, lease \in Leases \cup {GroupLease} :
       Take(g, max, lease)
  \/ \E d \in dying : DeadLetter(d)
  \/ \E h \in handed : Done(h)
  \/ \E h \in handed, delay \in Delays \cup {GroupBackoff} : Fail(h, delay)
  \/ \E g \in Groups, setting \in Settings : QueueConfig(g, setting)
  \/ \E g \in Groups : QueueDelete(g)
  \/ \E n \in DOMAIN dlq : Requeue(n)
  \/ Tick
  \/ Crash
  \/ PowerCut

Spec == Init /\ [][Next]_vars

-----------------------------------------------------------------------------

Leased(g) == {e.index : e \in queues[g].inflight}

(***************************************************************************)
(* "Below next a job is either in the inflight table or it is finished"     *)
(* (sukkal.h, queue groups): no job between the group's first message and   *)
(* `next' is anywhere else than leased, reported done, dead or given away   *)
(* without a lease.  A power cut, which takes `next' and the table back to  *)
(* an earlier commit, skips none either.                                    *)
(***************************************************************************)
JobsAccountedFor ==
  \A g \in known : \A i \in base + 1 .. queues[g].next - 1 :
    i \in Leased(g) \cup finished[g] \cup died[g] \cup loose[g]

(***************************************************************************)
(* A job leaves a group once: it holds at most one slot of the table, and   *)
(* one that was finished, died or was given away is never leased again, nor *)
(* handed out as a new one, nor does it die after it was finished.  Only    *)
(* for a machine that keeps its power.                                      *)
(***************************************************************************)
JobsLeaveOnce ==
  \A g \in known :
    /\ \A e, f \in queues[g].inflight : e.index = f.index => e = f
    /\ Leased(g) \cap (finished[g] \cup died[g] \cup loose[g]) = {}
    /\ \A i \in finished[g] \cup died[g] \cup loose[g] : i < queues[g].next
    /\ finished[g] \cap died[g] = {}

(***************************************************************************)
(* A lease is exclusive: while a worker that answers in time holds an       *)
(* unexpired lease, no other lease of that job is out ("each message goes   *)
(* to exactly one member of the group").  Only for a machine that keeps its *)
(* power, and for groups that are not deleted while they are in use.        *)
(***************************************************************************)
ExclusiveLease ==
  \A h, k \in handed :
    /\ h.group = k.group /\ h.index = k.index
    /\ h.expires > now /\ k.expires > now
    => h = k

(***************************************************************************)
(* "A job that runs out of attempts is republished to <subject>.dead": once *)
(* the take that gave up on it has ended, the dead-letter channel holds a   *)
(* letter for it, unless the message itself has been trimmed.               *)
(***************************************************************************)
DeadJobsHaveLetters ==
  HasDeadChannel =>
    \A g \in known : \A i \in died[g] :
      \/ i <= base
      \/ \E d \in dying : d.group = g /\ d.index = i
      \/ \E n \in DOMAIN dlq : dlq[n].group = g /\ dlq[n].index = i

(***************************************************************************)
(* "A trim will not discard a job that is leased or has not been handed out *)
(* yet": an unforced trim of a subject with queue groups leaves every such  *)
(* job of every group in the log.                                           *)
(***************************************************************************)
OwedJobsKept ==
  [][\A g \in known : base' > base =>
       /\ base' < queues[g].next
       /\ \A e \in queues[g].inflight : base' < e.index]_vars

(***************************************************************************)
(* A worker that reports a job done after its lease expired and the job was *)
(* retaken learns that it no longer holds it (the `held' of h_job_end), and *)
(* the lease of the worker that has the job now is left alone.              *)
(***************************************************************************)
RetakenJobsAreNotHeld ==
  [][\A h, k \in handed :
       /\ h.group = k.group /\ h.index = k.index /\ h.attempts < k.attempts
       /\ h.expires <= now /\ k.expires > now
       /\ Done(h) /\ handed' = handed \ {h}
       => queues' = queues]_vars

-----------------------------------------------------------------------------

(***************************************************************************)
(* The refinement: the groups implement the job board, as long as they keep *)
(* the default settings.  (A lease that expires, a failure, a late answer   *)
(* and the death of the broker are all steps the board does not see.)       *)
(***************************************************************************)
Over == -1

Tries(g, i) ==
  LET held == {e \in QueueLoad(g).inflight : e.index = i}
  IN  IF i >= QueueLoad(g).next THEN 0
      ELSE IF held # {} THEN (CHOOSE e \in held : TRUE).attempts ELSE Over

Board == INSTANCE JobBoard WITH
  MaxJob <- MaxIndex, Limit <- DefaultSetting.maxAttempts,
  tries <- [g \in Groups |-> [i \in 1 .. MaxIndex |-> Tries(g, i)]]

(***************************************************************************)
(* Jobs are handed out in order, no job is handed out more often than the   *)
(* group's max_attempts, and a job that is over never comes back, whatever  *)
(* expires, fails, is answered late or twice, or crashes (bjm_take,         *)
(* queue_release).                                                          *)
(***************************************************************************)
GroupsImplementBoard == Board!BoardSpec

=============================================================================
