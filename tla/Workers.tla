------------------------------ MODULE Workers ------------------------------
(***************************************************************************)
(* Pushed workers (src/src/push.c with ?group=, and `sukkal work' in        *)
(* src/src/client.c): the pusher leases jobs from a queue group of one      *)
(* subject, posts them to a worker and settles them by what the worker      *)
(* answers.  Beside the workers the pusher serves one plain subscription,   *)
(* the Auditor, to the subject's dead-letter channel.                       *)
(*                                                                          *)
(* Registration, deletion in flight and delivery to plain subscribers are   *)
(* the module Pusher's; here the subscriptions are all registered, and the  *)
(* pump is taken apart into the turns of its loop, because a take publishes *)
(* the letters of the jobs that died while the loop is under way.           *)
(***************************************************************************)
EXTENDS WorkQueue

CONSTANTS
  Order,     \* the pusher's array of subscriptions, a sequence of names
  Auditor,   \* the one that reads "<subject>.dead"
  MaxJobs,   \* ?max_jobs= of the workers, after clamping
  Waits,     \* how long a failed subscription backs off (see Pusher!Wait)
  RefusesUntil, \* bound: the Auditor refuses nothing from this time on
  Regroups,  \* whether a worker is moved to another group while it delivers
  Restarts   \* whether the broker may die and be started again

Subscriptions == {Order[n] : n \in DOMAIN Order}
Members == Subscriptions \ {Auditor}

ASSUME WorkersAssumption ==
  /\ MaxJobs \in Nat \ {0} /\ InflightMax > 0
  /\ Waits \subseteq Nat \ {0}
  /\ RefusesUntil \in Nat
  /\ Regroups \in BOOLEAN /\ Restarts \in BOOLEAN
  /\ Order \in Seq(Subscriptions) /\ Auditor \in Subscriptions
  /\ \A m, n \in DOMAIN Order : Order[m] = Order[n] => m = n

VARIABLES
  psub,     \* the pusher's record of each subscription
  seen,     \* the Auditor's receipt on the dead-letter channel
  work,     \* "something may be deliverable"
  at,       \* bjm_pusher_pump's i, from 1; 0 outside the pump
  started,  \* its count of deliveries started, as to whether there are any
  busy,     \* its flag for subscriptions that have to be asked again
  ran       \* history: the jobs each group's workers ran with success

pushVars == <<psub, seen, work, at, started, busy, ran>>
workersVars == <<vars, pushVars>>

\* `jobs' are the leases a worker was handed, `upto' where the Auditor's
\* batch ends.  Nothing reads wake_ms but as a flag: a pump that has work
\* left returns 0, whatever is due next.
Psub == [group : Groups, conn : BOOLEAN, inflight : BOOLEAN, due : Nat,
         wake : BOOLEAN, jobs : SUBSET Hand, upto : Nat]

NewPsub(g, transport) ==
  [group |-> g, conn |-> transport, inflight |-> FALSE, due |-> 0,
   wake |-> FALSE, jobs |-> {}, upto |-> 0]

\* The Auditor's receipt never passes the end of the dead-letter channel.
WorkersTypeOK ==
  /\ TypeOK
  /\ psub \in [Subscriptions -> Psub]
  /\ seen \in 0 .. Len(dlq)
  /\ work \in BOOLEAN /\ started \in BOOLEAN /\ busy \in BOOLEAN
  /\ at \in 0 .. Len(Order) + 1
  /\ ran \in [Groups -> SUBSET Nat]

WorkersInit ==
  /\ Init
  /\ psub \in [Subscriptions -> {NewPsub(g, TRUE) : g \in Groups}]
  /\ seen = 0
  /\ work = TRUE
  /\ at = 0 /\ started = FALSE /\ busy = FALSE
  /\ ran = [g \in Groups |-> {}]

\* Between two requests or callbacks: the pump and its takes run to the end.
Between == at = 0 /\ dying = {}

-----------------------------------------------------------------------------

\* bjm_publish, whose on_publish tells the pusher.
PublishJob ==
  /\ Between
  /\ Publish
  /\ work' = TRUE
  /\ UNCHANGED <<queueVars, psub, seen, at, started, busy, ran>>

\* bjm_publish of a dead letter, from inside a take of the pump: the same.
PublishLetter(d) ==
  /\ DeadLetter(d)
  /\ work' = TRUE
  /\ UNCHANGED <<psub, seen, at, started, busy, ran>>

PumpStart ==
  /\ Between
  /\ work
  /\ at' = 1 /\ started' = FALSE /\ busy' = FALSE
  /\ UNCHANGED <<vars, psub, seen, work, ran>>

Asking == at \in DOMAIN Order /\ dying = {}

\* Mutant: a backoff, once set, is not compared with the clock.
RestingOn(s) == psub[s].inflight \/ psub[s].due > 0

Resting(s) == psub[s].inflight \/ psub[s].due > now

\* A subscription in flight or in backoff is not asked, and not forgotten.
PumpSkip ==
  /\ Asking
  /\ Resting(Order[at])
  /\ at' = at + 1 /\ busy' = TRUE
  /\ UNCHANGED <<vars, psub, seen, work, started, ran>>

\* bjm_queue_next_due, after the take: some job of the group is leased.
Wake(g) == g \in known' /\ queues'[g].inflight # {}

(***************************************************************************)
(* start_delivery for a worker: take_batch leases up to MaxJobs jobs of the *)
(* group and send_batch posts them.  A subscription with no connection has  *)
(* leased its jobs all the same and the send fails.  With no job to be had, *)
(* the group's next due time decides whether it is to be asked again.       *)
(***************************************************************************)
Delivering(s, given) ==
  [psub[s] EXCEPT !.wake     = given = {} /\ Wake(psub[s].group),
                  !.inflight = given # {} /\ psub[s].conn,
                  !.jobs     = given]

PumpTake ==
  LET s == Order[at]
      given == handed' \ handed
  IN  /\ Asking
      /\ s # Auditor /\ ~Resting(s)
      /\ IF Exists THEN Take(psub[s].group, MaxJobs, GroupLease)
         ELSE UNCHANGED vars
      /\ psub' = [psub EXCEPT ![s] = Delivering(s, given)]
      /\ started' = (started \/ psub'[s].inflight)
      /\ busy' = (busy \/ psub'[s].wake)
      /\ at' = at + 1
      /\ UNCHANGED <<seen, work, ran>>

\* start_delivery for the Auditor: everything after its receipt is one batch.
PumpRead ==
  LET p == psub[Auditor]
      send == Len(dlq) > seen /\ p.conn
  IN  /\ Asking
      /\ Order[at] = Auditor /\ ~Resting(Auditor)
      /\ psub' = [psub EXCEPT ![Auditor].inflight = send,
                              ![Auditor].upto = IF send THEN Len(dlq) ELSE 0]
      /\ started' = (started \/ send)
      /\ at' = at + 1
      /\ UNCHANGED <<vars, seen, work, busy, ran>>

\* Mutant: the pump stops with leases or backoffs still running.
PumpEndStarted ==
  /\ at = Len(Order) + 1
  /\ dying = {}
  /\ at' = 0 /\ started' = FALSE /\ busy' = FALSE
  /\ work' = started
  /\ UNCHANGED <<vars, psub, seen, ran>>

(***************************************************************************)
(* The end of bjm_pusher_pump: a pass that started nothing and left nobody  *)
(* waiting clears `work'.                                                   *)
(***************************************************************************)
PumpEnd ==
  /\ at = Len(Order) + 1
  /\ dying = {}
  /\ at' = 0 /\ started' = FALSE /\ busy' = FALSE
  /\ work' = (work /\ (started \/ busy))
  /\ UNCHANGED <<vars, psub, seen, ran>>

Pump == PumpStart \/ PumpSkip \/ PumpTake \/ PumpRead \/ PumpEnd

-----------------------------------------------------------------------------

\* The worker's handler succeeds for the jobs of `good': h_job, run_job.
Ran(s, good) ==
  ran' = [g \in Groups |-> ran[g] \cup {h.index : h \in {k \in good : k.group = g}}]

\* Mutant: X-Sukkal-Done is not looked at.
ReportedAll(s, good) == {h.index : h \in psub[s].jobs}

\* The jobs X-Sukkal-Done names, or all of them when it is absent.
Reported(s, good) == {h.index : h \in good}

(***************************************************************************)
(* finish_jobs for a worker that answered: bjm_done for every job reported  *)
(* and bjm_fail with the group's own backoff for the others, in the group   *)
(* the subscription has now.                                                *)
(***************************************************************************)
Settle(s, good) ==
  LET g      == psub[s].group
      mine   == {e \in queues[g].inflight :
                   g \in known /\ \E h \in psub[s].jobs : h.index = e.index}
      done   == {e \in mine : e.index \in Reported(s, good)}
      again  == {[e EXCEPT !.expires = now + BackoffFor(queues[g].setting, e.attempts)] :
                   e \in mine \ done}
  IN  /\ queues' = [queues EXCEPT ![g].inflight = (@ \ mine) \cup again]
      /\ finished' = [finished EXCEPT ![g] = @ \cup {e.index : e \in done}]
      /\ handed' = handed \ psub[s].jobs
      /\ UNCHANGED <<subjectVars, now, known, dying, dlq, died, loose>>
      /\ WrittenBack

Ended(s, due) ==
  psub' = [psub EXCEPT ![s].inflight = FALSE, ![s].jobs = {}, ![s].due = due]

\* A worker that answers 200 is asked again at once, even if its
\* X-Sukkal-Done names no job of the batch.
WorkerAnswers(s, good) ==
  /\ Between
  /\ psub[s].inflight
  /\ good \subseteq psub[s].jobs
  /\ Ran(s, good)
  /\ Settle(s, good)
  /\ Ended(s, 0)
  /\ work' = TRUE
  /\ UNCHANGED <<seen, at, started, busy>>

\* One that answers anything else: all of them fail, and it waits.
WorkerRefuses(s, wait) ==
  /\ Between
  /\ psub[s].inflight
  /\ Settle(s, {})
  /\ Ended(s, now + wait)
  /\ UNCHANGED <<seen, work, at, started, busy, ran>>

(***************************************************************************)
(* A worker that is not reached, or whose answer does not come: nothing is  *)
(* settled, and the jobs are left to their leases.  It may have run them.   *)
(***************************************************************************)
WorkerLost(s, good, wait) ==
  /\ Between
  /\ psub[s].inflight
  /\ good \subseteq psub[s].jobs
  /\ Ran(s, good)
  /\ handed' = handed \ psub[s].jobs
  /\ Ended(s, now + wait)
  /\ UNCHANGED <<subjectVars, now, known, queues, onDisk, dying, dlq, finished,
                 died, loose, seen, work, at, started, busy>>

AuditorEnded(due) ==
  psub' = [psub EXCEPT ![Auditor].inflight = FALSE, ![Auditor].upto = 0,
                       ![Auditor].due = due]

(***************************************************************************)
(* finish for the Auditor: its receipt moves over the part of the batch     *)
(* that X-Sukkal-Ack accepts, or over the whole of it, and it is asked      *)
(* again at once.                                                           *)
(***************************************************************************)
AuditorAnswers ==
  /\ Between
  /\ psub[Auditor].inflight
  /\ seen' \in seen + 1 .. psub[Auditor].upto
  /\ AuditorEnded(0)
  /\ work' = TRUE
  /\ UNCHANGED <<vars, at, started, busy, ran>>

\* One that is not reached, answers anything but 2xx, or accepts none of the
\* batch: the receipt stays, and it waits.
AuditorRefuses(wait) ==
  /\ Between
  /\ psub[Auditor].inflight
  /\ now < RefusesUntil
  /\ AuditorEnded(now + wait)
  /\ UNCHANGED <<vars, seen, work, at, started, busy, ran>>

\* bjm_pusher_add for a worker that is registered: it takes the new group and
\* keeps the delivery it has in flight.
Reregister(s, g) ==
  /\ Between
  /\ Regroups \/ ~psub[s].inflight
  /\ psub' = [psub EXCEPT ![s].group = g]
  /\ work' = TRUE
  /\ UNCHANGED <<vars, seen, at, started, busy, ran>>

TickPushed ==
  /\ Between
  /\ Tick
  /\ UNCHANGED pushVars

(***************************************************************************)
(* The broker dies, between or inside pumps, and is started again: letters  *)
(* not yet published are lost, deliveries forgotten, and the subscriptions  *)
(* loaded before a transport is installed (bjm_pusher_new, load_one).       *)
(***************************************************************************)
RestartPushed ==
  /\ Restarts
  /\ psub' = [s \in Subscriptions |-> NewPsub(psub[s].group, FALSE)]
  /\ dying' = {}
  /\ handed' = {}
  /\ work' = TRUE
  /\ at' = 0 /\ started' = FALSE /\ busy' = FALSE
  /\ UNCHANGED <<subjectVars, now, known, queues, onDisk, dlq, finished, died,
                 loose, seen, ran>>

DeliveryEnds(s) ==
  \/ \E good \in SUBSET psub[s].jobs : WorkerAnswers(s, good)
  \/ \E wait \in Waits : WorkerRefuses(s, wait)
  \/ \E good \in SUBSET psub[s].jobs, wait \in Waits : WorkerLost(s, good, wait)

WorkersNext ==
  \/ PublishJob
  \/ \E d \in dying : PublishLetter(d)
  \/ Pump
  \/ \E s \in Members : DeliveryEnds(s)
  \/ AuditorAnswers
  \/ \E wait \in Waits : AuditorRefuses(wait)
  \/ \E s \in Members, g \in Groups : Reregister(s, g)
  \/ TickPushed
  \/ RestartPushed

\* Time is worth modelling only while a lease or a backoff runs.
TimeMatters ==
  \/ \E g \in known : \E e \in queues[g].inflight : e.expires > now
  \/ \E s \in Subscriptions : psub[s].due > now

WorkersStep == WorkersNext /\ (now' = now \/ TimeMatters)

(***************************************************************************)
(* bjm_serve's loop pumps on every turn and a take ends; between two pumps  *)
(* it services the transport, which ends a delivery at the latest by        *)
(* libcurl's timeout, and time passes: both can happen again and again, not *)
(* all the time, and so are strong.  Nothing is assumed of what workers     *)
(* answer, or that they answer at all.                                      *)
(***************************************************************************)
WorkersFairness ==
  /\ WF_workersVars(Pump)
  /\ WF_workersVars(\E d \in dying : PublishLetter(d))
  /\ \A s \in Members : SF_workersVars(DeliveryEnds(s))
  /\ SF_workersVars(TickPushed /\ TimeMatters)

WorkersSpec == WorkersInit /\ [][WorkersStep]_workersVars /\ WorkersFairness

-----------------------------------------------------------------------------

(***************************************************************************)
(* A job is finished only by being run: what finish_jobs reports done, a    *)
(* worker of that group ran with success, although answers are lost, leases *)
(* lapse during a delivery, another worker takes the job over, and a batch  *)
(* is finished in part.                                                     *)
(***************************************************************************)
OnlyRunJobsFinish == \A g \in Groups : finished[g] \subseteq ran[g]

(***************************************************************************)
(* "A pass that asked every eligible subscription and found nothing to send *)
(* means there is nothing to send": when the pump has stopped scanning, no  *)
(* worker that could be delivered to has a job to come, nor the Auditor a   *)
(* letter, and no lease is left to lapse unnoticed.  (For an Auditor after  *)
(* the workers in the array; see the README for the other order.)           *)
(***************************************************************************)
NoJobForgotten ==
  at = 0 /\ dying = {} /\ ~work =>
    \A s \in Subscriptions : psub[s].conn =>
      /\ ~Resting(s)
      /\ IF s = Auditor THEN seen = Len(dlq)
         ELSE LET q == QueueLoad(psub[s].group)
              IN  q.inflight = {} /\ q.next = last + 1

(***************************************************************************)
(* Every job pushed ends: it is finished or given up by the group of a      *)
(* worker that has its connection, even if no worker ever finishes anything *)
(* and nothing else is published (wake_ms, the attempt limit).              *)
(***************************************************************************)
PushedJobsEnd ==
  \A s \in Members : \A g \in Groups, i \in 1 .. MaxIndex :
    (i <= last /\ psub[s].group = g) ~>
      \/ g \in known /\ i \in finished[g] \cup died[g]
      \/ ~psub[s].conn \/ psub[s].group # g

=============================================================================
