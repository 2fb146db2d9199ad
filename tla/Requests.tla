----------------------------- MODULE Requests -----------------------------
(***************************************************************************)
(* The command-line client's conversations with the broker                  *)
(* (src/src/client.c): `sukkal pub', `sukkal request' and `sukkal reply' as *)
(* processes, every HTTP call of which may fail to arrive, or arrive and    *)
(* lose its answer, and is repeated or not as client_perform_ex decides.    *)
(*                                                                          *)
(* The broker is what these calls need of it: two logs that collapse a      *)
(* repeated id while it is remembered (module Dedup says for how long), the *)
(* group the repliers share, in which a job not finished may be leased      *)
(* again once its lease has lapsed (module WorkQueue), and the registered   *)
(* subscriptions with their receipts on the reply subject (module Pusher).  *)
(***************************************************************************)
EXTENDS Naturals, Sequences, FiniteSets

CONSTANTS
  Requesters,   \* `sukkal request' processes, each with its own correlation
  Publishers,   \* `sukkal pub' processes that give no id
  Repliers,     \* `sukkal reply' processes of one group
  Patient,      \* the processes whose --retry is not 0
  MaxAttempts,  \* the group's attempt limit
  Forgetful     \* the ids, each with its log, that the broker may forget

Senders == Requesters \cup Publishers
Receivers == Requesters \cup Repliers
Clients == Senders \cup Repliers

Logs == {"requests", "replies"}

\* Each message once, and once more for each id that is forgotten.
MaxRequests ==
  Cardinality(Senders) + Cardinality({f \in Forgetful : f[1] = "requests"})

ASSUME RequestsAssumption ==
  /\ MaxAttempts \in Nat \ {0} /\ Patient \subseteq Clients
  /\ Forgetful \subseteq Logs \X Senders
  /\ Requesters \cap Publishers = {} /\ Senders \cap Repliers = {}

VARIABLES
  pc,          \* where each process is
  requests,    \* the request subject's log, with the state of each job
  replies,     \* the reply subject's log: the correlations
  registered,  \* the push subscriptions the broker has
  receipt,     \* the requesters' receipts on the reply subject
  matched,     \* the requesters that have seen their reply
  job,         \* the job each replier is handling, 0 for none
  remembered,  \* the ids in the broker's dedup index, by log
  forgotten    \* history: the ids it had, or should have had, and lost

ids == <<remembered, forgotten>>
vars == <<pc, requests, replies, registered, receipt, matched, job, ids>>


\* `wants' is whether the request has a reply_to and a correlation header.
Request == [from : Senders, wants : BOOLEAN, attempts : 0 .. MaxAttempts,
            state : {"open", "done", "dead"}]

Steps == {"probing", "registering", "publishing", "waiting",
          "serving", "running", "replying", "answering",
          "leaving", "left", "failed"}

Init ==
  /\ pc = [p \in Clients |-> IF p \in Publishers THEN "publishing" ELSE "probing"]
  /\ requests = << >> /\ replies = << >>
  /\ registered = {}
  /\ receipt = [r \in Requesters |-> 0]
  /\ matched = {}
  /\ job = [w \in Repliers |-> 0]
  /\ remembered = [l \in Logs |-> {}] /\ forgotten = [l \in Logs |-> {}]

-----------------------------------------------------------------------------

\* How a call of libcurl ends: never_arrived, broke_midway with the request
\* acted upon, an HTTP answer; "stopped" is Ctrl-C before the call is made.
Outcomes == {"unsent", "lost", "answered", "stopped"}

Arrives(outcome) == outcome \in {"lost", "answered"}

\* Mutant: whatever broke is tried again.
RetryableAll(outcome, idempotent) == outcome \in {"unsent", "lost"}

Retryable(outcome, idempotent) ==
  outcome = "unsent" \/ (outcome = "lost" /\ idempotent)

(***************************************************************************)
(* client_perform_ex: the process goes on to `ok' with the answer, stays    *)
(* where it is to make the call again, or takes the error path.             *)
(***************************************************************************)
Perform(p, outcome, idempotent, ok, error) ==
  pc' = [pc EXCEPT ![p] =
           IF outcome = "answered" THEN ok
           ELSE IF Retryable(outcome, idempotent) /\ p \in Patient THEN @
           ELSE error]

\* One attempt with retries off, as on the way out.
PerformOnce(p, outcome) ==
  pc' = [pc EXCEPT ![p] = IF outcome = "answered" THEN "left" ELSE "failed"]

\* POST /pub/<subject>?id=: appended unless the id is remembered, and then
\* recorded (h_publish; bjm_dedup_lookup and bjm_dedup_record).
Keyed(log, l, entry, id) ==
  /\ log' = IF id \in remembered[l] THEN log ELSE Append(log, entry)
  /\ remembered' = [remembered EXCEPT ![l] = @ \cup {id}]
  /\ UNCHANGED forgotten

Fresh(p, wants) ==
  [from |-> p, wants |-> wants, attempts |-> 0, state |-> "open"]

Replied(r) == \E i \in DOMAIN replies : replies[i] = r

-----------------------------------------------------------------------------

\* bjm_cmd_pub without --id or --auto-id: repeated only if it never arrived.
\* It may set the headers of a request by hand.  Its exit status is left out.
PublishPlain(p, wants, outcome) ==
  /\ pc[p] = "publishing"
  /\ Perform(p, outcome, FALSE, "left", "left")
  /\ requests' = IF Arrives(outcome) THEN Append(requests, Fresh(p, wants)) ELSE requests
  /\ UNCHANGED <<replies, registered, receipt, matched, job, ids>>

-----------------------------------------------------------------------------

\* Mutant: the request is published before anybody listens for its reply.
FollowingLate(p, step) ==
  CASE step = "probing" -> IF p \in Repliers THEN "registering" ELSE "publishing"
    [] step = "publishing" -> "registering"
    [] OTHER -> IF p \in Repliers THEN "serving" ELSE "waiting"

\* bjm_cmd_request registers before it publishes; receiver_run goes on to serve.
Following(p, step) ==
  CASE step = "probing" -> "registering"
    [] step = "registering" -> IF p \in Repliers THEN "serving" ELSE "publishing"
    [] OTHER -> "waiting"

\* The address is found by a call (probe_local_ip), then listened on.
Probe(p, outcome, listens) ==
  /\ pc[p] = "probing"
  /\ Perform(p, outcome, TRUE,
             IF listens THEN Following(p, "probing") ELSE "failed", "failed")
  /\ UNCHANGED <<requests, replies, registered, receipt, matched, job, ids>>

\* PUT /push with start=last: bjm_pusher_seed puts the receipt of a new
\* subscription at the end of the log, unless there is one.
StartLast(r) ==
  IF r \in registered \/ receipt[r] # 0 THEN receipt
  ELSE [receipt EXCEPT ![r] = Len(replies)]

\* Mutant: a failed registration returns without unregistering.
SubscribeReturns(r, outcome) ==
  /\ pc[r] = "registering"
  /\ Perform(r, outcome, TRUE, Following(r, "registering"), "left")
  /\ IF Arrives(outcome)
     THEN registered' = registered \cup {r} /\ receipt' = StartLast(r)
     ELSE UNCHANGED <<registered, receipt>>
  /\ UNCHANGED <<requests, replies, matched, job, ids>>

Subscribe(r, outcome) ==
  /\ pc[r] = "registering"
  /\ Perform(r, outcome, TRUE, Following(r, "registering"), "leaving")
  /\ IF Arrives(outcome)
     THEN registered' = registered \cup {r} /\ receipt' = StartLast(r)
     ELSE UNCHANGED <<registered, receipt>>
  /\ UNCHANGED <<requests, replies, matched, job, ids>>

PublishRequest(r, outcome) ==
  /\ pc[r] = "publishing"
  /\ Perform(r, outcome, TRUE, Following(r, "publishing"), "leaving")
  /\ IF Arrives(outcome) THEN Keyed(requests, "requests", Fresh(r, TRUE), r)
     ELSE UNCHANGED <<requests, ids>>
  /\ UNCHANGED <<replies, registered, receipt, matched, job>>

\* cs_object_end over a batch: some reply in it carries our correlation.
Matches(r, batch) == \E i \in DOMAIN batch : batch[i] = r

(***************************************************************************)
(* A delivery of replies and h_awaited, which accepts the whole batch.  The *)
(* requester serves its callback only in the wait loop; an answer that is   *)
(* lost leaves the receipt where it was.                                    *)
(***************************************************************************)
Awaited(r, upto, outcome) ==
  /\ r \in registered /\ pc[r] = "waiting"
  /\ upto \in receipt[r] + 1 .. Len(replies)
  /\ matched' = IF Arrives(outcome) /\ Matches(r, SubSeq(replies, receipt[r] + 1, upto))
                THEN matched \cup {r} ELSE matched
  /\ receipt' = IF outcome = "answered" THEN [receipt EXCEPT ![r] = upto] ELSE receipt
  /\ UNCHANGED <<pc, requests, replies, registered, job, ids>>

\* The wait loop ends: matched, timed out, interrupted, or the poll failed.
StopWaiting(r) ==
  /\ pc[r] = "waiting"
  /\ pc' = [pc EXCEPT ![r] = "leaving"]
  /\ UNCHANGED <<requests, replies, registered, receipt, matched, job, ids>>

\* push_unregister; for a requester, whose subscription is a throwaway, with purge.
Unregister(p, outcome) ==
  /\ pc[p] = "leaving"
  /\ PerformOnce(p, outcome)
  /\ IF Arrives(outcome)
     THEN /\ registered' = registered \ {p}
          /\ receipt' = [r \in Requesters |-> IF r = p THEN 0 ELSE receipt[r]]
     ELSE UNCHANGED <<registered, receipt>>
  /\ UNCHANGED <<requests, replies, matched, job, ids>>

-----------------------------------------------------------------------------

\* receiver_run's first registration: a failure exits at once.
Serve(w, outcome) ==
  /\ pc[w] = "registering"
  /\ Perform(w, outcome, TRUE, Following(w, "registering"), "failed")
  /\ registered' = IF Arrives(outcome) THEN registered \cup {w} ELSE registered
  /\ UNCHANGED <<requests, replies, receipt, matched, job, ids>>

\* Mutant: the heartbeat asks without registering.
HeartbeatOnly(w, outcome) ==
  /\ pc[w] = "serving"
  /\ UNCHANGED vars

\* The registration repeated from receiver_run's loop, until it is answered or
\* given up; meanwhile nothing is served (Lease, not reached).
Heartbeat(w, outcome) ==
  /\ pc[w] = "serving"
  /\ registered' = IF Arrives(outcome) THEN registered \cup {w} ELSE registered
  /\ UNCHANGED <<pc, requests, replies, receipt, matched, job, ids>>

StopServing(w) ==
  /\ pc[w] = "serving"
  /\ pc' = [pc EXCEPT ![w] = "leaving"]
  /\ UNCHANGED <<requests, replies, registered, receipt, matched, job, ids>>

-----------------------------------------------------------------------------

Open(i) == requests[i].state = "open"

\* Mutant: the attempts are not looked at.
LeaseAgain(w, i, reached) ==
  /\ w \in registered
  /\ Open(i)
  /\ requests' = [requests EXCEPT ![i].attempts = @ + 1]
  /\ UNCHANGED <<pc, job, replies, registered, receipt, matched, ids>>

(***************************************************************************)
(* The broker leases job i for the subscription of w and posts it.  A lease *)
(* may lapse while another replier is still at the job.  The post may not   *)
(* be taken: w is busy, gone, or not reached; the attempt counts.           *)
(***************************************************************************)
Lease(w, i, reached) ==
  /\ w \in registered
  /\ Open(i) /\ requests[i].attempts < MaxAttempts
  /\ requests' = [requests EXCEPT ![i].attempts = @ + 1]
  /\ IF reached
     THEN /\ pc[w] = "serving"
          /\ pc' = [pc EXCEPT ![w] = "running"]
          /\ job' = [job EXCEPT ![w] = i]
     ELSE UNCHANGED <<pc, job>>
  /\ UNCHANGED <<replies, registered, receipt, matched, ids>>

\* A take that meets a lapsed lease of a job with no attempt left gives it up.
GiveUp(i) ==
  /\ Repliers \cap registered # {}
  /\ Open(i) /\ requests[i].attempts = MaxAttempts
  /\ requests' = [requests EXCEPT ![i].state = "dead"]
  /\ UNCHANGED <<pc, replies, registered, receipt, matched, job, ids>>

\* Mutant: the request is answered for before its reply is published.
RunAnswers(w, ok) ==
  /\ pc[w] = "running"
  /\ pc' = [pc EXCEPT ![w] = IF ok THEN "answering" ELSE "serving"]
  /\ job' = IF ok THEN job ELSE [job EXCEPT ![w] = 0]
  /\ UNCHANGED <<requests, replies, registered, receipt, matched, ids>>

(***************************************************************************)
(* h_reply runs the command.  If it fails the answer is 500 and the job is  *)
(* returned to the group; a request with no reply_to is done without reply. *)
(***************************************************************************)
Run(w, ok) ==
  /\ pc[w] = "running"
  /\ pc' = [pc EXCEPT ![w] =
              IF ~ok THEN "serving"
              ELSE IF requests[job[w]].wants THEN "replying"
              ELSE "answering"]
  /\ job' = IF ok THEN job ELSE [job EXCEPT ![w] = 0]
  /\ UNCHANGED <<requests, replies, registered, receipt, matched, ids>>

\* publish_reply, keyed by the correlation; if it fails the answer is 500.
PublishReply(w, outcome) ==
  LET r == requests[job[w]].from
  IN  /\ pc[w] = "replying"
      /\ Perform(w, outcome, TRUE, "answering", "serving")
      /\ IF Arrives(outcome) THEN Keyed(replies, "replies", r, r)
         ELSE UNCHANGED <<replies, ids>>
      /\ job' = IF pc'[w] = "serving" THEN [job EXCEPT ![w] = 0] ELSE job
      /\ UNCHANGED <<requests, registered, receipt, matched>>

\* The 200, if it gets there, has the pusher finish the job, whoever holds it.
Answer(w, arrives) ==
  /\ pc[w] = "answering"
  /\ pc' = [pc EXCEPT ![w] = "serving"]
  /\ job' = [job EXCEPT ![w] = 0]
  /\ requests' = IF arrives /\ Open(job[w])
                 THEN [requests EXCEPT ![job[w]].state = "done"] ELSE requests
  /\ UNCHANGED <<replies, registered, receipt, matched, ids>>

-----------------------------------------------------------------------------

\* The process dies where it is; the broker is not told.  (A publisher that
\* dies is one that never goes on.)
Kill(p) ==
  /\ pc[p] \notin {"left", "failed"}
  /\ pc' = [pc EXCEPT ![p] = "failed"]
  /\ job' = [w \in Repliers |-> IF w = p THEN 0 ELSE job[w]]
  /\ UNCHANGED <<requests, replies, registered, receipt, matched, ids>>

\* DELETE /push by somebody else, with or without purge, or a store rebuilt:
\* the broker no longer has the subscription.
Forget(p, purge) ==
  /\ p \in registered
  /\ registered' = registered \ {p}
  /\ receipt' = [r \in Requesters |-> IF purge /\ r = p THEN 0 ELSE receipt[r]]
  /\ UNCHANGED <<pc, requests, replies, matched, job, ids>>

(***************************************************************************)
(* An id leaves the dedup index: its window has passed, however long the    *)
(* client goes on trying, or the broker died after the append and before    *)
(* the record, which is not synced.  Bound: each id is forgotten once.      *)
(***************************************************************************)
ForgetId(l, r) ==
  /\ <<l, r>> \in Forgetful /\ r \notin forgotten[l]
  /\ r \in remembered[l]
  /\ remembered' = [remembered EXCEPT ![l] = @ \ {r}]
  /\ forgotten' = [forgotten EXCEPT ![l] = @ \cup {r}]
  /\ UNCHANGED <<pc, requests, replies, registered, receipt, matched, job>>

-----------------------------------------------------------------------------

RequesterStep(r) ==
  \/ \E o \in Outcomes :
       \/ \E ok \in BOOLEAN : Probe(r, o, ok)
       \/ Subscribe(r, o) \/ PublishRequest(r, o) \/ Unregister(r, o)
       \/ \E upto \in 1 .. Len(replies) : Awaited(r, upto, o)
  \/ StopWaiting(r)

ReplierStep(w) ==
  \/ \E o \in Outcomes :
       \/ \E ok \in BOOLEAN : Probe(w, o, ok)
       \/ Serve(w, o) \/ Heartbeat(w, o) \/ PublishReply(w, o)
       \/ Unregister(w, o)
  \/ \E ok \in BOOLEAN : Run(w, ok) \/ Answer(w, ok)
  \/ StopServing(w)

BrokerStep(i) ==
  \/ \E w \in Repliers, reached \in BOOLEAN : Lease(w, i, reached)
  \/ GiveUp(i)

Next ==
  \/ \E p \in Publishers, wants \in BOOLEAN, o \in Outcomes : PublishPlain(p, wants, o)
  \/ \E r \in Requesters : RequesterStep(r)
  \/ \E w \in Repliers : ReplierStep(w)
  \/ \E i \in DOMAIN requests : BrokerStep(i)
  \/ \E p \in Receivers : Kill(p)
  \/ \E p \in Receivers, purge \in BOOLEAN : Forget(p, purge)
  \/ \E l \in Logs, r \in Senders : ForgetId(l, r)

(***************************************************************************)
(* The broker pumps while there are jobs; a replier's loop goes on, its     *)
(* command ends, and a call made again and again, its heartbeat and its     *)
(* reply, is answered once.  Nothing is assumed of what the command         *)
(* returns, of whether an answer reaches the broker, or of the requesters.  *)
(***************************************************************************)
Fairness ==
  /\ \A w \in Repliers :
       /\ SF_vars(Heartbeat(w, "answered"))
       /\ WF_vars(\E ok \in BOOLEAN : Run(w, ok) \/ Answer(w, ok))
       /\ SF_vars(PublishReply(w, "answered"))
  /\ \A i \in 1 .. MaxRequests :
       SF_vars(i \in DOMAIN requests /\ BrokerStep(i))

Spec == Init /\ [][Next]_vars /\ Fairness

-----------------------------------------------------------------------------

TypeOK ==
  /\ pc \in [Clients -> Steps]
  /\ requests \in Seq(Request)
  /\ replies \in Seq(Senders)
  /\ registered \in SUBSET Receivers
  /\ receipt \in [Requesters -> Nat]
  /\ matched \in SUBSET Requesters
  /\ job \in [Repliers -> Nat]
  /\ remembered \in [Logs -> SUBSET Senders]
  /\ forgotten \in [Logs -> SUBSET Senders]

(***************************************************************************)
(* "Without one it cannot: the message may already be in the log, and       *)
(* retrying would append a second copy" (bjm_cmd_pub); "a redelivered       *)
(* request cannot produce a second reply" (publish_reply): whatever calls   *)
(* are lost and repeated, and however many repliers run one request, a      *)
(* message is in its log twice only if the broker has lost its id, and one  *)
(* that was sent without an id never is.                                    *)
(***************************************************************************)
EachSentOnce ==
  /\ \A i, j \in DOMAIN requests :
       requests[i].from = requests[j].from =>
         i = j \/ requests[i].from \in forgotten["requests"] \ Publishers
  /\ \A i, j \in DOMAIN replies :
       replies[i] = replies[j] => i = j \/ replies[i] \in forgotten["replies"]

(***************************************************************************)
(* "Listen and register BEFORE publishing" (bjm_cmd_request): a requester   *)
(* that waits and has not seen its reply has not been delivered past it;    *)
(* published already or still to come, the reply is ahead of its receipt,   *)
(* even if its subscription is lost and made again before it publishes.     *)
(***************************************************************************)
ReplyStillAhead ==
  \A r \in Requesters :
    pc[r] = "waiting" /\ r \notin matched =>
      /\ receipt[r] <= Len(replies)
      /\ \A i \in 1 .. receipt[r] : replies[i] # r

(***************************************************************************)
(* A request is done only when its reply is in the log: a command that      *)
(* fails, a reply that cannot be published and an answer that is lost all   *)
(* leave the job to be done again.                                          *)
(***************************************************************************)
DoneWasReplied ==
  \A i \in DOMAIN requests :
    requests[i].state = "done" /\ requests[i].wants =>
      Replied(requests[i].from)

(***************************************************************************)
(* "Throwaway: take the receipt with it": a requester whose unregistering   *)
(* was answered has left nothing behind, not even by a registration whose   *)
(* own answer was lost.                                                     *)
(***************************************************************************)
NothingLeftBehind ==
  \A r \in Requesters : pc[r] = "left" => r \notin registered /\ receipt[r] = 0

(***************************************************************************)
(* "What it buys is self-healing": while some replier stays, a request is   *)
(* answered or runs out of attempts, although the broker may forget the     *)
(* repliers again and again and lease requests to ones that are gone.       *)
(***************************************************************************)
RequestsSettle ==
  \A i \in 1 .. MaxRequests :
    i \in DOMAIN requests ~>
      \/ i \in DOMAIN requests /\ requests[i].state # "open"
      \/ \A w \in Repliers : pc[w] \in {"leaving", "left", "failed",
                                        "probing", "registering"}

=============================================================================
