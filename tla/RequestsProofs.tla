--------------------------- MODULE RequestsProofs ---------------------------
(***************************************************************************)
(* The safety of the client's conversations for any number of requesters,   *)
(* publishers and repliers, whichever of them retry.  The fairness of Spec  *)
(* is not used.                                                             *)
(***************************************************************************)
EXTENDS Requests, SequenceTheorems, TLAPS

RequesterSteps == {"probing", "registering", "publishing", "waiting",
                   "leaving", "left", "failed"}
ReplierSteps == {"probing", "registering", "serving", "running", "replying",
                 "answering", "leaving", "left", "failed"}

Roles ==
  /\ \A r \in Requesters : pc[r] \in RequesterSteps
  /\ \A w \in Repliers : pc[w] \in ReplierSteps
  /\ \A p \in Publishers : pc[p] \in {"publishing", "left", "failed"}

\* Who has a message in a log, and has gone past the step that publishes it.
Sent ==
  /\ \A i \in DOMAIN requests :
       /\ requests[i].from \in Publishers => pc[requests[i].from] \in {"left", "failed"}
       /\ requests[i].from \in Requesters =>
            pc[requests[i].from] \notin {"probing", "registering"}
  /\ \A k \in DOMAIN replies : \E i \in DOMAIN requests : requests[i].from = replies[k]

\* An id in a log is in the dedup index, unless it was forgotten; a reply's id
\* is in the index only with its reply in the log.
Recorded ==
  /\ \A i \in DOMAIN requests : requests[i].from \in Requesters =>
       requests[i].from \in remembered["requests"] \cup forgotten["requests"]
  /\ \A k \in DOMAIN replies :
       replies[k] \in remembered["replies"] \cup forgotten["replies"]
  /\ \A r \in remembered["replies"] : \E k \in DOMAIN replies : replies[k] = r

\* What a replier at work has in hand.
Handling ==
  \A w \in Repliers :
    /\ pc[w] \in {"running", "replying", "answering"} => job[w] \in DOMAIN requests
    /\ pc[w] = "answering" /\ requests[job[w]].wants =>
         \E k \in DOMAIN replies : replies[k] = requests[job[w]].from

\* What a requester's receipt has passed.
Passed ==
  \A r \in Requesters :
    /\ receipt[r] <= Len(replies)
    /\ pc[r] \in {"publishing", "waiting"} =>
         r \in matched \/ \A i \in 1 .. receipt[r] : replies[i] # r

Inv == /\ TypeOK /\ Roles /\ Sent /\ Recorded /\ Handling /\ Passed
       /\ EachSentOnce /\ DoneWasReplied /\ NothingLeftBehind

LEMMA AppendFacts ==
  ASSUME NEW S, NEW q \in Seq(S), NEW e \in S
  PROVE  /\ Append(q, e) \in Seq(S) /\ Len(q) \in Nat
         /\ Len(Append(q, e)) = Len(q) + 1
         /\ DOMAIN q = 1 .. Len(q) /\ DOMAIN Append(q, e) = 1 .. Len(q) + 1
         /\ \A i \in 1 .. Len(q) : Append(q, e)[i] = q[i]
         /\ Append(q, e)[Len(q) + 1] = e
OBVIOUS

\* A log that an entry is added to, or not.
LEMMA KeyedFacts ==
  ASSUME NEW S, NEW q \in Seq(S), NEW e \in S, NEW t,
         \/ t = q /\ \E k \in DOMAIN q : q[k] = e
         \/ t = Append(q, e)
  PROVE  /\ t \in Seq(S) /\ Len(q) \in Nat /\ Len(t) \in Nat /\ Len(q) <= Len(t)
         /\ DOMAIN q = 1 .. Len(q) /\ DOMAIN t = 1 .. Len(t)
         /\ \A k \in DOMAIN q : k \in DOMAIN t /\ t[k] = q[k]
         /\ \A k \in DOMAIN t : k \in DOMAIN q \/ t[k] = e
         /\ \E k \in DOMAIN t : t[k] = e
         /\ (\A k \in DOMAIN q : q[k] # e)
              => \A j, k \in DOMAIN t : t[j] = t[k] =>
                   j = k \/ (j \in DOMAIN q /\ k \in DOMAIN q)
<1>1. CASE t = q /\ \E k \in DOMAIN q : q[k] = e
  BY <1>1
<1>2. CASE t = Append(q, e)
  <2>1. /\ t \in Seq(S) /\ Len(q) \in Nat /\ Len(t) = Len(q) + 1
        /\ DOMAIN q = 1 .. Len(q) /\ DOMAIN t = 1 .. Len(q) + 1
        /\ \A i \in 1 .. Len(q) : t[i] = q[i]
        /\ t[Len(q) + 1] = e
    BY <1>2, AppendFacts
  <2>2. \A k \in DOMAIN q : k \in DOMAIN t /\ t[k] = q[k]
    BY <2>1
  <2>3. \A k \in DOMAIN t : k \in DOMAIN q \/ k = Len(q) + 1
    BY <2>1
  <2>4. \E k \in DOMAIN t : t[k] = e
    <3>1. Len(q) + 1 \in DOMAIN t
      BY <2>1
    <3> QED  BY <2>1, <3>1
  <2>5. ASSUME \A k \in DOMAIN q : q[k] # e, NEW j \in DOMAIN t, NEW k \in DOMAIN t,
               t[j] = t[k], j # k
        PROVE  j \in DOMAIN q /\ k \in DOMAIN q
    BY <2>1, <2>2, <2>3, <2>5
  <2>6. \A k \in DOMAIN t : k \in DOMAIN q \/ t[k] = e
    BY <2>1, <2>3
  <2>7. Len(t) \in Nat /\ Len(q) <= Len(t) /\ DOMAIN t = 1 .. Len(t)
    BY <2>1
  <2> QED  BY <2>1, <2>2, <2>4, <2>5, <2>6, <2>7
<1> QED  BY <1>1, <1>2

LEMMA ExceptFacts ==
  ASSUME NEW S, NEW q \in Seq(S), NEW i \in DOMAIN q, NEW e \in S
  PROVE  /\ [q EXCEPT ![i] = e] \in Seq(S)
         /\ DOMAIN [q EXCEPT ![i] = e] = DOMAIN q
         /\ [q EXCEPT ![i] = e][i] = e
         /\ \A k \in DOMAIN q : k # i => [q EXCEPT ![i] = e][k] = q[k]
OBVIOUS

LEMMA SubSeqFacts ==
  ASSUME NEW S, NEW q \in Seq(S), NEW m \in Nat, NEW n \in Nat, m < n, n <= Len(q)
  PROVE  /\ DOMAIN SubSeq(q, m + 1, n) = 1 .. n - m
         /\ \A k \in 1 .. n - m : SubSeq(q, m + 1, n)[k] = q[m + k]
<1>1. Len(q) \in Nat /\ m + 1 \in 1 .. Len(q) + 1 /\ n \in m .. Len(q)
  OBVIOUS
<1>2. /\ SubSeq(q, m + 1, n) \in Seq(S)
      /\ Len(SubSeq(q, m + 1, n)) = n - m
      /\ \A k \in 1 .. n - m : SubSeq(q, m + 1, n)[k] = q[m + k]
  BY <1>1, SubSeqProperties
<1>3. DOMAIN SubSeq(q, m + 1, n) = 1 .. Len(SubSeq(q, m + 1, n))
  BY <1>2
<1> QED  BY <1>2, <1>3

\* The roles do not overlap.
LEMMA RolesDiffer ==
  /\ \A r \in Requesters : r \in Clients /\ r \in Senders /\ r \notin Publishers /\ r \notin Repliers
  /\ \A p \in Publishers : p \in Clients /\ p \in Senders /\ p \notin Requesters /\ p \notin Repliers
  /\ \A w \in Repliers : w \in Clients /\ w \notin Senders /\ w \notin Requesters /\ w \notin Publishers
BY RequestsAssumption DEF Clients, Senders

LEMMA LogFacts ==
  ASSUME TypeOK
  PROVE  /\ Len(requests) \in Nat /\ DOMAIN requests = 1 .. Len(requests)
         /\ Len(replies) \in Nat /\ DOMAIN replies = 1 .. Len(replies)
         /\ \A i \in DOMAIN requests :
              requests[i] \in Request /\ requests[i].from \in Senders
         /\ \A k \in DOMAIN replies : replies[k] \in Senders
<1>1. \A i \in DOMAIN requests : requests[i] \in Request
  BY DEF TypeOK
<1>2. \A e \in Request : e.from \in Senders
  BY DEF Request
<1> QED  BY <1>1, <1>2 DEF TypeOK

LEMMA InitInv == Init => Inv
<1> SUFFICES ASSUME Init PROVE Inv
  OBVIOUS
<1> USE DEF Init
<1>1. TypeOK
  BY RolesDiffer DEF TypeOK, Steps, Receivers
<1>2. Roles
  BY RolesDiffer DEF Roles, RequesterSteps, ReplierSteps
<1>3. Sent /\ Recorded /\ EachSentOnce /\ DoneWasReplied
  BY DEF Sent, Recorded, Logs, EachSentOnce, DoneWasReplied
<1>4. Handling /\ Passed /\ NothingLeftBehind
  BY RolesDiffer DEF Handling, Passed, NothingLeftBehind
<1> QED  BY <1>1, <1>2, <1>3, <1>4 DEF Inv


-----------------------------------------------------------------------------

\* Where client_perform_ex leaves the process.
LEMMA PerformPc ==
  ASSUME TypeOK, NEW p \in Clients, NEW o \in Outcomes, NEW idem \in BOOLEAN,
         NEW ok \in Steps, NEW error \in Steps, Perform(p, o, idem, ok, error)
  PROVE  /\ pc' \in [Clients -> Steps]
         /\ \A q \in Clients : q # p => pc'[q] = pc[q]
         /\ pc'[p] \in {ok, error, pc[p]}
         /\ o = "answered" => pc'[p] = ok
         /\ o # "answered" => pc'[p] \in {error, pc[p]}
         /\ o = "lost" /\ ~idem => pc'[p] = error
BY DEF TypeOK, Perform, Retryable, Outcomes

\* Steps that change no log keep what is said of the logs alone.
LEMMA LogsAlone ==
  ASSUME Inv, UNCHANGED <<requests, replies, ids>>
  PROVE  EachSentOnce' /\ DoneWasReplied' /\ Recorded'
BY DEF Inv, ids, Recorded, EachSentOnce, DoneWasReplied, Replied

\* A process that moves on without publishing, registering or taking a job.
LEMMA Moves ==
  ASSUME Inv, NEW p \in Clients, NEW v \in Steps,
         pc' = [pc EXCEPT ![p] = v],
         UNCHANGED <<requests, replies, registered, receipt, matched, ids>>,
         job' \in [Repliers -> Nat],
         \A w \in Repliers : w # p => job'[w] = job[w],
         p \in Requesters => \/ v \in {"leaving", "failed"}
                             \/ v = "registering" /\ pc[p] = "probing",
         p \in Repliers => v \in {"registering", "serving", "leaving", "failed"},
         p \in Publishers => v = "failed"
  PROVE  Inv'
<1> USE DEF Inv, ids
<1>1. pc' \in [Clients -> Steps] /\ pc'[p] = v /\ \A q \in Clients : q # p => pc'[q] = pc[q]
  BY DEF TypeOK
<1>2. TypeOK'
  BY <1>1 DEF TypeOK
<1>3. Roles'
  BY <1>1, RolesDiffer DEF Roles, RequesterSteps, ReplierSteps
<1>4. Sent'
  <2>1. \A i \in DOMAIN requests : requests[i].from \in Clients
    BY LogFacts DEF Clients
  <2> QED  BY <1>1, <2>1, RolesDiffer DEF Sent
<1>5. Handling'
  BY <1>1, RolesDiffer DEF Handling
<1>6. Passed'
  BY <1>1, RolesDiffer DEF Passed
<1>7. NothingLeftBehind'
  BY <1>1, RolesDiffer DEF NothingLeftBehind
<1> QED  BY <1>2, <1>3, <1>4, <1>5, <1>6, <1>7, LogsAlone

LEMMA ProbeInv ==
  ASSUME Inv, NEW p \in Receivers, NEW o \in Outcomes, NEW ok \in BOOLEAN,
         Probe(p, o, ok)
  PROVE  Inv'
<1>0. p \in Clients /\ p \notin Publishers
  BY RolesDiffer DEF Receivers
<1>1. CASE pc' = [pc EXCEPT ![p] = "failed"]
  BY <1>0, <1>1, Moves DEF Probe, Inv, TypeOK, Steps
<1>2. CASE pc' = [pc EXCEPT ![p] = "registering"]
  BY <1>0, <1>2, Moves DEF Probe, Inv, TypeOK, Steps
<1>3. CASE UNCHANGED vars
  BY <1>3 DEF vars, ids, Inv, TypeOK, Roles, Sent, Recorded, Handling, Passed, EachSentOnce,
              DoneWasReplied, Replied, NothingLeftBehind
<1>4. UNCHANGED <<requests, replies, registered, receipt, matched, job, ids>>
  BY DEF Probe
<1>5. pc' = pc \/ pc' = [pc EXCEPT ![p] = "failed"] \/ pc' = [pc EXCEPT ![p] = "registering"]
  BY <1>0 DEF Probe, Perform, Following, Inv, TypeOK
<1> QED  BY <1>1, <1>2, <1>3, <1>4, <1>5 DEF vars

LEMMA PublishPlainInv ==
  ASSUME Inv, NEW p \in Publishers, NEW wants \in BOOLEAN, NEW o \in Outcomes,
         PublishPlain(p, wants, o)
  PROVE  Inv'
<1> USE DEF Inv, ids
<1>0. /\ UNCHANGED <<replies, registered, receipt, matched, job, ids>>
      /\ pc[p] = "publishing" /\ p \in Clients /\ p \in Senders
  BY RolesDiffer DEF PublishPlain
<1>1. /\ pc' \in [Clients -> Steps]
      /\ \A q \in Clients : q # p => pc'[q] = pc[q]
      /\ pc'[p] \in {"left", "failed", "publishing"}
      /\ Arrives(o) => pc'[p] \in {"left", "failed"}
  BY <1>0 DEF PublishPlain, Perform, Retryable, Arrives, TypeOK, Steps, Outcomes
<1>2. CASE ~Arrives(o)
  <2>1. UNCHANGED <<requests, replies, ids>>
    BY <1>0, <1>2 DEF PublishPlain
  <2>2. TypeOK' /\ Roles'
    BY <1>0, <1>1, <2>1, RolesDiffer DEF TypeOK, Roles
  <2>3. Sent'
    BY <1>0, <1>1, <2>1, LogFacts, RolesDiffer DEF Sent
  <2>4. Handling' /\ Passed' /\ NothingLeftBehind'
    BY <1>0, <1>1, <2>1, RolesDiffer DEF Handling, Passed, NothingLeftBehind
  <2> QED  BY <1>0, <2>1, <2>2, <2>3, <2>4, LogsAlone
<1>3. CASE Arrives(o)
  <2> DEFINE e == Fresh(p, wants)
  <2>1. requests' = Append(requests, e) /\ e \in Request /\ e.from = p /\ e.state = "open"
    BY <1>0, <1>3, RequestsAssumption DEF PublishPlain, Fresh, Request
  <2>2. /\ requests' \in Seq(Request) /\ Len(requests) \in Nat
        /\ DOMAIN requests = 1 .. Len(requests) /\ DOMAIN requests' = 1 .. Len(requests) + 1
        /\ \A i \in 1 .. Len(requests) : requests'[i] = requests[i]
        /\ requests'[Len(requests) + 1] = e
    BY <2>1, AppendFacts DEF TypeOK
  <2>3. TypeOK' /\ Roles'
    BY <1>0, <1>1, <2>2, RolesDiffer DEF TypeOK, Roles
  <2>4. Sent'
    BY <1>0, <1>1, <1>3, <2>1, <2>2, LogFacts, RolesDiffer DEF Sent
  <2>r. Recorded'
    BY <1>0, <2>1, <2>2, RolesDiffer DEF Recorded
  <2>5. Handling' /\ Passed' /\ NothingLeftBehind'
    BY <1>0, <1>1, <2>2, RolesDiffer DEF Handling, Passed, NothingLeftBehind
  <2>6. \A i \in DOMAIN requests : requests[i].from # p
    BY <1>0 DEF Sent
  <2>7. EachSentOnce'
    BY <1>0, <2>1, <2>2, <2>6 DEF EachSentOnce
  <2>8. DoneWasReplied'
    BY <1>0, <2>1, <2>2 DEF DoneWasReplied, Replied
  <2> QED  BY <2>3, <2>4, <2>r, <2>5, <2>7, <2>8
<1> QED  BY <1>2, <1>3

LEMMA PublishRequestInv ==
  ASSUME Inv, NEW r \in Requesters, NEW o \in Outcomes, PublishRequest(r, o)
  PROVE  Inv'
<1> USE DEF Inv, ids
<1>0. /\ UNCHANGED <<replies, registered, receipt, matched, job>>
      /\ pc[r] = "publishing" /\ r \in Clients /\ r \in Senders /\ r \notin Repliers
  BY RolesDiffer DEF PublishRequest
<1>1. /\ pc' \in [Clients -> Steps]
      /\ \A q \in Clients : q # r => pc'[q] = pc[q]
      /\ pc'[r] \in {"waiting", "leaving", "publishing"}
  BY <1>0, PerformPc DEF PublishRequest, Following, Steps
<1>2. TypeOK /\ Roles' /\ pc' \in [Clients -> Steps]
  BY <1>0, <1>1, RolesDiffer DEF Roles, RequesterSteps
<1>3. Passed' /\ NothingLeftBehind'
  BY <1>0, <1>1, RolesDiffer DEF Passed, NothingLeftBehind
<1>4. CASE UNCHANGED <<requests, ids>>
  <2>1. TypeOK'
    BY <1>0, <1>2, <1>4 DEF TypeOK
  <2>2. Sent'
    BY <1>0, <1>1, <1>4, LogFacts, RolesDiffer DEF Sent
  <2>3. Handling'
    BY <1>0, <1>1, <1>4, RolesDiffer DEF Handling
  <2> QED  BY <1>0, <1>2, <1>3, <1>4, <2>1, <2>2, <2>3, LogsAlone
<1>5. CASE Keyed(requests, "requests", Fresh(r, TRUE), r)
  <2> DEFINE seen == remembered["requests"]
  <2>0. /\ remembered' \in [Logs -> SUBSET Senders] /\ forgotten' = forgotten
        /\ remembered'["requests"] = seen \cup {r}
        /\ remembered'["replies"] = remembered["replies"]
    BY <1>0, <1>5 DEF Keyed, TypeOK, Logs
  <2>1. CASE r \in seen
    <3>1. requests' = requests
      BY <1>5, <2>1 DEF Keyed
    <3>2. TypeOK'
      BY <1>0, <1>2, <2>0, <3>1 DEF TypeOK
    <3>3. Sent'
      BY <1>0, <1>1, <3>1, LogFacts, RolesDiffer DEF Sent
    <3>4. Handling'
      BY <1>0, <1>1, <3>1, RolesDiffer DEF Handling
    <3>5. Recorded'
      BY <1>0, <2>0, <3>1 DEF Recorded
    <3>6. EachSentOnce' /\ DoneWasReplied'
      BY <1>0, <2>0, <3>1 DEF EachSentOnce, DoneWasReplied, Replied
    <3> QED  BY <1>2, <1>3, <3>2, <3>3, <3>4, <3>5, <3>6
  <2>2. CASE r \notin seen
    <3>1. PICK e \in Request : e.from = r /\ e.state = "open" /\ requests' = Append(requests, e)
      <4> DEFINE f == [from |-> r, wants |-> TRUE, attempts |-> 0, state |-> "open"]
      <4>1. f \in Request
        BY <1>0, RequestsAssumption DEF Request
      <4>2. f = Fresh(r, TRUE)
        BY DEF Fresh
      <4>3. f.from = r /\ f.state = "open"
        OBVIOUS
      <4>4. requests' = Append(requests, Fresh(r, TRUE))
        BY <1>5, <2>2 DEF Keyed
      <4> HIDE DEF f
      <4> QED  BY <4>1, <4>2, <4>3, <4>4
    <3>2. /\ requests' \in Seq(Request) /\ Len(requests) \in Nat
          /\ DOMAIN requests = 1 .. Len(requests) /\ DOMAIN requests' = 1 .. Len(requests) + 1
          /\ \A i \in 1 .. Len(requests) : requests'[i] = requests[i]
          /\ requests'[Len(requests) + 1] = e
      BY <3>1, AppendFacts DEF TypeOK
    <3>3. TypeOK'
      BY <1>0, <1>2, <2>0, <3>2 DEF TypeOK
    <3>4. Sent'
      BY <1>0, <1>1, <3>1, <3>2, LogFacts, RolesDiffer DEF Sent
    <3>5. Handling'
      BY <1>0, <1>1, <3>2, RolesDiffer DEF Handling
    <3>6. Recorded'
      BY <1>0, <2>0, <3>1, <3>2 DEF Recorded
    <3>7. EachSentOnce'
      <4>1. \A i \in DOMAIN requests : requests[i].from = r => r \in forgotten["requests"] \ Publishers
        BY <1>0, <2>2, RolesDiffer DEF Recorded
      <4> QED  BY <1>0, <2>0, <3>1, <3>2, <4>1 DEF EachSentOnce
    <3>8. DoneWasReplied'
      BY <1>0, <3>1, <3>2 DEF DoneWasReplied, Replied
    <3> QED  BY <1>2, <1>3, <3>3, <3>4, <3>5, <3>6, <3>7, <3>8
  <2> QED  BY <2>1, <2>2
<1> QED  BY <1>4, <1>5 DEF PublishRequest

LEMMA SubscribeInv ==
  ASSUME Inv, NEW r \in Requesters, NEW o \in Outcomes, Subscribe(r, o)
  PROVE  Inv'
<1> USE DEF Inv, ids
<1>0. /\ UNCHANGED <<requests, replies, matched, job, ids>>
      /\ pc[r] = "registering" /\ r \in Clients /\ r \notin Repliers /\ r \notin Publishers
  BY RolesDiffer DEF Subscribe
<1>1. /\ pc' \in [Clients -> Steps]
      /\ \A q \in Clients : q # r => pc'[q] = pc[q]
      /\ pc'[r] \in {"publishing", "leaving", "registering"}
      /\ pc'[r] = "publishing" => Arrives(o)
  BY <1>0, PerformPc DEF Subscribe, Following, Steps, Arrives
<1>2. /\ registered' \in SUBSET Receivers /\ receipt' \in [Requesters -> Nat]
      /\ Arrives(o) => r \in registered'
      /\ receipt'[r] <= Len(replies)
      /\ \A q \in Requesters : q # r => receipt'[q] = receipt[q]
      /\ \A q \in Receivers : q # r => (q \in registered' <=> q \in registered)
  BY LogFacts DEF Subscribe, StartLast, TypeOK, Receivers, Passed
<1>3. \A k \in DOMAIN replies : replies[k] # r
  BY <1>0 DEF Sent
<1>4. TypeOK' /\ Roles'
  BY <1>0, <1>1, <1>2, RolesDiffer DEF TypeOK, Roles, RequesterSteps
<1>5. Sent'
  BY <1>0, <1>1, LogFacts, RolesDiffer DEF Sent
<1>6. Handling'
  BY <1>0, <1>1, RolesDiffer DEF Handling
<1>7. Passed'
  <2> SUFFICES ASSUME NEW q \in Requesters
               PROVE  /\ receipt'[q] <= Len(replies)
                      /\ pc'[q] \in {"publishing", "waiting"} =>
                           q \in matched \/ \A i \in 1 .. receipt'[q] : replies[i] # q
    BY <1>0 DEF Passed
  <2>1. CASE q = r
    <3>1. \A i \in 1 .. receipt'[q] : replies[i] # q
      BY <1>2, <1>3, <2>1, LogFacts
    <3> QED  BY <1>1, <1>2, <2>1, <3>1
  <2>2. CASE q # r
    BY <1>1, <1>2, <2>2, RolesDiffer DEF Passed, Receivers
  <2> QED  BY <2>1, <2>2
<1>8. NothingLeftBehind'
  BY <1>0, <1>1, <1>2, RolesDiffer DEF NothingLeftBehind, Receivers
<1> QED  BY <1>0, <1>4, <1>5, <1>6, <1>7, <1>8, LogsAlone

LEMMA AwaitedInv ==
  ASSUME Inv, NEW r \in Requesters, NEW upto \in 1 .. Len(replies), NEW o \in Outcomes,
         Awaited(r, upto, o)
  PROVE  Inv'
<1> USE DEF Inv, ids
<1>0. UNCHANGED <<pc, requests, replies, registered, job, ids>> /\ upto > receipt[r]
  BY LogFacts DEF Awaited, TypeOK
<1>1. /\ matched' \in SUBSET Requesters /\ matched \subseteq matched'
      /\ receipt' \in [Requesters -> Nat]
      /\ \A q \in Requesters : q # r => receipt'[q] = receipt[q]
      /\ receipt'[r] \in {receipt[r], upto} /\ pc[r] = "waiting"
      /\ receipt'[r] # receipt[r] => o = "answered"
  BY LogFacts DEF Awaited, TypeOK
<1>2. receipt'[r] = receipt[r] \/ r \in matched'
        \/ \A i \in receipt[r] + 1 .. upto : replies[i] # r
  <2> SUFFICES ASSUME receipt'[r] # receipt[r], r \notin matched',
                      NEW i \in receipt[r] + 1 .. upto
               PROVE  replies[i] # r
    OBVIOUS
  <2> DEFINE batch == SubSeq(replies, receipt[r] + 1, upto)
  <2>1. ~Matches(r, batch)
    BY <1>1 DEF Awaited, Arrives
  <2>2. /\ receipt[r] \in Nat /\ upto \in Nat /\ upto <= Len(replies)
        /\ i \in Nat /\ Len(replies) \in Nat
    BY LogFacts DEF TypeOK
  <2>3a. PICK m \in Nat : m = receipt[r]
    BY <2>2
  <2>3. /\ DOMAIN batch = 1 .. upto - receipt[r]
        /\ \A k \in 1 .. upto - receipt[r] : batch[k] = replies[receipt[r] + k]
    <3>1. replies \in Seq(Senders)
      BY DEF TypeOK
    <3>2. upto \in Nat /\ m < upto /\ upto <= Len(replies)
      BY <1>0, <2>2, <2>3a
    <3>3. /\ DOMAIN SubSeq(replies, m + 1, upto) = 1 .. upto - m
          /\ \A k \in 1 .. upto - m : SubSeq(replies, m + 1, upto)[k] = replies[m + k]
      BY <3>1, <3>2, SubSeqFacts
    <3> QED  BY <2>3a, <3>3
  <2>4. i - receipt[r] \in 1 .. upto - receipt[r] /\ receipt[r] + (i - receipt[r]) = i
    BY <2>2
  <2> HIDE DEF batch
  <2> QED  BY <2>1, <2>3, <2>4 DEF Matches
<1>3. TypeOK' /\ Roles'
  BY <1>0, <1>1 DEF TypeOK, Roles
<1>4. Sent' /\ Handling'
  BY <1>0 DEF Sent, Handling
<1>5. Passed'
  <2> SUFFICES ASSUME NEW q \in Requesters
               PROVE  /\ receipt'[q] <= Len(replies)
                      /\ pc[q] \in {"publishing", "waiting"} =>
                           q \in matched' \/ \A i \in 1 .. receipt'[q] : replies[i] # q
    BY <1>0 DEF Passed
  <2>1. CASE q = r
    BY <1>0, <1>1, <1>2, <2>1, LogFacts DEF Passed, TypeOK
  <2>2. CASE q # r
    BY <1>1, <2>2 DEF Passed
  <2> QED  BY <2>1, <2>2
<1>6. NothingLeftBehind'
  BY <1>0, <1>1 DEF NothingLeftBehind
<1> QED  BY <1>0, <1>3, <1>4, <1>5, <1>6, LogsAlone

LEMMA UnregisterInv ==
  ASSUME Inv, NEW p \in Receivers, NEW o \in Outcomes, Unregister(p, o)
  PROVE  Inv'
<1> USE DEF Inv, ids
<1>0. /\ UNCHANGED <<requests, replies, matched, job, ids>>
      /\ pc[p] = "leaving" /\ p \in Clients /\ p \notin Publishers
  BY RolesDiffer DEF Unregister, Receivers
<1>1. /\ pc' \in [Clients -> Steps]
      /\ \A q \in Clients : q # p => pc'[q] = pc[q]
      /\ pc'[p] \in {"left", "failed"} /\ (pc'[p] = "left" => Arrives(o))
  BY <1>0 DEF Unregister, PerformOnce, TypeOK, Steps, Arrives
<1>2. /\ registered' \in SUBSET Receivers /\ receipt' \in [Requesters -> Nat]
      /\ \A q \in Requesters : q # p => receipt'[q] = receipt[q]
      /\ \A q \in Receivers : q # p => (q \in registered' <=> q \in registered)
      /\ Arrives(o) => p \notin registered' /\ (p \in Requesters => receipt'[p] = 0)
      /\ p \in Requesters => receipt'[p] <= receipt[p]
  <2>1. CASE ~Arrives(o)
    BY <2>1 DEF Unregister, TypeOK
  <2>2. CASE Arrives(o)
    <3>1. /\ registered' = registered \ {p}
          /\ receipt' = [r \in Requesters |-> IF r = p THEN 0 ELSE receipt[r]]
      BY <2>2 DEF Unregister
    <3> QED  BY <3>1 DEF TypeOK
  <2> QED  BY <2>1, <2>2
<1>3. TypeOK' /\ Roles'
  BY <1>0, <1>1, <1>2, RolesDiffer DEF TypeOK, Roles, RequesterSteps, ReplierSteps
<1>4. Sent'
  BY <1>0, <1>1, LogFacts, RolesDiffer DEF Sent
<1>5. Handling'
  BY <1>0, <1>1, RolesDiffer DEF Handling
<1>6. Passed'
  <2> SUFFICES ASSUME NEW q \in Requesters
               PROVE  /\ receipt'[q] <= Len(replies)
                      /\ pc'[q] \in {"publishing", "waiting"} =>
                           q \in matched \/ \A i \in 1 .. receipt'[q] : replies[i] # q
    BY <1>0 DEF Passed
  <2>1. CASE q = p
    BY <1>1, <1>2, <2>1, LogFacts DEF Passed, TypeOK
  <2>2. CASE q # p
    BY <1>1, <1>2, <2>2, RolesDiffer DEF Passed, Receivers
  <2> QED  BY <2>1, <2>2
<1>7. NothingLeftBehind'
  BY <1>0, <1>1, <1>2, RolesDiffer DEF NothingLeftBehind, Receivers
<1> QED  BY <1>0, <1>3, <1>4, <1>5, <1>6, <1>7, LogsAlone

\* Serve and Heartbeat: a replier comes or goes, and may move on.
LEMMA RegistrationInv ==
  ASSUME Inv, NEW w \in Repliers, NEW v \in {"serving", "failed", pc[w]},
         pc' = [pc EXCEPT ![w] = v], pc[w] \in ReplierSteps,
         v \in {"serving", "failed"} \/ v = pc[w],
         UNCHANGED <<requests, replies, receipt, matched, job, ids>>,
         registered' \in {registered \cup {w}, registered \ {w}, registered}
  PROVE  Inv'
<1> USE DEF Inv, ids
<1>1. /\ pc' \in [Clients -> Steps] /\ pc'[w] = v
      /\ \A q \in Clients : q # w => pc'[q] = pc[q]
  BY RolesDiffer DEF TypeOK, Steps
<1>2. /\ registered' \in SUBSET Receivers
      /\ \A r \in Requesters : r \in registered' <=> r \in registered
  BY RolesDiffer DEF TypeOK, Receivers
<1>3. TypeOK' /\ Roles'
  BY <1>1, <1>2, RolesDiffer DEF TypeOK, Roles, ReplierSteps
<1>4. Sent'
  BY <1>1, LogFacts, RolesDiffer DEF Sent
<1>5. Handling'
  BY <1>1, RolesDiffer DEF Handling
<1>6. Passed' /\ NothingLeftBehind'
  BY <1>1, <1>2, RolesDiffer DEF Passed, NothingLeftBehind
<1> QED  BY <1>3, <1>4, <1>5, <1>6, LogsAlone

LEMMA LeaseInv ==
  ASSUME Inv, NEW w \in Repliers, NEW i \in DOMAIN requests, NEW reached \in BOOLEAN,
         Lease(w, i, reached)
  PROVE  Inv'
<1> USE DEF Inv, ids
<1>0. /\ UNCHANGED <<replies, registered, receipt, matched, ids>>
      /\ requests[i] \in Request /\ w \in Clients
  BY RolesDiffer, LogFacts DEF Lease
<1>1. /\ requests' \in Seq(Request) /\ DOMAIN requests' = DOMAIN requests
      /\ \A k \in DOMAIN requests : /\ requests'[k].from = requests[k].from
                                    /\ requests'[k].wants = requests[k].wants
                                    /\ requests'[k].state = requests[k].state
  <2> DEFINE e == [requests[i] EXCEPT !.attempts = @ + 1]
  <2>1. requests' = [requests EXCEPT ![i] = e]
    BY DEF Lease
  <2>2. /\ e \in Request /\ e.from = requests[i].from
        /\ e.wants = requests[i].wants /\ e.state = requests[i].state
    BY <1>0, RequestsAssumption DEF Lease, Request
  <2> HIDE DEF e
  <2> QED  BY <2>1, <2>2 DEF TypeOK
<1>2. /\ pc' \in [Clients -> Steps] /\ job' \in [Repliers -> Nat]
      /\ \A q \in Clients : q # w => pc'[q] = pc[q]
      /\ \A q \in Repliers : q # w => job'[q] = job[q]
      /\ \/ pc'[w] = pc[w] /\ job'[w] = job[w]
         \/ pc'[w] = "running" /\ job'[w] = i
  <2>1. i \in Nat
    BY LogFacts
  <2>2. CASE reached
    BY <1>0, <2>1, <2>2 DEF Lease, TypeOK, Steps
  <2>3. CASE ~reached
    BY <1>0, <2>3 DEF Lease, TypeOK
  <2> QED  BY <2>2, <2>3
<1>3. TypeOK' /\ Roles'
  BY <1>0, <1>1, <1>2, RolesDiffer DEF TypeOK, Roles, ReplierSteps
<1>4. Sent'
  <2>1. \A p \in Senders : p \in Clients /\ pc'[p] = pc[p]
    BY <1>2, RolesDiffer DEF Clients
  <2>2. \A k \in DOMAIN requests : requests[k].from \in Senders
    BY LogFacts
  <2>3. \A k \in DOMAIN requests : pc'[requests'[k].from] = pc[requests[k].from]
    BY <1>1, <2>1, <2>2
  <2> QED  BY <1>0, <1>1, <2>3 DEF Sent
<1>5. Handling'
  BY <1>0, <1>1, <1>2, RolesDiffer DEF Handling
<1>6. Passed' /\ NothingLeftBehind'
  BY <1>0, <1>2, RolesDiffer DEF Passed, NothingLeftBehind
<1>7. EachSentOnce' /\ DoneWasReplied'
  BY <1>0, <1>1 DEF EachSentOnce, DoneWasReplied, Replied
<1>8. Recorded'
  BY <1>0, <1>1 DEF Recorded
<1> QED  BY <1>3, <1>4, <1>5, <1>6, <1>7, <1>8

\* A job of the group ends, as done or as dead.
LEMMA SettledInv ==
  ASSUME Inv, NEW i \in DOMAIN requests, NEW state \in {"done", "dead"},
         requests' = [requests EXCEPT ![i].state = state],
         UNCHANGED <<replies, registered, receipt, matched, ids>>,
         state = "done" /\ requests[i].wants => Replied(requests[i].from),
         pc' \in [Clients -> Steps], job' \in [Repliers -> Nat],
         NEW W \in SUBSET Repliers,
         \A q \in Clients \ W : pc'[q] = pc[q],
         \A q \in Repliers \ W : job'[q] = job[q],
         \A q \in W : pc'[q] = "serving"
  PROVE  Inv'
<1> USE DEF Inv, ids
<1>1. /\ requests' \in Seq(Request) /\ DOMAIN requests' = DOMAIN requests
      /\ \A k \in DOMAIN requests : /\ requests'[k].from = requests[k].from
                                    /\ requests'[k].wants = requests[k].wants
      /\ requests'[i].state = state
      /\ \A k \in DOMAIN requests : k # i => requests'[k] = requests[k]
  <2> DEFINE e == [requests[i] EXCEPT !.state = state]
  <2>1. requests' = [requests EXCEPT ![i] = e]
    OBVIOUS
  <2>2. /\ e \in Request /\ e.from = requests[i].from
        /\ e.wants = requests[i].wants /\ e.state = state
    BY LogFacts DEF Request
  <2> HIDE DEF e
  <2>3. requests \in Seq(Request) /\ i \in DOMAIN requests /\ e \in Request
    BY <2>2 DEF TypeOK
  <2>4. /\ [requests EXCEPT ![i] = e] \in Seq(Request)
        /\ DOMAIN [requests EXCEPT ![i] = e] = DOMAIN requests
    BY ONLY <2>3, ExceptFacts
  <2>5. requests' \in Seq(Request) /\ DOMAIN requests' = DOMAIN requests
    BY ONLY <2>1, <2>4
  <2>6. requests'[i] = e /\ \A k \in DOMAIN requests : k # i => requests'[k] = requests[k]
    BY <2>1
  <2> QED  BY <2>2, <2>5, <2>6
<1>3. TypeOK' /\ Roles'
  BY <1>1, RolesDiffer DEF TypeOK, Roles, ReplierSteps
<1>4. Sent'
  <2>1. \A p \in Senders : p \in Clients /\ pc'[p] = pc[p]
    BY RolesDiffer DEF Clients
  <2>2. \A k \in DOMAIN requests : requests[k].from \in Senders
    BY LogFacts
  <2>3. \A k \in DOMAIN requests : pc'[requests'[k].from] = pc[requests[k].from]
    BY <1>1, <2>1, <2>2
  <2>4. \A k \in DOMAIN requests' :
          /\ requests'[k].from \in Publishers => pc'[requests'[k].from] \in {"left", "failed"}
          /\ requests'[k].from \in Requesters =>
               pc'[requests'[k].from] \notin {"probing", "registering"}
    BY <1>1, <2>3 DEF Sent
  <2>5. \A n \in DOMAIN replies : \E k \in DOMAIN requests' : requests'[k].from = replies[n]
    BY <1>1 DEF Sent
  <2>6. replies' = replies
    OBVIOUS
  <2> QED  BY <2>4, <2>5, <2>6 DEF Sent
<1>5. Handling'
  BY <1>1, RolesDiffer DEF Handling
<1>6. Passed' /\ NothingLeftBehind'
  BY RolesDiffer DEF Passed, NothingLeftBehind
<1>7. EachSentOnce'
  BY <1>1 DEF EachSentOnce
<1>8. DoneWasReplied'
  BY <1>1 DEF DoneWasReplied, Replied
<1>9. Recorded'
  BY <1>1 DEF Recorded
<1> QED  BY <1>3, <1>4, <1>5, <1>6, <1>7, <1>8, <1>9

LEMMA RunInv ==
  ASSUME Inv, NEW w \in Repliers, NEW ok \in BOOLEAN, Run(w, ok)
  PROVE  Inv'
<1> USE DEF Inv, ids
<1>0. /\ UNCHANGED <<requests, replies, registered, receipt, matched, ids>>
      /\ pc[w] = "running" /\ w \in Clients
  BY RolesDiffer DEF Run
<1>1. /\ pc' \in [Clients -> Steps] /\ job' \in [Repliers -> Nat]
      /\ \A q \in Clients : q # w => pc'[q] = pc[q]
      /\ \A q \in Repliers : q # w => job'[q] = job[q]
      /\ pc'[w] \in {"serving", "replying", "answering"}
      /\ pc'[w] # "serving" => job'[w] = job[w]
      /\ pc'[w] = "answering" => ~requests[job[w]].wants
  <2>1. CASE ok
    BY <1>0, <2>1 DEF Run, TypeOK, Steps
  <2>2. CASE ~ok
    BY <1>0, <2>2 DEF Run, TypeOK, Steps
  <2> QED  BY <2>1, <2>2
<1>2. TypeOK' /\ Roles'
  BY <1>0, <1>1, RolesDiffer DEF TypeOK, Roles, ReplierSteps
<1>3. Sent'
  <2>1. \A p \in Senders : p \in Clients /\ pc'[p] = pc[p]
    BY <1>1, RolesDiffer DEF Clients
  <2> QED  BY <1>0, <2>1, LogFacts DEF Sent
<1>4. Handling'
  BY <1>0, <1>1, RolesDiffer DEF Handling
<1>5. Passed' /\ NothingLeftBehind'
  BY <1>0, <1>1, RolesDiffer DEF Passed, NothingLeftBehind
<1> QED  BY <1>0, <1>2, <1>3, <1>4, <1>5, LogsAlone

LEMMA PublishReplyInv ==
  ASSUME Inv, NEW w \in Repliers, NEW o \in Outcomes, PublishReply(w, o)
  PROVE  Inv'
<1> USE DEF Inv, ids
<1>0. /\ UNCHANGED <<requests, registered, receipt, matched>>
      /\ pc[w] = "replying" /\ w \in Clients /\ job[w] \in DOMAIN requests
  BY RolesDiffer, LogFacts DEF PublishReply, Handling
<1>r. PICK r \in Senders : r = requests[job[w]].from
  BY <1>0, LogFacts
<1>1. /\ pc' \in [Clients -> Steps]
      /\ \A q \in Clients : q # w => pc'[q] = pc[q]
      /\ pc'[w] \in {"answering", "serving", "replying"}
      /\ pc'[w] = "answering" => Arrives(o)
  BY <1>0, PerformPc DEF PublishReply, Arrives, Steps
<1>2. /\ job' \in [Repliers -> Nat]
      /\ \A q \in Repliers : q # w => job'[q] = job[q]
      /\ pc'[w] # "serving" => job'[w] = job[w]
  BY DEF PublishReply, TypeOK
<1>3. /\ replies' \in Seq(Senders) /\ Len(replies) \in Nat
      /\ Len(replies') \in Nat /\ Len(replies) <= Len(replies')
      /\ \A k \in DOMAIN replies : k \in DOMAIN replies' /\ replies'[k] = replies[k]
      /\ \A k \in DOMAIN replies' : k \in DOMAIN replies \/ replies'[k] = r
      /\ Arrives(o) => \E k \in DOMAIN replies' : replies'[k] = r
      /\ remembered' \in [Logs -> SUBSET Senders] /\ forgotten' = forgotten
      /\ remembered'["requests"] = remembered["requests"]
      /\ EachSentOnce' /\ Recorded'
  <2>1. replies \in Seq(Senders)
    BY DEF TypeOK
  <2>2. CASE ~Arrives(o)
    <3>1. UNCHANGED <<replies, ids>>
      BY <2>2 DEF PublishReply
    <3> QED  BY <1>0, <2>1, <2>2, <3>1, LogsAlone, LogFacts DEF TypeOK
  <2>3. CASE Arrives(o)
    <3>0. /\ Keyed(replies, "replies", r, r)
          /\ remembered' \in [Logs -> SUBSET Senders] /\ forgotten' = forgotten
          /\ remembered'["requests"] = remembered["requests"]
          /\ remembered'["replies"] = remembered["replies"] \cup {r}
      BY <1>r, <2>3 DEF PublishReply, Keyed, TypeOK, Logs
    <3>1. \/ replies' = replies /\ \E k \in DOMAIN replies : replies[k] = r
          \/ replies' = Append(replies, r)
      BY <3>0 DEF Keyed, Recorded
    <3>2. /\ replies' \in Seq(Senders) /\ Len(replies) \in Nat
          /\ Len(replies') \in Nat /\ Len(replies) <= Len(replies')
          /\ \A k \in DOMAIN replies : k \in DOMAIN replies' /\ replies'[k] = replies[k]
          /\ \A k \in DOMAIN replies' : k \in DOMAIN replies \/ replies'[k] = r
          /\ \E k \in DOMAIN replies' : replies'[k] = r
          /\ (\A k \in DOMAIN replies : replies[k] # r)
               => \A j, k \in DOMAIN replies' : replies'[j] = replies'[k] =>
                    j = k \/ (j \in DOMAIN replies /\ k \in DOMAIN replies)
      BY <2>1, <3>1, KeyedFacts
    <3>3. Recorded'
      BY <1>0, <3>0, <3>2 DEF Recorded
    <3>4. EachSentOnce'
      <4>1. CASE r \in remembered["replies"]
        <5>1. replies' = replies
          BY <3>0, <4>1 DEF Keyed
        <5> QED  BY <1>0, <3>0, <5>1 DEF EachSentOnce
      <4>2. CASE r \in forgotten["replies"]
        BY <1>0, <3>0, <3>2, <4>2 DEF EachSentOnce
      <4>3. CASE \A k \in DOMAIN replies : replies[k] # r
        BY <1>0, <3>0, <3>2, <4>3 DEF EachSentOnce
      <4> QED  BY <4>1, <4>2, <4>3 DEF Recorded
    <3> QED  BY <3>0, <3>2, <3>3, <3>4
  <2> QED  BY <2>2, <2>3
<1>4. TypeOK' /\ Roles'
  BY <1>0, <1>1, <1>2, <1>3, RolesDiffer DEF TypeOK, Roles, ReplierSteps
<1>5. Sent'
  <2>1. \A p \in Senders : p \in Clients /\ pc'[p] = pc[p]
    BY <1>1, RolesDiffer DEF Clients
  <2>2. \A k \in DOMAIN replies' : \E i \in DOMAIN requests : requests[i].from = replies'[k]
    BY <1>0, <1>r, <1>3 DEF Sent
  <2> QED  BY <1>0, <2>1, <2>2, LogFacts DEF Sent
<1>6. Handling'
  <2> SUFFICES ASSUME NEW q \in Repliers
               PROVE  /\ pc'[q] \in {"running", "replying", "answering"} =>
                           job'[q] \in DOMAIN requests
                      /\ pc'[q] = "answering" /\ requests[job'[q]].wants =>
                           \E k \in DOMAIN replies' : replies'[k] = requests[job'[q]].from
    BY <1>0 DEF Handling
  <2>1. CASE q = w
    BY <1>0, <1>r, <1>1, <1>2, <1>3, <2>1 DEF Handling
  <2>2. CASE q # w
    BY <1>0, <1>1, <1>2, <1>3, <2>2, RolesDiffer DEF Handling
  <2> QED  BY <2>1, <2>2
<1>7. Passed'
  <2> SUFFICES ASSUME NEW q \in Requesters
               PROVE  /\ receipt[q] <= Len(replies')
                      /\ pc[q] \in {"publishing", "waiting"} =>
                           q \in matched \/ \A i \in 1 .. receipt[q] : replies'[i] # q
    BY <1>0, <1>1, RolesDiffer DEF Passed
  <2> QED  BY <1>3, LogFacts DEF Passed, TypeOK
<1>8. NothingLeftBehind'
  BY <1>0, <1>1, RolesDiffer DEF NothingLeftBehind
<1>10. DoneWasReplied'
  BY <1>0, <1>3 DEF DoneWasReplied, Replied
<1> QED  BY <1>3, <1>4, <1>5, <1>6, <1>7, <1>8, <1>10

LEMMA AnswerInv ==
  ASSUME Inv, NEW w \in Repliers, NEW arrives \in BOOLEAN, Answer(w, arrives)
  PROVE  Inv'
<1> USE DEF Inv, ids
<1>0. /\ UNCHANGED <<replies, registered, receipt, matched, ids>>
      /\ pc[w] = "answering" /\ w \in Clients /\ w \notin Senders
      /\ w \notin Requesters /\ w \notin Publishers /\ job[w] \in DOMAIN requests
  BY RolesDiffer DEF Answer, Handling
<1>1. pc' = [pc EXCEPT ![w] = "serving"] /\ job' = [job EXCEPT ![w] = 0]
  BY DEF Answer
<1>2. CASE UNCHANGED requests
  BY <1>0, <1>1, <1>2, Moves DEF TypeOK, Steps
<1>3. CASE requests' = [requests EXCEPT ![job[w]].state = "done"]
  <2>1. /\ pc' \in [Clients -> Steps] /\ job' \in [Repliers -> Nat]
        /\ \A q \in Clients : q # w => pc'[q] = pc[q]
        /\ \A q \in Repliers : q # w => job'[q] = job[q]
        /\ pc'[w] = "serving"
    BY <1>0, <1>1 DEF TypeOK, Steps
  <2>2. requests[job[w]].wants => Replied(requests[job[w]].from)
    BY <1>0 DEF Handling, Replied
  <2>3. PICK i \in DOMAIN requests : i = job[w]
    BY <1>0
  <2>4. PICK W \in SUBSET Repliers : W = {w}
    OBVIOUS
  <2> QED  BY <1>0, <1>3, <2>1, <2>2, <2>3, <2>4, SettledInv
<1> QED  BY <1>2, <1>3 DEF Answer

LEMMA GiveUpInv ==
  ASSUME Inv, NEW i \in DOMAIN requests, GiveUp(i)
  PROVE  Inv'
<1> USE DEF Inv, ids
<1>1. /\ requests' = [requests EXCEPT ![i].state = "dead"]
      /\ UNCHANGED <<pc, replies, registered, receipt, matched, job, ids>>
  BY DEF GiveUp
<1>2. pc' \in [Clients -> Steps] /\ job' \in [Repliers -> Nat]
  BY <1>1 DEF TypeOK
<1>3. PICK W \in SUBSET Repliers : W = {}
  OBVIOUS
<1> QED  BY <1>1, <1>2, <1>3, SettledInv

\* A subscription is lost, perhaps with its receipt.
LEMMA ForgetInv ==
  ASSUME Inv, NEW p \in Receivers, NEW purge \in BOOLEAN, Forget(p, purge)
  PROVE  Inv'
<1> USE DEF Inv, ids
<1>1. /\ UNCHANGED <<pc, requests, replies, matched, job, ids>>
      /\ registered' = registered \ {p}
      /\ receipt' = [r \in Requesters |-> IF purge /\ r = p THEN 0 ELSE receipt[r]]
  BY DEF Forget
<1>2. /\ registered' \in SUBSET Receivers /\ receipt' \in [Requesters -> Nat]
      /\ \A r \in Requesters : receipt'[r] \in {0, receipt[r]}
  BY <1>1 DEF TypeOK
<1>3. TypeOK'
  BY <1>1, <1>2 DEF TypeOK
<1>4. Roles' /\ Sent' /\ Handling'
  BY <1>1 DEF Roles, Sent, Handling
<1>5. Passed'
  BY <1>1, <1>2, LogFacts DEF Passed, TypeOK
<1>6. NothingLeftBehind'
  BY <1>1, <1>2 DEF NothingLeftBehind
<1> QED  BY <1>1, <1>3, <1>4, <1>5, <1>6, LogsAlone

LEMMA ForgetIdInv ==
  ASSUME Inv, NEW l \in Logs, NEW r \in Senders, ForgetId(l, r)
  PROVE  Inv'
<1> USE DEF Inv
<1>1. /\ UNCHANGED <<pc, requests, replies, registered, receipt, matched, job>>
      /\ remembered' \in [Logs -> SUBSET Senders] /\ forgotten' \in [Logs -> SUBSET Senders]
      /\ \A k \in Logs : /\ remembered'[k] \subseteq remembered[k]
                         /\ forgotten[k] \subseteq forgotten'[k]
                         /\ remembered[k] \cup forgotten[k] \subseteq remembered'[k] \cup forgotten'[k]
  BY DEF ForgetId, TypeOK
<1>2. "requests" \in Logs /\ "replies" \in Logs
  BY DEF Logs
<1>3. TypeOK' /\ Roles' /\ Sent' /\ Handling' /\ Passed' /\ NothingLeftBehind'
  BY <1>1 DEF TypeOK, Roles, Sent, Handling, Passed, NothingLeftBehind
<1>4. Recorded'
  BY <1>1, <1>2 DEF Recorded
<1>5. EachSentOnce' /\ DoneWasReplied'
  BY <1>1, <1>2 DEF EachSentOnce, DoneWasReplied, Replied
<1> QED  BY <1>3, <1>4, <1>5

LEMMA StepInv == Inv /\ [Next]_vars => Inv'
<1> SUFFICES ASSUME Inv, [Next]_vars PROVE Inv'
  OBVIOUS
<1>1. ASSUME NEW p \in Publishers, NEW wants \in BOOLEAN, NEW o \in Outcomes,
             PublishPlain(p, wants, o)
      PROVE  Inv'
  BY <1>1, PublishPlainInv
<1>2. ASSUME NEW r \in Requesters, RequesterStep(r) PROVE Inv'
  <2>0. r \in Receivers /\ r \in Clients /\ r \notin Repliers /\ r \notin Publishers
    BY RolesDiffer DEF Receivers
  <2>1. CASE StopWaiting(r)
    BY <2>0, <2>1, Moves DEF StopWaiting, Inv, TypeOK, Steps
  <2> QED  BY <1>2, <2>0, <2>1, ProbeInv, SubscribeInv, PublishRequestInv, UnregisterInv,
              AwaitedInv DEF RequesterStep
<1>3. ASSUME NEW w \in Repliers, ReplierStep(w) PROVE Inv'
  <2>0. w \in Receivers /\ w \in Clients /\ w \notin Requesters /\ w \notin Publishers
    BY RolesDiffer DEF Receivers
  <2>1. CASE StopServing(w)
    BY <2>0, <2>1, Moves DEF StopServing, Inv, TypeOK, Steps
  <2>2. ASSUME NEW o \in Outcomes, Serve(w, o) PROVE Inv'
    <3>1. pc' = [pc EXCEPT ![w] = pc'[w]] /\ pc'[w] \in {"serving", "failed", pc[w]}
      BY <2>0, <2>2 DEF Serve, Perform, Following, Inv, TypeOK
    <3> QED  BY <2>2, <3>1, RegistrationInv DEF Serve, Inv, Roles
  <2>3. ASSUME NEW o \in Outcomes, Heartbeat(w, o) PROVE Inv'
    <3>1. pc' = [pc EXCEPT ![w] = pc[w]]
      BY <2>0, <2>3 DEF Heartbeat, Inv, TypeOK
    <3> QED  BY <2>3, <3>1, RegistrationInv DEF Heartbeat, Inv, Roles
  <2> QED  BY <1>3, <2>0, <2>1, <2>2, <2>3, ProbeInv, PublishReplyInv, UnregisterInv,
              RunInv, AnswerInv DEF ReplierStep
<1>4. ASSUME NEW i \in DOMAIN requests, BrokerStep(i) PROVE Inv'
  BY <1>4, LeaseInv, GiveUpInv DEF BrokerStep
<1>5. ASSUME NEW p \in Receivers, Kill(p) PROVE Inv'
  BY <1>5, RolesDiffer, Moves DEF Kill, Receivers, Inv, TypeOK, Steps
<1>6. ASSUME NEW p \in Receivers, NEW purge \in BOOLEAN, Forget(p, purge) PROVE Inv'
  BY <1>6, ForgetInv
<1>8. ASSUME NEW l \in Logs, NEW r \in Senders, ForgetId(l, r) PROVE Inv'
  BY <1>8, ForgetIdInv
<1>7. CASE UNCHANGED vars
  BY <1>7 DEF vars, ids, Inv, TypeOK, Roles, Sent, Recorded, Handling, Passed, EachSentOnce,
              DoneWasReplied, Replied, NothingLeftBehind
<1> QED  BY <1>1, <1>2, <1>3, <1>4, <1>5, <1>6, <1>7, <1>8 DEF Next

(***************************************************************************)
(* Of all the processes, whatever calls are lost and repeated and whatever  *)
(* ids and subscriptions the broker loses: nothing is logged twice while    *)
(* its id is remembered, a waiting requester's reply is ahead of its        *)
(* receipt, done requests were replied to, and a requester leaves nothing   *)
(* behind.                                                                  *)
(***************************************************************************)
THEOREM ConversationsAreSafe ==
  Spec => [](/\ TypeOK /\ EachSentOnce /\ ReplyStillAhead
             /\ DoneWasReplied /\ NothingLeftBehind)
<1>1. Inv => ReplyStillAhead
  BY DEF Inv, Passed, ReplyStillAhead
<1>2. Inv => TypeOK /\ EachSentOnce /\ DoneWasReplied /\ NothingLeftBehind
  BY DEF Inv
<1> QED  BY InitInv, StepInv, <1>1, <1>2, PTL DEF Spec

\* The type invariant of the client's conversations.
THEOREM ConversationsTyped == Spec => []TypeOK
BY ConversationsAreSafe, PTL

\* client_perform_ex's rule on what is repeated, with the ids of a request
\* and of a reply, keeps every message single in its log, but for those whose
\* id the broker lost (the window passed, or it died before the record).
THEOREM NothingIsSentTwice == Spec => []EachSentOnce
BY ConversationsAreSafe, PTL

\* bjm_cmd_request: a reply to come is ahead of the requester's receipt.
THEOREM RepliesAreAwaited == Spec => []ReplyStillAhead
BY ConversationsAreSafe, PTL

\* h_reply: no request is finished without its reply in the log.
THEOREM DoneMeansReplied == Spec => []DoneWasReplied
BY ConversationsAreSafe, PTL

\* bjm_cmd_request: an unregistering that was answered leaves no receipt and
\* no subscription.
THEOREM RequestersCleanUp == Spec => []NothingLeftBehind
BY ConversationsAreSafe, PTL

=============================================================================
