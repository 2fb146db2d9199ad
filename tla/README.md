# A TLA+ model of sukkal

sukkal is a small message broker: an HTTP server over a directory of append-only
logs and B+ trees. This directory holds TLA+ modules that model its core, the
TLC configurations that check them on small instances, and TLAPS proofs of the
properties that matter most. `PROJECT.json` maps every definition to the source
lines it models. Paths below are relative to the repository (`src/` is the
directory of that name in it).

## 1. The system

### Components, their state and their operations

| component | source | state | operations |
|---|---|---|---|
| subject logs | `store.c` (publish, read, trim), `server.c` | per subject the entry log: messages `(base, last]` | publish, read, trim (forced or not) |
| read receipts | `store.c` (`bjm_cursor_*`), `server.c` | `_cursors.bpt`: (consumer, subject) -> highest acknowledged index | subscribe (first sight, piggybacked ack), explicit ack / seek, unsubscribe |
| queue groups | `store.c` ("queue groups"), `server.c` | `_queues.bpt`: (group, subject) -> `next`, settings, in-flight table, dead count | take, done, fail, configure, delete, requeue; dead-lettering to `<subject>.dead` |
| producer idempotency | `store.c` (`dedup_*`), `server.c` (`h_publish`), `client.c` (`sukkal pipe`) | two B+ trees ("generations") of ids, which one is current, when they last rotated | publish with `?id=`, lookup, record, rotation, `?ack_subject=` |
| push delivery to subscribers and workers | `push.c`, `push_posix.c`, `server_posix.c`, `server.c` | `_push.bpt`: consumer -> callback and pattern; in memory the array of `psub`s, the list of subject names, the `work` flag | register, unregister, pump (for a worker: lease jobs), transfer end (for a worker: settle them), restart |
| retention | `store.c` (`policy_boundary`, marks, `bjm_retention_run`), `server_posix.c` | `_policy.bpt`: policies and marks; in memory a copy of the policy and the time of the last mark | set/clear policy, mark, sweep |
| patterns | `store.c` (`bjm_pattern_valid`, `bjm_pattern_match`) | none | check, match |
| client | `client.c`, `packages/node`, `packages/python` | the receiver's socket and registration | receive, work, pipe, request/reply, retries |
| HTTP routing, JSON text, `main.c` | `server.c`, `bjtext.c`, `main.c` | none | - |
| WebAssembly build | `sukkal_wasm.c`, `wasm/broker.js` | the plan of files a request opens | - |
| entry log and B+ tree | binjson, external | files | append + fsync, commit, compact by rename |

### How they interact

The broker is one thread. `bjm_serve` alternates between the pump, the curl
transport and the requests; a handler runs to completion. So a request is one
step of the models, with three exceptions, which are where the code is hard:

* a handler that writes several files can die between two of them (`bjm_take`
  stores the leases and then publishes dead letters; `h_publish` appends, then
  records the id, then moves the receipt; `dedup_rotate` clears trees and then
  saves its state). The models give such a handler several steps, with a crash
  in between;
* a delivery starts in one turn of the loop and ends in a later one; anything may
  happen to the registration, the receipt and the log meanwhile;
* a worker holds a lease while time passes, and answers late, twice or never.

And a power cut takes back whatever a handler wrote without a sync: the receipts,
the records of the queue groups, the marks.

A publish calls `on_publish`, which wakes the pusher. A trim asks the receipts
(`bjm_consumer_stats`) and the queue groups (`bjm_queue_floor`) how far it may go.
A requeue and a dead letter are publishes. A retention sweep is a trim at a
boundary worked out from the policy. A pushed worker's delivery is a take when it
starts and a done or fail per job when it ends. `sukkal request` and
`sukkal reply` talk through two subjects, a queue group and a push subscription.

### What is hard, and what makes each part correct

* **Subject and receipts.** Acks arrive late and twice; a trim acts on receipts
  that may not be on disk. Correct: a receipt never passes an unread message, an
  answered ack is durable, an unforced trim never overtakes a reader, an index
  means one message for ever.
* **Queue groups.** Leases expire under their workers, the table is bounded, the
  process dies while dead-lettering, a forced trim takes leased messages away, a
  power cut or a deletion takes the records back while workers run.
  Correct: below `next` a job is leased or over, a job is over once, no two
  workers hold it at once, attempts are limited, the dead have letters, every job
  ends.
* **Idempotency.** Rotation is lazy and depends on the wall clock; three writes
  are not atomic. Correct: no second copy within a window; no acknowledged input
  without its output.
* **Push.** Registration races delivery; the pump stops scanning by a flag.
  Correct: nothing skipped, everybody registered is served, no wakeup lost,
  subjects take turns, every message arrives. For workers, leases lapse during
  deliveries, answers are partial or lost, and letters are published from inside
  the pump. Correct: only what was run is finished, no job is forgotten, every
  job ends.
* **Retention.** The log knows neither times nor sizes: a sampled, bounded,
  unsynced ring of marks and an average stand in for them. Correct: a sweep
  removes only what is due, and keeps on removing until the bounds hold.
* **Client.** Every call may be lost before or after the broker acted on it.
  Correct: nothing is logged twice while its id is remembered, no reply is missed,
  nothing is called done that was not, nothing is left behind, a request settles.
* **Patterns.** Two loops share a tokenizer that assumes valid names. Correct:
  they agree with what a pattern means, for malformed strings too.

`PROJECT.json` lists the hazards one by one at their lines.

## 2. The modules

    Subject <- WorkQueue <- QueueProgress, Workers
            <- Retention
    Dedup        Pusher <- PushProgress        Requests        Patterns

`<-` reads "is extended by". WorkQueue implements JobBoard. Every `MC*` module
extends the module of its name, and so does every `*Proofs` module
(WorkQueueProofs and RetentionProofs also extend SubjectProofs, WorkersProofs
also extends WorkQueueProofs).

* **Subject** - one subject: `last` and `base` are the bounds of the log,
  `receipt` is `_cursors.bpt`, `durable` what of it has been fsynced. Actions:
  `Publish` (`bjm_publish`), `Subscribe` (`h_subscribe`, with the ack, first
  sight and the batch), `Ack` (`h_ack`), `Unsubscribe`, `Trim` (`bjm_trim`),
  `LosePower`. Payloads are not modelled: an index stands for its message. History
  variables: `joined`, `got`, `confirmed`.
* **WorkQueue** - extends Subject with the queue groups of that subject. `queues`
  holds the records; `Take` is the whole of `bjm_take` up to its answer, and
  `DeadLetter` publishes one letter of its tail (`dying` is what is left to
  publish; nothing else runs meanwhile, but `Crash` may happen). `onDisk` is the
  version of `_queues.bpt` that a power cut leaves: `queue_store` does not sync,
  so each write reaches the disk at once or with a later one, and only
  `QueueConfig` and `QueueDelete` wait for it. `PowerCut` takes the records and the
  receipts back to what is on disk. `QueueDelete` tells no worker; with
  `DeletesInUse = FALSE` it waits until no lease of the group runs. The slots of
  the table have no order in the model, so any part of the expired leases may be
  scanned first. `handed` is the environment: what workers hold.
* **JobBoard** - the abstract specification: how often each group has handed out
  each job, or that it is over. No leases, clock, table or records. WorkQueue
  implements it (`GroupsImplementBoard`, by `INSTANCE ... WITH`).
* **QueueProgress** - WorkQueue with fairness.
* **Dedup** - `h_publish` with `?id=` over the two generations, with `stage`
  saying how far the handler got. `now` is real time and `now - skew` the wall
  clock; the unsigned subtraction of `dedup_rotate` is modulo `Word`.
* **Pusher** - the delivery engine for subscribers. `subs` is the array of
  `psub`s with its order, since `bjm_pusher_remove` stops at the first match and
  reaping moves the last element. `Pump` is one `bjm_pusher_pump`, `Finish` the
  end of a transfer. What a pattern matches is a set of subjects. Waits count
  down in ticks.
* **PushProgress** - Pusher with fairness.
* **Workers** - WorkQueue composed with the pusher: subscriptions with `?group=`
  that lease, deliver and settle, and one plain subscription, the Auditor, to the
  dead-letter channel. The pump is taken apart into the turns of its loop
  (`PumpStart`, `PumpSkip`, `PumpTake`, `PumpRead`, `PumpEnd`), because
  a take publishes letters, and so sets `work`, in the middle of it. All
  subscriptions are registered; `Reregister` moves a worker to another group.
  `ran` is history: what workers really ran. The process may die
  (`RestartPushed`); power cuts are left to WorkQueue.
* **Retention** - one subject with its policy. `marks` is the ring,
  `cachedAge` and `lastMark` what `struct subject` remembers, `syncedMarks` what
  is surely on disk; a power cut leaves that, the last version, or one between. `PublishSized` is the publish with `mark_publish`, `Sweep` is
  `bjm_retention_run`, over Subject's `Trim`. What the log does not record, when a
  message was published and where it ends in the file, is history (`born`,
  `ends`), and the code sees only the length of the file.
* **Requests** - `sukkal pub`, `request` and `reply` as processes with a `pc`.
  Every HTTP call takes an outcome: not sent, lost after it was acted upon,
  answered, or interrupted; `Perform` is `client_perform_ex`. The broker is
  reduced to what the calls need, as the other modules show it: logs that
  collapse an id they remember (`Keyed`), a group that leases until the attempts
  run out, registrations and receipts. It may lose a registration, with the
  receipt or without (`Forget`, for requesters and repliers), and an id
  (`ForgetId`: its window has passed, or a crash came before its record;
  `Forgetful` are the ids it may lose).
* **Patterns** - `bjm_pattern_valid` and `bjm_pattern_match` as loops, one
  action per way through the body, for a listing of subjects and for a
  subscription, where a string without a wildcard is checked and compared as a
  subject name (`CheckName`, `MatchName`). A string is the sequence of its fields between
  dots, empty fields included, so a trailing dot is a last empty field.

Operators preceded by a comment "Mutant" are wrong variants of the definition
that follows; they are used to confirm that each property can fail.

## 3. The runs

`tlc -config MCx_y.cfg MCx`. Deadlock is not checked anywhere: a bounded history
ends when the bound on messages or time is reached, and a broker nobody calls
rests.

| run | shows |
|---|---|
| `queue_jobs` | a group of two attempts and a reader on one subject whose machine may lose its power: acks late and repeated, rejoining, forced trims, requeues, the group deleted under its workers: `NothingSkipped`, `ConfirmedAcksSurvive`, `JobsAccountedFor`, `DeadJobsHaveLetters` |
| `queue_shared` | a group and a reader on one subject, unforced trims, workers that answer late and twice, the group deleted under them, crashes while dead-lettering, a table of one slot: `JobsLeaveOnce`, `OwedJobsKept`, `StaysReadable`, `ReceiptsMoveForward`, `IndexesNeverShift`, `GroupsImplementBoard` |
| `queue_ends` | one group whose settings change between two and one attempts, leases of 0 and of the group, a table of two slots for three jobs, forced trims, workers that answer in time or never: `JobsAccountedFor`, `ExclusiveLease`, and liveness: `EveryJobEnds` |
| `dedup_window` | two ids, a window of two ticks, time for three windows, crashes inside a rotation and before the ack: `RemembersForAWindow`, `AckedInputsHaveOutputs` |
| `push_registration` | two subscriptions, one of which also has its receipts deleted, up to three `psub`s, restarts and forced trims: `NothingSkipped`, `RegisteredAreServed`, `NoLostWakeup` |
| `push_arrives` | one subscription over two subjects that come into existence one by one, purges: `SubjectsTakeTurns`, and liveness without restarts: `EveryMessageArrives` |
| `push_restart` | violated: `EveryMessageArrives` with restarts |
| `retention` | five messages of equal size under an age policy that ignores receipts and a policy of counts and bytes that does not, exchanged and cleared, sweeps, a trim by hand, a reader, restarts, power cuts, a clock stepped back: `SweepsOnlyWhatIsDue`, `SweepsConverge`, `OverstayBounded` |
| `workers` | two workers of one group, batches of two jobs of two attempts, a reader of the dead letters, answers partial, empty, late or lost, refusals, restarts: `OnlyRunJobsFinish`, `NoJobForgotten`, and liveness: `PushedJobsEnd` |
| `requests` | a requester, a publisher and a replier, a broker that forgets registrations and the ids of replies: `EachSentOnce`, `ReplyStillAhead`, `DoneWasReplied`, `NothingLeftBehind`, and liveness: `RequestsSettle` |
| `patterns` | all strings of up to four fields, in a listing and in a subscription, all subjects of up to three tokens: `MatchIsSelection`, `LegalAreAccepted` |
| `patterns_valid` | violated: `RestOnlyLast` |

### Bounds

* `MaxIndex` (messages): two or three. The interesting cases need a message
  acknowledged, one handed out and one not; or two jobs of which one is leased
  and one not. The theorems below hold for every value of it, and of the numbers of
  groups, consumers, subjects, ids, workers and processes, so for the safety
  properties it limits only what TLC sees. `retention` has
  five messages, more than `MarksMax` marks, so that the ring overflows.
* `MaxTime`: in `queue_ends` ten ticks, and the last lease of three jobs of two
  attempts is over by the ninth, so the clock never stops with something due. In
  `dedup_window` eight ticks are three windows and more: both kinds of rotation
  (one generation, both) follow each other.
* `MaxCopies`, `MaxLetters`: stop crashes, deletions and power cuts that only add
  more of the same copies and letters. With `MaxLetters = 0`, as in `queue_ends`,
  no group is deleted.
* A power cut inside a take, between the record and the letters, is possible only
  where `Crashes` is (`Crashes = FALSE` is a broker that is not stopped in the
  middle of a handler).
* `MaxSubs`: three `psub`s for two consumers: a live one for each and one waiting
  to be reaped.
* `MarksMax = 4`, `MarksPerWindow = 2`: the code's 256 and 128, at the same ratio.
  `Word` only has to exceed every difference of times.
* In `workers` time advances only while a lease or a backoff runs
  (`TimeMatters`), and `MaxTime` is more than two jobs of two attempts with a lease
  and a backoff each can use, together with the letters' reader, which refuses
  until tick three (`RefusesUntil`; the first letter is there at two), so the
  clock never stops with something due.
* `requests`: one process of each kind is enough for every call to be repeated,
  and two attempts for a request to be leased again while it is being handled; the
  publisher's request may ask for a reply too, so that a requester meets replies
  that are not its own. `Forgetful` has the ids of replies, and each id is forgotten
  once (`MaxRequests` follows from it); the ids of requests are forgotten by the
  same action. The theorems hold for any number of each process and any
  `Forgetful`.
* No symmetry is used.

### Fairness

* `QueueProgress`: the clock advances while a lease runs; some worker polls every
  group again and again; a take that was begun ends (the broker's thread runs
  on). Nothing is assumed of workers' answers, so all of them may die with
  their jobs.
* `PushProgress`: `bjm_serve` pumps and services the transport on every turn of
  its loop (weak fairness of `Pump` and of the end of a transfer, which libcurl's
  timeout guarantees), time passes, restarts do not go on for ever, and a
  subscriber that is asked again and again takes something in the end (strong
  fairness: each refusal puts a backoff in between, which makes its acceptance
  possible again and again and not always).
* `Workers`: the pump and the take inside it go on; a delivery ends (libcurl's
  timeout) and time passes, both strong because pumps come in between. Nothing is
  assumed of what workers answer. Restarts need no assumption: a worker without
  a connection is excepted from `PushedJobsEnd`.
* `Requests`: the broker goes on leasing and giving up open requests; a replier's
  command ends; its heartbeat and its reply, which are repeated, are answered
  once in a while. Nothing is assumed of the command's success, of the delivery
  of answers, or of requesters; any process may die at any time.

## 4. The proofs

`tlapm XProofs.tla` for X in Subject, WorkQueue, Dedup, Pusher, Workers,
Retention, Requests and Patterns. Each theorem holds for all values of the constants that satisfy the
module's `ASSUME`s, and the additional assumptions named here.

| theorem | property | assumes |
|---|---|---|
| `SubjectTypeCorrect` | `SubjectTypeOK` | |
| `ConfirmedAcksAreKept` | `ConfirmedAcksSurvive` | |
| `IndexesAreStable` | `IndexesNeverShift` (Subject) | |
| `ReceiptsOnlyMoveForward` | `ReceiptsMoveForward` (Subject) | no power cuts |
| `RetentionWaitsForReaders` | `StaysReadable` (Subject) | no forced trims, no power cuts |
| `AtLeastOnce` | `NothingSkipped` (Subject) | no seeks |
| `QueueTypeCorrect` | `TypeOK` (WorkQueue) | |
| `JobsAreAccountedFor` | `JobsAccountedFor` | |
| `JobsAreOverOnce` | `JobsLeaveOnce` | no power cuts |
| `RetentionWaitsForWorkers` | `OwedJobsKept` | no forced trims |
| `LeasesAreExclusive` | `ExclusiveLease` | workers answer in time, no group is deleted while its leases run, no power cuts |
| `DeadJobsAreRepublished` | `DeadJobsHaveLetters` | the broker does not die |
| `IndexesAreStableWithGroups` | `IndexesNeverShift` (WorkQueue) | |
| `ReceiptsMoveForwardWithGroups` | `ReceiptsMoveForward` (WorkQueue) | no power cuts |
| `RetentionWaitsForReadersWithGroups` | `StaysReadable` (WorkQueue) | no forced trims, no power cuts |
| `GroupsRefineTheBoard` | `GroupsImplementBoard` | no power cuts, no setting allows more attempts than the default |
| `DedupTypeCorrect` | `TypeOK` (Dedup) | |
| `AcksFollowOutputs` | `AckedInputsHaveOutputs` | |
| `RetriesCollapse` | `RemembersForAWindow` | steady clock, no crash before the record |
| `RetentionTypeCorrect` | `RetentionTypeOK` | |
| `OnlyDueMessagesGo` | `SweepsOnlyWhatIsDue` | |
| `RetentionBoundsHold` | `SweepsConverge` | |
| `OverstayingIsBounded` | `OverstayBounded` | a ring of two windows of marks, no age of exactly one second less than that |
| `PusherTypeCorrect` | `TypeOK` (Pusher) | |
| `SubscriptionsAreServed` | `RegisteredAreServed` | |
| `NothingIsSkipped` | `NothingSkipped` (Pusher) | no `?purge=1` |
| `WakeupsAreKept` | `NoLostWakeup` | |
| `TurnsAreTaken` | `SubjectsTakeTurns` | |
| `WorkersTypeCorrect` | `WorkersTypeOK` | |
| `JobsFinishByBeingRun` | `OnlyRunJobsFinish` | no worker changes its group |
| `JobsAreNotForgotten` | `NoJobForgotten` | the reader of the letters is last in the array |
| `ConversationsTyped` | `TypeOK` (Requests) | |
| `NothingIsSentTwice` | `EachSentOnce` | |
| `RepliesAreAwaited` | `ReplyStillAhead` | |
| `DoneMeansReplied` | `DoneWasReplied` | |
| `RequestersCleanUp` | `NothingLeftBehind` | |
| `PatternsTyped` | `TypeOK` (Patterns) | |
| `MatchingIsCorrect` | `MatchIsSelection` | |
| `NoLegalPatternRefused` | `LegalAreAccepted` | |

`JobsAreAccountedFor` holds with power cuts, crashes and deletions: a record that
comes back leads to jobs that are leased again, and loses none. `EachSentOnce`
excepts the ids the broker forgot, and nothing else.

The assumptions are not conveniences: without each of them the property fails.
Section 5 has what is not by design. Three things are: a seek moves a receipt over
messages; a power cut takes back receipts that were not yet on disk, which is what
`ReceiptsMoveForward` without one is about; and the job board has one limit, so a
group that is given more attempts than the default goes beyond it.

The `ASSUME`s of the modules say what kind of thing each constant is and what the
code has by construction: Pusher's consumers and subjects are finite sets, as its
arrays are; the letters' reader is one of the subscriptions; a table has at least
one slot. One, `PowersOfTwo` in Pusher and WorkQueue, is a fact of arithmetic that the prover
cannot show, since it takes induction: powers of two are natural numbers and
outgrow their exponents. TLC evaluates it for the exponents it uses.

The arguments:

* **Subject.** `SubjectInv` adds to the types that `base <= last`, and that what
  is on disk is never ahead of the receipt and is gone when the receipt is gone
  (`DurableBehind`). Without it a power cut could bring a deleted receipt back
  and `ConfirmedAcksSurvive` would not be inductive. For `AtLeastOnce` it is
  strengthened to `DeliveryInv`: what a consumer was handed has no gaps above the
  point where it joined, since a late ack may jump to anything it was once
  handed; and a consumer without a receipt has nothing left to acknowledge.
  `TrimBounds` says that a trim's new base is at most every limit; the proofs
  about retention follow from it.
* **WorkQueue.** `QueueInv` has `RecordInv` for the record of every known group:
  the table is finite and its entries have distinct indexes below `next`, and what
  is leased, finished, dead or given away covers `(base, next)` (`Covers`). It is
  stated of a record, so that it can be asserted of the record a handler loads,
  which for an unknown group is `Fresh`, of the one it stores, and of the one on
  disk: finishing a job only adds to what covers a record, so an older record
  stays covered, and a power cut may bring it back. That what has left the
  table is not in it, and no finished job is dead (`OnceOver`), is not true of
  older records, and is a second invariant for machines that keep their power. `Take` is
  split into what it does to the record (`TakeRecord`) and the rest; `Done` and
  `Fail` share `ReplaceRecord`. `LeasesAreExclusive` needs that every lease a
  worker holds and that has not expired is the entry of the table
  (`LeasesRecorded`). What Subject promises is promised again with groups on it,
  from `StepWith(owed)`: every step of WorkQueue is, for the subject, a step whose
  trims also wait for some set of jobs, or a publish.
* **The board.** `GroupsRefineTheBoard` maps a record to how often each job was
  handed out, or over. One step may, of each group, hand out any number of jobs
  and end others, so the step is first shown of a record alone (`Continues`: `next`
  does not go back, what is in the table was there or is new, and was tried as
  often or once more); `TakeContinues` and `AnswerContinues` show it of the loops
  of take, done and fail, and `BoardStep` carries it to the board.
  `BoardInv` is needed for the bound: no entry has more attempts than the limit.
* **Pusher.** `TypeInv` adds to the types that a delivery in flight names a
  subject. `ServedInv`: a live `psub` is alone for its consumer, registered
  or not (`LivesAlone`), and every registration has one. Without the first half
  registering again would give its settings to two. `CoveredInv`: what a receipt
  covers was settled, and so was everything before the first message of a batch
  in flight, even when the receipt has been moved since; and a consumer without a
  receipt begins at the first message, so that seeding one does not put the
  beginning back under a delivery. `NoLostWakeup` is inductive given the
  types: the pump clears `work` only after it has asked everybody, and every step
  that makes a subscription deliverable sets it. `RoundInv` bounds how often a
  subject was passed over plus the turns left before its own by the number of
  names, which both a delivery and a new name preserve.
* **Workers.** `WorkersInv` carries `QueueInv` through the composition, with
  that every lease handed out is below `next` of a known group (`HandedBelow`).
  `FlightsOwn`: a worker delivers jobs of the group it is in.
  `PassInv` is the invariant of the loop in the middle of a pump: if the
  pass has started nothing and met nobody to wait for, everyone asked so far is
  idle and remains so to its end, because only the pass itself publishes letters
  and their reader is asked last.
* **Dedup.** `OutputInv`: an id in either generation, and the id of a request
  past its append, has a copy, and a request with an ack is about the input that
  follows the receipt. `RememberInv`: an id younger than a window is about to be
  recorded, or in the current generation and used before it ends, or in the
  older one and used before the last rotation.

* **Retention.** `RetentionInv` rests on `MarksAreSafe`: every message at or below
  a mark's index was published, in real time, no later than the mark's time plus
  the skew of the clock, so a mark can make a message look younger than it is and
  never older. It is stated of the marks on disk too, since a power cut may
  bring those back, and needs that no message is from the future and that the
  ends of messages grow. The ring's bound, likewise for both, is `FitsTheRing`.
  `OverstayingIsBounded` needs more, of the messages published since the policy,
  the process and the clock last changed: marks there have their messages' times
  and are an interval apart, the newest mark is kept, and between two messages an
  interval apart there is a mark, or the ring is full of later ones
  (`OverstayInv`). In the first case the mark is old enough for a sweep to use;
  in the second, marks an interval apart do not all fit the window, by the
  pigeonhole principle (`FullRingOutlasts`), unless the age is 255 s with the
  code's constants.
* **Requests.** `Inv` adds `Roles` (which steps belong to which kind of process),
  `Sent` (a log has an entry of a process only after it has come to the call that
  sends it, and of a plain publisher only after that call is over), `Handling` (a
  replier at work handles a request that exists, and one that is answering has its
  reply in the log), `Passed` (a requester that is about to publish or waits has
  matched or has not been delivered past its reply) and `Recorded` (an id whose
  message is in its log is remembered or was forgotten).
* **Patterns.** `Inv` adds `Behind`: the fields passed were legal, or fitted the
  subject's; and that what was accepted is `WellFormed`, a last dot not counted.

Every safety property and every action property the runs check is a theorem, and
so is the refinement; `WorkersTypeOK` is only proved. Liveness (`EveryJobEnds`,
`EveryMessageArrives`, `PushedJobsEnd`, `RequestsSettle`) is only model-checked,
since temporal reasoning under fairness is beyond the prover. A theorem with an
assumption says nothing where that does not hold.

## 5. Where the code and its documentation differ

Shown by a run (quotations are in `PROJECT.json`):

* **After a restart, registered subscriptions are never delivered to.**
  `bjm_pusher_new` loads them before the transport is installed, so they have no
  connection; registering again keeps the `psub` and does not open one. For a
  pushed worker it is worse: the pump leases jobs for it, fails to send them and
  lets their attempts run out. (`push_restart`)
* **`orders.>.` is accepted**, in a listing and in a subscription, though
  `README.md:443` says "`>` is only legal last": `next_token` has passed over
  the dot before `bjm_pattern_valid` looks whether anything follows
  (`store.c:131, 151`). It selects what `orders.>` selects. (`patterns_valid`)

The same models show the following with other constants; no run is kept for
them. "One psub" stands for Pusher with one subject, one consumer,
`BatchSizes = {1}`, `MaxIndex = 1`, `MaxSubs = 2`, no restarts, trims, purges or
deleted receipts.

| statement | where it fails | constants |
|---|---|---|
| an unregistered subscription is not delivered to (`UnregisteredAreSilent`; `server.c:616`) | `push.c:335`: after DELETE, PUT, DELETE in one delivery `bjm_pusher_remove` stops at the `psub` that is already waiting to be reaped | one psub |
| a retaken job is not held by its first worker (`RetakenJobsAreNotHeld`; `sukkal.h:600`) | `store.c:1877`: `queue_release` goes by the index, and ends the new worker's lease | WorkQueue with one group, one job, two attempts, `LateAnswers = TRUE`, `MaxTime = 2` |
| an id is remembered for a window (`RemembersForAWindow`; `README.md:389`) | `server.c:245`: a crash between the append and the record | `dedup_window` with `CrashPoints = {"record"}` |
| the same | `store.c:1267`: a clock stepped back makes the unsigned difference huge | `dedup_window` with `MaxSkew = 3` |
| a trim never overtakes a reader (`StaysReadable`) | `store.c:476`: the receipt a trim relied on was not fsynced | `queue_shared` with `PowerLoss = TRUE` |
| deleting a subscription lets a consumer start over (`StartingOverWorks`) | `server.c:347`: the first receipt is 0, below the base | `queue_jobs` |
| no two workers hold a lease of one job (`ExclusiveLease`; `store.c:1675`: "give a job to a worker and forget it had, which is the one failure this table exists to prevent") | `store.c:1680`: the lease is stored and not synced, and a power cut takes it back | `queue_jobs` with `DeletesInUse = FALSE` |
| the same | `store.c:1926`: deleting the group ends no worker's lease, and its next use starts over at the base | `queue_jobs` with `PowerLoss = FALSE` |
| a job that is over is not leased again (`JobsLeaveOnce`), a job has no more attempts than the board allows (`GroupsImplementBoard`) | `store.c:1571`: done, fail and take are not synced | `queue_shared` with `PowerLoss = TRUE` |
| a job out of attempts has a letter (`DeadJobsHaveLetters`) | `store.c:1680`: the record is stored before the letters are published | `queue_jobs` with `Crashes = TRUE` |
| at most one delivery in flight per subscription (`OneDeliveryAtATime`) | `push.c:305`: a `psub` waiting to be reaped is not found | one psub |
| a purged position is gone (`PurgedStayPurged`) | `push.c:741`: the surviving `psub` writes it again | one psub, `Purges = {TRUE}` |
| nothing is skipped (`NothingSkipped`) when a name is deleted with its receipts and registered again | `push.c:741`: the first delivery ends after the second registration has begun, and writes its receipt over what that has to read | one psub, `Purges = {TRUE, FALSE}` |
| a trim keeps what a subscription has not read (`UnreadKept`) | `store.c:2216`: no receipt exists before the first accepted batch on a new subject | one psub, `ForceFlags = {FALSE}` |
| the loop sleeps while a subscription backs off (`BackoffSleeps`) | `push.c:806`: `work` stays set and the pump returns 0 | one psub |
| a pass that found nothing means there is nothing to send (`NoJobForgotten`; `push.c:793`) | `push.c:797`: a letter published by a take later in the same pass sets `work`, which the end of the pass clears | `workers` with `Order <- AuditorFirst`, `Restarts = FALSE` |
| only jobs that were run are finished (`OnlyRunJobsFinish`) | `push.c:663`: jobs are settled in the group the subscription has at the end | `workers` with `Groups = {g1, g2}`, `Regroups = TRUE` |
| a message overstays by less than an interval (`OverstayBounded`; `store.c:50`) | `store.c:1121`: for an age of 255 s, and a message or more each second, every mark in the ring is inside the window, and nothing is ever removed for its age | `retention` with `Aged(3, TRUE)`, six messages, `MaxTime = 6` |

Read in the code while modelling, outside what the properties say:

* `store.c:2316` and `README.md:728` say a sweep for `max_bytes` removes too few
  rather than too many; by the average size it removes too many when the older
  messages are the larger ones. `SweepsOnlyWhatIsDue` therefore says of bytes only
  that the file was over its limit before the sweep.
* A receipt deleted during a delivery is written again at its end
  (`push.c:741`), so `NothingSkipped` of Pusher excepts the consumers whose
  receipts are deleted (`Unsubscribes`).
* Messages published after the last mark have no mark above them, and stay for
  ever once nothing more is published. `OverstayBounded` bounds how many those
  are, not how long they stay.
* `client.c:911` counts on "a subscription the broker retires when its callback
  stops answering"; the broker retires none, it backs off for ever.
* `client.c:1297` retries `POST /take` and `/requeue` as if they could be
  repeated, which `client.c:141-146` limits to GETs and `/ack`.
* `client.c:2278` says a request "is handled once"; it is leased again when the
  lease lapses or the answer is lost. What holds is `EachSentOnce`: one reply.
* A receiver whose first registration is acted upon and its answer lost, with
  retries off, exits without unregistering (`client.c:874`).
* Besides `>.`, `bjm_pattern_valid` accepts a dot after any last token (`*.`, and
  `orders.` in a listing); `pattern_of` refuses it where there is no wildcard.
* A client that goes on trying for longer than the window (120 s to twice that,
  `README.md:417-423`; `client_perform_ex` has no limit), or whose call met a crash
  before the id's record, or a power cut before its sync (`store.c:1357-1362`),
  appends a second copy. The documents say so, and `EachSentOnce` excepts it;
  `RemembersForAWindow` of Dedup is about a machine that keeps its power.
* `backoff_ms << shift` and `now + lease` wrap for values of 2^34 ms and more.
* A take inside `start_delivery` may publish to a subject the pusher did not know
  and so grow `names`, while `name` points into it (`push.c:505`).

## 6. Not modelled

The width of the backoff and lease arithmetic (above); the packages for Node and
Python, whose receivers follow the command-line client's life cycle; the
WebAssembly build's plan of files, which has no delivery; the client's commands
that make one query and print it. Routing and argument checks (a request that
fails one changes nothing), JSON conversion, logging, statistics (the list of
recent dead jobs among them), I/O errors and running out of memory; the files of
binjson, which are not in the repository and of which the models use
append-and-fsync, commits that a sync makes durable, and compaction by rename. `h_push_put` is one
step of Pusher, so a crash between seeding the receipts and storing the
registration is not a behaviour of it. Workers leaves registration and deletion
to Pusher, and Requests leaves leases' times, settings and dead letters to
WorkQueue. Power cuts are modelled in Subject, WorkQueue and Retention, each
file for itself; Workers, Pusher and Dedup lose the process only, and Requests
what `Forget` and `ForgetId` take.

## 7. Plan

1. Subject, WorkQueue, JobBoard, Dedup, Pusher, their runs and theorems: done.
2. Workers, Retention, Requests and Patterns, their runs, and the theorems about
   Retention, Requests and Patterns: done.
3. The theorems about Pusher and Workers, `ReceiptsMoveForward`, the refinement of
   JobBoard and `OverstayBounded`: done.
4. What remains is to weaken an assumption: `NothingSkipped` of Pusher with purges,
   for the consumers that are not purged.
