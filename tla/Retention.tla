----------------------------- MODULE Retention -----------------------------
(***************************************************************************)
(* Retention policies (src/src/store.c, "retention policy", "publish-time   *)
(* marks" and "applying a policy").  The entry log stores no times, so      *)
(* while a subject has an age policy a publish now and then leaves a mark   *)
(* (index, time) in a bounded ring; a sweep turns the policy and the marks  *)
(* into a boundary and trims there.                                         *)
(*                                                                          *)
(* Sizes and publish times are what the log does not tell: `born' and       *)
(* `ends' are history, and only the length of the file (the difference of   *)
(* two ends) is visible to the code.  `now' is real time and never goes     *)
(* back; the host's clock, which the code reads, is `skew' behind it and    *)
(* may be stepped back.                                                     *)
(***************************************************************************)
EXTENDS Subject, Integers, FiniteSets, Sequences

CONSTANTS
  Policies,        \* what PUT /policy/:subject may carry
  HandTrims,       \* boundaries an operator may trim to by hand
  MarksMax,        \* BJM_MARKS_MAX
  MarksPerWindow,  \* BJM_MARKS_PER_WINDOW
  Sizes,           \* bytes a message takes in the log file
  Header,          \* bytes of an empty log file
  Word,            \* 2^64: unsigned differences are taken modulo it
  NotLoaded,       \* subject.pol_loaded = 0
  MaxTime,         \* bound on the clock
  MaxSkew          \* bound on how far the host's clock is stepped back

Policy == [age : Nat, messages : Nat, bytes : Nat, ignore : BOOLEAN]

\* No policy: bjm_policy_get leaves every dimension 0, which is unlimited.
Unlimited == [age |-> 0, messages |-> 0, bytes |-> 0, ignore |-> FALSE]

ASSUME RetentionAssumption ==
  /\ Policies \subseteq Policy
  /\ \A p \in Policies : p.age > 0 \/ p.messages > 0 \/ p.bytes > 0
  /\ HandTrims \subseteq Nat
  /\ MarksMax \in Nat \ {0} /\ MarksPerWindow \in Nat \ {0}
  /\ Sizes \subseteq Nat \ {0}
  /\ Header \in Nat
  /\ MaxTime \in Nat \ {0} /\ MaxSkew \in Nat
  /\ Word \in Nat /\ Word > 2 * MaxTime
  /\ NotLoaded \notin Nat

VARIABLES
  policy,       \* _policy.bpt "p/<subject>", or Unlimited
  marks,        \* _policy.bpt "m/<subject>", ordered by index
  syncedMarks,  \* what of the marks has reached the disk
  cachedAge,    \* subject.pol.max_age_s, or NotLoaded
  lastMark,     \* subject.last_mark_t, 0 for none
  now,          \* real time in seconds
  skew,         \* how far the host's clock is behind it
  born,         \* history: index of a live message -> when it was published
  ends,         \* history: index -> where its message ends in the file
  since         \* history: the last index published under other conditions

memoryVars == <<cachedAge, lastMark>>
clockVars == <<now, skew>>
messageVars == <<born, ends>>
vars == <<subjectVars, policy, marks, syncedMarks, memoryVars, clockVars,
          messageVars, since>>

Mark == [index : Nat, time : Nat]
Live == base + 1 .. last
Wall == now - skew

RetentionTypeOK ==
  /\ policy \in Policies \cup {Unlimited}
  /\ marks \subseteq Mark /\ Cardinality(marks) <= MarksMax
  /\ syncedMarks \subseteq Mark
  /\ cachedAge \in Nat \cup {NotLoaded}
  /\ lastMark \in Nat
  /\ now \in Nat /\ skew \in Nat /\ skew < now
  /\ born \in [Live -> Nat]
  /\ ends \in [base .. last -> Nat]
  /\ since \in 0 .. last

Init ==
  /\ SubjectInit
  /\ policy = Unlimited
  /\ marks = {} /\ syncedMarks = {}
  /\ cachedAge = NotLoaded /\ lastMark = 0
  /\ now = 1 /\ skew = 0
  /\ born = [i \in Live |-> 0] /\ ends = [i \in base .. last |-> 0]
  /\ since = 0

\* Seconds between two marks of a policy.
Interval(age) ==
  IF age \div MarksPerWindow < 1 THEN 1 ELSE age \div MarksPerWindow

(***************************************************************************)
(* mark_publish: whether the publish under way leaves a mark.  The          *)
(* difference is unsigned, so a clock stepped back behind the last mark     *)
(* makes the next one due at once.                                          *)
(***************************************************************************)
MarkDue(age) ==
  /\ age > 0
  /\ lastMark = 0 \/ (Wall - lastMark) % Word >= Interval(age)

\* Mutant: room is looked for one mark too late.
MarkAddedLate(mark) ==
  {mark} \cup (IF Cardinality(marks) <= MarksMax THEN marks
               ELSE {m \in marks : \E older \in marks : older.index < m.index})

\* The ring drops its oldest mark, the one with the lowest index, when full.
MarkAdded(mark) ==
  {mark} \cup (IF Cardinality(marks) < MarksMax THEN marks
               ELSE {m \in marks : \E older \in marks : older.index < m.index})

(***************************************************************************)
(* bjm_publish as far as retention sees it: the append, then mark_publish,  *)
(* which loads the policy into the subject's entry if it is not there.      *)
(***************************************************************************)
PublishSized(size) ==
  LET age   == IF cachedAge = NotLoaded THEN policy.age ELSE cachedAge
      index == last + 1
  IN  /\ Publish
      /\ cachedAge' = age
      /\ IF MarkDue(age)
           THEN /\ marks' = MarkAdded([index |-> index, time |-> Wall])
                /\ lastMark' = Wall
           ELSE UNCHANGED <<marks, lastMark>>
      /\ born' = [i \in Live \cup {index} |->
                    IF i = index THEN now ELSE born[i]]
      /\ ends' = [i \in base .. index |->
                    IF i = index THEN ends[last] + size ELSE ends[i]]
      /\ UNCHANGED <<policy, syncedMarks, clockVars, since>>

\* Where the messages published under steady conditions begin.
Steady(p) == IF p.age > 0 THEN last ELSE 0

\* Mutant: the copy the publisher uses is not dropped.
PolicySetCached(p) ==
  /\ policy' = p
  /\ syncedMarks' = marks
  /\ since' = Steady(policy')
  /\ UNCHANGED <<subjectVars, marks, cachedAge, lastMark, clockVars, messageVars>>

(***************************************************************************)
(* h_policy_put, bjm_policy_set: store the whole policy, drop the cached    *)
(* copy (policy_uncache) and fsync the tree, the marks in it included.      *)
(***************************************************************************)
PolicySet(p) ==
  /\ policy' = p
  /\ cachedAge' = NotLoaded
  /\ syncedMarks' = marks
  /\ since' = Steady(policy')
  /\ UNCHANGED <<subjectVars, marks, lastMark, clockVars, messageVars>>

(***************************************************************************)
(* h_policy_delete, bjm_policy_clear: the policy and its marks go; nothing  *)
(* happens when there was none.  lastMark stays as it was.                  *)
(***************************************************************************)
PolicyClear ==
  /\ policy # Unlimited
  /\ policy' = Unlimited
  /\ marks' = {} /\ syncedMarks' = {}
  /\ cachedAge' = NotLoaded
  /\ since' = Steady(policy')
  /\ UNCHANGED <<subjectVars, lastMark, clockVars, messageVars>>

-----------------------------------------------------------------------------

\* elog_file_len.
FileLen == Header + ends[last]

\* The boundaries the three dimensions of a policy propose, each one a set
\* that is empty when the dimension is not in force.
ByMessages(p) ==
  IF p.messages > 0 /\ last - base > p.messages
    THEN {last - p.messages + 1} ELSE {}

\* Mutant: the count is rounded down.
DropFloor(p, avg) == (FileLen - p.bytes) \div avg

\* How many messages the excess is worth at the average size, rounded up.
Drop(p, avg) == (FileLen - p.bytes + avg - 1) \div avg

ByBytes(p) ==
  LET live == last - base
      avg  == IF FileLen \div live = 0 THEN 1 ELSE FileLen \div live
      drop == IF Drop(p, avg) > live THEN live ELSE Drop(p, avg)
  IN  IF p.bytes > 0 /\ FileLen > p.bytes THEN {base + drop + 1} ELSE {}

\* Mutant: the newest mark inside the window instead of the one before it.
ByAgeInclusive(p) ==
  IF p.age > 0 /\ Wall > p.age
    THEN {m.index + 1 : m \in {m \in marks : m.time <= Wall - p.age + 1}} ELSE {}

ByAge(p) ==
  IF p.age > 0 /\ Wall > p.age
    THEN {m.index + 1 : m \in {m \in marks : m.time < Wall - p.age}} ELSE {}

\* policy_boundary: every boundary proposed; the highest of them wins.
Proposals(p) ==
  IF last = base THEN {} ELSE ByMessages(p) \cup ByBytes(p) \cup ByAge(p)

\* marks_prune, where bjm_trim gets to it, and the histories of what is left.
AfterTrim(prune) ==
  /\ marks' = {m \in marks : prune => m.index > base'}
  /\ born' = [i \in base' + 1 .. last |-> born[i]]
  /\ ends' = [i \in base' .. last |-> ends[i] - ends[base']]

(***************************************************************************)
(* bjm_retention_run for this subject: trim at the highest boundary         *)
(* proposed, over the receipts only if the policy says so, and forget the   *)
(* marks that no longer name a message.                                     *)
(***************************************************************************)
Sweep ==
  /\ policy # Unlimited
  /\ \E before \in Proposals(policy) :
       /\ \A b \in Proposals(policy) : b <= before
       /\ Trim(before, policy.ignore, {})
  /\ AfterTrim(TRUE)
  /\ UNCHANGED <<policy, syncedMarks, cachedAge, lastMark, clockVars, since>>

\* h_trim: by hand; marks are pruned only if this process has had a reason
\* to open the policy tree.
TrimByHand(before, force, opened) ==
  /\ Trim(before, force, {})
  /\ AfterTrim(opened)
  /\ UNCHANGED <<policy, syncedMarks, cachedAge, lastMark, clockVars, since>>

(***************************************************************************)
(* The receipts matter here as what pins the log: h_ack puts one where a    *)
(* consumer says (the module Subject has the other ways they move).         *)
(***************************************************************************)
Pin(c, index) ==
  /\ Ack(c, index)
  /\ UNCHANGED <<policy, marks, syncedMarks, memoryVars, clockVars,
                 messageVars, since>>

-----------------------------------------------------------------------------

\* The process dies: what the subject's entry remembered is gone.
Forget ==
  /\ cachedAge' = NotLoaded /\ lastMark' = 0
  /\ since' = Steady(policy)

Restart ==
  /\ Forget
  /\ UNCHANGED <<subjectVars, policy, marks, syncedMarks, clockVars, messageVars>>

(***************************************************************************)
(* What may be on the disk: every write of the tree adds a newest mark,     *)
(* drops the oldest ones, or does both, so a version between the synced one *)
(* and the last one has of the marks dropped since those from `lo' on, and  *)
(* of the marks added since those up to `hi'.                               *)
(***************************************************************************)
Written(lo, hi) ==
  (marks \cap syncedMarks)
    \cup {m \in syncedMarks \ marks : m.index >= lo}
    \cup {m \in marks \ syncedMarks : m.index <= hi}

Versions ==
  LET los == {last + 1} \cup {m.index : m \in syncedMarks \ marks}
      his == {0} \cup {m.index : m \in marks \ syncedMarks}
  IN  {Written(lo, hi) : lo \in los, hi \in his}

\* A power cut: marks written since the last fsync of the tree may be lost.
PowerCut ==
  /\ LosePower
  /\ Forget
  /\ marks' \in Versions
  /\ Cardinality(marks') <= MarksMax
  /\ syncedMarks' = marks'
  /\ UNCHANGED <<policy, clockVars, messageVars>>

Tick ==
  /\ now < MaxTime
  /\ now' = now + 1
  /\ UNCHANGED <<subjectVars, policy, marks, syncedMarks, memoryVars, skew,
                 messageVars, since>>

\* The host's clock is stepped back by a second.
ClockBack ==
  /\ skew < MaxSkew /\ Wall > 1
  /\ skew' = skew + 1
  /\ since' = Steady(policy)
  /\ UNCHANGED <<subjectVars, policy, marks, syncedMarks, memoryVars, now,
                 messageVars>>

Next ==
  \/ \E size \in Sizes : PublishSized(size)
  \/ \E p \in Policies : PolicySet(p)
  \/ PolicyClear
  \/ Sweep
  \/ \E before \in HandTrims, force \in ForceFlags, opened \in BOOLEAN :
       TrimByHand(before, force, opened)
  \/ \E c \in Consumers, index \in SeekTargets : Pin(c, index)
  \/ Restart
  \/ PowerCut
  \/ Tick
  \/ ClockBack

RetentionSpec == Init /\ [][Next]_vars

-----------------------------------------------------------------------------

(***************************************************************************)
(* A sweep removes a message only for a reason the policy gives: it is      *)
(* older than max_age_s in real time, it is not among the newest            *)
(* max_messages, or the file was over max_bytes; and, unless the policy     *)
(* ignores consumers, only one that every subscription has read.  The age   *)
(* part is what the marks are for, and has to survive trims, restarts,      *)
(* power cuts that lose marks, policies that change and a clock that is     *)
(* stepped back (policy_boundary, mark_publish, marks_prune, bjm_trim).     *)
(***************************************************************************)
Due(p, i) ==
  /\ \/ p.age > 0 /\ now - born[i] > p.age
     \/ p.messages > 0 /\ last - i >= p.messages
     \/ p.bytes > 0 /\ FileLen > p.bytes
  /\ p.ignore \/ \A c \in Subscribed : i <= receipt[c]

SweepsOnlyWhatIsDue ==
  [][base' > base /\ Sweep => \A i \in base + 1 .. base' : Due(policy, i)]_vars

(***************************************************************************)
(* "A trim keeps at most one interval's worth of messages longer than       *)
(* asked" (store.c, the comment on the marks): where an authoritative age   *)
(* policy leaves a sweep nothing to remove, the messages that are too old   *)
(* were published less than one interval apart (of those published under    *)
(* this policy, by this process and by a steady clock).  Needs marks spaced *)
(* by the policy in force and a ring that outlasts the window.              *)
(***************************************************************************)
Overstayed ==
  {i \in Live : i > since /\ now - born[i] > policy.age}

OverstayBounded ==
  /\ policy.age > 0 /\ policy.ignore
  /\ \A before \in Proposals(policy) : before <= base + 1
  => \A i, j \in Overstayed : born[j] - born[i] < Interval(policy.age)

(***************************************************************************)
(* "The point of retention is a bound that holds": while the log is beyond  *)
(* max_messages or max_bytes a sweep removes something, whatever the        *)
(* receipts if the policy ignores them and up to the lowest receipt         *)
(* otherwise, so the sweeps converge (policy_boundary's rounding; an empty  *)
(* file may be over max_bytes).                                             *)
(***************************************************************************)
Within(p) ==
  /\ p.messages > 0 => last - base <= p.messages
  /\ p.bytes > 0 => FileLen <= p.bytes \/ last = base

Pinned(p) == ~p.ignore /\ \E c \in Subscribed : receipt[c] <= base

SweepsConverge ==
  \/ Within(policy)
  \/ Pinned(policy)
  \/ \E before \in Proposals(policy) : before > base + 1

=============================================================================
