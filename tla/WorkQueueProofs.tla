--------------------------- MODULE WorkQueueProofs ---------------------------
(***************************************************************************)
(* Proofs about WorkQueue, for any number of groups, workers and messages.  *)
(***************************************************************************)
EXTENDS WorkQueue, SubjectProofs, FiniteSetTheorems

(***************************************************************************)
(* The inductive invariant, for one group's record q.  The table is finite, *)
(* holds a job at most once and only jobs below `next'; every message that  *)
(* is still in the log and below `next' is in the table or has left it (it  *)
(* was finished, died, or was given away without a lease).                  *)
(***************************************************************************)
Covers(b, q, fin, dead, given) ==
  /\ IsFiniteSet(q.inflight)
  /\ q.next >= 1
  /\ \A e \in q.inflight : e.index >= 1 /\ e.index < q.next
  /\ \A e, f \in q.inflight : e.index = f.index => e = f
  /\ \A i \in Nat : b < i /\ i < q.next =>
       \/ i \in fin \/ i \in dead \/ i \in given
       \/ \E e \in q.inflight : e.index = i

(***************************************************************************)
(* On a machine that keeps its power a job that has left the table stays    *)
(* out of it, and is below `next'.  An earlier commit of the record, which  *)
(* is what a power cut leaves, does not know that the job is over.          *)
(***************************************************************************)
OnceOver(q, fin, dead, given) ==
  /\ \A i \in Nat : i \in fin \/ i \in dead \/ i \in given => i < q.next
  /\ \A e \in q.inflight : e.index \notin fin /\ e.index \notin dead /\ e.index \notin given
  /\ \A i \in fin : i \notin dead

RecordInv(b, q, fin, dead, given) ==
  /\ Covers(b, q, fin, dead, given)
  /\ ~PowerLoss => OnceOver(q, fin, dead, given)

\* The commit on the disk covers its jobs too: what it has not seen leave the
\* table is still in the table it holds.
SavedInv ==
  /\ onDisk.known \subseteq known
  /\ \A g \in onDisk.known :
       Covers(base, onDisk.queues[g], finished[g], died[g], loose[g])

QueueInv ==
  /\ SubjectInv
  /\ TypeOK
  /\ \A g \in known : RecordInv(base, queues[g], finished[g], died[g], loose[g])
  /\ \A g \in Groups : g \notin known =>
       finished[g] = {} /\ died[g] = {} /\ loose[g] = {}
  /\ SavedInv

\* A record goes on covering its jobs while the base and the histories grow.
LEMMA CoversStay ==
  ASSUME NEW b \in Nat, NEW b2 \in Nat, b2 >= b, NEW q, NEW fin, NEW dead, NEW given,
         Covers(b, q, fin, dead, given),
         NEW fin2, fin \subseteq fin2, NEW dead2, dead \subseteq dead2,
         NEW given2, given \subseteq given2
  PROVE  Covers(b2, q, fin2, dead2, given2)
  BY DEF Covers

\* So the commit on the disk stays good, whether it is replaced or not.
LEMMA SavedStays ==
  ASSUME SavedInv, base \in Nat, base' \in Nat, base' >= base,
         onDisk \in Commit, known \subseteq known', known' \subseteq Groups,
         \A g \in known : /\ finished[g] \subseteq finished'[g]
                          /\ died[g] \subseteq died'[g]
                          /\ loose[g] \subseteq loose'[g],
         \A g \in known' : RecordInv(base', queues'[g], finished'[g], died'[g], loose'[g]),
         queues' \in [Groups -> Record],
         onDisk' = onDisk \/ onDisk' = Stored'
  PROVE  SavedInv' /\ onDisk' \in Commit
<1>1. CASE onDisk' = onDisk
  <2>1. ASSUME NEW g \in onDisk.known
        PROVE  Covers(base', onDisk.queues[g], finished'[g], died'[g], loose'[g])
    <3>1. g \in known
      BY DEF SavedInv
    <3>2. Covers(base, onDisk.queues[g], finished[g], died[g], loose[g])
      BY DEF SavedInv
    <3> QED
      BY <3>1, <3>2, CoversStay
  <2> QED
    BY <1>1, <2>1 DEF SavedInv
<1>2. CASE onDisk' = Stored'
  <2>1. onDisk'.known = known' /\ onDisk'.queues = queues' /\ onDisk' \in Commit
    BY <1>2 DEF Stored, Commit
  <2> QED
    BY <2>1 DEF SavedInv, RecordInv
<1> QED
  BY <1>1, <1>2

\* The same, for the record a handler loads.
LEMMA LoadedRecord ==
  ASSUME QueueInv, NEW g \in Groups
  PROVE  /\ QueueLoad(g) \in Record
         /\ RecordInv(base, QueueLoad(g), finished[g], died[g], loose[g])
<1> USE DEF QueueInv
<1>1. CASE g \in known
  BY <1>1 DEF QueueLoad, TypeOK
<1>2. CASE g \notin known
  <2>1. QueueLoad(g) = Fresh
    BY <1>2 DEF QueueLoad
  <2>2. base \in Nat
    BY DEF SubjectInv, SubjectTypeOK
  <2>3. Fresh \in Record
    BY <2>2, QueueAssumption DEF Fresh, Record
  <2>4. Fresh.next = base + 1 /\ Fresh.inflight = {}
    BY DEF Fresh
  <2>5. RecordInv(base, Fresh, finished[g], died[g], loose[g])
    BY <1>2, <2>2, <2>4, FS_EmptySet DEF RecordInv, Covers, OnceOver
  <2> QED
    BY <2>1, <2>3, <2>5
<1> QED
  BY <1>1, <1>2

-----------------------------------------------------------------------------

(***************************************************************************)
(* The arithmetic and the set constructions of bjm_take.                    *)
(***************************************************************************)
LEMMA EntryTypes ==
  ASSUME now \in Nat, NEW lease \in Nat
  PROVE  /\ \A e \in Entry : Renewed(e, lease) \in Entry
         /\ \A i \in Nat : NewLease(i, lease) \in Entry
  BY DEF Renewed, NewLease, Entry

LEMMA FiniteImage ==
  ASSUME NEW S, IsFiniteSet(S), NEW T, NEW f \in [S -> T],
         \A t \in T : \E x \in S : f[x] = t
  PROVE  IsFiniteSet(T) /\ Cardinality(T) <= Cardinality(S)
<1>1. f \in Surjection(S, T)
  BY DEF Surjection
<1> QED
  BY <1>1, FS_Surjection, Zenon

LEMMA TakeRecord ==
  ASSUME now \in Nat, base \in Nat, last \in Nat,
         NEW q \in Record, NEW fin \in SUBSET Nat, NEW gone \in SUBSET Nat,
         NEW given \in SUBSET Nat, RecordInv(base, q, fin, gone, given),
         NEW lease \in Nat, NEW upto \in q.next .. last + 1,
         NEW scanned \in SUBSET Expired(q), NEW dead \in SUBSET scanned,
         NEW again, again = {Renewed(e, lease) : e \in scanned \ dead},
         NEW new, new = {NewLease(i, lease) : i \in q.next .. upto - 1},
         NEW table, table = ((q.inflight \ scanned) \cup again)
                              \cup (IF lease = 0 THEN {} ELSE new),
         NEW r \in Record, r.next = upto, r.inflight = table
  PROVE  RecordInv(base, r, fin, gone \cup {e.index : e \in dead},
                   IF lease = 0 THEN given \cup (q.next .. upto - 1) ELSE given)
<1> DEFINE gone2 == gone \cup {e.index : e \in dead}
           given2 == IF lease = 0 THEN given \cup (q.next .. upto - 1) ELSE given
<1>1. /\ q.next \in Nat /\ upto \in Nat /\ upto >= q.next
      /\ q.inflight \subseteq Entry /\ scanned \subseteq q.inflight
  BY DEF Record, Expired
<1>2. \A e \in q.inflight : e.index \in Nat
  BY <1>1 DEF Entry
<1>3. \A e \in again : \E f \in scanned \ dead : e.index = f.index /\ e = Renewed(f, lease)
  BY DEF Renewed
<1>4. \A f \in scanned \ dead : \E e \in again : e.index = f.index
  <2> SUFFICES ASSUME NEW f \in scanned \ dead
               PROVE  \E e \in again : e.index = f.index
    OBVIOUS
  <2>1. Renewed(f, lease) \in again
    OBVIOUS
  <2>2. Renewed(f, lease).index = f.index
    BY DEF Renewed
  <2> QED
    BY <2>1, <2>2
<1>5. /\ \A e \in new : e.index \in q.next .. upto - 1 /\ e = NewLease(e.index, lease)
      /\ \A i \in q.next .. upto - 1 : \E e \in new : e.index = i
  <2>1. \A i \in q.next .. upto - 1 : NewLease(i, lease) \in new
    OBVIOUS
  <2>2. \A i \in q.next .. upto - 1 : NewLease(i, lease).index = i
    BY DEF NewLease
  <2> QED
    BY <2>1, <2>2
<1>6. IsFiniteSet(table)
  <2>1. IsFiniteSet(q.inflight \ scanned) /\ IsFiniteSet(scanned \ dead)
    BY <1>1, FS_Subset DEF RecordInv, Covers, OnceOver
  <2>2. IsFiniteSet(again)
    <3> DEFINE f == [e \in scanned \ dead |-> Renewed(e, lease)]
    <3>1. f \in [scanned \ dead -> again]
      OBVIOUS
    <3>2. \A t \in again : \E e \in scanned \ dead : f[e] = t
      OBVIOUS
    <3> HIDE DEF f
    <3> QED
      BY <2>1, <3>1, <3>2, FiniteImage
  <2>3. IsFiniteSet(new)
    <3> DEFINE S == q.next .. upto - 1
               f == [i \in S |-> NewLease(i, lease)]
    <3>1. f \in [S -> new]
      OBVIOUS
    <3>2. IsFiniteSet(S)
      BY <1>1, FS_Interval
    <3>3. \A t \in new : \E i \in S : f[i] = t
      OBVIOUS
    <3> HIDE DEF S, f
    <3> QED
      BY <3>1, <3>2, <3>3, FiniteImage
  <2>4. IsFiniteSet((q.inflight \ scanned) \cup again)
    BY <2>1, <2>2, FS_Union
  <2>5. CASE lease = 0
    BY <2>4, <2>5
  <2>6. CASE lease # 0
    <3>1. table = ((q.inflight \ scanned) \cup again) \cup new
      BY <2>6
    <3>2. IsFiniteSet(((q.inflight \ scanned) \cup again) \cup new)
      BY <2>3, <2>4, FS_Union
    <3> QED
      BY <3>1, <3>2
  <2> QED
    BY <2>5, <2>6
\* Where the entries of the new table come from, by index.
<1>7. \A e \in table :
        \/ e \in q.inflight \ scanned
        \/ e \in again /\ \E f \in scanned \ dead : e.index = f.index
        \/ lease # 0 /\ e \in new /\ e.index \in q.next .. upto - 1
  BY <1>3, <1>5
<1>8. \A e \in table : e.index >= 1 /\ e.index < upto
  BY <1>1, <1>2, <1>7 DEF RecordInv, Covers, OnceOver
<1>9. \A e, f \in table : e.index = f.index => e = f
  <2> SUFFICES ASSUME NEW e \in table, NEW f \in table, e.index = f.index
               PROVE  e = f
    OBVIOUS
  <2>1. \A k \in q.inflight : k.index < q.next
    BY DEF RecordInv, Covers, OnceOver
  <2>2. CASE e \in new /\ f \in new
    BY <1>5, <2>2
  <2>3. CASE e \in again /\ f \in again
    BY <1>1, <1>3, <2>3 DEF RecordInv, Covers, OnceOver
  <2>4. CASE e \in q.inflight \ scanned /\ f \in q.inflight \ scanned
    BY <2>4 DEF RecordInv, Covers, OnceOver
  <2>5. ASSUME NEW x \in q.inflight \ scanned, NEW y \in again
        PROVE  x.index # y.index
    BY <1>1, <1>3 DEF RecordInv, Covers, OnceOver
  <2>6. ASSUME NEW x \in (q.inflight \ scanned) \cup again, NEW y \in new
        PROVE  x.index # y.index
    BY <1>1, <1>2, <1>3, <1>5, <2>1
  <2> QED
    BY <2>2, <2>3, <2>4, <2>5, <2>6
<1>10. \A i \in Nat : base < i /\ i < upto =>
         \/ i \in fin \/ i \in gone2 \/ i \in given2
         \/ \E e \in table : e.index = i
  <2> SUFFICES ASSUME NEW i \in Nat, base < i, i < upto,
                      i \notin fin, i \notin gone2, i \notin given2
               PROVE  \E e \in table : e.index = i
    OBVIOUS
  <2>1. CASE i < q.next
    <3>1. PICK e \in q.inflight : e.index = i
      BY <2>1 DEF RecordInv, Covers, OnceOver
    <3>2. e \notin dead
      BY <3>1
    <3> QED
      BY <1>4, <3>1, <3>2
  <2>2. CASE i >= q.next
    <3>1. i \in q.next .. upto - 1
      BY <1>1, <2>2
    <3>2. lease # 0
      BY <3>1
    <3> QED
      BY <1>5, <3>1, <3>2
  <2> QED
    BY <1>1, <2>1, <2>2
<1>11. ASSUME ~PowerLoss
       PROVE  \A i \in Nat : i \in fin \/ i \in gone2 \/ i \in given2 => i < upto
  <2>1. \A i \in Nat : i \in fin \/ i \in gone \/ i \in given => i < upto
    BY <1>1, <1>11 DEF RecordInv, Covers, OnceOver
  <2>2. \A e \in dead : e.index < upto
    BY <1>1, <1>2 DEF RecordInv, Covers, OnceOver
  <2> QED
    BY <1>1, <2>1, <2>2
<1>12. ASSUME ~PowerLoss
       PROVE  \A e \in table :
                e.index \notin fin /\ e.index \notin gone2 /\ e.index \notin given2
  <2> SUFFICES ASSUME NEW e \in table
               PROVE  e.index \notin fin /\ e.index \notin gone2 /\ e.index \notin given2
    OBVIOUS
  <2>1. CASE \E f \in q.inflight \ dead : e.index = f.index
    <3>1. PICK f \in q.inflight \ dead : e.index = f.index
      BY <2>1
    <3>2. f.index \notin fin /\ f.index \notin gone /\ f.index \notin given /\ f.index < q.next
      BY <1>12 DEF RecordInv, Covers, OnceOver
    <3>3. \A d \in dead : d.index # f.index
      BY <1>1, <3>1 DEF RecordInv, Covers, OnceOver
    <3> QED
      BY <1>1, <1>2, <3>1, <3>2, <3>3
  <2>2. CASE lease # 0 /\ e.index \in q.next .. upto - 1
    <3>1. e.index \in Nat /\ e.index >= q.next
      BY <1>1, <2>2
    <3>2. e.index \notin fin /\ e.index \notin gone /\ e.index \notin given
      BY <1>1, <1>12, <3>1 DEF RecordInv, Covers, OnceOver
    <3>3. \A d \in dead : d.index # e.index
      BY <1>1, <1>2, <3>1 DEF RecordInv, Covers, OnceOver
    <3> QED
      BY <2>2, <3>2, <3>3
  <2> QED
    BY <1>1, <1>7, <2>1, <2>2
<1>13. ASSUME ~PowerLoss
       PROVE  \A i \in fin : i \notin gone2
  <2>1. /\ \A e \in q.inflight : e.index \notin fin
        /\ \A i \in fin : i \notin gone
    BY <1>13 DEF RecordInv, OnceOver
  <2>2. dead \subseteq q.inflight
    BY <1>1
  <2> QED
    BY <2>1, <2>2
<1>14. Covers(base, r, fin, gone2, given2)
  <2>1. upto >= 1
    BY <1>1 DEF RecordInv, Covers
  <2> HIDE DEF gone2, given2
  <2> QED
    BY <2>1, <1>6, <1>8, <1>9, <1>10 DEF Covers
<1>15. ~PowerLoss => OnceOver(r, fin, gone2, given2)
  BY <1>11, <1>12, <1>13 DEF OnceOver
<1> QED
  BY <1>14, <1>15 DEF RecordInv

-----------------------------------------------------------------------------

(***************************************************************************)
(* What a step of bjm_take is, spelled out once for the proofs below.       *)
(***************************************************************************)
Taken(g, max, lease, scanned, dead, again, new, table, upto) ==
  LET q == QueueLoad(g)
  IN  /\ scanned \in SUBSET Expired(q)
      /\ dead = {e \in scanned : Exhausted(q, e)}
      /\ again = {Renewed(e, lease) : e \in scanned \ dead}
      /\ upto \in q.next .. last + 1
      /\ new = {NewLease(i, lease) : i \in q.next .. upto - 1}
      /\ table = ((q.inflight \ scanned) \cup again)
                   \cup (IF lease = 0 THEN {} ELSE new)
      /\ lease # 0 /\ upto > q.next => Cardinality(table) <= InflightMax
      /\ known' = known \cup {g}
      /\ queues' = [queues EXCEPT ![g] =
                      [next |-> upto, setting |-> [q.setting EXCEPT !.lease = lease],
                       inflight |-> table,
                       deadTotal |-> q.deadTotal + Cardinality(dead)]]
      /\ dying' = IF HasDeadChannel
                    THEN {[group |-> g, index |-> e.index,
                           attempts |-> e.attempts] : e \in dead}
                    ELSE {}
      /\ handed' = handed \cup
                   {Given(g, e) : e \in {f \in again \cup new : f.index > base}}
      /\ died' = [died EXCEPT ![g] = @ \cup {e.index : e \in dead}]
      /\ loose' = IF lease = 0
                    THEN [loose EXCEPT ![g] = @ \cup (q.next .. upto - 1)]
                    ELSE loose
      /\ dying = {}
      /\ onDisk' = onDisk \/ onDisk' = Stored'
      /\ UNCHANGED <<subjectVars, now, dlq, finished>>

LEMMA TakeIsTaken ==
  ASSUME QueueInv, NEW g \in Groups, NEW max,
         NEW asked \in Leases \cup {GroupLease}, Take(g, max, asked)
  PROVE  \E lease \in Nat : \E scanned, dead, again, new, table, upto :
           Taken(g, max, lease, scanned, dead, again, new, table, upto)
<1> DEFINE q == QueueLoad(g)
           lease == IF asked = GroupLease THEN q.setting.lease ELSE asked
<1>1. lease \in Nat
  BY LoadedRecord, QueueAssumption DEF Record, Setting
<1>2. PICK scanned \in SUBSET Expired(q), upto \in q.next .. last + 1 :
        LET dead   == {e \in scanned : Exhausted(q, e)}
            again  == {Renewed(e, lease) : e \in scanned \ dead}
            kept   == (q.inflight \ scanned) \cup again
            new    == {NewLease(i, lease) : i \in q.next .. upto - 1}
            table  == kept \cup (IF lease = 0 THEN {} ELSE new)
        IN  Taken(g, max, lease, scanned, dead, again, new, table, upto)
  BY DEF Take, Taken, QueueStore, NoOverflow, WrittenBack
<1> QED
  BY <1>1, <1>2

\* The groups a step does not touch keep their invariant, also when the base
\* of the log has risen.
LEMMA BaseMayRise ==
  ASSUME NEW b \in Nat, NEW b2 \in Nat, b2 >= b, NEW q, NEW fin, NEW dead,
         NEW given, RecordInv(b, q, fin, dead, given)
  PROVE  RecordInv(b2, q, fin, dead, given)
  BY DEF RecordInv, Covers, OnceOver

LEMMA TakeInv ==
  ASSUME QueueInv, NEW g \in Groups, NEW max,
         NEW asked \in Leases \cup {GroupLease}, Take(g, max, asked)
  PROVE  QueueInv'
<1>1. PICK lease \in Nat : \E scanned, dead, again, new, table, upto :
        Taken(g, max, lease, scanned, dead, again, new, table, upto)
  BY TakeIsTaken
<1>2. PICK scanned, dead, again, new, table, upto :
        Taken(g, max, lease, scanned, dead, again, new, table, upto)
  BY <1>1
<1> DEFINE q == QueueLoad(g)
           r == [next |-> upto, setting |-> [q.setting EXCEPT !.lease = lease],
                 inflight |-> table, deadTotal |-> q.deadTotal + Cardinality(dead)]
<1>3. q \in Record /\ RecordInv(base, q, finished[g], died[g], loose[g])
  BY LoadedRecord
<1>4. now \in Nat /\ base \in Nat /\ last \in Nat
  BY DEF QueueInv, TypeOK, SubjectTypeOK
<1>5. SubjectInv'
  BY <1>2 DEF Taken, QueueInv, subjectVars, SubjectInv, SubjectTypeOK,
     DurableBehind, ConfirmedAcksSurvive
<1>6. scanned \subseteq q.inflight /\ dead \subseteq scanned /\ upto \in Nat
  BY <1>2, <1>3, <1>4 DEF Taken, Expired, Record
<1>7. q.inflight \subseteq Entry /\ scanned \subseteq Entry /\ dead \subseteq Entry
  BY <1>3, <1>6 DEF Record
<1>8. again \subseteq Entry /\ new \subseteq Entry /\ table \subseteq Entry
  <2>1. again \subseteq Entry
    BY <1>2, <1>4, <1>7, EntryTypes DEF Taken
  <2>2. q.next .. upto - 1 \subseteq Nat
    BY <1>3, <1>6 DEF Record
  <2>3. new \subseteq Entry
    BY <1>2, <1>4, <2>2, EntryTypes DEF Taken
  <2> QED
    BY <1>2, <1>7, <2>1, <2>3 DEF Taken
<1>9. r \in Record
  <2>1. Cardinality(dead) \in Nat
    BY <1>3, <1>6, FS_Subset, FS_CardinalityType DEF RecordInv, Covers, OnceOver
  <2>2. [q.setting EXCEPT !.lease = lease] \in Setting
    BY <1>3 DEF Record, Setting
  <2>3. upto \in Nat \ {0}
    BY <1>2, <1>3, <1>4 DEF Taken, Record
  <2> QED
    BY <1>3, <1>8, <2>1, <2>2, <2>3 DEF Record
<1>10. /\ known' = known \cup {g}
       /\ queues' = [queues EXCEPT ![g] = r]
       /\ finished' = finished /\ base' = base /\ now' = now /\ dlq' = dlq
  BY <1>2 DEF Taken, subjectVars
<1>11. /\ died' = [died EXCEPT ![g] = died[g] \cup {e.index : e \in dead}]
       /\ loose' = [loose EXCEPT ![g] =
                      IF lease = 0 THEN loose[g] \cup (q.next .. upto - 1) ELSE loose[g]]
  BY <1>2 DEF Taken, QueueInv, TypeOK
<1> HIDE DEF r
<1>12. RecordInv(base, r, finished[g], died[g] \cup {e.index : e \in dead},
                 IF lease = 0 THEN loose[g] \cup (q.next .. upto - 1) ELSE loose[g])
  <2>1. r.next = upto /\ r.inflight = table
    BY DEF r
  <2>2. finished[g] \in SUBSET Nat /\ died[g] \in SUBSET Nat /\ loose[g] \in SUBSET Nat
    BY DEF QueueInv, TypeOK
  <2>3. /\ scanned \in SUBSET Expired(q) /\ upto \in q.next .. last + 1
        /\ again = {Renewed(e, lease) : e \in scanned \ dead}
        /\ new = {NewLease(i, lease) : i \in q.next .. upto - 1}
        /\ table = ((q.inflight \ scanned) \cup again)
                     \cup (IF lease = 0 THEN {} ELSE new)
    BY <1>2 DEF Taken
  <2>4. lease \in Nat /\ dead \in SUBSET scanned
    BY <1>6
  <2> HIDE DEF q, r
  <2> QED
    BY ONLY <1>3, <1>4, <1>9, <2>1, <2>2, <2>3, <2>4, TakeRecord, ZenonT(90)
<1>13. RecordInv(base', queues'[g], finished'[g], died'[g], loose'[g])
  BY <1>10, <1>11, <1>12 DEF QueueInv, TypeOK
<1>14. \A k \in Groups : k # g => /\ queues'[k] = queues[k]
                                  /\ finished'[k] = finished[k]
                                  /\ died'[k] = died[k]
                                  /\ loose'[k] = loose[k]
                                  /\ k \in known' <=> k \in known
  BY <1>10, <1>11 DEF QueueInv, TypeOK
<1>15. \A k \in known' : RecordInv(base', queues'[k], finished'[k], died'[k], loose'[k])
  BY <1>10, <1>13, <1>14 DEF QueueInv, TypeOK
<1>16. \A k \in Groups : k \notin known' =>
         finished'[k] = {} /\ died'[k] = {} /\ loose'[k] = {}
  BY <1>10, <1>14 DEF QueueInv
<1>17. TypeOK' /\ SavedInv'
  <2>1. SubjectTypeOK'
    BY <1>5 DEF SubjectInv
  <2>2. known' \subseteq Groups /\ queues' \in [Groups -> Record]
    BY <1>9, <1>10 DEF QueueInv, TypeOK
  <2>3. dying' \subseteq Letter
    BY <1>2, <1>7 DEF Taken, Letter, Entry
  <2>4. handed' \subseteq Hand
    <3>1. \A e \in again \cup new : Given(g, e) \in Hand
      BY <1>8 DEF Given, Entry, Hand
    <3> QED
      BY <1>2, <3>1 DEF Taken, QueueInv, TypeOK
  <2>5. died' \in [Groups -> SUBSET Nat]
    BY <1>7, <1>11 DEF QueueInv, TypeOK, Entry
  <2>6. loose' \in [Groups -> SUBSET Nat]
    BY <1>3, <1>6, <1>11 DEF QueueInv, TypeOK, Record
  <2>7. SavedInv' /\ onDisk' \in Commit
    <3>1. \A k \in known : /\ finished[k] \subseteq finished'[k]
                           /\ died[k] \subseteq died'[k]
                           /\ loose[k] \subseteq loose'[k]
      BY <1>10, <1>11 DEF QueueInv, TypeOK
    <3>2. onDisk' = onDisk \/ onDisk' = Stored'
      BY <1>2 DEF Taken
    <3> QED
      BY <1>4, <1>10, <1>15, <2>2, <3>1, <3>2, SavedStays DEF QueueInv, TypeOK
  <2> QED
    BY <1>10, <2>1, <2>2, <2>3, <2>4, <2>5, <2>6, <2>7 DEF QueueInv, TypeOK
<1> QED
  BY <1>5, <1>15, <1>16, <1>17 DEF QueueInv

-----------------------------------------------------------------------------

(***************************************************************************)
(* queue_release on one record: job i is dropped, or given a new expiry.    *)
(***************************************************************************)
LEMMA DoneRecord ==
  ASSUME NEW b \in Nat, NEW q \in Record, NEW fin \in SUBSET Nat,
         NEW dead \in SUBSET Nat, NEW given \in SUBSET Nat,
         RecordInv(b, q, fin, dead, given), NEW i \in Nat,
         NEW F, F = {e \in q.inflight : e.index = i},
         NEW r \in Record, r.next = q.next, r.inflight = q.inflight \ F
  PROVE  RecordInv(b, r, IF F = {} THEN fin ELSE fin \cup {i}, dead, given)
<1>1. IsFiniteSet(r.inflight)
  BY FS_Subset DEF RecordInv, Covers, OnceOver
<1>2. q.next \in Nat /\ q.inflight \subseteq Entry
  BY DEF Record
<1>3. CASE F = {}
  BY <1>1, <1>2, <1>3 DEF RecordInv, Covers, OnceOver
<1>4. CASE F # {}
  BY <1>1, <1>2, <1>4 DEF RecordInv, Covers, OnceOver
<1> QED
  BY <1>3, <1>4

\* The entries of `put' are those of F, with something else than the index changed.
Swaps(F, put) ==
  /\ IsFiniteSet(put)
  /\ \A e \in F : \E p \in put : p.index = e.index
  /\ \A p \in put : \E e \in F : p.index = e.index
  /\ \A p, k \in put : p.index = k.index => p = k

LEMMA FailRecord ==
  ASSUME NEW b \in Nat, NEW q \in Record, NEW fin \in SUBSET Nat,
         NEW dead \in SUBSET Nat, NEW given \in SUBSET Nat,
         RecordInv(b, q, fin, dead, given),
         NEW F \in SUBSET q.inflight, NEW put, Swaps(F, put),
         NEW r \in Record, r.next = q.next, r.inflight = (q.inflight \ F) \cup put
  PROVE  RecordInv(b, r, fin, dead, given)
<1> USE DEF Swaps
<1>1. q.next \in Nat /\ q.inflight \subseteq Entry
  BY DEF Record
<1>2. IsFiniteSet(r.inflight)
  <2>1. IsFiniteSet(F) /\ IsFiniteSet(q.inflight \ F)
    BY FS_Subset DEF RecordInv, Covers, OnceOver
  <2>2. IsFiniteSet((q.inflight \ F) \cup put)
    BY <2>1, FS_Union
  <2> QED
    BY <2>2
<1>3. \A e \in r.inflight : \E k \in q.inflight : e.index = k.index
  OBVIOUS
<1>4. \A k \in q.inflight : \E e \in r.inflight : e.index = k.index
  OBVIOUS
<1>5. \A e, k \in r.inflight : e.index = k.index => e = k
  BY DEF RecordInv, Covers, OnceOver
<1>6. \A e \in r.inflight :
        /\ e.index >= 1 /\ e.index < r.next
        /\ ~PowerLoss =>
             e.index \notin fin /\ e.index \notin dead /\ e.index \notin given
  BY <1>3 DEF RecordInv, Covers, OnceOver
<1>7. \A i \in Nat : b < i /\ i < r.next =>
        \/ i \in fin \/ i \in dead \/ i \in given
        \/ \E e \in r.inflight : e.index = i
  <2> SUFFICES ASSUME NEW i \in Nat, b < i, i < r.next,
                      i \notin fin, i \notin dead, i \notin given
               PROVE  \E e \in r.inflight : e.index = i
    OBVIOUS
  <2>1. PICK k \in q.inflight : k.index = i
    BY DEF RecordInv, Covers, OnceOver
  <2> QED
    BY <1>4, <2>1
<1>8. r.next >= 1
  BY DEF RecordInv, Covers, OnceOver
<1> QED
  BY <1>2, <1>5, <1>6, <1>7, <1>8 DEF RecordInv, Covers, OnceOver

(***************************************************************************)
(* A step that replaces the record of one known group and leaves the log,   *)
(* the other groups and the histories of leaving jobs but `finished' alone. *)
(***************************************************************************)
LEMMA ReplaceRecord ==
  ASSUME QueueInv, NEW g \in Groups, NEW r \in Record, NEW fin \in SUBSET Nat,
         g \in known => RecordInv(base, r, fin, died[g], loose[g]),
         g \notin known => fin = {},
         finished[g] \subseteq fin, onDisk' = onDisk \/ onDisk' = Stored',
         queues' = [queues EXCEPT ![g] = r],
         finished' = [finished EXCEPT ![g] = fin],
         handed' \subseteq handed,
         UNCHANGED <<subjectVars, now, known, dying, dlq, died, loose>>
  PROVE  QueueInv'
<1> USE DEF QueueInv
<1>1. SubjectInv'
  BY DEF subjectVars, SubjectInv, SubjectTypeOK, DurableBehind, ConfirmedAcksSurvive
<1>2. queues' \in [Groups -> Record] /\ known' \subseteq Groups
  BY DEF TypeOK
<1>3. base' = base /\ base \in Nat
  BY DEF subjectVars, TypeOK, SubjectTypeOK
<1>4. \A k \in known' : RecordInv(base', queues'[k], finished'[k], died'[k], loose'[k])
  <2> SUFFICES ASSUME NEW k \in known
               PROVE  RecordInv(base, queues'[k], finished'[k], died[k], loose[k])
    BY <1>3
  <2>1. CASE k = g
    BY <2>1 DEF TypeOK
  <2>2. CASE k # g
    BY <2>2 DEF TypeOK
  <2> QED
    BY <2>1, <2>2
<1>5. \A k \in Groups : k \notin known' =>
         finished'[k] = {} /\ died'[k] = {} /\ loose'[k] = {}
  BY DEF TypeOK
<1>6. SavedInv' /\ onDisk' \in Commit
  <2>1. \A k \in known : /\ finished[k] \subseteq finished'[k]
                         /\ died[k] \subseteq died'[k]
                         /\ loose[k] \subseteq loose'[k]
    BY DEF TypeOK
  <2> QED
    BY <1>2, <1>3, <1>4, <2>1, SavedStays DEF TypeOK
<1>7. TypeOK'
  BY <1>1, <1>2, <1>6 DEF TypeOK, SubjectInv
<1> QED
  BY <1>1, <1>4, <1>5, <1>6, <1>7

LEMMA DoneInv ==
  ASSUME QueueInv, NEW h \in handed, Done(h)
  PROVE  QueueInv'
<1> DEFINE g == h.group
           q == queues[g]
           r == [q EXCEPT !.inflight = q.inflight \ Found(h)]
           fin == IF Found(h) = {} THEN finished[g] ELSE finished[g] \cup {h.index}
<1>1. h \in Hand /\ g \in Groups /\ h.index \in Nat /\ q \in Record
  BY DEF QueueInv, TypeOK, Hand
<1>2. r \in Record /\ r.next = q.next /\ r.inflight = q.inflight \ Found(h)
  BY <1>1 DEF Record
<1>3. queues' = [queues EXCEPT ![g] = r]
  BY <1>1 DEF Done, QueueInv, TypeOK
<1>4. finished' = [finished EXCEPT ![g] = fin] /\ fin \in SUBSET Nat
  BY <1>1 DEF Done, QueueInv, TypeOK
<1>5. /\ handed' \subseteq handed /\ finished[g] \subseteq fin
      /\ onDisk' = onDisk \/ onDisk' = Stored'
      /\ UNCHANGED <<subjectVars, now, known, dying, dlq, died, loose>>
  BY DEF Done, Answered, WrittenBack
<1>6. g \notin known => fin = {}
  BY <1>1 DEF Found, QueueInv
<1>7. ASSUME g \in known
      PROVE  RecordInv(base, r, fin, died[g], loose[g])
  <2>1. Found(h) = {e \in q.inflight : e.index = h.index}
    BY <1>7 DEF Found
  <2>2. RecordInv(base, q, finished[g], died[g], loose[g])
    BY <1>7 DEF QueueInv
  <2>3. /\ finished[g] \in SUBSET Nat /\ died[g] \in SUBSET Nat
        /\ loose[g] \in SUBSET Nat /\ base \in Nat
    BY <1>1 DEF QueueInv, TypeOK, SubjectTypeOK
  <2> HIDE DEF r, q, g
  <2> QED
    BY <1>1, <1>2, <2>1, <2>2, <2>3, DoneRecord
<1> HIDE DEF r, q, g, fin
<1> QED
  BY <1>1, <1>2, <1>3, <1>4, <1>5, <1>6, <1>7, ReplaceRecord

LEMMA BackoffIsNat ==
  ASSUME NEW setting \in Setting, NEW attempts \in Nat
  PROVE  BackoffFor(setting, attempts) \in Nat
<1> DEFINE shift == IF attempts = 0 THEN 0
                    ELSE IF attempts - 1 > ShiftMax THEN ShiftMax ELSE attempts - 1
           d == setting.backoff * 2^shift
<1>1. shift \in 0 .. ShiftMax
  BY QueueAssumption
<1>2. 2^shift \in Nat
  BY <1>1, PowersOfTwo
<1>3. setting.backoff \in Nat /\ setting.maxBackoff \in Nat
  BY DEF Setting
<1>4. \A a, b \in Nat : a * b \in Nat
  OBVIOUS
<1>5. d \in Nat
  BY <1>2, <1>3, <1>4
<1> HIDE DEF d
<1>6. (IF setting.maxBackoff # 0 /\ d > setting.maxBackoff
         THEN setting.maxBackoff ELSE d) \in Nat
  BY <1>3, <1>5
<1> QED
  BY <1>6 DEF BackoffFor, d

LEMMA FailInv ==
  ASSUME QueueInv, NEW h \in handed, NEW delay \in Delays \cup {GroupBackoff},
         Fail(h, delay)
  PROVE  QueueInv'
<1> DEFINE g == h.group
           q == queues[g]
           F == Found(h)
           w(e) == IF delay = GroupBackoff THEN BackoffFor(q.setting, e.attempts)
                   ELSE delay
           put == {[e EXCEPT !.expires = now + w(e)] : e \in F}
           f == [e \in F |-> [e EXCEPT !.expires = now + w(e)]]
           r == [q EXCEPT !.inflight = (q.inflight \ F) \cup put]
<1>1. h \in Hand /\ g \in Groups /\ q \in Record /\ now \in Nat
  BY DEF QueueInv, TypeOK, Hand
<1>2. F \subseteq q.inflight /\ q.inflight \subseteq Entry /\ q.setting \in Setting
  BY <1>1 DEF Found, Record
<1>3. \A e \in F : w(e) \in Nat
  BY <1>2, BackoffIsNat, QueueAssumption DEF Entry
<1>4. /\ f \in [F -> put]
      /\ \A p \in put : \E e \in F : f[e] = p
      /\ \A e \in F : f[e].index = e.index
  <2>1. \A e \in F : f[e].index = e.index
    BY <1>2 DEF Entry
  <2> QED
    BY <2>1
<1>5. queues' = [queues EXCEPT ![g] = r]
  BY <1>1 DEF Fail, QueueInv, TypeOK
<1>6. put \subseteq Entry
  BY <1>1, <1>2, <1>3 DEF Entry
<1>7. r \in Record /\ r.next = q.next /\ r.inflight = (q.inflight \ F) \cup put
  BY <1>1, <1>2, <1>6 DEF Record
<1>8. /\ handed' \subseteq handed
      /\ onDisk' = onDisk \/ onDisk' = Stored'
      /\ UNCHANGED <<subjectVars, now, known, dying, dlq, finished, died, loose>>
  BY DEF Fail, Answered, WrittenBack
<1>9. finished' = [finished EXCEPT ![g] = finished[g]] /\ finished[g] \in SUBSET Nat
  BY <1>1, <1>8 DEF QueueInv, TypeOK
<1>10. ASSUME g \in known
       PROVE  RecordInv(base, r, finished[g], died[g], loose[g])
  <2>1. RecordInv(base, q, finished[g], died[g], loose[g])
    BY <1>10 DEF QueueInv
  <2>2. /\ died[g] \in SUBSET Nat /\ loose[g] \in SUBSET Nat /\ base \in Nat
    BY <1>1 DEF QueueInv, TypeOK, SubjectTypeOK
  <2>3. F \in SUBSET q.inflight
    BY <1>2
  <2> HIDE DEF r, q, g, F, f, put
  <2>4. IsFiniteSet(put)
    <3>1. IsFiniteSet(F)
      BY <2>1, <2>3, FS_Subset DEF RecordInv, Covers, OnceOver
    <3> QED
      BY <1>4, <3>1, FiniteImage
  <2>5. /\ \A e \in F : \E p \in put : p.index = e.index
        /\ \A p \in put : \E e \in F : p.index = e.index
    BY <1>4
  <2>6. \A p, k \in put : p.index = k.index => p = k
    BY <1>4, <2>1, <2>3 DEF RecordInv, Covers, OnceOver
  <2>7. Swaps(F, put)
    BY <2>4, <2>5, <2>6 DEF Swaps
  <2> QED
    BY <1>1, <1>7, <1>9, <2>1, <2>2, <2>3, <2>7, FailRecord
<1>11. g \notin known => finished[g] = {}
  BY <1>1 DEF QueueInv
<1> HIDE DEF r, q, g, F, f, put
<1> QED
  BY <1>1, <1>5, <1>7, <1>8, <1>9, <1>10, <1>11, ReplaceRecord

-----------------------------------------------------------------------------

LEMMA ConfigInv ==
  ASSUME QueueInv, NEW g \in Groups, NEW setting \in Settings, QueueConfig(g, setting)
  PROVE  QueueInv'
<1> USE DEF QueueInv
<1> DEFINE q == QueueLoad(g)
           r == [q EXCEPT !.setting = setting]
<1>1. q \in Record /\ RecordInv(base, q, finished[g], died[g], loose[g])
  BY LoadedRecord
<1>2. r \in Record /\ r.next = q.next /\ r.inflight = q.inflight
  BY <1>1, QueueAssumption DEF Record
<1>3. RecordInv(base, r, finished[g], died[g], loose[g])
  <2> HIDE DEF r, q
  <2> QED
    BY <1>1, <1>2 DEF RecordInv, Covers, OnceOver
<1>4. /\ known' = known \cup {g} /\ queues' = [queues EXCEPT ![g] = r]
      /\ onDisk' = Stored'
      /\ UNCHANGED <<subjectVars, now, dying, dlq, handed, finished, died, loose>>
  BY DEF QueueConfig, QueueStore, Synced
<1> HIDE DEF r, q
<1>5. SubjectInv' /\ base' = base /\ base \in Nat
  BY <1>4 DEF subjectVars, SubjectInv, SubjectTypeOK, DurableBehind, ConfirmedAcksSurvive
<1>6. known' \subseteq Groups /\ queues' \in [Groups -> Record]
  BY <1>2, <1>4 DEF TypeOK
<1>7. ASSUME NEW k \in known'
      PROVE  RecordInv(base', queues'[k], finished'[k], died'[k], loose'[k])
  <2>1. CASE k = g
    BY <1>3, <1>4, <1>5, <2>1 DEF TypeOK
  <2>2. CASE k # g
    BY <1>4, <1>5, <2>2 DEF TypeOK
  <2> QED
    BY <2>1, <2>2
<1>8. SavedInv' /\ onDisk' \in Commit
  BY <1>4, <1>5, <1>6, <1>7, SavedStays DEF TypeOK
<1>9. TypeOK'
  BY <1>4, <1>5, <1>6, <1>8 DEF TypeOK, SubjectInv
<1> QED
  BY <1>4, <1>5, <1>7, <1>8, <1>9

LEMMA DeleteInv ==
  ASSUME QueueInv, NEW g \in Groups, QueueDelete(g)
  PROVE  QueueInv'
<1> USE DEF QueueInv
<1>1. /\ known' = known \ {g} /\ queues' = [queues EXCEPT ![g] = Fresh]
      /\ finished' = [finished EXCEPT ![g] = {}]
      /\ died' = [died EXCEPT ![g] = {}] /\ loose' = [loose EXCEPT ![g] = {}]
      /\ onDisk' = Stored'
      /\ UNCHANGED <<subjectVars, now, dying, dlq, handed>>
  BY DEF QueueDelete, Synced
<1>2. SubjectInv' /\ base' = base
  BY <1>1 DEF subjectVars, SubjectInv, SubjectTypeOK, DurableBehind, ConfirmedAcksSurvive
<1>3. Fresh \in Record
  BY QueueAssumption, FS_EmptySet DEF Fresh, Record, SubjectInv, SubjectTypeOK
<1>4. ASSUME NEW k \in known'
      PROVE  RecordInv(base', queues'[k], finished'[k], died'[k], loose'[k])
  BY <1>1, <1>2, <1>4 DEF TypeOK
<1>5. TypeOK' /\ SavedInv'
  <2>1. known' \subseteq Groups /\ queues' \in [Groups -> Record]
    BY <1>1, <1>3 DEF TypeOK
  <2>2. /\ onDisk' \in Commit
        /\ onDisk'.known = known' /\ onDisk'.queues = queues'
    BY <1>1, <2>1 DEF Stored, Commit
  <2>3. SavedInv'
    BY <1>4, <2>2 DEF SavedInv, RecordInv
  <2> QED
    BY <1>1, <1>2, <2>1, <2>2, <2>3 DEF TypeOK, SubjectInv
<1>6. \A k \in Groups : k \notin known' =>
         finished'[k] = {} /\ died'[k] = {} /\ loose'[k] = {}
  BY <1>1 DEF TypeOK
<1> QED
  BY <1>2, <1>4, <1>5, <1>6

(***************************************************************************)
(* What the groups owe is a set of indexes: bjm_queue_floor subtracts one   *)
(* only from indexes that are at least one.                                 *)
(***************************************************************************)
LEMMA OwedIsNat ==
  ASSUME QueueInv
  PROVE  Owed \in SUBSET Nat
<1> SUFFICES ASSUME NEW g \in known
             PROVE  {queues[g].next - 1} \cup {e.index - 1 : e \in queues[g].inflight}
                      \subseteq Nat
  BY DEF Owed
<1>1. queues[g] \in Record /\ RecordInv(base, queues[g], finished[g], died[g], loose[g])
  BY DEF QueueInv, TypeOK
<1> QED
  BY <1>1 DEF Record, Entry, RecordInv, Covers, OnceOver

LEMMA SubjectStepInv ==
  ASSUME QueueInv, StepWith(Owed), UNCHANGED queueVars
  PROVE  QueueInv'
<1> USE DEF QueueInv
<1>1. SubjectInv'
  BY OwedIsNat, SubjectInvStep
<1>2. TypeOK'
  BY <1>1 DEF TypeOK, SubjectInv, queueVars
<1>3. base \in Nat /\ base' \in Nat /\ base' >= base
  <2>1. base \in Nat /\ base' \in Nat
    BY <1>1 DEF SubjectInv, SubjectTypeOK
  <2>2. CASE \E before \in 1 .. last + 2, force \in ForceFlags : Trim(before, force, Owed)
    <3>1. PICK before \in 1 .. last + 2, force \in ForceFlags : Trim(before, force, Owed)
      BY <2>2
    <3>2. SubjectInv /\ Owed \in SUBSET Nat
      BY OwedIsNat
    <3>3. base' > base
      BY <3>1, <3>2, TrimBounds
    <3> QED
      BY <2>1, <3>3
  <2>3. CASE Publish \/ CursorStep \/ LosePower
    BY <2>1, <2>3 DEF Publish, CursorStep, Subscribe, Ack, Unsubscribe, LosePower, logVars
  <2> QED
    BY <2>1, <2>2, <2>3 DEF StepWith
<1>4. ASSUME NEW k \in known'
      PROVE  RecordInv(base', queues'[k], finished'[k], died'[k], loose'[k])
  BY <1>3, BaseMayRise DEF queueVars
<1>5. SavedInv'
  BY <1>2, <1>3, <1>4, SavedStays DEF queueVars, TypeOK
<1> QED
  BY <1>1, <1>2, <1>4, <1>5 DEF queueVars

LEMMA OtherStepInv ==
  ASSUME QueueInv,
         \/ Tick \/ Crash \/ UNCHANGED vars
         \/ \E d \in dying : DeadLetter(d)
  PROVE  QueueInv'
<1> USE DEF QueueInv
<1>1. /\ UNCHANGED <<subjectVars, known, queues, onDisk, finished, died, loose>>
      /\ handed' \subseteq handed /\ dying' \subseteq dying
  BY DEF Tick, Crash, DeadLetter, vars, queueVars
<1>2. SubjectInv' /\ base' = base
  BY <1>1 DEF subjectVars, SubjectInv, SubjectTypeOK, DurableBehind, ConfirmedAcksSurvive
<1>3. now' \in Nat
  BY DEF Tick, Crash, DeadLetter, vars, queueVars, TypeOK
<1>4. dlq' \in Seq(Letter)
  <2>1. dlq \in Seq(Letter) /\ dying \subseteq Letter
    BY DEF TypeOK
  <2>2. ASSUME NEW d \in dying, DeadLetter(d)
        PROVE  dlq' \in Seq(Letter)
    BY <2>1, <2>2 DEF DeadLetter
  <2>3. CASE Tick \/ Crash \/ UNCHANGED vars
    BY <2>1, <2>3 DEF Tick, Crash, vars, queueVars
  <2> QED
    BY <2>2, <2>3
<1>5. TypeOK'
  BY <1>1, <1>2, <1>3, <1>4 DEF TypeOK, SubjectInv
<1>6. ASSUME NEW k \in known'
      PROVE  RecordInv(base', queues'[k], finished'[k], died'[k], loose'[k])
  BY <1>1, <1>2, <1>6
<1>7. SavedInv'
  BY <1>1, <1>2 DEF SavedInv
<1> QED
  BY <1>1, <1>2, <1>5, <1>6, <1>7

(***************************************************************************)
(* A power cut puts the commit on the disk in the place of the records; it  *)
(* covers its jobs, and of what was over only the groups that are forgotten *)
(* lose the memory.                                                         *)
(***************************************************************************)
LEMMA PowerCutInv ==
  ASSUME QueueInv, PowerCut
  PROVE  QueueInv'
<1> USE DEF QueueInv
<1>1. /\ PowerLoss /\ LosePower
      /\ known' = onDisk.known /\ queues' = onDisk.queues /\ dying' = {}
      /\ finished' = [g \in Groups |-> IF g \in known' THEN finished[g] ELSE {}]
      /\ died' = [g \in Groups |-> IF g \in known' THEN died[g] ELSE {}]
      /\ loose' = [g \in Groups |-> IF g \in known' THEN loose[g] ELSE {}]
      /\ UNCHANGED <<now, onDisk, dlq, handed>>
  BY DEF PowerCut, LosePower
<1>2. SubjectInv'
  BY <1>1, OwedIsNat, SubjectInvStep DEF StepWith
<1>3. base' = base
  BY <1>1 DEF LosePower, logVars
<1>4. known' \subseteq Groups /\ queues' \in [Groups -> Record]
  BY <1>1 DEF TypeOK, Commit
<1>5. TypeOK'
  BY <1>1, <1>2, <1>4 DEF TypeOK, SubjectInv
<1>6. ASSUME NEW k \in known'
      PROVE  Covers(base', queues'[k], finished'[k], died'[k], loose'[k])
  <2>1. Covers(base, onDisk.queues[k], finished[k], died[k], loose[k])
    BY <1>1 DEF SavedInv
  <2> QED
    BY <1>1, <1>3, <1>4, <2>1
<1>7. \A k \in known' :
        RecordInv(base', queues'[k], finished'[k], died'[k], loose'[k])
  BY <1>1, <1>6 DEF RecordInv
<1>8. SavedInv'
  BY <1>1, <1>6 DEF SavedInv
<1>9. \A k \in Groups : k \notin known' =>
         finished'[k] = {} /\ died'[k] = {} /\ loose'[k] = {}
  BY <1>1
<1> QED
  BY <1>2, <1>5, <1>7, <1>8, <1>9

LEMMA QueueInvInit == Init => QueueInv
<1> SUFFICES ASSUME Init PROVE QueueInv
  OBVIOUS
<1>1. SubjectInv
  BY SubjectInvInit DEF Init
<1>2. Fresh \in Record
  BY <1>1, QueueAssumption DEF Fresh, Record, SubjectInv, SubjectTypeOK
<1>3. TypeOK
  <2>1. Stored \in Commit
    BY <1>2 DEF Init, Stored, Commit
  <2> QED
    BY <1>1, <1>2, <2>1 DEF Init, TypeOK, SubjectInv
<1>4. SavedInv
  BY DEF Init, SavedInv, Stored
<1> QED
  BY <1>1, <1>3, <1>4 DEF QueueInv, Init

LEMMA QueueInvNext == QueueInv /\ [Next]_vars => QueueInv'
<1> SUFFICES ASSUME QueueInv, [Next]_vars
             PROVE  QueueInv'
  OBVIOUS
<1>1. CASE SubjectStep
  BY <1>1, SubjectStepInv DEF SubjectStep, StepWith
<1>2. CASE \E n \in DOMAIN dlq : Requeue(n)
  BY <1>2, SubjectStepInv DEF Requeue, StepWith
<1>3. CASE \E g \in Groups, max \in Batch, lease \in Leases \cup {GroupLease} :
             Take(g, max, lease)
  BY <1>3, TakeInv
<1>4. CASE \E h \in handed : Done(h)
  BY <1>4, DoneInv
<1>5. CASE \E h \in handed, delay \in Delays \cup {GroupBackoff} : Fail(h, delay)
  BY <1>5, FailInv
<1>6. CASE \E g \in Groups, setting \in Settings : QueueConfig(g, setting)
  BY <1>6, ConfigInv
<1>7. CASE \E g \in Groups : QueueDelete(g)
  BY <1>7, DeleteInv
<1>8. CASE Tick \/ Crash \/ UNCHANGED vars \/ \E d \in dying : DeadLetter(d)
  BY <1>8, OtherStepInv
<1>9. CASE PowerCut
  BY <1>9, PowerCutInv
<1> QED
  BY <1>1, <1>2, <1>3, <1>4, <1>5, <1>6, <1>7, <1>8, <1>9 DEF Next

(***************************************************************************)
(* Type correctness of the queue groups.                                    *)
(***************************************************************************)
THEOREM QueueTypeCorrect == Spec => []TypeOK
<1>1. QueueInv => TypeOK
  BY DEF QueueInv
<1> QED
  BY <1>1, QueueInvInit, QueueInvNext, PTL DEF Spec

(***************************************************************************)
(* No job is lost: below `next' every message of the log is leased,         *)
(* finished, dead or was given away, with workers that answer late or       *)
(* twice, brokers that crash and power cuts that take the records back to   *)
(* an earlier commit (bjm_take, queue_release, queue_store).                *)
(***************************************************************************)
THEOREM JobsAreAccountedFor == Spec => []JobsAccountedFor
<1>1. QueueInv => JobsAccountedFor
  <2> SUFFICES ASSUME QueueInv, NEW g \in known, NEW i \in base + 1 .. queues[g].next - 1
               PROVE  i \in Leased(g) \cup finished[g] \cup died[g] \cup loose[g]
    BY DEF JobsAccountedFor
  <2>1. /\ queues[g] \in Record /\ base \in Nat
        /\ Covers(base, queues[g], finished[g], died[g], loose[g])
    BY DEF QueueInv, TypeOK, SubjectTypeOK, RecordInv
  <2>2. queues[g].next \in Nat
    BY <2>1 DEF Record
  <2>3. \/ i \in finished[g] \/ i \in died[g] \/ i \in loose[g]
        \/ \E e \in queues[g].inflight : e.index = i
    BY <2>1, <2>2 DEF Covers
  <2> QED
    BY <2>3 DEF Leased
<1> QED
  BY <1>1, QueueInvInit, QueueInvNext, PTL DEF Spec

(***************************************************************************)
(* A job leaves the in-flight table once and for one reason (queue_release, *)
(* bjm_take), as long as the machine keeps its power: takes and answers are *)
(* committed without a sync.                                                *)
(***************************************************************************)
THEOREM JobsAreOverOnce ==
  ASSUME PowerLoss = FALSE
  PROVE  Spec => []JobsLeaveOnce
<1>1. QueueInv => JobsLeaveOnce
  <2> SUFFICES ASSUME QueueInv, NEW g \in known
               PROVE
                 /\ \A e, f \in queues[g].inflight : e.index = f.index => e = f
                 /\ Leased(g) \cap (finished[g] \cup died[g] \cup loose[g]) = {}
                 /\ \A i \in finished[g] \cup died[g] \cup loose[g] : i < queues[g].next
                 /\ finished[g] \cap died[g] = {}
    BY DEF JobsLeaveOnce
  <2>1. /\ Covers(base, queues[g], finished[g], died[g], loose[g])
        /\ OnceOver(queues[g], finished[g], died[g], loose[g])
    BY DEF QueueInv, RecordInv
  <2>2. finished[g] \subseteq Nat /\ died[g] \subseteq Nat /\ loose[g] \subseteq Nat
    BY DEF QueueInv, TypeOK
  <2>3. \A i : i \in Leased(g) <=> \E e \in queues[g].inflight : e.index = i
    BY DEF Leased
  <2>4. Leased(g) \cap (finished[g] \cup died[g] \cup loose[g]) = {}
    BY <2>1, <2>3 DEF OnceOver
  <2> QED
    BY <2>1, <2>2, <2>4 DEF Covers, OnceOver
<1> QED
  BY <1>1, QueueInvInit, QueueInvNext, PTL DEF Spec

(***************************************************************************)
(* Whatever the groups do, the subject they share makes one of its own      *)
(* steps, with the trims held back by what the groups owe, or none.         *)
(***************************************************************************)
LEMMA SubjectUnderGroups ==
  ASSUME QueueInv, [Next]_vars
  PROVE  StepWith(Owed) \/ UNCHANGED subjectVars
<1>1. CASE SubjectStep
  BY <1>1 DEF SubjectStep, StepWith
<1>2. CASE \E n \in DOMAIN dlq : Requeue(n)
  BY <1>2 DEF Requeue, StepWith
<1>3. CASE \E g \in Groups, max \in Batch, lease \in Leases \cup {GroupLease} :
             Take(g, max, lease)
  BY <1>3, TakeIsTaken DEF Taken
<1>4. CASE \/ \E d \in dying : DeadLetter(d)
           \/ \E h \in handed : Done(h)
           \/ \E h \in handed, delay \in Delays \cup {GroupBackoff} : Fail(h, delay)
  BY <1>4 DEF DeadLetter, Done, Fail
<1>5. CASE \/ \E g \in Groups, setting \in Settings : QueueConfig(g, setting)
           \/ \E g \in Groups : QueueDelete(g)
           \/ Tick \/ Crash
  BY <1>5 DEF QueueConfig, QueueDelete, Tick, Crash
<1>6. CASE PowerCut
  BY <1>6 DEF PowerCut, StepWith
<1>7. CASE UNCHANGED vars
  BY <1>7 DEF vars
<1> QED
  BY <1>1, <1>2, <1>3, <1>4, <1>5, <1>6, <1>7 DEF Next

(***************************************************************************)
(* Indexes are stable in a subject with queue groups too: dead-lettering,   *)
(* requeues and trims held back by the groups included (bjm_trim,           *)
(* bjm_requeue).                                                            *)
(***************************************************************************)
THEOREM IndexesAreStableWithGroups == Spec => IndexesNeverShift
<1>1. QueueInv /\ [Next]_vars => [Grows]_subjectVars
  BY SubjectUnderGroups, OwedIsNat, LogGrows DEF QueueInv
<1> QED
  BY <1>1, QueueInvInit, QueueInvNext, PTL DEF Spec, IndexesNeverShift, Grows

(***************************************************************************)
(* No step of a worker takes a reader's receipt back.                       *)
(***************************************************************************)
THEOREM ReceiptsMoveForwardWithGroups ==
  ASSUME PowerLoss = FALSE
  PROVE  Spec => ReceiptsMoveForward
<1>1. QueueInv /\ [Next]_vars => [Forward]_subjectVars
  BY SubjectUnderGroups, OwedIsNat, ReceiptsForward DEF QueueInv
<1> QED
  BY <1>1, QueueInvInit, QueueInvNext, PTL DEF Spec, ReceiptsMoveForward, Forward

(***************************************************************************)
(* Readers and workers share the trims: what the groups owe never lets a    *)
(* trim pass a receipt (bjm_trim takes the least of the two).               *)
(***************************************************************************)
THEOREM RetentionWaitsForReadersWithGroups ==
  ASSUME ForceFlags = {FALSE}, PowerLoss = FALSE
  PROVE  Spec => StaysReadable
<1>1. QueueInv /\ [Next]_vars => [Readable]_subjectVars
  BY SubjectUnderGroups, OwedIsNat, ReadersWaitedFor DEF QueueInv
<1> QED
  BY <1>1, QueueInvInit, QueueInvNext, PTL DEF Spec, StaysReadable, Readable

(***************************************************************************)
(* Retention waits for workers: without forced trims no trim discards a job *)
(* that is leased or was never handed out (bjm_trim, bjm_queue_floor).      *)
(***************************************************************************)
THEOREM RetentionWaitsForWorkers ==
  ASSUME ForceFlags = {FALSE}
  PROVE  Spec => OwedJobsKept
<1> DEFINE A == \A g \in known : base' > base =>
                  /\ base' < queues[g].next
                  /\ \A e \in queues[g].inflight : base' < e.index
<1>1. QueueInv /\ [Next]_vars => [A]_vars
  <2> SUFFICES ASSUME QueueInv, Next, NEW g \in known, base' > base
               PROVE  /\ base' < queues[g].next
                      /\ \A e \in queues[g].inflight : base' < e.index
    OBVIOUS
  <2>1. base' # base
    BY DEF QueueInv, TypeOK, SubjectTypeOK
  <2>2. StepWith(Owed)
    BY <2>1, SubjectUnderGroups DEF subjectVars
  <2>3. PICK before \in 1 .. last + 2, force \in ForceFlags : Trim(before, force, Owed)
    <3>1. Publish \/ CursorStep \/ LosePower => base' = base
      BY DEF Publish, CursorStep, Subscribe, Ack, Unsubscribe, LosePower, logVars
    <3> QED
      BY <2>1, <2>2, <3>1 DEF StepWith
  <2>4. base' \in Nat /\ \A f \in Owed : base' <= f
    BY <2>3, TrimBounds, OwedIsNat DEF QueueInv
  <2>5. /\ queues[g].next - 1 \in Owed
        /\ \A e \in queues[g].inflight : e.index - 1 \in Owed
    BY DEF Owed
  <2>6. queues[g] \in Record
    BY DEF QueueInv, TypeOK
  <2> QED
    BY <2>4, <2>5, <2>6 DEF Record, Entry
<1> QED
  BY <1>1, QueueInvInit, QueueInvNext, PTL DEF Spec, OwedJobsKept

-----------------------------------------------------------------------------

(***************************************************************************)
(* Exclusive leases.  The invariant behind it: a worker's unexpired lease   *)
(* is an entry of its group's table; a job has one entry, so two workers    *)
(* with unexpired leases of one job would be holding the same lease.        *)
(***************************************************************************)
AsEntry(h) == [index |-> h.index, expires |-> h.expires, attempts |-> h.attempts]

LeasesRecorded ==
  \A h \in handed : h.expires > now =>
    h.group \in known /\ AsEntry(h) \in queues[h.group].inflight

LEMMA HandIsEntry ==
  ASSUME NEW h \in Hand, NEW k \in Hand, h.group = k.group, AsEntry(h) = AsEntry(k)
  PROVE  h = k
<1>1. h.index = k.index /\ h.expires = k.expires /\ h.attempts = k.attempts
  BY DEF AsEntry
<1> QED
  BY <1>1 DEF Hand

\* Two unexpired leases of one job are one.
LEMMA OneLease ==
  ASSUME QueueInv, LeasesRecorded, NEW h \in handed, NEW k \in handed,
         h.group = k.group, h.index = k.index, h.expires > now, k.expires > now
  PROVE  h = k
<1>1. h \in Hand /\ k \in Hand
  BY DEF QueueInv, TypeOK
<1>2. /\ h.group \in known
      /\ AsEntry(h) \in queues[h.group].inflight
      /\ AsEntry(k) \in queues[h.group].inflight
  BY DEF LeasesRecorded
<1>3. RecordInv(base, queues[h.group], finished[h.group], died[h.group], loose[h.group])
  BY <1>2 DEF QueueInv
<1>4. AsEntry(h).index = AsEntry(k).index
  BY DEF AsEntry
<1>5. AsEntry(h) = AsEntry(k)
  BY <1>2, <1>3, <1>4 DEF RecordInv, Covers, OnceOver
<1> QED
  BY <1>1, <1>5, HandIsEntry

LEMMA TakeRecordsLeases ==
  ASSUME QueueInv, LeasesRecorded, NEW g \in Groups, NEW max \in Batch,
         NEW asked \in Leases \cup {GroupLease}, Take(g, max, asked)
  PROVE  LeasesRecorded'
<1>1. PICK lease \in Nat : \E scanned, dead, again, new, table, upto :
        Taken(g, max, lease, scanned, dead, again, new, table, upto)
  BY TakeIsTaken
<1>2. PICK scanned, dead, again, new, table, upto :
        Taken(g, max, lease, scanned, dead, again, new, table, upto)
  BY <1>1
<1>3. now \in Nat /\ now' = now /\ known' = known \cup {g}
  BY <1>2 DEF Taken, QueueInv, TypeOK
<1>4. /\ queues'[g].inflight = table
      /\ \A k \in Groups : k # g => queues'[k] = queues[k]
  BY <1>2 DEF Taken, QueueInv, TypeOK
<1>5. again \subseteq table
  BY <1>2 DEF Taken
<1>6. \A e \in new : e.expires > now => e \in table
  BY <1>2, <1>3 DEF Taken, NewLease
<1>7. \A e \in QueueLoad(g).inflight : e.expires > now => e \in table
  <2>1. \A e \in scanned : e.expires <= now /\ e.expires \in Nat
    BY <1>2, LoadedRecord DEF Taken, Expired, Record, Entry
  <2> QED
    BY <1>2, <1>3, <2>1 DEF Taken
<1> SUFFICES ASSUME NEW h \in handed', h.expires > now
             PROVE  h.group \in known' /\ AsEntry(h) \in queues'[h.group].inflight
  BY <1>3 DEF LeasesRecorded, AsEntry
<1>8. CASE h \in handed
  <2>1. h.group \in known /\ AsEntry(h) \in queues[h.group].inflight
    BY <1>8 DEF LeasesRecorded
  <2>2. h.group \in Groups /\ AsEntry(h).expires = h.expires
    BY <1>8 DEF QueueInv, TypeOK, Hand, AsEntry
  <2>3. CASE h.group = g
    <3>1. QueueLoad(g) = queues[g]
      BY <2>1, <2>3 DEF QueueLoad
    <3> QED
      BY <1>3, <1>4, <1>7, <2>1, <2>2, <2>3, <3>1
  <2>4. CASE h.group # g
    BY <1>3, <1>4, <2>1, <2>2, <2>4
  <2> QED
    BY <2>3, <2>4
<1>9. CASE h \notin handed
  <2>1. PICK e \in again \cup new : h = Given(g, e)
    BY <1>2, <1>9 DEF Taken
  <2>2. e \in Entry
    <3>1. QueueLoad(g) \in Record
      BY LoadedRecord
    <3>2. scanned \subseteq Entry
      BY <1>2, <3>1 DEF Taken, Expired, Record
    <3>3. again \subseteq Entry
      BY <1>2, <1>3, <3>2, EntryTypes DEF Taken
    <3>4. QueueLoad(g).next .. upto - 1 \subseteq Nat
      BY <3>1 DEF Record
    <3>5. new \subseteq Entry
      BY <1>2, <1>3, <3>4, EntryTypes DEF Taken
    <3> QED
      BY <3>3, <3>5
  <2>3. h.group = g /\ h.expires = e.expires
    BY <2>1 DEF Given
  <2>4. AsEntry(h) = e
    BY <2>1, <2>2 DEF Given, AsEntry, Entry
  <2>5. e \in table
    BY <1>5, <1>6, <2>3
  <2> QED
    BY <1>3, <1>4, <2>3, <2>4, <2>5
<1> QED
  BY <1>8, <1>9

LEMMA AnswerRecordsLeases ==
  ASSUME QueueInv, LeasesRecorded, LateAnswers = FALSE, NEW h \in handed,
         \/ Done(h)
         \/ \E delay \in Delays \cup {GroupBackoff} : Fail(h, delay)
  PROVE  LeasesRecorded'
<1>1. h \in Hand /\ h.expires > now /\ handed' = handed \ {h} /\ now' = now /\ known' = known
  BY DEF Done, Fail, InTime, Answered, QueueInv, TypeOK
<1>2. queues \in [Groups -> Record]
  BY DEF QueueInv, TypeOK
<1>3. \A g \in Groups : g # h.group => queues'[g] = queues[g]
  BY <1>2 DEF Done, Fail
<1>4. \A e \in queues[h.group].inflight : e \notin Found(h) => e \in queues'[h.group].inflight
  <2>1. h.group \in Groups
    BY <1>1 DEF Hand
  <2>2. CASE Done(h)
    BY <1>2, <2>1, <2>2 DEF Done, Record
  <2>3. ASSUME NEW delay \in Delays \cup {GroupBackoff}, Fail(h, delay)
        PROVE  \A e \in queues[h.group].inflight :
                 e \notin Found(h) => e \in queues'[h.group].inflight
    BY <1>2, <2>1, <2>3 DEF Fail, Record
  <2> QED
    BY <2>2, <2>3
<1> SUFFICES ASSUME NEW k \in handed', k.expires > now
             PROVE  k.group \in known' /\ AsEntry(k) \in queues'[k.group].inflight
  BY <1>1 DEF LeasesRecorded, AsEntry
<1>5. k \in handed /\ k # h
  BY <1>1
<1>6. k.group \in known /\ AsEntry(k) \in queues[k.group].inflight /\ k.group \in Groups
  BY <1>5 DEF LeasesRecorded, QueueInv, TypeOK, Hand
<1>7. CASE k.group # h.group
  BY <1>1, <1>3, <1>6, <1>7
<1>8. CASE k.group = h.group
  <2>1. k.index # h.index
    BY <1>1, <1>5, <1>8, OneLease
  <2>2. AsEntry(k) \notin Found(h)
    BY <2>1 DEF AsEntry, Found
  <2> QED
    BY <1>1, <1>4, <1>6, <1>8, <2>2
<1> QED
  BY <1>7, <1>8

LEMMA OthersRecordLeases ==
  ASSUME QueueInv, LeasesRecorded, LateAnswers = FALSE, DeletesInUse = FALSE,
         \/ SubjectStep \/ Tick \/ Crash \/ UNCHANGED vars
         \/ \E d \in dying : DeadLetter(d)
         \/ \E n \in DOMAIN dlq : Requeue(n)
         \/ \E g \in Groups, setting \in Settings : QueueConfig(g, setting)
         \/ \E g \in Groups : QueueDelete(g)
  PROVE  LeasesRecorded'
<1>1. CASE \/ SubjectStep \/ Tick \/ Crash \/ UNCHANGED vars
           \/ \E d \in dying : DeadLetter(d)
           \/ \E n \in DOMAIN dlq : Requeue(n)
  <2>1. /\ known' = known /\ queues' = queues /\ handed' \subseteq handed
        /\ now' \in {now, now + 1} /\ now \in Nat
    BY <1>1 DEF SubjectStep, Tick, Crash, DeadLetter, Requeue, vars, queueVars,
       QueueInv, TypeOK
  <2>2. \A h \in handed : h.expires \in Nat
    BY DEF QueueInv, TypeOK, Hand
  <2> QED
    BY <2>1, <2>2 DEF LeasesRecorded, AsEntry
<1>2. ASSUME NEW g \in Groups, NEW setting \in Settings, QueueConfig(g, setting)
      PROVE  LeasesRecorded'
  <2>1. known' = known \cup {g} /\ now' = now /\ handed' = handed
    BY <1>2 DEF QueueConfig, QueueStore
  <2>2. \A k \in known : queues'[k].inflight = queues[k].inflight
    BY <1>2 DEF QueueConfig, QueueStore, QueueLoad, QueueInv, TypeOK, Record
  <2> QED
    BY <2>1, <2>2 DEF LeasesRecorded, AsEntry
<1>3. ASSUME NEW g \in Groups, QueueDelete(g)
      PROVE  LeasesRecorded'
  <2>1. /\ known' = known \ {g} /\ now' = now /\ handed' = handed
        /\ \A h \in handed : h.group = g => h.expires <= now
        /\ \A k \in Groups : k # g => queues'[k] = queues[k]
    BY <1>3 DEF QueueDelete, QueueInv, TypeOK
  <2>2. ASSUME NEW h \in handed, h.expires > now
        PROVE  h.group # g /\ h.group \in Groups
    <3>1. h \in Hand /\ now \in Nat
      BY DEF QueueInv, TypeOK
    <3>2. h.expires \in Nat /\ h.group \in Groups
      BY <3>1 DEF Hand
    <3>3. ~(h.expires <= now)
      BY <2>2, <3>1, <3>2
    <3> QED
      BY <2>1, <3>2, <3>3
  <2> QED
    BY <2>1, <2>2 DEF LeasesRecorded, AsEntry
<1> QED
  BY <1>1, <1>2, <1>3

(***************************************************************************)
(* A lease is exclusive: among workers that answer before their lease runs  *)
(* out or not at all, no two hold an unexpired lease of the same job of the *)
(* same group (bjm_take hands out again only what has expired).  A deleted  *)
(* group and a power cut forget leases that workers still hold, and so both *)
(* are excluded.                                                            *)
(***************************************************************************)
THEOREM LeasesAreExclusive ==
  ASSUME LateAnswers = FALSE, DeletesInUse = FALSE, PowerLoss = FALSE
  PROVE  Spec => []ExclusiveLease
<1>1. Init => QueueInv /\ LeasesRecorded
  BY QueueInvInit DEF Init, LeasesRecorded
<1>2. QueueInv /\ LeasesRecorded /\ [Next]_vars => QueueInv' /\ LeasesRecorded'
  <2> SUFFICES ASSUME QueueInv, LeasesRecorded, [Next]_vars
               PROVE  LeasesRecorded'
    BY QueueInvNext
  <2>1. CASE \E g \in Groups, max \in Batch, lease \in Leases \cup {GroupLease} :
               Take(g, max, lease)
    BY <2>1, TakeRecordsLeases
  <2>2. CASE \/ \E h \in handed : Done(h)
             \/ \E h \in handed, delay \in Delays \cup {GroupBackoff} : Fail(h, delay)
    BY <2>2, AnswerRecordsLeases
  <2>3. ~PowerCut
    BY DEF PowerCut, LosePower
  <2> QED
    BY <2>1, <2>2, <2>3, OthersRecordLeases DEF Next
<1>3. QueueInv /\ LeasesRecorded => ExclusiveLease
  BY OneLease DEF ExclusiveLease
<1> QED
  BY <1>1, <1>2, <1>3, PTL DEF Spec

-----------------------------------------------------------------------------

(***************************************************************************)
(* Dead letters.  The property is inductive with QueueInv: a take replaces  *)
(* `dying' only when it is empty, and each letter leaves it for the log.    *)
(***************************************************************************)
HasLetter(g, i) ==
  \/ i <= base
  \/ \E d \in dying : d.group = g /\ d.index = i
  \/ \E n \in DOMAIN dlq : dlq[n].group = g /\ dlq[n].index = i

LEMMA TakeKeepsLetters ==
  ASSUME QueueInv, HasDeadChannel, DeadJobsHaveLetters, NEW g \in Groups,
         NEW max \in Batch, NEW asked \in Leases \cup {GroupLease},
         Take(g, max, asked)
  PROVE  DeadJobsHaveLetters'
<1>1. PICK lease \in Nat : \E scanned, dead, again, new, table, upto :
        Taken(g, max, lease, scanned, dead, again, new, table, upto)
  BY TakeIsTaken
<1>2. PICK scanned, dead, again, new, table, upto :
        Taken(g, max, lease, scanned, dead, again, new, table, upto)
  BY <1>1
<1>3. /\ base' = base /\ dlq' = dlq /\ dying = {} /\ known' = known \cup {g}
      /\ dying' = {[group |-> g, index |-> e.index, attempts |-> e.attempts] : e \in dead}
      /\ died' = [died EXCEPT ![g] = @ \cup {e.index : e \in dead}]
  BY <1>2 DEF Taken, subjectVars
<1>4. \A e \in dead : \E d \in dying' : d.group = g /\ d.index = e.index
  <2> SUFFICES ASSUME NEW e \in dead
               PROVE  \E d \in dying' : d.group = g /\ d.index = e.index
    OBVIOUS
  <2> DEFINE d == [group |-> g, index |-> e.index, attempts |-> e.attempts]
  <2>1. d \in dying' /\ d.group = g /\ d.index = e.index
    BY <1>3
  <2> QED
    BY <2>1
<1>5. ASSUME NEW k \in known', NEW i \in died'[k]
      PROVE  HasLetter(k, i)'
  <2>1. k \in Groups /\ died \in [Groups -> SUBSET Nat]
    BY <1>3 DEF QueueInv, TypeOK
  <2>2. CASE i \in died[k]
    <3>1. k \in known
      BY <2>1, <2>2 DEF QueueInv
    <3>2. HasLetter(k, i)
      BY <2>2, <3>1 DEF DeadJobsHaveLetters, HasLetter
    <3> QED
      BY <1>3, <3>2 DEF HasLetter
  <2>3. CASE i \notin died[k]
    <3>1. k = g /\ \E e \in dead : i = e.index
      BY <1>3, <1>5, <2>1, <2>3
    <3> QED
      BY <1>4, <3>1 DEF HasLetter
  <2> QED
    BY <2>2, <2>3
<1> QED
  BY <1>5 DEF DeadJobsHaveLetters, HasLetter

LEMMA DeadLetterKeepsLetters ==
  ASSUME QueueInv, DeadJobsHaveLetters, HasDeadChannel, NEW d \in dying, DeadLetter(d)
  PROVE  DeadJobsHaveLetters'
<1>1. /\ base' = base /\ known' = known /\ died' = died
      /\ dying' = dying \ {d}
      /\ dlq' = IF d.index > base THEN Append(dlq, d) ELSE dlq
      /\ base \in Nat /\ d.index \in Nat /\ dlq \in Seq(Letter) /\ d \in Letter
  BY DEF DeadLetter, subjectVars, QueueInv, TypeOK, SubjectTypeOK, Letter
<1>2. \A n \in DOMAIN dlq : n \in DOMAIN dlq' /\ dlq'[n] = dlq[n]
  BY <1>1
<1>3. d.index > base => Len(dlq) + 1 \in DOMAIN dlq' /\ dlq'[Len(dlq) + 1] = d
  BY <1>1
<1>4. ASSUME NEW k \in known, NEW i \in died[k]
      PROVE  HasLetter(k, i)'
  <2>1. HasLetter(k, i)
    BY <1>4 DEF DeadJobsHaveLetters, HasLetter
  <2>2. CASE d.group = k /\ d.index = i
    BY <1>1, <1>3, <2>2 DEF HasLetter
  <2>3. CASE ~(d.group = k /\ d.index = i)
    BY <1>1, <1>2, <2>1, <2>3 DEF HasLetter
  <2> QED
    BY <2>2, <2>3
<1> QED
  BY <1>1, <1>4 DEF DeadJobsHaveLetters, HasLetter

LEMMA OthersKeepLetters ==
  ASSUME QueueInv, QueueInv', DeadJobsHaveLetters, HasDeadChannel, Crashes = FALSE,
         \/ SubjectStep \/ Tick \/ Crash \/ UNCHANGED vars
         \/ \E n \in DOMAIN dlq : Requeue(n)
         \/ \E h \in handed : Done(h)
         \/ \E h \in handed, delay \in Delays \cup {GroupBackoff} : Fail(h, delay)
         \/ \E g \in Groups, setting \in Settings : QueueConfig(g, setting)
         \/ \E g \in Groups : QueueDelete(g)
         \/ PowerCut
  PROVE  DeadJobsHaveLetters'
<1>1. dying' = dying /\ dlq' = dlq
  BY DEF SubjectStep, Tick, Crash, Requeue, Done, Fail, QueueConfig, QueueDelete,
     PowerCut, vars, queueVars
<1>2. base \in Nat /\ base' \in Nat /\ base' >= base
  <2>1. base \in Nat /\ base' \in Nat
    BY DEF QueueInv, SubjectInv, SubjectTypeOK
  <2>2. CASE SubjectStep \/ PowerCut \/ \E n \in DOMAIN dlq : Requeue(n)
    <3>1. CASE \E before \in 1 .. last + 2, force \in ForceFlags : Trim(before, force, Owed)
      <4>1. SubjectInv /\ Owed \in SUBSET Nat
        BY OwedIsNat DEF QueueInv
      <4>2. PICK before \in 1 .. last + 2, force \in ForceFlags :
              Trim(before, force, Owed)
        BY <3>1
      <4>3. base' > base
        BY <4>1, <4>2, TrimBounds
      <4> QED
        BY <2>1, <4>3
    <3>2. CASE Publish \/ CursorStep \/ LosePower
      BY <2>1, <3>2 DEF Publish, CursorStep, Subscribe, Ack, Unsubscribe, LosePower,
         logVars
    <3> QED
      BY <2>2, <3>1, <3>2 DEF SubjectStep, Requeue, PowerCut
  <2>3. CASE ~(\/ SubjectStep \/ PowerCut \/ \E n \in DOMAIN dlq : Requeue(n))
    <3>1. base' = base
      BY <2>3 DEF Tick, Crash, Done, Fail, QueueConfig, QueueDelete, vars, subjectVars
    <3> QED
      BY <2>1, <3>1
  <2> QED
    BY <2>2, <2>3
<1>3. \A g \in Groups : died'[g] \in {died[g], {}}
  BY DEF SubjectStep, Tick, Crash, Requeue, Done, Fail, QueueConfig, QueueDelete,
     PowerCut, vars, queueVars, QueueInv, TypeOK
<1>4. ASSUME NEW k \in known', NEW i \in died'[k]
      PROVE  HasLetter(k, i)'
  <2>1. k \in Groups /\ i \in died[k] /\ i \in Nat
    BY <1>3 DEF QueueInv, TypeOK
  <2>2. k \in known
    BY <2>1 DEF QueueInv
  <2>3. HasLetter(k, i)
    BY <2>1, <2>2 DEF DeadJobsHaveLetters, HasLetter
  <2> QED
    BY <1>1, <1>2, <2>1, <2>3 DEF HasLetter
<1> QED
  BY <1>4 DEF DeadJobsHaveLetters, HasLetter

(***************************************************************************)
(* Every job that ran out of attempts has a letter in the dead-letter       *)
(* channel, or will have when the take that gave up on it ends, as long as  *)
(* the broker does not die in the middle of that take.                      *)
(***************************************************************************)
THEOREM DeadJobsAreRepublished ==
  ASSUME Crashes = FALSE, HasDeadChannel
  PROVE  Spec => []DeadJobsHaveLetters
<1>1. Init => QueueInv /\ DeadJobsHaveLetters
  BY QueueInvInit DEF Init, DeadJobsHaveLetters
<1>2. QueueInv /\ DeadJobsHaveLetters /\ [Next]_vars => QueueInv' /\ DeadJobsHaveLetters'
  <2> SUFFICES ASSUME QueueInv, DeadJobsHaveLetters, [Next]_vars
               PROVE  DeadJobsHaveLetters'
    BY QueueInvNext
  <2>1. QueueInv'
    BY QueueInvNext
  <2>2. CASE \E g \in Groups, max \in Batch, lease \in Leases \cup {GroupLease} :
               Take(g, max, lease)
    BY <2>2, TakeKeepsLetters
  <2>3. CASE \E d \in dying : DeadLetter(d)
    BY <2>3, DeadLetterKeepsLetters
  <2> QED
    BY <2>1, <2>2, <2>3, OthersKeepLetters DEF Next
<1> QED
  BY <1>1, <1>2, PTL DEF Spec

-----------------------------------------------------------------------------

(***************************************************************************)
(* The refinement of JobBoard.  What one step may make of a group's record, *)
(* as the board sees it: `next' does not go back, and what is in the table  *)
(* was in it, tried as often or once more, or is tried for the first time.  *)
(***************************************************************************)
Limit == DefaultSetting.maxAttempts

\* A limit on attempts that is no laxer.
Allowed(n) == Limit # 0 => n \in 1 .. Limit

WithinLimit(q) ==
  /\ Allowed(q.setting.maxAttempts)
  /\ \A e \in q.inflight : e.attempts >= 1 /\ (Limit # 0 => e.attempts <= Limit)

Continues(q, r) ==
  /\ q.next <= r.next
  /\ \A f \in r.inflight :
       \/ \E e \in q.inflight :
            /\ e.index = f.index
            /\ \/ f.attempts = e.attempts
               \/ f.attempts = e.attempts + 1 /\ (Limit # 0 => e.attempts < Limit)
       \/ f.index >= q.next /\ f.attempts = 1

BoardInv == QueueInv /\ \A g \in Groups : WithinLimit(QueueLoad(g))

\* A group that was deleted, or not used yet.
IsFresh(q) == q.next = base + 1 /\ q.inflight = {} /\ q.setting = DefaultSetting

LEMMA LimitIsNat == Limit \in Nat
  BY QueueAssumption DEF Limit, Setting

LEMMA DefaultIsAllowed == Allowed(DefaultSetting.maxAttempts)
  BY LimitIsNat DEF Limit, Allowed

LEMMA ContinuesWithin ==
  ASSUME NEW q \in Record, NEW r \in Record, WithinLimit(q), Continues(q, r),
         Allowed(r.setting.maxAttempts)
  PROVE  WithinLimit(r)
<1>1. ASSUME NEW f \in r.inflight
      PROVE  f.attempts >= 1 /\ (Limit # 0 => f.attempts <= Limit)
  <2>1. f.attempts \in Nat /\ Limit \in Nat /\ \A e \in q.inflight : e.attempts \in Nat
    BY LimitIsNat DEF Record, Entry
  <2> QED
    BY <2>1 DEF Continues, WithinLimit
<1> QED
  BY <1>1 DEF WithinLimit

\* How often a job was tried, read off its group's record.
TriesIn(q, i) ==
  IF i >= q.next THEN 0
  ELSE IF {e \in q.inflight : e.index = i} # {}
       THEN (CHOOSE e \in {k \in q.inflight : k.index = i} : TRUE).attempts ELSE Over

LEMMA TriesRead ==
  ASSUME NEW q \in Record, \A e, f \in q.inflight : e.index = f.index => e = f,
         NEW i \in Nat
  PROVE  /\ i >= q.next => TriesIn(q, i) = 0
         /\ i < q.next => \/ TriesIn(q, i) = Over /\ \A e \in q.inflight : e.index # i
                          \/ \E e \in q.inflight : e.index = i /\ TriesIn(q, i) = e.attempts
<1>1. q.next \in Nat
  BY DEF Record
<1>2. CASE i >= q.next
  BY <1>1, <1>2 DEF TriesIn
<1>3. CASE i < q.next /\ {e \in q.inflight : e.index = i} = {}
  BY <1>1, <1>3 DEF TriesIn
<1>4. CASE i < q.next /\ {e \in q.inflight : e.index = i} # {}
  <2> DEFINE c == CHOOSE e \in {k \in q.inflight : k.index = i} : TRUE
  <2>1. c \in {k \in q.inflight : k.index = i}
    BY <1>4
  <2>2. TriesIn(q, i) = c.attempts
    BY <1>1, <1>4 DEF TriesIn
  <2> HIDE DEF c
  <2> QED
    BY <1>1, <1>4, <2>1, <2>2
<1> QED
  BY <1>1, <1>2, <1>3, <1>4

\* One step of a record is one step of each of its jobs on the board.
LEMMA ContinuesIsProgress ==
  ASSUME NEW q \in Record, NEW r \in Record, WithinLimit(q), Continues(q, r),
         \A e \in q.inflight : e.index < q.next,
         \A e, f \in q.inflight : e.index = f.index => e = f,
         \A e, f \in r.inflight : e.index = f.index => e = f,
         NEW i \in Nat
  PROVE  \/ TriesIn(r, i) = TriesIn(q, i)
         \/ TriesIn(q, i) # Over /\ TriesIn(r, i) = Over
         \/ /\ TriesIn(q, i) # Over /\ TriesIn(r, i) = TriesIn(q, i) + 1
            /\ Limit # 0 => TriesIn(r, i) <= Limit
<1>1. /\ q.next \in Nat /\ r.next \in Nat /\ q.next <= r.next /\ Limit \in Nat
      /\ \A e \in q.inflight : e.attempts \in Nat /\ e.index \in Nat
      /\ \A e \in r.inflight : e.attempts \in Nat /\ e.index \in Nat
  BY LimitIsNat DEF Record, Entry, Continues
<1>2. \A n \in Nat : n # Over
  BY DEF Over
<1>3. CASE i >= r.next
  <2>1. TriesIn(r, i) = 0 /\ TriesIn(q, i) = 0
    BY <1>1, <1>3, TriesRead
  <2> QED
    BY <2>1
<1>4. CASE i < r.next /\ TriesIn(r, i) = Over
  BY <1>4
<1>5. ASSUME i < r.next, NEW f \in r.inflight, f.index = i, TriesIn(r, i) = f.attempts
      PROVE  \/ TriesIn(r, i) = TriesIn(q, i)
             \/ /\ TriesIn(q, i) # Over /\ TriesIn(r, i) = TriesIn(q, i) + 1
                /\ Limit # 0 => TriesIn(r, i) <= Limit
  <2>1. CASE \E e \in q.inflight :
            /\ e.index = f.index
            /\ \/ f.attempts = e.attempts
               \/ f.attempts = e.attempts + 1 /\ (Limit # 0 => e.attempts < Limit)
    <3>1. PICK e \in q.inflight :
            /\ e.index = f.index
            /\ \/ f.attempts = e.attempts
               \/ f.attempts = e.attempts + 1 /\ (Limit # 0 => e.attempts < Limit)
      BY <2>1
    <3>2. i < q.next
      BY <1>5, <3>1
    <3>3. TriesIn(q, i) = e.attempts
      BY <1>5, <3>1, <3>2, TriesRead
    <3> QED
      BY <1>1, <1>2, <1>5, <3>1, <3>3
  <2>2. CASE f.index >= q.next /\ f.attempts = 1
    <3>1. TriesIn(q, i) = 0
      BY <1>5, <2>2, TriesRead
    <3> QED
      BY <1>1, <1>2, <1>5, <2>2, <3>1
  <2> QED
    BY <2>1, <2>2 DEF Continues
<1> QED
  BY <1>1, <1>3, <1>4, <1>5, TriesRead

\* Jobs are started in order: the untried ones are those from `next' on.
LEMMA UntriedAreLast ==
  ASSUME NEW q \in Record, WithinLimit(q),
         \A e, f \in q.inflight : e.index = f.index => e = f,
         NEW i \in Nat, NEW j \in Nat, i < j, TriesIn(q, i) = 0
  PROVE  TriesIn(q, j) = 0
<1>1. q.next \in Nat
  BY DEF Record
<1>2. i >= q.next
  BY <1>1, TriesRead DEF WithinLimit, Over
<1> QED
  BY <1>1, <1>2, TriesRead

\* A group whose record a step leaves alone; one that has none may see the
\* base of the log rise.
LEMMA UntouchedContinues ==
  ASSUME BoardInv, QueueInv', NEW g \in Groups, queues'[g] = queues[g],
         known' \cap {g} = known \cap {g}, base' >= base
  PROVE  /\ Continues(QueueLoad(g), QueueLoad(g)')
         /\ Allowed(QueueLoad(g)'.setting.maxAttempts)
<1>1. QueueLoad(g) \in Record /\ WithinLimit(QueueLoad(g))
  BY LoadedRecord DEF BoardInv
<1>2. CASE g \in known
  <2>1. QueueLoad(g)' = QueueLoad(g)
    BY <1>2 DEF QueueLoad
  <2>2. QueueLoad(g).next \in Nat /\ \A e \in QueueLoad(g).inflight : e.attempts \in Nat
    BY <1>1 DEF Record, Entry
  <2> QED
    BY <1>1, <2>1, <2>2 DEF Continues, WithinLimit
<1>3. CASE g \notin known
  <2>1. /\ QueueLoad(g).next = base + 1 /\ QueueLoad(g)'.next = base' + 1
        /\ QueueLoad(g)'.inflight = {} /\ QueueLoad(g)'.setting = DefaultSetting
    BY <1>3 DEF QueueLoad, Fresh
  <2>2. base \in Nat /\ base' \in Nat
    BY DEF BoardInv, QueueInv, TypeOK, SubjectTypeOK
  <2>3. base + 1 <= base' + 1
    <3>1. \A a, b \in Nat : b >= a => a + 1 <= b + 1
      OBVIOUS
    <3> QED
      BY <2>2, <3>1, Zenon
  <2>4. Continues(QueueLoad(g), QueueLoad(g)')
    BY <2>1, <2>3 DEF Continues
  <2> QED
    BY <2>1, <2>4, DefaultIsAllowed
<1> QED
  BY <1>2, <1>3

\* bjm_take: what is leased again had attempts left.
LEMMA TakeContinues ==
  ASSUME BoardInv, NEW g \in Groups, NEW max,
         NEW asked \in Leases \cup {GroupLease}, Take(g, max, asked)
  PROVE  /\ Continues(QueueLoad(g), QueueLoad(g)')
         /\ Allowed(QueueLoad(g)'.setting.maxAttempts)
         /\ base' = base /\ known' = known \cup {g}
         /\ \A k \in Groups : k # g => queues'[k] = queues[k]
<1>1. PICK lease \in Nat : \E scanned, dead, again, new, table, upto :
        Taken(g, max, lease, scanned, dead, again, new, table, upto)
  BY TakeIsTaken DEF BoardInv
<1>2. PICK scanned, dead, again, new, table, upto :
        Taken(g, max, lease, scanned, dead, again, new, table, upto)
  BY <1>1
<1> DEFINE q == QueueLoad(g)
           r == [next |-> upto, setting |-> [q.setting EXCEPT !.lease = lease],
                 inflight |-> table, deadTotal |-> q.deadTotal + Cardinality(dead)]
<1>3. q \in Record /\ WithinLimit(q) /\ queues \in [Groups -> Record] /\ last \in Nat
  BY LoadedRecord DEF BoardInv, QueueInv, TypeOK, SubjectTypeOK
<1>4. /\ q.next \in Nat /\ q.setting \in Setting
      /\ \A e \in q.inflight : e \in Entry
  BY <1>3 DEF Record
<1>5. /\ scanned \subseteq q.inflight
      /\ dead = {e \in scanned : Exhausted(q, e)}
      /\ again = {Renewed(e, lease) : e \in scanned \ dead}
      /\ upto \in q.next .. last + 1
      /\ new = {NewLease(i, lease) : i \in q.next .. upto - 1}
      /\ table \subseteq (q.inflight \cup again) \cup new
      /\ queues' = [queues EXCEPT ![g] = r] /\ known' = known \cup {g}
      /\ UNCHANGED subjectVars
  BY <1>2 DEF Taken, Expired
<1>6. r.next = upto /\ r.inflight = table /\ r.setting.maxAttempts = q.setting.maxAttempts
  BY <1>4 DEF Setting
<1>7. queues'[g] = r /\ \A k \in Groups : k # g => queues'[k] = queues[k]
  BY <1>3, <1>5
<1>8. QueueLoad(g)' = r /\ base' = base
  BY <1>5, <1>7 DEF QueueLoad, subjectVars
<1> HIDE DEF q, r
<1>9. ASSUME NEW f \in again
      PROVE  \E e \in q.inflight :
               /\ e.index = f.index
               /\ f.attempts = e.attempts + 1 /\ (Limit # 0 => e.attempts < Limit)
  <2>1. PICK e \in scanned \ dead : f = Renewed(e, lease)
    BY <1>5, <1>9
  <2>2. f.index = e.index /\ f.attempts = e.attempts + 1
    BY <2>1 DEF Renewed
  <2>3. e \in q.inflight /\ ~Exhausted(q, e)
    BY <1>5, <2>1
  <2>4. e.attempts \in Nat /\ Limit \in Nat /\ Allowed(q.setting.maxAttempts)
    BY <1>3, <1>4, <2>3, LimitIsNat DEF Entry, WithinLimit
  <2>5. Limit # 0 => e.attempts < Limit
    <3>1. Limit # 0 => /\ q.setting.maxAttempts \in Nat \ {0}
                       /\ q.setting.maxAttempts <= Limit
      BY <2>4 DEF Allowed
    <3>2. q.setting.maxAttempts # 0 => ~(e.attempts >= q.setting.maxAttempts)
      BY <2>3 DEF Exhausted
    <3> QED
      BY <2>4, <3>1, <3>2
  <2> QED
    BY <2>2, <2>3, <2>5
<1>10. ASSUME NEW f \in new
       PROVE  f.index >= q.next /\ f.attempts = 1
  <2>1. PICK i \in q.next .. upto - 1 : f = NewLease(i, lease)
    BY <1>5, <1>10
  <2>2. f.index = i /\ f.attempts = 1
    BY <2>1 DEF NewLease
  <2> QED
    BY <1>3, <1>4, <1>5, <2>1, <2>2
<1>11. Continues(q, r)
  <2>1. q.next <= r.next
    BY <1>3, <1>4, <1>5, <1>6
  <2>2. ASSUME NEW f \in r.inflight, f \in q.inflight
        PROVE  \E e \in q.inflight : e.index = f.index /\ f.attempts = e.attempts
    BY <2>2
  <2>3. \A f \in r.inflight : f \in q.inflight \/ f \in again \/ f \in new
    BY <1>5, <1>6
  <2> QED
    BY <1>9, <1>10, <2>1, <2>2, <2>3 DEF Continues
<1> QED
  BY <1>3, <1>5, <1>6, <1>7, <1>8, <1>11 DEF q, WithinLimit

\* bjm_done and bjm_fail keep what others hold, and the count of attempts.
LEMMA AnswerContinues ==
  ASSUME BoardInv, QueueInv', NEW h \in handed,
         Done(h) \/ \E delay \in Delays \cup {GroupBackoff} : Fail(h, delay)
  PROVE  /\ Continues(QueueLoad(h.group), QueueLoad(h.group)')
         /\ Allowed(QueueLoad(h.group)'.setting.maxAttempts)
         /\ base' = base /\ known' = known /\ h.group \in Groups
         /\ \A k \in Groups : k # h.group => queues'[k] = queues[k]
<1> DEFINE g == h.group
           q == queues[g]
<1>1. /\ h \in Hand /\ g \in Groups /\ q \in Record /\ queues \in [Groups -> Record]
      /\ now \in Nat /\ QueueLoad(g) \in Record /\ WithinLimit(QueueLoad(g)) /\ base \in Nat
  <2>1. QueueInv
    BY DEF BoardInv
  <2>2. handed \subseteq Hand /\ queues \in [Groups -> Record] /\ now \in Nat /\ base \in Nat
    BY <2>1 DEF QueueInv, TypeOK, SubjectTypeOK
  <2>3. h \in Hand /\ g \in Groups
    BY <2>2 DEF Hand
  <2>4. QueueLoad(g) \in Record
    BY <2>1, <2>3, LoadedRecord
  <2>5. WithinLimit(QueueLoad(g))
    BY <2>3 DEF BoardInv
  <2> QED
    BY <2>2, <2>3, <2>4, <2>5
<1>2. \A e \in q.inflight : e \in Entry
  BY <1>1 DEF Record
<1>3. base' = base /\ known' = known
  BY DEF Done, Fail, subjectVars
<1>4. PICK table : queues' = [queues EXCEPT ![g].inflight = table] /\
                   \A f \in table : \E e \in q.inflight :
                      e.index = f.index /\ f.attempts = e.attempts
  <2>1. CASE Done(h)
    <3>1. queues' = [queues EXCEPT ![g].inflight = q.inflight \ Found(h)]
      BY <1>1, <2>1 DEF Done
    <3> QED
      BY <3>1
  <2>2. ASSUME NEW delay \in Delays \cup {GroupBackoff}, Fail(h, delay)
        PROVE  \E table : queues' = [queues EXCEPT ![g].inflight = table] /\
                   \A f \in table : \E e \in q.inflight :
                      e.index = f.index /\ f.attempts = e.attempts
    <3> DEFINE w(e) == IF delay = GroupBackoff THEN BackoffFor(q.setting, e.attempts)
                       ELSE delay
               put == {[e EXCEPT !.expires = now + w(e)] : e \in Found(h)}
               table == (q.inflight \ Found(h)) \cup put
    <3>1. queues' = [queues EXCEPT ![g].inflight = table]
      BY <1>1, <2>2 DEF Fail
    <3>2. ASSUME NEW f \in put
          PROVE  \E e \in q.inflight : e.index = f.index /\ f.attempts = e.attempts
      <4>1. PICK e \in Found(h) : f = [e EXCEPT !.expires = now + w(e)]
        BY <3>2
      <4>2. e \in q.inflight /\ e \in Entry
        BY <1>2, <4>1 DEF Found
      <4> HIDE DEF w
      <4>3. e.index = f.index /\ f.attempts = e.attempts
        BY <4>1, <4>2 DEF Entry
      <4> QED
        BY <4>2, <4>3
    <3> HIDE DEF put
    <3>3. \A f \in table : \E e \in q.inflight : e.index = f.index /\ f.attempts = e.attempts
      BY <3>2
    <3> HIDE DEF table
    <3> QED
      BY <3>1, <3>3
  <2> QED
    BY <2>1, <2>2
<1>5. /\ queues'[g] = [q EXCEPT !.inflight = table]
      /\ \A k \in Groups : k # g => queues'[k] = queues[k]
  BY <1>1, <1>4
<1>6. queues'[g].next = q.next /\ queues'[g].setting = q.setting /\ queues'[g].inflight = table
  BY <1>1, <1>5 DEF Record
<1>7. CASE g \in known
  <2>1. QueueLoad(g) = q /\ QueueLoad(g)' = queues'[g]
    BY <1>3, <1>7 DEF QueueLoad
  <2>2. q.next \in Nat
    BY <1>1 DEF Record
  <2> HIDE DEF q, g
  <2>3. Continues(QueueLoad(g), QueueLoad(g)')
    BY <1>4, <1>6, <2>1, <2>2 DEF Continues
  <2>4. Allowed(QueueLoad(g)'.setting.maxAttempts)
    BY <1>1, <1>6, <2>1 DEF WithinLimit
  <2> QED
    BY <1>1, <1>3, <1>5, <2>3, <2>4 DEF g
<1>8. CASE g \notin known
  <2>1. QueueLoad(g) = Fresh /\ QueueLoad(g)' = Fresh
    BY <1>3, <1>8 DEF QueueLoad, Fresh
  <2>2. Fresh.next = base + 1 /\ Fresh.inflight = {} /\ Fresh.setting = DefaultSetting
    BY DEF Fresh
  <2> HIDE DEF q, g
  <2>3. /\ Continues(QueueLoad(g), QueueLoad(g)')
        /\ Allowed(QueueLoad(g)'.setting.maxAttempts)
    BY <1>1, <2>1, <2>2, DefaultIsAllowed DEF Continues
  <2> QED
    BY <1>1, <1>3, <1>5, <2>3 DEF g
<1> QED
  BY <1>7, <1>8

\* Every group's record goes on, or starts afresh.
LEMMA GroupsContinue ==
  ASSUME PowerLoss = FALSE, \A setting \in Settings : Allowed(setting.maxAttempts),
         BoardInv, QueueInv', [Next]_vars, NEW k \in Groups
  PROVE  \/ /\ Continues(QueueLoad(k), QueueLoad(k)')
            /\ Allowed(QueueLoad(k)'.setting.maxAttempts)
         \/ IsFresh(QueueLoad(k)')
<1>1. /\ base \in Nat /\ QueueInv /\ queues \in [Groups -> Record]
      /\ QueueLoad(k) \in Record /\ WithinLimit(QueueLoad(k))
  BY LoadedRecord DEF BoardInv, QueueInv, TypeOK, SubjectTypeOK
<1>2. ASSUME queues'[k] = queues[k], known' \cap {k} = known \cap {k}, base' >= base
      PROVE  /\ Continues(QueueLoad(k), QueueLoad(k)')
             /\ Allowed(QueueLoad(k)'.setting.maxAttempts)
  BY <1>2, UntouchedContinues
<1>3. base' >= base
  <2>1. CASE StepWith(Owed)
    BY <1>1, <2>1, LogGrows, OwedIsNat DEF QueueInv, Grows
  <2>2. CASE UNCHANGED subjectVars
    BY <1>1, <2>2 DEF subjectVars
  <2> QED
    BY <1>1, <2>1, <2>2, SubjectUnderGroups
<1>4. CASE UNCHANGED <<known, queues>>
  BY <1>2, <1>3, <1>4
<1>5. ASSUME NEW g \in Groups, NEW max \in Batch, NEW asked \in Leases \cup {GroupLease},
             Take(g, max, asked)
      PROVE  /\ Continues(QueueLoad(k), QueueLoad(k)')
             /\ Allowed(QueueLoad(k)'.setting.maxAttempts)
  <2>1. /\ Continues(QueueLoad(g), QueueLoad(g)')
        /\ Allowed(QueueLoad(g)'.setting.maxAttempts)
        /\ known' = known \cup {g}
        /\ \A j \in Groups : j # g => queues'[j] = queues[j]
    BY <1>5, TakeContinues
  <2>2. CASE k = g
    BY <2>1, <2>2
  <2>3. CASE k # g
    BY <1>2, <1>3, <2>1, <2>3
  <2> QED
    BY <2>2, <2>3
<1>6. ASSUME NEW h \in handed,
             Done(h) \/ \E delay \in Delays \cup {GroupBackoff} : Fail(h, delay)
      PROVE  /\ Continues(QueueLoad(k), QueueLoad(k)')
             /\ Allowed(QueueLoad(k)'.setting.maxAttempts)
  <2>1. /\ Continues(QueueLoad(h.group), QueueLoad(h.group)')
        /\ Allowed(QueueLoad(h.group)'.setting.maxAttempts)
        /\ known' = known
        /\ \A j \in Groups : j # h.group => queues'[j] = queues[j]
    BY <1>6, AnswerContinues
  <2>2. CASE k = h.group
    BY <2>1, <2>2
  <2>3. CASE k # h.group
    BY <1>2, <1>3, <2>1, <2>3
  <2> QED
    BY <2>2, <2>3
<1>7. ASSUME NEW g \in Groups, NEW setting \in Settings, QueueConfig(g, setting)
      PROVE  /\ Continues(QueueLoad(k), QueueLoad(k)')
             /\ Allowed(QueueLoad(k)'.setting.maxAttempts)
  <2>1. /\ known' = known \cup {g}
        /\ queues' = [queues EXCEPT ![g] = [QueueLoad(g) EXCEPT !.setting = setting]]
    BY <1>7 DEF QueueConfig, QueueStore
  <2>2. CASE k = g
    <3>1. QueueLoad(k)' = [QueueLoad(k) EXCEPT !.setting = setting]
      BY <1>1, <2>1, <2>2 DEF QueueLoad
    <3>2. /\ QueueLoad(k)'.next = QueueLoad(k).next
          /\ QueueLoad(k)'.inflight = QueueLoad(k).inflight
          /\ QueueLoad(k)'.setting = setting
      BY <1>1, <3>1 DEF Record
    <3>3. QueueLoad(k).next <= QueueLoad(k).next
      BY <1>1 DEF Record
    <3> QED
      BY <3>2, <3>3 DEF Continues
  <2>3. CASE k # g
    BY <1>1, <1>2, <1>3, <2>1, <2>3
  <2> QED
    BY <2>2, <2>3
<1>8. ASSUME NEW g \in Groups, QueueDelete(g)
      PROVE  \/ /\ Continues(QueueLoad(k), QueueLoad(k)')
                /\ Allowed(QueueLoad(k)'.setting.maxAttempts)
             \/ IsFresh(QueueLoad(k)')
  <2>1. known' = known \ {g} /\ queues' = [queues EXCEPT ![g] = Fresh] /\ base' = base
    BY <1>8 DEF QueueDelete, subjectVars
  <2>2. CASE k = g
    <3>1. QueueLoad(k)' = Fresh
      BY <2>1, <2>2 DEF QueueLoad, Fresh
    <3> QED
      BY <3>1 DEF IsFresh, Fresh
  <2>3. CASE k # g
    BY <1>1, <1>2, <1>3, <2>1, <2>3
  <2> QED
    BY <2>2, <2>3
<1>9. \/ SubjectStep \/ Tick \/ Crash \/ UNCHANGED vars
      \/ \E d \in dying : DeadLetter(d)
      \/ \E n \in DOMAIN dlq : Requeue(n)
      => UNCHANGED <<known, queues>>
  BY DEF SubjectStep, Tick, Crash, DeadLetter, Requeue, vars, queueVars
<1>10. ~PowerCut
  BY DEF PowerCut, LosePower
<1> QED
  BY <1>4, <1>5, <1>6, <1>7, <1>8, <1>9, <1>10 DEF Next

LEMMA BoardInvInit == Init => BoardInv
<1> SUFFICES ASSUME Init PROVE BoardInv
  OBVIOUS
<1>1. QueueInv
  BY QueueInvInit
<1>2. ASSUME NEW g \in Groups PROVE WithinLimit(QueueLoad(g))
  <2>1. QueueLoad(g) = Fresh
    BY DEF Init, QueueLoad
  <2> QED
    BY <2>1, DefaultIsAllowed DEF WithinLimit, Fresh
<1> QED
  BY <1>1, <1>2 DEF BoardInv

LEMMA BoardInvNext ==
  ASSUME PowerLoss = FALSE, \A setting \in Settings : Allowed(setting.maxAttempts),
         BoardInv, [Next]_vars
  PROVE  BoardInv'
<1>1. QueueInv'
  BY QueueInvNext DEF BoardInv
<1>2. ASSUME NEW g \in Groups PROVE WithinLimit(QueueLoad(g))'
  <2>1. QueueLoad(g) \in Record /\ QueueLoad(g)' \in Record /\ WithinLimit(QueueLoad(g))
    <3>1. QueueLoad(g) \in Record
      BY LoadedRecord DEF BoardInv
    <3>2. QueueLoad(g)' \in Record
      <4>1. known' \subseteq Groups /\ queues' \in [Groups -> Record] /\ base' \in Nat
        BY <1>1 DEF QueueInv, TypeOK, SubjectTypeOK
      <4>2. Fresh' \in Record
        <5>1. \A b \in Nat : [next |-> b + 1, setting |-> DefaultSetting, inflight |-> {},
                              deadTotal |-> 0] \in Record
          BY QueueAssumption DEF Record
        <5> QED
          BY <4>1, <5>1, Zenon DEF Fresh
      <4> QED
        BY <4>1, <4>2 DEF QueueLoad
    <3> QED
      BY <3>1, <3>2 DEF BoardInv
  <2>2. WithinLimit(QueueLoad(g))' <=> WithinLimit(QueueLoad(g)')
    BY DEF WithinLimit
  <2>3. CASE /\ Continues(QueueLoad(g), QueueLoad(g)')
             /\ Allowed(QueueLoad(g)'.setting.maxAttempts)
    BY <2>1, <2>2, <2>3, ContinuesWithin
  <2>4. CASE IsFresh(QueueLoad(g)')
    BY <2>2, <2>4, DefaultIsAllowed DEF IsFresh, WithinLimit
  <2> QED
    BY <1>1, <2>3, <2>4, GroupsContinue
<1> QED
  BY <1>1, <1>2 DEF BoardInv

\* The board the groups show, and what one group shows of it.
BoardTries == [g \in Groups |-> [i \in 1 .. MaxIndex |-> Tries(g, i)]]

LEMMA BoardShows ==
  ASSUME NEW g \in Groups, NEW i \in 1 .. MaxIndex
  PROVE  /\ BoardTries[g][i] = TriesIn(QueueLoad(g), i)
         /\ BoardTries'[g][i] = TriesIn(QueueLoad(g)', i)
  BY DEF BoardTries, Tries, TriesIn

LEMMA OneEntryEach ==
  ASSUME QueueInv, NEW g \in Groups
  PROVE  /\ QueueLoad(g) \in Record
         /\ \A e \in QueueLoad(g).inflight : e.index < QueueLoad(g).next
         /\ \A e, f \in QueueLoad(g).inflight : e.index = f.index => e = f
  BY LoadedRecord DEF RecordInv, Covers, OnceOver

LEMMA BoardStep ==
  ASSUME PowerLoss = FALSE, \A setting \in Settings : Allowed(setting.maxAttempts),
         BoardInv, BoardInv', [Next]_vars
  PROVE  Board!BoardNext
<1> SUFFICES ASSUME NEW g \in Groups
             PROVE  Board!Work(g) \/ Board!StartOver(g)
  BY DEF Board!BoardNext
<1>1. PICK q \in Record :
        /\ q = QueueLoad(g) /\ WithinLimit(q)
        /\ \A e \in q.inflight : e.index < q.next
        /\ \A e, f \in q.inflight : e.index = f.index => e = f
  BY OneEntryEach DEF BoardInv
<1>2. PICK r \in Record :
        /\ r = QueueLoad(g)' /\ WithinLimit(r)
        /\ \A e, f \in r.inflight : e.index = f.index => e = f
  <2>1. QueueInv' /\ WithinLimit(QueueLoad(g))'
    BY DEF BoardInv
  <2>2. (/\ QueueLoad(g) \in Record
         /\ \A e, f \in QueueLoad(g).inflight : e.index = f.index => e = f)'
    BY <2>1, OneEntryEach, PTL
  <2> QED
    BY <2>1, <2>2 DEF WithinLimit
<1>3. Board!Jobs = 1 .. MaxIndex /\ MaxIndex \in Nat
  BY SubjectAssumption DEF Board!Jobs
<1>4. \A i \in 1 .. MaxIndex : /\ BoardTries[g][i] = TriesIn(q, i)
                               /\ BoardTries'[g][i] = TriesIn(r, i)
  BY <1>1, <1>2, BoardShows
<1>5. CASE Continues(q, r)
  <2>1. \A i \in 1 .. MaxIndex : Board!Progress(BoardTries[g][i], BoardTries'[g][i])
    <3> SUFFICES ASSUME NEW i \in 1 .. MaxIndex
                 PROVE  Board!Progress(TriesIn(q, i), TriesIn(r, i))
      BY <1>4
    <3>1. i \in Nat
      BY <1>3
    <3> QED
      BY <1>1, <1>2, <1>5, <3>1, ContinuesIsProgress DEF Board!Progress, Limit
  <2>2. \A i, j \in 1 .. MaxIndex :
          i < j /\ BoardTries'[g][i] = 0 => BoardTries'[g][j] = 0
    <3> SUFFICES ASSUME NEW i \in 1 .. MaxIndex, NEW j \in 1 .. MaxIndex, i < j,
                        TriesIn(r, i) = 0
                 PROVE  TriesIn(r, j) = 0
      BY <1>4
    <3> QED
      BY <1>2, <1>3, UntriedAreLast
  <2> QED
    BY <1>3, <2>1, <2>2 DEF Board!Work, BoardTries
<1>6. CASE IsFresh(r)
  <2>1. base \in Nat /\ r.next = base + 1 /\ r.inflight = {}
    BY <1>6 DEF IsFresh, BoardInv, QueueInv, TypeOK, SubjectTypeOK
  <2>2. PICK gone \in 0 .. MaxIndex : gone = IF base <= MaxIndex THEN base ELSE MaxIndex
    BY <1>3, <2>1
  <2>3. \A i \in 1 .. MaxIndex : TriesIn(r, i) = IF i <= gone THEN Over ELSE 0
    <3> SUFFICES ASSUME NEW i \in 1 .. MaxIndex
                 PROVE  TriesIn(r, i) = IF i <= gone THEN Over ELSE 0
      OBVIOUS
    <3>1. i \in Nat /\ (i >= r.next <=> ~(i <= gone))
      BY <1>3, <2>1, <2>2
    <3>2. {e \in r.inflight : e.index = i} = {}
      BY <2>1
    <3> QED
      BY <3>1, <3>2 DEF TriesIn
  <2>4. BoardTries'[g] = [i \in 1 .. MaxIndex |-> IF i <= gone THEN Over ELSE 0]
    <3>1. BoardTries'[g] = [i \in 1 .. MaxIndex |-> Tries(g, i)']
      BY DEF BoardTries
    <3> QED
      BY <1>4, <2>3, <3>1
  <2> QED
    BY <1>3, <2>4 DEF Board!StartOver, BoardTries
<1> QED
  BY <1>1, <1>2, <1>5, <1>6, GroupsContinue DEF BoardInv

(***************************************************************************)
(* The groups implement the job board: jobs are handed out in order, each   *)
(* at most max_attempts times, and one that is over never comes back,       *)
(* whatever leases expire, answers come late or twice, and brokers crash    *)
(* while dead-lettering; as long as no setting a group is given allows more *)
(* attempts than the default, which is the board's limit, and the machine   *)
(* keeps its power: a power cut takes attempts and endings back.  Leases,   *)
(* delays and lower limits are free.                                        *)
(***************************************************************************)
THEOREM GroupsRefineTheBoard ==
  ASSUME PowerLoss = FALSE,
         \A setting \in Settings : Allowed(setting.maxAttempts)
  PROVE  Spec => GroupsImplementBoard
<1>1. Init => Board!BoardInit
  <2> SUFFICES ASSUME Init PROVE Board!BoardInit
    OBVIOUS
  <2>1. \A g \in Groups : QueueLoad(g).next = 1 /\ QueueLoad(g).inflight = {}
    BY DEF Init, SubjectInit, QueueLoad, Fresh
  <2>2. \A g \in Groups, i \in 1 .. MaxIndex : Tries(g, i) = 0
    BY <2>1 DEF Tries
  <2> QED
    BY <2>2 DEF Board!BoardInit, Board!Jobs
<1>2. BoardInv /\ BoardInv' /\ [Next]_vars => [Board!BoardNext]_BoardTries
  BY BoardStep DEF Limit
<1>3. BoardInv /\ [Next]_vars => BoardInv'
  BY BoardInvNext DEF Limit
<1> QED
  BY <1>1, <1>2, <1>3, BoardInvInit, PTL
  DEF Spec, GroupsImplementBoard, Board!BoardSpec, BoardTries

=============================================================================
