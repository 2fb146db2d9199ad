---------------------------- MODULE PusherProofs ----------------------------
(***************************************************************************)
(* Proofs about Pusher, for any number of subjects, subscriptions and       *)
(* messages.                                                                *)
(***************************************************************************)
EXTENDS Pusher, SequenceTheorems, FiniteSetTheorems, TLAPS

\* A psub in flight names the subject it delivers.
FlightsNamed == \A i \in DOMAIN subs : subs[i].inflight => subs[i].subject \in Subjects

TypeInv == TypeOK /\ FlightsNamed

-----------------------------------------------------------------------------

(***************************************************************************)
(* The array of psubs: its domain, and what appending, changing one psub    *)
(* and moving the last one into a gap leave of it.                          *)
(***************************************************************************)
LEMMA Indexes ==
  ASSUME TypeOK
  PROVE  /\ Len(subs) \in Nat
         /\ DOMAIN subs = 1 .. Len(subs)
         /\ \A i \in DOMAIN subs : subs[i] \in Psub
         /\ Len(names) \in Nat
         /\ DOMAIN names = 1 .. Len(names)
         /\ \A n \in DOMAIN names : names[n] \in Subjects
<1>1. subs \in Seq(Psub) /\ names \in Seq(Subjects)
  BY DEF TypeOK
<1> QED
  BY <1>1

LEMMA FunctionsAreSeqs ==
  ASSUME NEW T, NEW n \in Nat, NEW f \in [1 .. n -> T]
  PROVE  f \in Seq(T)
  BY SeqDef, Zenon

LEMMA NewPsubType ==
  ASSUME NEW c \in Consumers, NEW pattern \in Patterns, NEW transport \in BOOLEAN
  PROVE  /\ NewPsub(c, pattern, transport) \in Psub
         /\ NewPsub(c, pattern, transport).consumer = c
         /\ NewPsub(c, pattern, transport).pattern = pattern
         /\ NewPsub(c, pattern, transport).conn = transport
         /\ ~NewPsub(c, pattern, transport).inflight
         /\ ~NewPsub(c, pattern, transport).gone
         /\ NewPsub(c, pattern, transport).rr = 0
         /\ \A s \in Subjects : NewPsub(c, pattern, transport).passed[s] = 0
<1>1. BackoffMax \in Nat
  BY PusherAssumption
<1>2. [s \in Subjects |-> 0] \in [Subjects -> Nat]
  OBVIOUS
<1> QED
  BY <1>1, <1>2 DEF NewPsub, Psub

\* What a doubling wait needs of the powers of two (backoff).
LEMMA WaitType ==
  ASSUME NEW n \in 0 .. BackoffMax
  PROVE  /\ Wait(n + 1) \in 0 .. BackoffMax
         /\ Wait(n + 1) < BackoffMax => n + 1 \in 0 .. BackoffMax
<1>1. BackoffMax \in Nat /\ BackoffBase \in Nat /\ BackoffBase >= 1
  BY PusherAssumption
<1>2. 2^n \in Nat /\ n < 2^n
  BY PowersOfTwo
<1>3. \A a, b \in Nat : a >= 1 => a * b \in Nat /\ a * b >= b
  <2>1. \A a, b \in Nat : a * b \in Nat
    OBVIOUS
  <2>2. \A a, b \in Nat : a >= 1 => a * b >= b
    OBVIOUS
  <2> QED
    BY <2>1, <2>2
<1>4. BackoffBase * 2^n \in Nat /\ BackoffBase * 2^n >= 2^n
  BY <1>1, <1>2, <1>3
<1>5. (n + 1) - 1 = n
  BY <1>1
<1> DEFINE w == BackoffBase * 2^n
<1>6. Wait(n + 1) = IF w < BackoffMax THEN w ELSE BackoffMax
  BY <1>5 DEF Wait
<1>7. w \in Nat /\ w > n
  BY <1>1, <1>2, <1>4
<1> HIDE DEF w
<1> QED
  BY <1>1, <1>6, <1>7

LEMMA EndedType ==
  ASSUME NEW p \in Psub
  PROVE  /\ Ended(p) \in Psub /\ BackedOff(p) \in Psub
         /\ [Ended(p) EXCEPT !.wait = 0, !.failures = 0] \in Psub
<1>1. BackoffMax \in Nat
  BY PusherAssumption
<1>2. p.failures \in 0 .. BackoffMax
  BY DEF Psub
<1>3. Ended(p) \in Psub /\ Ended(p).failures = p.failures
  <2> DEFINE p1 == [p EXCEPT !.inflight = FALSE]
             p2 == [p1 EXCEPT !.subject = NoSubject]
             p3 == [p2 EXCEPT !.first = 0, !.last = 0]
  <2>1. p1 \in Psub /\ p1.failures = p.failures
    BY DEF Psub
  <2>2. p2 \in Psub /\ p2.failures = p1.failures
    BY <2>1 DEF Psub
  <2>3. p3 \in Psub /\ p3.failures = p2.failures
    BY <2>2 DEF Psub
  <2>4. Ended(p) = p3
    BY DEF Ended
  <2> QED
    BY <2>1, <2>2, <2>3, <2>4
<1>4. [Ended(p) EXCEPT !.wait = 0, !.failures = 0] \in Psub
  <2>1. \A e \in Psub, w, n \in 0 .. BackoffMax :
          [e EXCEPT !.wait = w, !.failures = n] \in Psub
    BY DEF Psub
  <2>2. 0 \in 0 .. BackoffMax
    BY <1>1
  <2> QED
    BY <1>3, <2>1, <2>2
<1>5. /\ Wait(p.failures + 1) \in 0 .. BackoffMax
      /\ (IF Wait(p.failures + 1) < BackoffMax THEN p.failures + 1 ELSE p.failures)
           \in 0 .. BackoffMax
  BY <1>1, <1>2, WaitType
<1>6. BackedOff(p) \in Psub
  BY <1>3, <1>5 DEF BackedOff, Psub
<1> QED
  BY <1>3, <1>4, <1>6

LEMMA EndedKeeps ==
  ASSUME NEW p \in Psub, NEW q \in {Ended(p), BackedOff(p),
                                   [Ended(p) EXCEPT !.wait = 0, !.failures = 0]}
  PROVE  /\ q.consumer = p.consumer /\ q.pattern = p.pattern /\ q.conn = p.conn
         /\ q.gone = p.gone /\ q.rr = p.rr /\ q.passed = p.passed /\ ~q.inflight
<1> DEFINE e == Ended(p)
<1>1. /\ e.consumer = p.consumer /\ e.pattern = p.pattern /\ e.conn = p.conn
      /\ e.gone = p.gone /\ e.rr = p.rr /\ e.passed = p.passed /\ ~e.inflight
  BY DEF Ended, Psub
<1>2. e \in Psub
  BY EndedType
<1> HIDE DEF e
<1>3. ASSUME NEW w, NEW f, q = [e EXCEPT !.wait = w, !.failures = f]
      PROVE  /\ q.consumer = e.consumer /\ q.pattern = e.pattern /\ q.conn = e.conn
             /\ q.gone = e.gone /\ q.rr = e.rr /\ q.passed = e.passed
             /\ q.inflight = e.inflight
  BY <1>2, <1>3 DEF Psub
<1>4. CASE q = Ended(p)
  BY <1>1, <1>4 DEF e
<1>5. CASE q = BackedOff(p)
  <2>1. PICK w, f : q = [e EXCEPT !.wait = w, !.failures = f]
    BY <1>5 DEF BackedOff, e
  <2>2. /\ q.consumer = e.consumer /\ q.pattern = e.pattern /\ q.conn = e.conn
        /\ q.gone = e.gone /\ q.rr = e.rr /\ q.passed = e.passed
        /\ q.inflight = e.inflight
    BY <1>3, <2>1
  <2> QED
    BY <1>1, <2>2
<1>6. CASE q = [Ended(p) EXCEPT !.wait = 0, !.failures = 0]
  <2>1. q = [e EXCEPT !.wait = 0, !.failures = 0]
    BY <1>6 DEF e
  <2>2. /\ q.consumer = e.consumer /\ q.pattern = e.pattern /\ q.conn = e.conn
        /\ q.gone = e.gone /\ q.rr = e.rr /\ q.passed = e.passed
        /\ q.inflight = e.inflight
    BY <1>3, <2>1
  <2> QED
    BY <1>1, <2>2
<1> QED
  BY <1>4, <1>5, <1>6

-----------------------------------------------------------------------------

(***************************************************************************)
(* start_delivery's round: a turn names a subject of the list, and `Pick'   *)
(* is the first turn whose subject has a message waiting, if there is one.  *)
(***************************************************************************)
LEMMA SmallestOf ==
  ASSUME NEW T \in SUBSET Nat, T # {}
  PROVE  \E n \in T : \A m \in T : ~(m < n)
<1>1. IsWellFoundedOn(OpToRel(<, Nat), Nat)
  BY NatLessThanWellFounded
<1>2. \E n \in T : \A m \in T : ~(<<m, n>> \in OpToRel(<, Nat))
  BY <1>1, WFMin, Zenon
<1>3. \A m, n \in Nat : m < n => <<m, n>> \in OpToRel(<, Nat)
  BY DEF OpToRel
<1> QED
  BY <1>2, <1>3

LEMMA AckedType ==
  ASSUME TypeOK, NEW c \in Consumers, NEW s \in Subjects
  PROVE  /\ last[s] \in Nat /\ base[s] \in Nat /\ joined[c][s] \in Nat
         /\ receipt[c][s] \in Receipts /\ Acked(c, s) \in Nat
         /\ Reached(c, s) \in Nat /\ Reached(c, s) >= Acked(c, s)
         /\ Reached(c, s) # Acked(c, s) =>
              Acked(c, s) < last[s] /\ Reached(c, s) = base[s]
<1>1. /\ last[s] \in Nat /\ base[s] \in Nat /\ joined[c][s] \in Nat
      /\ receipt[c][s] \in Receipts
  BY DEF TypeOK
<1>2. Acked(c, s) \in Nat
  BY <1>1 DEF Acked, Receipts
<1> QED
  BY <1>1, <1>2 DEF Reached, Higher

LEMMA TurnType ==
  ASSUME TypeOK, NEW p \in Psub, NEW n \in Turns
  PROVE  /\ Len(names) > 0 /\ n \in Nat /\ n < Len(names)
         /\ Turn(p, n) \in DOMAIN names
         /\ names[Turn(p, n)] \in Subjects
<1>1. Len(names) \in Nat /\ DOMAIN names = 1 .. Len(names) /\ p.rr \in Nat
  BY Indexes DEF Psub
<1>2. Len(names) \in Nat \ {0} /\ n \in Nat /\ n < Len(names)
  BY <1>1 DEF Turns
<1>3. (p.rr + n) % Len(names) \in 0 .. Len(names) - 1
  BY <1>1, <1>2
<1>4. Turn(p, n) \in DOMAIN names
  BY <1>1, <1>2, <1>3 DEF Turn
<1> QED
  BY <1>2, <1>4, Indexes

LEMMA PickType ==
  ASSUME TypeOK, NEW p \in Psub
  PROVE  \/ /\ Pick(p) = Len(names)
            /\ \A n \in Turns : ~Waiting(p, n)
         \/ /\ Pick(p) \in Turns /\ Pick(p) # Len(names)
            /\ Waiting(p, Pick(p))
            /\ \A n \in Turns : n < Pick(p) => ~Waiting(p, n)
<1>1. CASE \A n \in Turns : ~Waiting(p, n)
  BY <1>1 DEF Pick
<1>2. CASE \E n \in Turns : Waiting(p, n)
  <2> DEFINE T == {n \in Turns : Waiting(p, n)}
             First(n) == Waiting(p, n) /\ \A m \in Turns : m < n => ~Waiting(p, m)
  <2>1. T \in SUBSET Nat /\ T # {}
    BY <1>2, TurnType
  <2>2. \E n \in T : \A m \in T : ~(m < n)
    BY <2>1, SmallestOf
  <2>3. \E n \in Turns : First(n)
    BY <2>2
  <2>4. Pick(p) = CHOOSE n \in Turns : First(n)
    BY <1>2 DEF Pick
  <2>5. Pick(p) \in Turns /\ First(Pick(p))
    BY <2>3, <2>4
  <2>6. Pick(p) # Len(names)
    BY <2>5, TurnType
  <2> QED
    BY <2>5, <2>6
<1> QED
  BY <1>1, <1>2

(***************************************************************************)
(* What start_delivery does to a psub.                                      *)
(***************************************************************************)
LEMMA PassedOverType ==
  ASSUME NEW p \in Psub, NEW s
  PROVE  PassedOver(p, s) \in [Subjects -> Nat]
<1>1. \A t \in Subjects : p.passed[t] + 1 \in Nat
  BY DEF Psub
<1> QED
  BY <1>1 DEF PassedOver

LEMMA StartedType ==
  ASSUME TypeOK, NEW p \in Psub, NEW size \in BatchSizes
  PROVE  /\ Started(p, size) \in Psub
         /\ Started(p, size).consumer = p.consumer
         /\ Started(p, size).pattern = p.pattern
         /\ Started(p, size).conn = p.conn
         /\ Started(p, size).gone = p.gone
         /\ Started(p, size).wait = p.wait
         /\ Pick(p) = Len(names) => Started(p, size) = p
         /\ Pick(p) # Len(names) /\ ~p.conn =>
              /\ Started(p, size).rr = Turn(p, Pick(p)) % Len(names)
              /\ Started(p, size).inflight = p.inflight
              /\ Started(p, size).subject = p.subject
              /\ Started(p, size).first = p.first
              /\ Started(p, size).passed = p.passed
         /\ Pick(p) # Len(names) /\ p.conn =>
              /\ Started(p, size).rr = Turn(p, Pick(p)) % Len(names)
              /\ Started(p, size).inflight
              /\ Started(p, size).subject = names[Turn(p, Pick(p))]
              /\ Started(p, size).first =
                   Reached(p.consumer, names[Turn(p, Pick(p))]) + 1
              /\ Started(p, size).passed = PassedOver(p, names[Turn(p, Pick(p))])
<1>1. CASE Pick(p) = Len(names)
  BY <1>1 DEF Started
<1>2. CASE Pick(p) # Len(names)
  <2> DEFINE turn == Turn(p, Pick(p))
             s    == names[turn]
             from == Reached(p.consumer, s)
             end  == IF from + size < last[s] THEN from + size ELSE last[s]
             r    == turn % Len(names)
  <2>1. Pick(p) \in Turns
    BY <1>2, PickType
  <2>2. turn \in DOMAIN names /\ s \in Subjects
    BY <2>1, TurnType
  <2>3. Len(names) \in Nat \ {0} /\ turn \in Nat
    BY <2>1, <2>2, TurnType, Indexes
  <2>4. r \in Nat
    BY <2>3
  <2>5. p.consumer \in Consumers
    BY DEF Psub
  <2>6. from \in Nat /\ last[s] \in Nat
    BY <2>2, <2>5, AckedType
  <2>7. size \in Nat
    BY PusherAssumption
  <2>8. end \in Nat /\ from + 1 \in Nat
    BY <2>6, <2>7
  <2>9. PassedOver(p, s) \in [Subjects -> Nat]
    BY PassedOverType
  <2>10. CASE ~p.conn
    <3>1. Started(p, size) = [p EXCEPT !.rr = r]
      BY <1>2, <2>10 DEF Started
    <3>2. \A n \in Nat : [p EXCEPT !.rr = n] \in Psub
      BY DEF Psub
    <3>3. [p EXCEPT !.rr = r] \in Psub
      BY <2>4, <3>2
    <3> QED
      BY <1>2, <2>10, <3>1, <3>3 DEF Psub
  <2>11. CASE p.conn
    <3> DEFINE q == [p EXCEPT !.subject = s, !.first = from + 1, !.last = end,
                              !.rr = r, !.inflight = TRUE, !.passed = PassedOver(p, s)]
    <3>1. Started(p, size) = q
      BY <1>2, <2>11 DEF Started
    <3>2. \A t \in Subjects, f, l, n \in Nat : [p EXCEPT !.subject = t, !.first = f,
                                                         !.last = l, !.rr = n] \in Psub
      BY DEF Psub
    <3>3. \A e \in Psub, o \in [Subjects -> Nat] :
            [e EXCEPT !.inflight = TRUE, !.passed = o] \in Psub
      BY DEF Psub
    <3> DEFINE e == [p EXCEPT !.subject = s, !.first = from + 1, !.last = end, !.rr = r]
    <3>4. e \in Psub
      BY <2>2, <2>4, <2>8, <3>2
    <3>5. [e EXCEPT !.inflight = TRUE, !.passed = PassedOver(p, s)] \in Psub
      BY <2>9, <3>3, <3>4
    <3>6. q = [e EXCEPT !.inflight = TRUE, !.passed = PassedOver(p, s)]
      OBVIOUS
    <3>7. /\ q.consumer = p.consumer /\ q.pattern = p.pattern /\ q.conn = p.conn
          /\ q.gone = p.gone /\ q.wait = p.wait /\ q.rr = r /\ q.inflight
          /\ q.subject = s /\ q.first = from + 1 /\ q.passed = PassedOver(p, s)
      BY DEF Psub
    <3> QED
      BY <1>2, <2>11, <3>1, <3>5, <3>6, <3>7
  <2> QED
    BY <2>10, <2>11
<1> QED
  BY <1>1, <1>2

-----------------------------------------------------------------------------

(***************************************************************************)
(* What is left of the array when a psub is reaped, with the last one moved *)
(* into its place, or told that it is gone: psubs that were there, each     *)
(* once.                                                                    *)
(***************************************************************************)
LeftOf(q) ==
  /\ q \in Seq(Psub)
  /\ \E src \in [DOMAIN q -> DOMAIN subs] :
       /\ \A k, l \in DOMAIN q : src[k] = src[l] => k = l
       /\ \A k \in DOMAIN q :
            \/ q[k] = subs[src[k]]
            \/ q[k] = [subs[src[k]] EXCEPT !.gone = TRUE]

LEMMA ReapedLeaves ==
  ASSUME TypeOK, NEW i \in DOMAIN subs
  PROVE  /\ LeftOf(Reaped(i))
         /\ \A j \in DOMAIN subs : j # i =>
              \E k \in DOMAIN Reaped(i) : Reaped(i)[k] = subs[j]
<1> DEFINE n == Len(subs) - 1
           Source(k) == IF k = i THEN n + 1 ELSE k
           src == [k \in 1 .. n |-> Source(k)]
           q == Reaped(i)
<1>1. Len(subs) \in Nat /\ DOMAIN subs = 1 .. n + 1 /\ n \in Nat /\ n + 1 = Len(subs)
  BY Indexes
<1>2. \A k \in 1 .. n : Source(k) \in DOMAIN subs
  BY <1>1
<1>3. q = [k \in 1 .. n |-> subs[Source(k)]]
  BY <1>1 DEF Reaped
<1>4. q \in Seq(Psub) /\ DOMAIN q = 1 .. n
  <2>1. \A k \in 1 .. n : subs[Source(k)] \in Psub
    BY <1>2, Indexes
  <2> HIDE DEF Source
  <2>2. q \in [1 .. n -> Psub]
    BY <1>3, <2>1
  <2> QED
    BY <1>1, <2>2, FunctionsAreSeqs, Zenon
<1>5. src \in [DOMAIN q -> DOMAIN subs]
  BY <1>2, <1>4
<1>6. \A k, l \in DOMAIN q : src[k] = src[l] => k = l
  BY <1>1, <1>4
<1>7. \A k \in DOMAIN q : q[k] = subs[src[k]]
  BY <1>3, <1>4
<1>8. ASSUME NEW j \in DOMAIN subs, j # i
      PROVE  \E k \in DOMAIN q : q[k] = subs[j]
  <2>1. CASE j = n + 1
    <3>1. i \in 1 .. n
      BY <1>1, <1>8, <2>1
    <3>2. Source(i) = j
      BY <2>1
    <3> QED
      BY <1>3, <1>4, <3>1, <3>2
  <2>2. CASE j # n + 1
    <3>1. j \in 1 .. n
      BY <1>1, <2>2
    <3>2. Source(j) = j
      BY <1>8
    <3> QED
      BY <1>3, <1>4, <3>1, <3>2
  <2> QED
    BY <2>1, <2>2
<1>9. LeftOf(q)
  <2> HIDE DEF q, src
  <2> QED
    BY <1>4, <1>5, <1>6, <1>7 DEF LeftOf
<1> QED
  BY <1>8, <1>9

\* bjm_pusher_remove: only a psub of that consumer goes.
LEMMA RemovedLeaves ==
  ASSUME TypeOK, NEW c \in Consumers
  PROVE  /\ LeftOf(Removed(c))
         /\ \A j \in Live : subs[j].consumer # c =>
              \E k \in DOMAIN Removed(c) : Removed(c)[k] = subs[j]
<1> DEFINE mine == {i \in DOMAIN subs : subs[i].consumer = c}
           i == CHOOSE i \in mine : \A j \in mine : i <= j
<1>1. DOMAIN subs = 1 .. Len(subs) /\ Len(subs) \in Nat
      /\ \A k \in DOMAIN subs : subs[k] \in Psub
  BY Indexes
<1>2. subs \in Seq(Psub)
  BY DEF TypeOK
<1>3. CASE mine = {}
  <2>1. Removed(c) = subs
    BY <1>3 DEF Removed
  <2> DEFINE src == [k \in DOMAIN subs |-> k]
  <2>2. src \in [DOMAIN subs -> DOMAIN subs]
    OBVIOUS
  <2>3. \A k \in DOMAIN subs : src[k] = k
    OBVIOUS
  <2> HIDE DEF src
  <2>4. LeftOf(subs)
    BY <1>2, <2>2, <2>3 DEF LeftOf
  <2> QED
    BY <2>1, <2>4 DEF Live
<1>4. CASE mine # {}
  <2>1. mine \in SUBSET Nat
    BY <1>1
  <2>2. \E k \in mine : \A j \in mine : ~(j < k)
    BY <1>4, <2>1, SmallestOf
  <2>3. \E k \in mine : \A j \in mine : k <= j
    BY <1>1, <2>2
  <2>4. i \in mine
    BY <2>3
  <2>5. i \in DOMAIN subs /\ subs[i].consumer = c
    BY <2>4
  <2>6. Removed(c) = IF subs[i].inflight THEN [subs EXCEPT ![i].gone = TRUE] ELSE Reaped(i)
    BY <1>4 DEF Removed
  <2> HIDE DEF i, mine
  <2>7. CASE subs[i].inflight
    <3> DEFINE q == [subs EXCEPT ![i].gone = TRUE]
               src == [k \in DOMAIN subs |-> k]
    <3>1. src \in [DOMAIN subs -> DOMAIN subs] /\ \A k \in DOMAIN subs : src[k] = k
      OBVIOUS
    <3>2. DOMAIN q = DOMAIN subs
      OBVIOUS
    <3>3. \A k \in DOMAIN subs :
            q[k] = IF k = i THEN [subs[k] EXCEPT !.gone = TRUE] ELSE subs[k]
      OBVIOUS
    <3>4. [subs[i] EXCEPT !.gone = TRUE] \in Psub
      BY <1>1, <2>5 DEF Psub
    <3>5. q \in Seq(Psub)
      BY <1>2, <2>5, <3>4
    <3> HIDE DEF q, src
    <3>6. LeftOf(q)
      BY <3>1, <3>2, <3>3, <3>5 DEF LeftOf
    <3> QED
      BY <2>5, <2>6, <2>7, <3>2, <3>3, <3>6 DEF Live, q
  <2>8. CASE ~subs[i].inflight
    <3>1. Removed(c) = Reaped(i)
      BY <2>6, <2>8
    <3> QED
      BY <2>5, <3>1, ReapedLeaves DEF Live
  <2> QED
    BY <2>7, <2>8
<1> QED
  BY <1>3, <1>4

\* bjm_pusher_add: a psub is appended, or the live ones of c take the pattern.
LEMMA AddedMakes ==
  ASSUME TypeOK, NEW c \in Consumers, NEW pattern \in Patterns
  PROVE  /\ Added(c, pattern) \in Seq(Psub)
         /\ DOMAIN subs \subseteq DOMAIN Added(c, pattern)
         /\ \A k \in DOMAIN subs : Added(c, pattern)[k] =
              IF k \in Found(c) THEN [subs[k] EXCEPT !.pattern = pattern] ELSE subs[k]
         /\ \A k \in DOMAIN Added(c, pattern) : k \notin DOMAIN subs =>
              /\ Found(c) = {} /\ k = Len(subs) + 1
              /\ Added(c, pattern)[k] = NewPsub(c, pattern, TRUE)
         /\ Found(c) = {} => Len(subs) + 1 \in DOMAIN Added(c, pattern) \ DOMAIN subs
<1> DEFINE q == Added(c, pattern)
<1>1. subs \in Seq(Psub)
  BY DEF TypeOK
<1>2. DOMAIN subs = 1 .. Len(subs) /\ Len(subs) \in Nat
      /\ \A k \in DOMAIN subs : subs[k] \in Psub
  BY Indexes
<1>3. CASE Found(c) = {}
  <2> DEFINE new == NewPsub(c, pattern, TRUE)
  <2>1. q = Append(subs, new)
    BY <1>3 DEF Added
  <2>2. new \in Psub
    BY NewPsubType
  <2> HIDE DEF new
  <2>3. /\ Append(subs, new) \in Seq(Psub)
        /\ DOMAIN Append(subs, new) = 1 .. Len(subs) + 1
        /\ \A k \in 1 .. Len(subs) : Append(subs, new)[k] = subs[k]
        /\ Append(subs, new)[Len(subs) + 1] = new
    BY <1>1, <2>2
  <2>4. DOMAIN q = DOMAIN subs \cup {Len(subs) + 1} /\ Len(subs) + 1 \notin DOMAIN subs
    BY <1>2, <2>1, <2>3
  <2> QED
    BY <1>2, <1>3, <2>1, <2>3, <2>4 DEF new
<1>4. CASE Found(c) # {}
  <2> DEFINE To(k) == IF k \in Found(c) THEN [subs[k] EXCEPT !.pattern = pattern] ELSE subs[k]
  <2>1. q = [k \in DOMAIN subs |-> To(k)]
    BY <1>4 DEF Added
  <2>2. \A k \in DOMAIN subs : To(k) \in Psub
    <3>1. \A p \in Psub : [p EXCEPT !.pattern = pattern] \in Psub
      BY DEF Psub
    <3> QED
      BY <1>2, <3>1
  <2>3. DOMAIN q = DOMAIN subs /\ \A k \in DOMAIN subs : q[k] = To(k)
    BY <2>1
  <2>4. q \in Seq(Psub)
    <3> HIDE DEF To
    <3>1. [k \in DOMAIN subs |-> To(k)] \in [DOMAIN subs -> Psub]
      BY <2>2, Zenon
    <3>2. [k \in DOMAIN subs |-> To(k)] \in [1 .. Len(subs) -> Psub]
      BY <1>2, <3>1, Zenon
    <3> QED
      BY <1>2, <2>1, <3>2, FunctionsAreSeqs, Zenon
  <2> QED
    BY <1>4, <2>3, <2>4
<1> QED
  BY <1>3, <1>4

(***************************************************************************)
(* An order of a finite set (NamesLoad, PushEach) has each member once.     *)
(***************************************************************************)
LEMMA OrderType ==
  ASSUME NEW S, IsFiniteSet(S), NEW q \in Orders(S)
  PROVE  /\ q \in Seq(S) /\ DOMAIN q = 1 .. Cardinality(S)
         /\ Cardinality(S) \in Nat
         /\ \A m, n \in DOMAIN q : q[m] = q[n] => m = n
         /\ \A x \in S : \E n \in DOMAIN q : q[n] = x
<1>1. Cardinality(S) \in Nat
  BY FS_CardinalityType
<1>2. q \in [1 .. Cardinality(S) -> S] /\ \A x \in S : \E n \in DOMAIN q : q[n] = x
  BY DEF Orders
<1>3. q \in Surjection(1 .. Cardinality(S), S)
  BY <1>2 DEF Surjection
<1>4. IsFiniteSet(1 .. Cardinality(S)) /\ Cardinality(1 .. Cardinality(S)) = Cardinality(S)
  BY <1>1, FS_Interval
<1>5. q \in Injection(1 .. Cardinality(S), S)
  BY <1>3, <1>4, FS_SurjSameCardinalityImpliesInj, Zenon
<1>6. \A m, n \in DOMAIN q : q[m] = q[n] => m = n
  BY <1>2, <1>5 DEF Injection, IsInjective
<1>7. q \in Seq(S)
  BY <1>1, <1>2, FunctionsAreSeqs, Zenon
<1> QED
  BY <1>1, <1>2, <1>6, <1>7

-----------------------------------------------------------------------------

(***************************************************************************)
(* What the steps make of the state, in the form the invariants need.       *)
(***************************************************************************)
Asked == IF work THEN Eligible ELSE {}

SkippedBy(c) == UNION {Skipped(subs[i]) : i \in {j \in Asked : subs[j].consumer = c}}

LEMMA SkippedAre ==
  ASSUME TypeOK, NEW c \in Consumers
  PROVE  /\ \A s \in SkippedBy(c) :
              s \in Subjects /\ Reached(c, s) # Acked(c, s) /\ Reached(c, s) = base[s]
         /\ \A i \in Asked, n \in Turns :
              LET s == names[Turn(subs[i], n)]
              IN  subs[i].consumer = c /\ n <= Pick(subs[i]) /\ s \in subs[i].pattern
                    /\ Reached(c, s) # Acked(c, s) => s \in SkippedBy(c)
<1>1. \A i \in Asked : subs[i] \in Psub
  BY Indexes DEF Asked, Eligible, Live
<1>2. ASSUME NEW s \in SkippedBy(c)
      PROVE  s \in Subjects /\ Reached(c, s) # Acked(c, s) /\ Reached(c, s) = base[s]
  <2>1. PICK i \in Asked : subs[i].consumer = c /\ s \in Skipped(subs[i])
    BY <1>2 DEF SkippedBy
  <2>2. s \in subs[i].pattern /\ Reached(c, s) # Acked(c, s)
    BY <2>1 DEF Skipped
  <2>3. subs[i].pattern \in Patterns
    BY <1>1 DEF Psub
  <2>4. s \in Subjects
    BY <2>2, <2>3, PusherAssumption
  <2> QED
    BY <2>2, <2>4, AckedType
<1>3. ASSUME NEW i \in Asked, NEW n \in Turns, NEW s, s = names[Turn(subs[i], n)],
             subs[i].consumer = c, n <= Pick(subs[i]), s \in subs[i].pattern,
             Reached(c, s) # Acked(c, s)
      PROVE  s \in SkippedBy(c)
  <2>1. s \in Skipped(subs[i])
    BY <1>3 DEF Skipped
  <2> QED
    BY <1>3, <2>1 DEF SkippedBy
<1> QED
  BY <1>2, <1>3

LEMMA PumpMakes ==
  ASSUME TypeOK, Pump
  PROVE  /\ subs' \in Seq(Psub) /\ DOMAIN subs' = DOMAIN subs
         /\ \A i \in Asked : \E size \in BatchSizes : subs'[i] = Started(subs[i], size)
         /\ \A i \in DOMAIN subs \ Asked : subs'[i] = subs[i]
         /\ receipt' \in [Consumers -> [Subjects -> Receipts]]
         /\ settled' \in [Consumers -> [Subjects -> SUBSET Nat]]
         /\ \A c \in Consumers, s \in Subjects :
              /\ receipt'[c][s] = IF s \in SkippedBy(c) THEN base[s] ELSE receipt[c][s]
              /\ settled'[c][s] = IF s \in SkippedBy(c)
                                    THEN settled[c][s] \cup (Acked(c, s) + 1 .. base[s])
                                    ELSE settled[c][s]
         /\ work' = (work /\ (Busy \/ \E i \in Asked : subs'[i].inflight))
         /\ poll' \in {"tick", "now", "due", "idle"}
         /\ UNCHANGED <<logVars, registry, names, joined>>
<1> DEFINE R(c, s) == IF s \in SkippedBy(c) THEN base[s] ELSE receipt[c][s]
           S(c, s) == IF s \in SkippedBy(c)
                        THEN settled[c][s] \cup (Acked(c, s) + 1 .. base[s])
                        ELSE settled[c][s]
<1>1. PICK size \in [Asked -> BatchSizes] :
        subs' = [i \in DOMAIN subs |->
                   IF i \in Asked THEN Started(subs[i], size[i]) ELSE subs[i]]
  BY DEF Pump, Asked
<1>2. /\ receipt' = [c \in Consumers |-> [s \in Subjects |-> R(c, s)]]
      /\ settled' = [c \in Consumers |-> [s \in Subjects |-> S(c, s)]]
      /\ work' = (work /\ (Busy \/ \E i \in Asked : subs'[i].inflight))
      /\ poll' \in {"tick", "now", "due", "idle"}
      /\ UNCHANGED <<logVars, registry, names, joined>>
  BY DEF Pump, SkippedBy, Asked
<1>3. Asked \subseteq DOMAIN subs
  BY DEF Asked, Eligible, Live
<1>4. /\ DOMAIN subs = 1 .. Len(subs) /\ Len(subs) \in Nat
      /\ \A i \in DOMAIN subs : subs[i] \in Psub
  BY Indexes
<1>5. /\ DOMAIN subs' = DOMAIN subs
      /\ \A i \in Asked : size[i] \in BatchSizes /\ subs'[i] = Started(subs[i], size[i])
      /\ \A i \in DOMAIN subs \ Asked : subs'[i] = subs[i]
  BY <1>1, <1>3
<1>6. subs' \in Seq(Psub)
  <2>1. \A i \in DOMAIN subs : subs'[i] \in Psub
    BY <1>3, <1>4, <1>5, StartedType
  <2>2. subs' = [i \in DOMAIN subs |-> subs'[i]]
    BY <1>1
  <2>3. subs' \in [DOMAIN subs -> Psub]
    BY <2>1, <2>2, Zenon
  <2>4. subs' \in [1 .. Len(subs) -> Psub]
    BY <1>4, <2>3, Zenon
  <2> QED
    BY <1>4, <2>4, FunctionsAreSeqs, Zenon
<1>7. \A c \in Consumers, s \in Subjects :
        R(c, s) \in Receipts /\ S(c, s) \in SUBSET Nat
  <2> SUFFICES ASSUME NEW c \in Consumers, NEW s \in Subjects
               PROVE  R(c, s) \in Receipts /\ S(c, s) \in SUBSET Nat
    OBVIOUS
  <2>1. base[s] \in Nat /\ receipt[c][s] \in Receipts /\ Acked(c, s) \in Nat
    BY AckedType
  <2>2. settled[c][s] \in SUBSET Nat
    BY DEF TypeOK
  <2>3. (Acked(c, s) + 1 .. base[s]) \in SUBSET Nat
    BY <2>1
  <2> QED
    BY <2>1, <2>2, <2>3 DEF Receipts
<1> HIDE DEF R, S
<1>8. /\ receipt' \in [Consumers -> [Subjects -> Receipts]]
      /\ settled' \in [Consumers -> [Subjects -> SUBSET Nat]]
      /\ \A c \in Consumers, s \in Subjects :
           receipt'[c][s] = R(c, s) /\ settled'[c][s] = S(c, s)
  BY <1>2, <1>7
<1>9. \A i \in Asked : \E z \in BatchSizes : subs'[i] = Started(subs[i], z)
  BY <1>5
<1> QED
  BY <1>2, <1>5, <1>6, <1>8, <1>9 DEF R, S

\* h_push_put seeds only receipts there are none of, and where it begins.
PutMade(c) ==
  /\ receipt' \in [Consumers -> [Subjects -> Receipts]]
  /\ joined' \in [Consumers -> [Subjects -> Nat]]
  /\ \A d \in Consumers, s \in Subjects :
       \/ receipt'[d][s] = receipt[d][s] /\ joined'[d][s] = joined[d][s]
       \/ /\ d = c /\ receipt[c][s] = NoReceipt /\ receipt'[c][s] \in Nat
          /\ receipt'[c][s] = joined'[c][s]

LEMMA PutMakes ==
  ASSUME TypeOK, NEW c \in Consumers, NEW pattern \in Patterns, NEW atEnd \in BOOLEAN,
         NEW from \in Nat, Put(c, pattern, atEnd, from)
  PROVE  PutMade(c)
<1> DEFINE seeded == IF registry[c] = Unregistered THEN Seeded(c, pattern) ELSE {}
           at == [s \in Subjects |-> SeedAt(s, atEnd, from)]
           R == [s \in Subjects |-> IF s \in seeded THEN at[s] ELSE receipt[c][s]]
           J == [s \in Subjects |-> IF s \in seeded THEN at[s] ELSE joined[c][s]]
<1>1. /\ receipt' = [receipt EXCEPT ![c] = R]
      /\ joined' = [joined EXCEPT ![c] = J]
      /\ registry' = [registry EXCEPT ![c] = pattern]
      /\ subs' = Added(c, pattern)
      /\ work' = TRUE
      /\ UNCHANGED <<last, base, names, poll, settled>>
  BY DEF Put
<1>2. \A s \in Subjects : at[s] \in Nat
  <2>1. \A s \in Subjects : last[s] \in Nat
    BY DEF TypeOK
  <2> QED
    BY <2>1 DEF SeedAt
<1>3. \A s \in seeded : receipt[c][s] = NoReceipt
  BY DEF Seeded
<1> HIDE DEF seeded, at
<1>4. \A s \in Subjects : receipt[c][s] \in Receipts /\ joined[c][s] \in Nat
  BY DEF TypeOK
<1>5. R \in [Subjects -> Receipts] /\ J \in [Subjects -> Nat]
  BY <1>2, <1>4 DEF Receipts
<1>6. \A s \in Subjects :
        \/ R[s] = receipt[c][s] /\ J[s] = joined[c][s]
        \/ receipt[c][s] = NoReceipt /\ R[s] \in Nat /\ R[s] = J[s]
  BY <1>2, <1>3
<1> HIDE DEF R, J
<1>7. /\ receipt \in [Consumers -> [Subjects -> Receipts]]
      /\ joined \in [Consumers -> [Subjects -> Nat]]
  BY DEF TypeOK
<1>8. /\ receipt' \in [Consumers -> [Subjects -> Receipts]]
      /\ joined' \in [Consumers -> [Subjects -> Nat]]
      /\ \A d \in Consumers :
           /\ receipt'[d] = IF d = c THEN R ELSE receipt[d]
           /\ joined'[d] = IF d = c THEN J ELSE joined[d]
  BY <1>1, <1>5, <1>7
<1> QED
  BY <1>6, <1>8 DEF PutMade

LEMMA ForgetMakes ==
  ASSUME TypeOK, NEW c \in Consumers, NEW forgotten \in SUBSET Subjects,
         Forget(c, forgotten)
  PROVE  /\ receipt' \in [Consumers -> [Subjects -> Receipts]]
         /\ joined' \in [Consumers -> [Subjects -> Nat]]
         /\ settled' \in [Consumers -> [Subjects -> SUBSET Nat]]
         /\ \A d \in Consumers, s \in Subjects :
              IF d = c /\ s \in forgotten
                THEN receipt'[d][s] = NoReceipt /\ joined'[d][s] = 0 /\ settled'[d][s] = {}
                ELSE /\ receipt'[d][s] = receipt[d][s]
                     /\ joined'[d][s] = joined[d][s]
                     /\ settled'[d][s] = settled[d][s]
<1> DEFINE R == [s \in Subjects |-> IF s \in forgotten THEN NoReceipt ELSE receipt[c][s]]
           J == [s \in Subjects |-> IF s \in forgotten THEN 0 ELSE joined[c][s]]
           S == [s \in Subjects |-> IF s \in forgotten THEN {} ELSE settled[c][s]]
<1>1. /\ receipt' = [receipt EXCEPT ![c] = R]
      /\ joined' = [joined EXCEPT ![c] = J]
      /\ settled' = [settled EXCEPT ![c] = S]
  BY DEF Forget
<1>2. \A s \in Subjects : /\ receipt[c][s] \in Receipts /\ joined[c][s] \in Nat
                           /\ settled[c][s] \in SUBSET Nat
  BY DEF TypeOK
<1>3. /\ R \in [Subjects -> Receipts] /\ J \in [Subjects -> Nat]
      /\ S \in [Subjects -> SUBSET Nat]
  <2>1. NoReceipt \in Receipts /\ {} \in SUBSET Nat /\ 0 \in Nat
    BY DEF Receipts
  <2> QED
    BY <1>2, <2>1
<1>4. \A s \in Subjects :
        /\ R[s] = IF s \in forgotten THEN NoReceipt ELSE receipt[c][s]
        /\ J[s] = IF s \in forgotten THEN 0 ELSE joined[c][s]
        /\ S[s] = IF s \in forgotten THEN {} ELSE settled[c][s]
  OBVIOUS
<1> HIDE DEF R, J, S
<1>5. /\ receipt \in [Consumers -> [Subjects -> Receipts]]
      /\ joined \in [Consumers -> [Subjects -> Nat]]
      /\ settled \in [Consumers -> [Subjects -> SUBSET Nat]]
  BY DEF TypeOK
<1>6. /\ receipt' \in [Consumers -> [Subjects -> Receipts]]
      /\ joined' \in [Consumers -> [Subjects -> Nat]]
      /\ settled' \in [Consumers -> [Subjects -> SUBSET Nat]]
      /\ \A d \in Consumers :
           /\ receipt'[d] = IF d = c THEN R ELSE receipt[d]
           /\ joined'[d] = IF d = c THEN J ELSE joined[d]
           /\ settled'[d] = IF d = c THEN S ELSE settled[d]
  BY <1>1, <1>3, <1>5
<1> QED
  BY <1>4, <1>6

LEMMA FinishMakes ==
  ASSUME TypeInv, NEW i \in DOMAIN subs, NEW ack \in Nat, Finish(i, ack)
  PROVE  /\ subs[i].inflight
         /\ UNCHANGED <<logVars, registry, names, poll, joined>>
         /\ \/ /\ subs[i].gone /\ subs' = Reaped(i)
               /\ UNCHANGED <<receipt, settled, work>>
            \/ /\ ~subs[i].gone /\ subs' = [subs EXCEPT ![i] = BackedOff(subs[i])]
               /\ UNCHANGED <<receipt, settled, work>>
            \/ /\ ~subs[i].gone /\ ack \in subs[i].first .. subs[i].last /\ work' = TRUE
               /\ subs' = [subs EXCEPT
                             ![i] = [Ended(subs[i]) EXCEPT !.wait = 0, !.failures = 0]]
               /\ receipt' \in [Consumers -> [Subjects -> Receipts]]
               /\ settled' \in [Consumers -> [Subjects -> SUBSET Nat]]
               /\ \A d \in Consumers, s \in Subjects :
                    IF d = subs[i].consumer /\ s = subs[i].subject
                      THEN /\ settled'[d][s] =
                                settled[d][s] \cup (subs[i].first .. ack)
                           /\ receipt'[d][s] =
                                IF receipt[d][s] # NoReceipt /\ ack <= receipt[d][s]
                                  THEN receipt[d][s] ELSE ack
                      ELSE /\ settled'[d][s] = settled[d][s]
                           /\ receipt'[d][s] = receipt[d][s]
<1> DEFINE p == subs[i]
           c == p.consumer
           s == p.subject
<1>1. /\ p.inflight /\ ack \in {0} \cup (p.first .. p.last)
      /\ UNCHANGED <<logVars, registry, names, poll, joined>>
  BY DEF Finish
<1>2. CASE p.gone
  BY <1>1, <1>2 DEF Finish
<1>3. CASE ~p.gone /\ ack = 0
  BY <1>1, <1>3 DEF Finish
<1>4. CASE ~p.gone /\ ack # 0
  <2> DEFINE moved == IF receipt[c][s] # NoReceipt /\ ack <= receipt[c][s]
                        THEN receipt[c][s] ELSE ack
             batch == p.first .. ack
  <2>1. /\ subs' = [subs EXCEPT ![i] = [Ended(p) EXCEPT !.wait = 0, !.failures = 0]]
        /\ receipt' = [receipt EXCEPT ![c][s] = moved]
        /\ settled' = [settled EXCEPT ![c][s] = settled[c][s] \cup batch]
        /\ work' = TRUE
    BY <1>4 DEF Finish
  <2>2. c \in Consumers /\ p.first \in Nat
    BY Indexes DEF Psub, TypeInv
  <2>3. s \in Subjects
    BY <1>1 DEF TypeInv, FlightsNamed
  <2>4. receipt[c][s] \in Receipts /\ settled[c][s] \in SUBSET Nat
    BY <2>2, <2>3 DEF TypeInv, TypeOK
  <2>5. moved \in Receipts
    BY <2>4 DEF Receipts
  <2>6. settled[c][s] \cup batch \in SUBSET Nat
    BY <2>2, <2>4
  <2> HIDE DEF moved, batch, c, s
  <2>7. /\ receipt \in [Consumers -> [Subjects -> Receipts]]
        /\ settled \in [Consumers -> [Subjects -> SUBSET Nat]]
    BY DEF TypeInv, TypeOK
  <2>8. /\ receipt' \in [Consumers -> [Subjects -> Receipts]]
        /\ \A d \in Consumers, t \in Subjects :
             receipt'[d][t] = IF d = c /\ t = s THEN moved ELSE receipt[d][t]
    BY <2>1, <2>2, <2>3, <2>5, <2>7
  <2>9. /\ settled' \in [Consumers -> [Subjects -> SUBSET Nat]]
        /\ \A d \in Consumers, t \in Subjects :
             settled'[d][t] = IF d = c /\ t = s THEN settled[c][s] \cup batch
                                               ELSE settled[d][t]
    BY <2>1, <2>2, <2>3, <2>6, <2>7
  <2>10. ack \in p.first .. p.last
    BY <1>1, <1>4
  <2>11. \A d \in Consumers, t \in Subjects :
           IF d = c /\ t = s
             THEN /\ settled'[d][t] = settled[d][t] \cup batch
                  /\ receipt'[d][t] = IF receipt[d][t] # NoReceipt /\ ack <= receipt[d][t]
                                     THEN receipt[d][t] ELSE ack
             ELSE /\ settled'[d][t] = settled[d][t]
                  /\ receipt'[d][t] = receipt[d][t]
    BY ONLY <2>8, <2>9 DEF moved
  <2> USE DEF batch, c, s
  <2>12. /\ ~subs[i].gone /\ ack \in subs[i].first .. subs[i].last /\ work' = TRUE
         /\ subs' = [subs EXCEPT ![i] = [Ended(subs[i]) EXCEPT !.wait = 0, !.failures = 0]]
    BY ONLY <1>4, <2>1, <2>10
  <2> QED
    BY ONLY <1>1, <2>8, <2>9, <2>11, <2>12, Zenon
<1> QED
  BY <1>2, <1>3, <1>4

LEMMA RestartMakes ==
  ASSUME TypeOK, Restart
  PROVE  /\ names' \in Seq(Subjects)
         /\ \A m, n \in DOMAIN names' : names'[m] = names'[n] => m = n
         /\ subs' \in Seq(Psub)
         /\ \A k \in DOMAIN subs' :
              /\ subs'[k].consumer \in Consumers
              /\ registry[subs'[k].consumer] # Unregistered
              /\ subs'[k] = NewPsub(subs'[k].consumer, registry[subs'[k].consumer], FALSE)
         /\ \A k, l \in DOMAIN subs' : subs'[k].consumer = subs'[l].consumer => k = l
         /\ \A c \in Consumers : registry[c] # Unregistered =>
              \E k \in DOMAIN subs' : subs'[k].consumer = c
<1> DEFINE S == {s \in Subjects : last[s] > 0}
           C == {c \in Consumers : registry[c] # Unregistered}
<1>1. IsFiniteSet(S) /\ IsFiniteSet(C)
  BY PusherAssumption, FS_Subset
<1>2. names' \in Orders(S)
  BY DEF Restart, NamesLoad
<1>3. names' \in Seq(S) /\ \A m, n \in DOMAIN names' : names'[m] = names'[n] => m = n
  BY <1>1, <1>2, OrderType, Zenon
<1>4. names' \in Seq(Subjects)
  BY <1>3, SeqMonotonic, Zenon
<1>5. PICK q \in Orders(C) : subs' = [n \in DOMAIN q |-> NewPsub(q[n], registry[q[n]], FALSE)]
  BY DEF Restart, PushEach
<1>6. /\ q \in Seq(C) /\ DOMAIN q = 1 .. Cardinality(C) /\ Cardinality(C) \in Nat
      /\ \A m, n \in DOMAIN q : q[m] = q[n] => m = n
      /\ \A c \in C : \E n \in DOMAIN q : q[n] = c
  BY <1>1, OrderType, Zenon
<1>7. \A n \in DOMAIN q : /\ q[n] \in Consumers /\ registry[q[n]] \in Patterns
                          /\ registry[q[n]] # Unregistered
  <2>1. \A n \in DOMAIN q : q[n] \in C
    BY <1>6
  <2>2. \A c \in C : c \in Consumers /\ registry[c] \in Patterns /\ registry[c] # Unregistered
    BY DEF TypeOK
  <2> QED
    BY <2>1, <2>2
<1>8. DOMAIN subs' = DOMAIN q
  BY <1>5
<1>9. \A n \in DOMAIN q : /\ subs'[n] = NewPsub(q[n], registry[q[n]], FALSE)
                          /\ subs'[n] \in Psub /\ subs'[n].consumer = q[n]
  BY <1>5, <1>7, NewPsubType
<1>10. subs' \in Seq(Psub)
  <2>1. subs' = [n \in DOMAIN q |-> subs'[n]]
    BY <1>5
  <2>2. subs' \in [DOMAIN q -> Psub]
    BY <1>9, <2>1, Zenon
  <2>3. subs' \in [1 .. Cardinality(C) -> Psub]
    BY <1>6, <2>2, Zenon
  <2> QED
    BY <1>6, <2>3, FunctionsAreSeqs, Zenon
<1> HIDE DEF S
<1>11. \A c \in Consumers : registry[c] # Unregistered => \E n \in DOMAIN q : q[n] = c
  BY <1>6
<1> HIDE DEF C
<1>12. \A k \in DOMAIN subs' :
         /\ subs'[k].consumer \in Consumers
         /\ registry[subs'[k].consumer] # Unregistered
         /\ subs'[k] = NewPsub(subs'[k].consumer, registry[subs'[k].consumer], FALSE)
  BY <1>7, <1>8, <1>9
<1>13. \A k, l \in DOMAIN subs' : subs'[k].consumer = subs'[l].consumer => k = l
  BY <1>6, <1>8, <1>9
<1>14. \A c \in Consumers : registry[c] # Unregistered =>
         \E k \in DOMAIN subs' : subs'[k].consumer = c
  BY <1>8, <1>9, <1>11
<1> QED
  BY <1>3, <1>4, <1>10, <1>12, <1>13, <1>14

LEMMA TickMakes ==
  ASSUME TypeOK, Tick
  PROVE  /\ subs' \in Seq(Psub) /\ DOMAIN subs' = DOMAIN subs
         /\ \A i \in DOMAIN subs : \E w \in 0 .. BackoffMax :
              /\ subs'[i] = [subs[i] EXCEPT !.wait = w]
              /\ subs[i].wait = 0 => w = 0
         /\ UNCHANGED <<storeVars, names, work, poll, joined, settled>>
<1> DEFINE W(i) == IF subs[i].wait = 0 THEN 0 ELSE subs[i].wait - 1
<1>1. /\ subs' = [i \in DOMAIN subs |-> [subs[i] EXCEPT !.wait = W(i)]]
      /\ UNCHANGED <<storeVars, names, work, poll, joined, settled>>
  BY DEF Tick
<1>2. /\ DOMAIN subs = 1 .. Len(subs) /\ Len(subs) \in Nat
      /\ \A i \in DOMAIN subs : subs[i] \in Psub
  BY Indexes
<1>3. \A i \in DOMAIN subs : W(i) \in 0 .. BackoffMax /\ (subs[i].wait = 0 => W(i) = 0)
  <2>1. BackoffMax \in Nat
    BY PusherAssumption
  <2>2. \A i \in DOMAIN subs : subs[i].wait \in 0 .. BackoffMax
    BY <1>2 DEF Psub
  <2> QED
    BY <2>1, <2>2
<1> HIDE DEF W
<1>4. \A p \in Psub, w \in 0 .. BackoffMax : [p EXCEPT !.wait = w] \in Psub
  BY DEF Psub
<1>5. /\ DOMAIN subs' = DOMAIN subs
      /\ \A i \in DOMAIN subs : subs'[i] = [subs[i] EXCEPT !.wait = W(i)]
  BY <1>1
<1>6. \A i \in DOMAIN subs : subs'[i] \in Psub
  BY <1>2, <1>3, <1>4, <1>5
<1>7. subs' \in Seq(Psub)
  <2>1. subs' = [i \in DOMAIN subs |-> subs'[i]]
    BY <1>1, <1>5
  <2>2. subs' \in [DOMAIN subs -> Psub]
    BY <1>6, <2>1, Zenon
  <2>3. subs' \in [1 .. Len(subs) -> Psub]
    BY <1>2, <2>2, Zenon
  <2> QED
    BY <1>2, <2>3, FunctionsAreSeqs, Zenon
<1> QED
  BY <1>1, <1>3, <1>5, <1>7

-----------------------------------------------------------------------------

(***************************************************************************)
(* The types, and the subjects of deliveries.                               *)
(***************************************************************************)
LEMMA LeftOfType ==
  ASSUME TypeInv, NEW q, LeftOf(q)
  PROVE  q \in Seq(Psub) /\ \A k \in DOMAIN q : q[k].inflight => q[k].subject \in Subjects
<1>1. PICK src \in [DOMAIN q -> DOMAIN subs] :
        \A k \in DOMAIN q : \/ q[k] = subs[src[k]]
                            \/ q[k] = [subs[src[k]] EXCEPT !.gone = TRUE]
  BY DEF LeftOf
<1>2. \A j \in DOMAIN subs : subs[j] \in Psub /\ (subs[j].inflight => subs[j].subject \in Subjects)
  BY Indexes DEF TypeInv, FlightsNamed
<1>3. \A p \in Psub : /\ [p EXCEPT !.gone = TRUE].inflight = p.inflight
                      /\ [p EXCEPT !.gone = TRUE].subject = p.subject
  BY DEF Psub
<1>4. ASSUME NEW k \in DOMAIN q, q[k].inflight
      PROVE  q[k].subject \in Subjects
  <2> DEFINE p == subs[src[k]]
  <2>1. p \in Psub /\ (p.inflight => p.subject \in Subjects)
    BY <1>2
  <2>2. q[k].inflight = p.inflight /\ q[k].subject = p.subject
    BY <1>1, <1>3, <2>1
  <2> QED
    BY <1>4, <2>1, <2>2
<1> QED
  BY <1>4 DEF LeftOf

LEMMA NamesAddType ==
  ASSUME TypeOK, NEW s \in Subjects
  PROVE  NamesAdd(s) \in Seq(Subjects)
  BY DEF NamesAdd, TypeOK

LEMMA TypeInvInit == Init => TypeInv
<1> SUFFICES ASSUME Init PROVE TypeInv
  OBVIOUS
<1>1. names \in Seq(Subjects) /\ subs \in Seq(Psub) /\ DOMAIN subs = {}
  BY DEF Init
<1>2. FlightsNamed
  BY <1>1 DEF FlightsNamed
<1>3. NoReceipt \in Receipts /\ {} \in SUBSET Nat
  BY DEF Receipts
<1>4. TypeOK
  BY <1>1, <1>3 DEF Init, TypeOK
<1> QED
  BY <1>2, <1>4 DEF TypeInv

LEMMA TypeInvStep ==
  ASSUME TypeInv, [Next]_vars
  PROVE  TypeInv'
<1>1. TypeOK /\ FlightsNamed
  BY DEF TypeInv
<1>2. ASSUME NEW s \in Subjects, Publish(s)
      PROVE  TypeInv'
  <2>1. last[s] + 1 \in Nat /\ last \in [Subjects -> Nat]
    BY <1>1 DEF TypeOK
  <2>2. last' \in [Subjects -> Nat]
    BY <1>2, <2>1 DEF Publish
  <2>3. names' \in Seq(Subjects)
    BY <1>1, <1>2, NamesAddType DEF Publish
  <2>4. TypeOK'
    BY <1>1, <1>2, <2>2, <2>3 DEF Publish, TypeOK
  <2>5. FlightsNamed'
    BY <1>1, <1>2 DEF Publish, FlightsNamed
  <2> QED
    BY <2>4, <2>5 DEF TypeInv
<1>3. ASSUME NEW c \in Consumers, NEW pattern \in Patterns, NEW atEnd \in BOOLEAN,
             NEW from \in Nat, Put(c, pattern, atEnd, from)
      PROVE  TypeInv'
  <2>1. /\ receipt' \in [Consumers -> [Subjects -> Receipts]]
        /\ joined' \in [Consumers -> [Subjects -> Nat]]
        /\ registry' = [registry EXCEPT ![c] = pattern]
        /\ subs' = Added(c, pattern) /\ work' = TRUE
        /\ UNCHANGED <<last, base, names, poll, settled>>
    <3>1. PutMade(c)
      BY <1>1, <1>3, PutMakes
    <3> QED
      BY <1>3, <3>1 DEF Put, PutMade
  <2>2. registry' \in [Consumers -> Patterns \cup {Unregistered}]
    BY <1>1, <2>1 DEF TypeOK
  <2>3. /\ subs' \in Seq(Psub)
        /\ \A k \in DOMAIN subs : subs'[k] =
              IF k \in Found(c) THEN [subs[k] EXCEPT !.pattern = pattern] ELSE subs[k]
        /\ \A k \in DOMAIN subs' : k \notin DOMAIN subs => subs'[k] = NewPsub(c, pattern, TRUE)
    BY <1>1, <2>1, AddedMakes
  <2>4. TypeOK'
    BY <1>1, <2>1, <2>2, <2>3 DEF TypeOK
  <2>5. FlightsNamed'
    <3>1. \A p \in Psub : /\ [p EXCEPT !.pattern = pattern].inflight = p.inflight
                          /\ [p EXCEPT !.pattern = pattern].subject = p.subject
      BY DEF Psub
    <3>2. ASSUME NEW k \in DOMAIN subs', subs'[k].inflight
          PROVE  subs'[k].subject \in Subjects
      <4>1. k \in DOMAIN subs
        BY <2>3, <3>2 DEF NewPsub
      <4>2. subs[k] \in Psub
        BY <1>1, <4>1, Indexes
      <4>3. subs'[k].inflight = subs[k].inflight /\ subs'[k].subject = subs[k].subject
        BY <2>3, <3>1, <4>1, <4>2
      <4> QED
        BY <1>1, <3>2, <4>1, <4>3 DEF FlightsNamed
    <3> QED
      BY <3>2 DEF FlightsNamed
  <2> QED
    BY <2>4, <2>5 DEF TypeInv
<1>4. ASSUME NEW c \in Consumers, NEW purge \in Purges, Delete(c, purge)
      PROVE  TypeInv'
  <2>1. PICK forgotten \in SUBSET Subjects : Forget(c, forgotten)
    BY <1>4 DEF Delete
  <2>2. /\ receipt' \in [Consumers -> [Subjects -> Receipts]]
        /\ joined' \in [Consumers -> [Subjects -> Nat]]
        /\ settled' \in [Consumers -> [Subjects -> SUBSET Nat]]
    BY <1>1, <2>1, ForgetMakes
  <2>3. /\ registry' = [registry EXCEPT ![c] = Unregistered] /\ subs' = Removed(c)
        /\ UNCHANGED <<logVars, names, work, poll>>
    BY <1>4 DEF Delete
  <2>4. registry' \in [Consumers -> Patterns \cup {Unregistered}]
    BY <1>1, <2>3 DEF TypeOK
  <2>5. LeftOf(subs')
    BY <1>1, <2>3, RemovedLeaves
  <2>6. subs' \in Seq(Psub) /\ FlightsNamed'
    BY <2>5, LeftOfType DEF FlightsNamed
  <2>7. TypeOK'
    BY <1>1, <2>2, <2>3, <2>4, <2>6 DEF TypeOK, logVars
  <2> QED
    BY <2>6, <2>7 DEF TypeInv
<1>5. ASSUME NEW c \in Consumers, NEW s \in Subjects, Unsubscribe(c, s)
      PROVE  TypeInv'
  <2>1. Forget(c, {s}) /\ UNCHANGED <<logVars, registry, pushVars>>
    BY <1>5 DEF Unsubscribe
  <2>2. /\ receipt' \in [Consumers -> [Subjects -> Receipts]]
        /\ joined' \in [Consumers -> [Subjects -> Nat]]
        /\ settled' \in [Consumers -> [Subjects -> SUBSET Nat]]
    BY <1>1, <2>1, ForgetMakes
  <2> QED
    BY <1>1, <2>1, <2>2 DEF TypeInv, TypeOK, FlightsNamed, logVars, pushVars
<1>6. ASSUME NEW s \in Subjects, NEW n \in 1 .. MaxIndex, NEW force \in ForceFlags, Trim(s, n, force)
      PROVE  TypeInv'
  <2>1. n \in Nat
    BY PusherAssumption
  <2>2. base' \in [Subjects -> Nat]
    BY <1>1, <1>6, <2>1 DEF Trim, TypeOK
  <2> QED
    BY <1>1, <1>6, <2>2 DEF Trim, TypeInv, TypeOK, FlightsNamed, pushVars
<1>7. ASSUME Pump
      PROVE  TypeInv'
  <2>1. /\ subs' \in Seq(Psub) /\ DOMAIN subs' = DOMAIN subs
        /\ \A i \in Asked : \E size \in BatchSizes : subs'[i] = Started(subs[i], size)
        /\ \A i \in DOMAIN subs \ Asked : subs'[i] = subs[i]
        /\ receipt' \in [Consumers -> [Subjects -> Receipts]]
        /\ settled' \in [Consumers -> [Subjects -> SUBSET Nat]]
        /\ work' = (work /\ (Busy \/ \E i \in Asked : subs'[i].inflight))
        /\ poll' \in {"tick", "now", "due", "idle"}
        /\ UNCHANGED <<logVars, registry, names, joined>>
    BY <1>1, <1>7, PumpMakes
  <2>2. work' \in BOOLEAN
    BY <2>1
  <2>3. TypeOK'
    BY <1>1, <2>1, <2>2 DEF TypeOK, logVars
  <2>4. ASSUME NEW i \in DOMAIN subs, subs'[i].inflight
        PROVE  subs'[i].subject \in Subjects
    <3>1. CASE i \in Asked
      <4>1. PICK size \in BatchSizes : subs'[i] = Started(subs[i], size)
        BY <2>1, <3>1
      <4>2. subs[i] \in Psub
        BY <1>1, Indexes
      <4>3. \/ subs'[i] = subs[i]
            \/ subs'[i].inflight = subs[i].inflight /\ subs'[i].subject = subs[i].subject
            \/ subs'[i].subject = names[Turn(subs[i], Pick(subs[i]))] /\ Pick(subs[i]) \in Turns
        BY <1>1, <4>1, <4>2, StartedType, PickType
      <4> QED
        BY <1>1, <2>4, <4>2, <4>3, TurnType DEF FlightsNamed
    <3>2. CASE i \notin Asked
      BY <1>1, <2>1, <2>4, <3>2 DEF FlightsNamed
    <3> QED
      BY <3>1, <3>2
  <2>5. FlightsNamed'
    BY <2>1, <2>4 DEF FlightsNamed
  <2> QED
    BY <2>3, <2>5 DEF TypeInv
<1>8. ASSUME NEW i \in DOMAIN subs, NEW ack \in Nat, Finish(i, ack)
      PROVE  TypeInv'
  <2>1. subs[i] \in Psub /\ subs \in Seq(Psub)
    BY <1>1, Indexes DEF TypeOK
  <2>2. CASE subs' = Reaped(i) /\ UNCHANGED <<receipt, settled, work>>
    <3>1. subs' \in Seq(Psub) /\ FlightsNamed'
      BY <1>1, <2>2, ReapedLeaves, LeftOfType DEF FlightsNamed
    <3> QED
      BY <1>1, <1>8, <2>2, <3>1, FinishMakes DEF TypeInv, TypeOK, logVars
  <2>3. ASSUME NEW p \in Psub, subs' = [subs EXCEPT ![i] = p], ~p.inflight
        PROVE  subs' \in Seq(Psub) /\ FlightsNamed'
    <3>1. /\ subs' \in Seq(Psub) /\ DOMAIN subs' = DOMAIN subs
          /\ \A k \in DOMAIN subs : subs'[k] = IF k = i THEN p ELSE subs[k]
      BY <2>1, <2>3
    <3> QED
      BY <1>1, <2>3, <3>1 DEF FlightsNamed
  <2>4. CASE subs' = [subs EXCEPT ![i] = BackedOff(subs[i])] /\ UNCHANGED <<receipt, settled, work>>
    <3>1. BackedOff(subs[i]) \in Psub /\ ~BackedOff(subs[i]).inflight
      BY <2>1, EndedType, EndedKeeps
    <3>2. subs' \in Seq(Psub) /\ FlightsNamed'
      BY <2>3, <2>4, <3>1
    <3> QED
      BY <1>1, <1>8, <2>4, <3>2, FinishMakes DEF TypeInv, TypeOK, logVars
  <2>5. CASE /\ subs' = [subs EXCEPT ![i] = [Ended(subs[i]) EXCEPT !.wait = 0, !.failures = 0]]
             /\ receipt' \in [Consumers -> [Subjects -> Receipts]]
             /\ settled' \in [Consumers -> [Subjects -> SUBSET Nat]]
             /\ work' = TRUE
    <3> DEFINE p == [Ended(subs[i]) EXCEPT !.wait = 0, !.failures = 0]
    <3>1. p \in Psub /\ ~p.inflight
      BY <2>1, EndedType, EndedKeeps
    <3>2. subs' \in Seq(Psub) /\ FlightsNamed'
      BY <2>3, <2>5, <3>1
    <3> QED
      BY <1>1, <1>8, <2>5, <3>2, FinishMakes DEF TypeInv, TypeOK, logVars
  <2> QED
    BY <1>8, <2>2, <2>4, <2>5, FinishMakes
<1>9. ASSUME Tick
      PROVE  TypeInv'
  <2>1. /\ subs' \in Seq(Psub) /\ DOMAIN subs' = DOMAIN subs
        /\ \A i \in DOMAIN subs : \E w \in 0 .. BackoffMax :
             subs'[i] = [subs[i] EXCEPT !.wait = w]
        /\ UNCHANGED <<storeVars, names, work, poll, joined, settled>>
    BY <1>1, <1>9, TickMakes
  <2>2. \A p \in Psub, w \in 0 .. BackoffMax :
          /\ [p EXCEPT !.wait = w].inflight = p.inflight
          /\ [p EXCEPT !.wait = w].subject = p.subject
    BY DEF Psub
  <2>3. ASSUME NEW i \in DOMAIN subs
        PROVE  subs'[i].inflight = subs[i].inflight /\ subs'[i].subject = subs[i].subject
    <3>1. PICK w \in 0 .. BackoffMax : subs'[i] = [subs[i] EXCEPT !.wait = w]
      BY <2>1
    <3>2. subs[i] \in Psub
      BY <1>1, Indexes
    <3> QED
      BY <2>2, <3>1, <3>2
  <2>4. FlightsNamed'
    BY <1>1, <2>1, <2>3 DEF FlightsNamed
  <2> QED
    BY <1>1, <2>1, <2>4 DEF TypeInv, TypeOK, storeVars
<1>10. ASSUME Restart
       PROVE  TypeInv'
  <2>1. /\ names' \in Seq(Subjects) /\ subs' \in Seq(Psub)
        /\ \A k \in DOMAIN subs' : ~subs'[k].inflight
    <3>1. /\ names' \in Seq(Subjects) /\ subs' \in Seq(Psub)
          /\ \A k \in DOMAIN subs' :
              subs'[k] = NewPsub(subs'[k].consumer, registry[subs'[k].consumer], FALSE)
      BY <1>1, <1>10, RestartMakes
    <3> QED
      BY <3>1 DEF NewPsub
  <2> QED
    BY <1>1, <1>10, <2>1 DEF Restart, TypeInv, TypeOK, FlightsNamed, storeVars
<1>11. CASE UNCHANGED vars
  BY <1>1, <1>11 DEF vars, TypeInv, TypeOK, FlightsNamed
<1>12. Froms \subseteq Nat /\ MaxIndex \in Nat
  BY PusherAssumption
<1>13. CASE \E c \in Consumers, pattern \in Patterns :
              \/ Put(c, pattern, TRUE, 0)
              \/ \E from \in {0} \cup Froms : Put(c, pattern, FALSE, from)
  <2>1. PICK c \in Consumers, pattern \in Patterns :
          \E atEnd \in BOOLEAN, from \in Nat : Put(c, pattern, atEnd, from)
    BY <1>12, <1>13
  <2> QED
    BY <1>3, <2>1
<1>14. CASE \E i \in DOMAIN subs : \E ack \in 0 .. MaxIndex : Finish(i, ack)
  BY <1>8, <1>12, <1>14
<1> QED
  BY <1>2, <1>4, <1>5, <1>6, <1>7, <1>9, <1>10, <1>11, <1>13, <1>14 DEF Next

(***************************************************************************)
(* The pusher's array, list and receipts keep their types, whatever is      *)
(* registered, deleted and restarted around deliveries in flight.           *)
(***************************************************************************)
THEOREM PusherTyped == Spec => []TypeInv
<1>1. Init => TypeInv
  BY TypeInvInit
<1>2. TypeInv /\ [Next]_vars => TypeInv'
  BY TypeInvStep
<1> QED
  BY <1>1, <1>2, PTL DEF Spec

THEOREM PusherTypeCorrect == Spec => []TypeOK
<1>1. TypeInv => TypeOK
  BY DEF TypeInv
<1> QED
  BY <1>1, PusherTyped, PTL

-----------------------------------------------------------------------------

(***************************************************************************)
(* Every registered subscription has a psub of its own.  The invariant also *)
(* covers subscriptions that are no longer registered: bjm_pusher_remove    *)
(* may leave a live psub of theirs, but never two, or bjm_pusher_add would  *)
(* give its settings to both.                                               *)
(***************************************************************************)
LivesAlone == \A i, j \in Live : subs[i].consumer = subs[j].consumer => i = j

EachServed ==
  \A c \in Consumers : registry[c] # Unregistered =>
    \E i \in Live : subs[i].consumer = c /\ subs[i].pattern = registry[c]

ServedInv == LivesAlone /\ EachServed

LEMMA ServedInvMeans == ServedInv => RegisteredAreServed
<1> SUFFICES ASSUME ServedInv, NEW c \in Consumers, registry[c] # Unregistered
             PROVE  \E i \in Live : /\ subs[i].consumer = c /\ subs[i].pattern = registry[c]
                                    /\ \A j \in Live : subs[j].consumer = c => i = j
  BY DEF RegisteredAreServed
<1>1. PICK i \in Live : subs[i].consumer = c /\ subs[i].pattern = registry[c]
  BY DEF ServedInv, EachServed
<1>2. \A j \in Live : subs[j].consumer = c => i = j
  BY <1>1 DEF ServedInv, LivesAlone
<1> QED
  BY <1>1, <1>2

LEMMA LeftAlone ==
  ASSUME TypeOK, LivesAlone, LeftOf(subs')
  PROVE  LivesAlone'
<1>1. PICK src \in [DOMAIN subs' -> DOMAIN subs] :
        /\ \A k, l \in DOMAIN subs' : src[k] = src[l] => k = l
        /\ \A k \in DOMAIN subs' : \/ subs'[k] = subs[src[k]]
                                  \/ subs'[k] = [subs[src[k]] EXCEPT !.gone = TRUE]
  BY DEF LeftOf
<1>2. \A p \in Psub : [p EXCEPT !.gone = TRUE].gone
  BY DEF Psub
<1>3. ASSUME NEW k \in Live'
      PROVE  k \in DOMAIN subs' /\ src[k] \in Live /\ subs'[k] = subs[src[k]]
  <2>1. k \in DOMAIN subs' /\ ~subs'[k].gone
    BY <1>3 DEF Live
  <2>2. src[k] \in DOMAIN subs /\ subs[src[k]] \in Psub
    BY <1>1, <2>1, Indexes
  <2>3. [subs[src[k]] EXCEPT !.gone = TRUE].gone
    BY <1>2, <2>2
  <2>4. subs'[k] = subs[src[k]]
    BY <1>1, <2>1, <2>3
  <2> QED
    BY <2>1, <2>2, <2>4 DEF Live
<1>4. ASSUME NEW k \in Live', NEW l \in Live', subs'[k].consumer = subs'[l].consumer
      PROVE  k = l
  <2>1. src[k] = src[l]
    BY <1>3, <1>4 DEF LivesAlone
  <2> QED
    BY <1>1, <1>3, <1>4, <2>1
<1> QED
  BY <1>4 DEF LivesAlone

LEMMA SameLives ==
  ASSUME ServedInv, registry' = registry, DOMAIN subs' = DOMAIN subs,
         \A i \in DOMAIN subs : /\ subs'[i].consumer = subs[i].consumer
                                /\ subs'[i].pattern = subs[i].pattern
                                /\ subs'[i].gone = subs[i].gone
  PROVE  ServedInv'
<1>1. Live' = Live
  BY DEF Live
<1>2. \A i \in Live : i \in DOMAIN subs
  BY DEF Live
<1>3. LivesAlone'
  BY <1>1, <1>2 DEF ServedInv, LivesAlone
<1>4. EachServed'
  BY <1>1, <1>2 DEF ServedInv, EachServed
<1> QED
  BY <1>3, <1>4 DEF ServedInv

LEMMA PutServed ==
  ASSUME TypeInv, ServedInv, NEW c \in Consumers, NEW pattern \in Patterns,
         subs' = Added(c, pattern), registry' = [registry EXCEPT ![c] = pattern]
  PROVE  ServedInv'
<1>1. TypeOK
  BY DEF TypeInv
<1>2. /\ DOMAIN subs \subseteq DOMAIN subs'
      /\ \A k \in DOMAIN subs : subs'[k] =
           IF k \in Found(c) THEN [subs[k] EXCEPT !.pattern = pattern] ELSE subs[k]
      /\ \A k \in DOMAIN subs' : k \notin DOMAIN subs =>
           Found(c) = {} /\ k = Len(subs) + 1 /\ subs'[k] = NewPsub(c, pattern, TRUE)
      /\ Found(c) = {} => Len(subs) + 1 \in DOMAIN subs' \ DOMAIN subs
  BY <1>1, AddedMakes
<1>3. \A p \in Psub : /\ [p EXCEPT !.pattern = pattern].consumer = p.consumer
                      /\ [p EXCEPT !.pattern = pattern].pattern = pattern
                      /\ [p EXCEPT !.pattern = pattern].gone = p.gone
  BY DEF Psub
<1>4. ASSUME NEW k \in DOMAIN subs
      PROVE  /\ subs'[k].consumer = subs[k].consumer /\ subs'[k].gone = subs[k].gone
             /\ subs'[k].pattern = IF k \in Found(c) THEN pattern ELSE subs[k].pattern
  <2>1. subs[k] \in Psub
    BY <1>1, Indexes
  <2> QED
    BY <1>2, <1>3, <2>1
<1>5. \A k \in DOMAIN subs' : k \notin DOMAIN subs =>
        /\ Found(c) = {} /\ k = Len(subs) + 1 /\ subs'[k].consumer = c
        /\ subs'[k].pattern = pattern /\ ~subs'[k].gone
  BY <1>2 DEF NewPsub
<1>6. \A k \in Live' : \/ k \in Live
                       \/ k \notin DOMAIN subs /\ k = Len(subs) + 1 /\ Found(c) = {}
  BY <1>4, <1>5 DEF Live
<1>7. \A k \in Live : k \in Live' /\ k \in DOMAIN subs
  BY <1>2, <1>4 DEF Live
<1>8. \A k \in Live : subs[k].consumer = c <=> k \in Found(c)
  BY DEF Live, Found
<1>9. ASSUME NEW k \in Live', NEW l \in Live', subs'[k].consumer = subs'[l].consumer
      PROVE  k = l
  <2>1. k \in DOMAIN subs' /\ l \in DOMAIN subs'
    BY DEF Live
  <2>2. CASE k \in Live /\ l \in Live
    BY <1>4, <1>7, <1>9, <2>2 DEF ServedInv, LivesAlone
  <2>3. CASE k \notin Live /\ l \notin Live
    BY <1>6, <2>3
  <2>4. CASE k \in Live /\ l \notin Live
    BY <1>4, <1>5, <1>6, <1>7, <1>8, <1>9, <2>1, <2>4
  <2>5. CASE k \notin Live /\ l \in Live
    BY <1>4, <1>5, <1>6, <1>7, <1>8, <1>9, <2>1, <2>5
  <2> QED
    BY <2>2, <2>3, <2>4, <2>5
<1>10. ASSUME NEW d \in Consumers, registry'[d] # Unregistered
       PROVE  \E i \in Live' : subs'[i].consumer = d /\ subs'[i].pattern = registry'[d]
  <2>1. CASE d = c /\ Found(c) = {}
    <3>1. registry'[d] = pattern
      BY <1>1, <2>1 DEF TypeOK
    <3>2. Len(subs) + 1 \in DOMAIN subs' /\ Len(subs) + 1 \notin DOMAIN subs
      BY <1>2, <2>1
    <3> QED
      BY <1>5, <2>1, <3>1, <3>2 DEF Live
  <2>2. CASE d = c /\ Found(c) # {}
    <3>1. registry'[d] = pattern
      BY <1>1, <2>2 DEF TypeOK
    <3>2. PICK i : i \in Found(c)
      BY <2>2
    <3>3. i \in Live /\ i \in DOMAIN subs /\ subs[i].consumer = c
      BY <3>2 DEF Found, Live
    <3> QED
      BY <1>4, <1>7, <2>2, <3>1, <3>2, <3>3
  <2>3. CASE d # c
    <3>1. registry'[d] = registry[d]
      BY <1>1, <2>3 DEF TypeOK
    <3>2. PICK i \in Live : subs[i].consumer = d /\ subs[i].pattern = registry[d]
      BY <1>10, <3>1 DEF ServedInv, EachServed
    <3> QED
      BY <1>4, <1>7, <1>8, <2>3, <3>1, <3>2
  <2> QED
    BY <2>1, <2>2, <2>3
<1>11. LivesAlone'
  BY <1>9 DEF LivesAlone
<1>12. EachServed'
  BY <1>10 DEF EachServed
<1> QED
  BY <1>11, <1>12 DEF ServedInv

LEMMA ServedInvStep ==
  ASSUME TypeInv, ServedInv, [Next]_vars
  PROVE  ServedInv'
<1>1. TypeOK
  BY DEF TypeInv
<1>2. ASSUME subs' = subs, registry' = registry
      PROVE  ServedInv'
  BY <1>2, SameLives
<1>3. ASSUME NEW c \in Consumers, NEW pattern \in Patterns, NEW atEnd, NEW from,
             Put(c, pattern, atEnd, from)
      PROVE  ServedInv'
  BY <1>3, PutServed DEF Put
<1>4. ASSUME NEW c \in Consumers, NEW purge \in Purges, Delete(c, purge)
      PROVE  ServedInv'
  <2>1. subs' = Removed(c) /\ registry' = [registry EXCEPT ![c] = Unregistered]
    BY <1>4 DEF Delete
  <2>2. /\ LeftOf(subs')
        /\ \A j \in Live : subs[j].consumer # c => \E k \in DOMAIN subs' : subs'[k] = subs[j]
    BY <1>1, <2>1, RemovedLeaves
  <2>3. LivesAlone'
    BY <1>1, <2>2, LeftAlone DEF ServedInv
  <2>4. ASSUME NEW d \in Consumers, registry'[d] # Unregistered
        PROVE  \E i \in Live' : subs'[i].consumer = d /\ subs'[i].pattern = registry'[d]
    <3>1. d # c /\ registry'[d] = registry[d]
      BY <1>1, <2>1, <2>4 DEF TypeOK
    <3>2. PICK i \in Live : subs[i].consumer = d /\ subs[i].pattern = registry[d]
      BY <2>4, <3>1 DEF ServedInv, EachServed
    <3>3. PICK k \in DOMAIN subs' : subs'[k] = subs[i]
      BY <2>2, <3>1, <3>2
    <3>4. k \in Live'
      BY <3>2, <3>3 DEF Live
    <3> QED
      BY <3>1, <3>2, <3>3, <3>4
  <2>5. EachServed'
    BY <2>4 DEF EachServed
  <2> QED
    BY <2>3, <2>5 DEF ServedInv
<1>5. ASSUME Pump
      PROVE  ServedInv'
  <2>1. /\ DOMAIN subs' = DOMAIN subs
        /\ \A i \in Asked : \E size \in BatchSizes : subs'[i] = Started(subs[i], size)
        /\ \A i \in DOMAIN subs \ Asked : subs'[i] = subs[i]
        /\ registry' = registry
    BY <1>1, <1>5, PumpMakes
  <2>2. \A i \in DOMAIN subs : subs[i] \in Psub
    BY <1>1, Indexes
  <2>3. \A i \in DOMAIN subs : /\ subs'[i].consumer = subs[i].consumer
                               /\ subs'[i].pattern = subs[i].pattern
                               /\ subs'[i].gone = subs[i].gone
    BY <1>1, <2>1, <2>2, StartedType
  <2> QED
    BY <2>1, <2>3, SameLives
<1>6. ASSUME NEW i \in DOMAIN subs, NEW ack \in Nat, Finish(i, ack)
      PROVE  ServedInv'
  <2>1. registry' = registry
    BY <1>6 DEF Finish
  <2>2. subs[i] \in Psub
    BY <1>1, Indexes
  <2>3. CASE subs[i].gone /\ subs' = Reaped(i)
    <3>1. /\ LeftOf(subs')
          /\ \A j \in DOMAIN subs : j # i => \E k \in DOMAIN subs' : subs'[k] = subs[j]
      BY <1>1, <2>3, ReapedLeaves
    <3>2. LivesAlone'
      BY <1>1, <3>1, LeftAlone DEF ServedInv
    <3>3. \A j \in Live : \E k \in Live' : subs'[k] = subs[j]
      BY <2>3, <3>1 DEF Live
    <3>4. EachServed'
      BY <2>1, <3>3 DEF ServedInv, EachServed
    <3> QED
      BY <3>2, <3>4 DEF ServedInv
  <2>4. CASE \E q \in {BackedOff(subs[i]), [Ended(subs[i]) EXCEPT !.wait = 0, !.failures = 0]} :
               subs' = [subs EXCEPT ![i] = q]
    <3>1. PICK q \in {BackedOff(subs[i]), [Ended(subs[i]) EXCEPT !.wait = 0, !.failures = 0]} :
                 subs' = [subs EXCEPT ![i] = q]
      BY <2>4
    <3>2. q.consumer = subs[i].consumer /\ q.pattern = subs[i].pattern /\ q.gone = subs[i].gone
      BY <2>2, <3>1, EndedKeeps
    <3>3. DOMAIN subs' = DOMAIN subs /\ \A j \in DOMAIN subs : subs'[j] = IF j = i THEN q ELSE subs[j]
      BY <3>1
    <3> HIDE <3>1
    <3> QED
      BY <2>1, <3>2, <3>3, SameLives
  <2> QED
    BY <1>6, <2>3, <2>4, FinishMakes
<1>7. ASSUME Tick
      PROVE  ServedInv'
  <2>1. /\ DOMAIN subs' = DOMAIN subs /\ registry' = registry
        /\ \A i \in DOMAIN subs : \E w \in 0 .. BackoffMax :
             subs'[i] = [subs[i] EXCEPT !.wait = w]
    BY <1>1, <1>7, TickMakes DEF storeVars
  <2>2. \A p \in Psub, w \in 0 .. BackoffMax :
          /\ [p EXCEPT !.wait = w].consumer = p.consumer
          /\ [p EXCEPT !.wait = w].pattern = p.pattern
          /\ [p EXCEPT !.wait = w].gone = p.gone
    BY DEF Psub
  <2>3. ASSUME NEW i \in DOMAIN subs
        PROVE  /\ subs'[i].consumer = subs[i].consumer /\ subs'[i].pattern = subs[i].pattern
               /\ subs'[i].gone = subs[i].gone
    <3>1. PICK w \in 0 .. BackoffMax : subs'[i] = [subs[i] EXCEPT !.wait = w]
      BY <2>1
    <3>2. subs[i] \in Psub
      BY <1>1, Indexes
    <3> QED
      BY <2>2, <3>1, <3>2
  <2> QED
    BY <2>1, <2>3, SameLives
<1>8. ASSUME Restart
      PROVE  ServedInv'
  <2>1. /\ \A k \in DOMAIN subs' :
             /\ subs'[k].consumer \in Consumers
             /\ registry[subs'[k].consumer] # Unregistered
             /\ subs'[k] = NewPsub(subs'[k].consumer, registry[subs'[k].consumer], FALSE)
        /\ \A k, l \in DOMAIN subs' : subs'[k].consumer = subs'[l].consumer => k = l
        /\ \A c \in Consumers : registry[c] # Unregistered =>
             \E k \in DOMAIN subs' : subs'[k].consumer = c
    BY <1>1, <1>8, RestartMakes
  <2>2. registry' = registry
    BY <1>8 DEF Restart, storeVars
  <2>3. \A k \in DOMAIN subs' : ~subs'[k].gone /\ subs'[k].pattern = registry[subs'[k].consumer]
    BY <2>1 DEF NewPsub
  <2>4. Live' = DOMAIN subs'
    BY <2>3 DEF Live
  <2>5. LivesAlone'
    BY <2>1, <2>4 DEF LivesAlone
  <2>6. EachServed'
    BY <2>1, <2>2, <2>3, <2>4 DEF EachServed
  <2> QED
    BY <2>5, <2>6 DEF ServedInv
<1>9. MaxIndex \in Nat
  BY PusherAssumption
<1>10. CASE \/ \E s \in Subjects : Publish(s)
            \/ \E c \in Consumers, s \in Subjects : Unsubscribe(c, s)
            \/ \E s \in Subjects, n \in 1 .. MaxIndex, force \in ForceFlags : Trim(s, n, force)
            \/ UNCHANGED vars
  BY <1>2, <1>10 DEF Publish, Unsubscribe, Trim, pushVars, vars
<1>11. CASE \E i \in DOMAIN subs : \E ack \in 0 .. MaxIndex : Finish(i, ack)
  BY <1>6, <1>9, <1>11
<1> QED
  BY <1>3, <1>4, <1>5, <1>7, <1>8, <1>10, <1>11 DEF Next

(***************************************************************************)
(* Whatever sequence of PUT, DELETE, deliveries and restarts comes before,  *)
(* a registered subscription has exactly one psub that is not about to be   *)
(* reaped, with its current settings (bjm_pusher_add, bjm_pusher_remove,    *)
(* finish).                                                                 *)
(***************************************************************************)
THEOREM SubscriptionsAreServed == Spec => []RegisteredAreServed
<1>1. Init => ServedInv
  BY DEF Init, ServedInv, LivesAlone, EachServed, Live
<1>2. TypeInv /\ ServedInv /\ [Next]_vars => ServedInv'
  BY ServedInvStep
<1>3. Spec => []ServedInv
  BY <1>1, <1>2, PusherTyped, PTL DEF Spec
<1> QED
  BY <1>3, ServedInvMeans, PTL

-----------------------------------------------------------------------------

(***************************************************************************)
(* At-least-once.  A receipt covers settled messages only, because the      *)
(* batch in flight starts right after settled messages (FlightsCovered),    *)
(* even if the receipt has been moved since; and a subscription without a   *)
(* receipt begins at the first message, so that seeding it never puts its   *)
(* beginning back under a delivery.                                         *)
(***************************************************************************)
Settled(c, s, n) == \A i \in Nat : joined[c][s] < i /\ i <= n => i \in settled[c][s]

ReceiptsCovered ==
  \A c \in Consumers \ Unsubscribes, s \in Subjects :
    receipt[c][s] # NoReceipt => Settled(c, s, receipt[c][s])

FlightsCovered ==
  \A i \in Live : subs[i].inflight /\ subs[i].consumer \notin Unsubscribes =>
    Settled(subs[i].consumer, subs[i].subject, subs[i].first - 1)

NoReceiptNoHistory ==
  \A c \in Consumers, s \in Subjects : receipt[c][s] = NoReceipt => joined[c][s] = 0

CoveredInv == ReceiptsCovered /\ FlightsCovered /\ NoReceiptNoHistory

LEMMA CoveredInvMeans == TypeInv /\ CoveredInv => NothingSkipped
<1> SUFFICES ASSUME TypeInv, CoveredInv, NEW c \in Consumers \ Unsubscribes,
                    NEW s \in Subjects, receipt[c][s] # NoReceipt
             PROVE  joined[c][s] + 1 .. receipt[c][s] \subseteq settled[c][s]
  BY DEF NothingSkipped
<1>1. joined[c][s] \in Nat /\ receipt[c][s] \in Nat
  BY AckedType DEF TypeInv, Receipts
<1>2. Settled(c, s, receipt[c][s])
  BY DEF CoveredInv, ReceiptsCovered
<1> QED
  BY <1>1, <1>2 DEF Settled

(***************************************************************************)
(* A step that neither starts a delivery nor takes settled messages back    *)
(* keeps what the deliveries in flight rest on.                             *)
(***************************************************************************)
LEMMA FlightsStayCovered ==
  ASSUME TypeInv, FlightsCovered,
         \A k \in Live' : subs'[k].inflight =>
           \E j \in Live : /\ subs[j].inflight
                          /\ subs'[k].consumer = subs[j].consumer
                          /\ subs'[k].subject = subs[j].subject
                          /\ subs'[k].first = subs[j].first,
         \A c \in Consumers, s \in Subjects :
           joined[c][s] <= joined'[c][s] /\ settled[c][s] \subseteq settled'[c][s],
         joined' \in [Consumers -> [Subjects -> Nat]]
  PROVE  FlightsCovered'
<1> SUFFICES ASSUME NEW k \in Live', subs'[k].inflight, subs'[k].consumer \notin Unsubscribes
             PROVE  Settled(subs[k].consumer, subs[k].subject, subs[k].first - 1)'
  BY DEF FlightsCovered
<1>1. PICK j \in Live : /\ subs[j].inflight
                       /\ subs'[k].consumer = subs[j].consumer
                       /\ subs'[k].subject = subs[j].subject
                       /\ subs'[k].first = subs[j].first
  OBVIOUS
<1> DEFINE c == subs[j].consumer
           s == subs[j].subject
<1>2. c \in Consumers /\ s \in Subjects
  BY <1>1, Indexes DEF TypeInv, FlightsNamed, Live, Psub
<1>3. Settled(c, s, subs[j].first - 1)
  BY <1>1 DEF FlightsCovered
<1>4. joined[c][s] \in Nat /\ joined'[c][s] \in Nat /\ joined[c][s] <= joined'[c][s]
      /\ settled[c][s] \subseteq settled'[c][s]
  BY <1>2 DEF TypeInv, TypeOK
<1> QED
  BY <1>1, <1>3, <1>4 DEF Settled

LEMMA LeftFlights ==
  ASSUME TypeOK, LeftOf(subs')
  PROVE  \A k \in Live' : \E j \in Live : subs'[k] = subs[j]
<1> SUFFICES ASSUME NEW k \in Live' PROVE \E j \in Live : subs'[k] = subs[j]
  OBVIOUS
<1>1. k \in DOMAIN subs' /\ ~subs'[k].gone
  BY DEF Live
<1>2. PICK j \in DOMAIN subs : subs'[k] = subs[j] \/ subs'[k] = [subs[j] EXCEPT !.gone = TRUE]
  BY <1>1 DEF LeftOf
<1>3. subs[j] \in Psub
  BY Indexes
<1>4. [subs[j] EXCEPT !.gone = TRUE].gone
  BY <1>3 DEF Psub
<1>5. subs'[k] = subs[j]
  BY <1>1, <1>2, <1>4
<1> QED
  BY <1>1, <1>2, <1>5 DEF Live

LEMMA PutCovers ==
  ASSUME TypeInv, CoveredInv, NEW c \in Consumers, NEW pattern \in Patterns,
         NEW atEnd \in BOOLEAN, NEW from \in Nat, Put(c, pattern, atEnd, from)
  PROVE  CoveredInv'
<1>1. TypeOK
  BY DEF TypeInv
<1>2. /\ joined' \in [Consumers -> [Subjects -> Nat]]
      /\ \A d \in Consumers, s \in Subjects :
           \/ receipt'[d][s] = receipt[d][s] /\ joined'[d][s] = joined[d][s]
           \/ /\ d = c /\ receipt[c][s] = NoReceipt /\ receipt'[c][s] \in Nat
              /\ receipt'[c][s] = joined'[c][s]
      /\ subs' = Added(c, pattern) /\ settled' = settled
  <2>1. PutMade(c)
    BY <1>1, PutMakes
  <2> QED
    BY <2>1 DEF PutMade, Put
<1>3. ReceiptsCovered'
  <2> SUFFICES ASSUME NEW d \in Consumers \ Unsubscribes, NEW s \in Subjects,
                      receipt'[d][s] # NoReceipt
               PROVE  Settled(d, s, receipt[d][s])'
    BY DEF ReceiptsCovered
  <2>1. joined'[d][s] \in Nat
    BY <1>2
  <2>2. CASE receipt'[d][s] = receipt[d][s] /\ joined'[d][s] = joined[d][s]
    BY <1>2, <2>2 DEF CoveredInv, ReceiptsCovered, Settled
  <2>3. CASE receipt'[d][s] = joined'[d][s]
    BY <2>1, <2>3 DEF Settled
  <2> QED
    BY <1>2, <2>2, <2>3
<1>4. NoReceiptNoHistory'
  <2>1. ASSUME NEW d \in Consumers, NEW s \in Subjects, receipt'[d][s] = NoReceipt
        PROVE  joined'[d][s] = 0
    <3>1. receipt'[d][s] = receipt[d][s] /\ joined'[d][s] = joined[d][s]
      BY <1>2, <2>1, PusherAssumption
    <3> QED
      BY <2>1, <3>1 DEF CoveredInv, NoReceiptNoHistory
  <2> QED
    BY <2>1 DEF NoReceiptNoHistory
<1>5. ASSUME NEW d \in Consumers, NEW s \in Subjects
      PROVE  joined[d][s] <= joined'[d][s] /\ settled[d][s] \subseteq settled'[d][s]
  <2>1. joined[d][s] \in Nat /\ joined'[d][s] \in Nat
    BY <1>1, <1>2 DEF TypeOK
  <2>2. receipt[d][s] = NoReceipt => joined[d][s] = 0
    BY DEF CoveredInv, NoReceiptNoHistory
  <2> QED
    BY <1>2, <2>1, <2>2
<1>6. ASSUME NEW k \in Live', subs'[k].inflight
      PROVE  \E j \in Live : /\ subs[j].inflight
                            /\ subs'[k].consumer = subs[j].consumer
                            /\ subs'[k].subject = subs[j].subject
                            /\ subs'[k].first = subs[j].first
  <2>1. /\ \A i \in DOMAIN subs : subs'[i] =
             IF i \in Found(c) THEN [subs[i] EXCEPT !.pattern = pattern] ELSE subs[i]
        /\ \A i \in DOMAIN subs' : i \notin DOMAIN subs => subs'[i] = NewPsub(c, pattern, TRUE)
    BY <1>1, <1>2, AddedMakes
  <2>2. k \in DOMAIN subs' /\ ~subs'[k].gone
    BY DEF Live
  <2>3. k \in DOMAIN subs
    BY <1>6, <2>1, <2>2 DEF NewPsub
  <2>4. subs[k] \in Psub
    BY <1>1, <2>3, Indexes
  <2>5. subs'[k] = subs[k] \/ subs'[k] = [subs[k] EXCEPT !.pattern = pattern]
    BY <2>1, <2>3
  <2>6. /\ subs'[k].inflight = subs[k].inflight /\ subs'[k].consumer = subs[k].consumer
        /\ subs'[k].subject = subs[k].subject /\ subs'[k].first = subs[k].first
        /\ subs'[k].gone = subs[k].gone
    BY <2>4, <2>5 DEF Psub
  <2> QED
    BY <1>6, <2>2, <2>3, <2>6 DEF Live
<1>7. FlightsCovered'
  BY <1>2, <1>5, <1>6, FlightsStayCovered DEF CoveredInv
<1> QED
  BY <1>3, <1>4, <1>7 DEF CoveredInv

LEMMA PumpCovers ==
  ASSUME TypeInv, CoveredInv, Pump
  PROVE  CoveredInv'
<1>1. TypeOK
  BY DEF TypeInv
<1>2. /\ DOMAIN subs' = DOMAIN subs
      /\ \A i \in Asked : \E size \in BatchSizes : subs'[i] = Started(subs[i], size)
      /\ \A i \in DOMAIN subs \ Asked : subs'[i] = subs[i]
      /\ \A c \in Consumers, s \in Subjects :
           /\ receipt'[c][s] = IF s \in SkippedBy(c) THEN base[s] ELSE receipt[c][s]
           /\ settled'[c][s] = IF s \in SkippedBy(c)
                                 THEN settled[c][s] \cup (Acked(c, s) + 1 .. base[s])
                                 ELSE settled[c][s]
      /\ joined' = joined
  BY <1>1, PumpMakes
<1>3. \A c \in Consumers \ Unsubscribes, s \in Subjects : Settled(c, s, Acked(c, s))
  <2> SUFFICES ASSUME NEW c \in Consumers \ Unsubscribes, NEW s \in Subjects
               PROVE  Settled(c, s, Acked(c, s))
    OBVIOUS
  <2>1. joined[c][s] \in Nat
    BY <1>1, AckedType
  <2>2. CASE receipt[c][s] = NoReceipt
    BY <2>1, <2>2 DEF Acked, Settled
  <2>3. CASE receipt[c][s] # NoReceipt
    BY <2>3 DEF Acked, CoveredInv, ReceiptsCovered
  <2> QED
    BY <2>2, <2>3
<1>4. ASSUME NEW c \in Consumers \ Unsubscribes, NEW s \in Subjects, s \in SkippedBy(c)
      PROVE  Settled(c, s, base[s])'
  <2>1. Settled(c, s, Acked(c, s)) /\ Acked(c, s) \in Nat /\ base[s] \in Nat
    BY <1>1, <1>3, AckedType
  <2>2. settled'[c][s] = settled[c][s] \cup (Acked(c, s) + 1 .. base[s])
    BY <1>2, <1>4
  <2>3. base' = base
    BY DEF Pump, logVars
  <2>4. ASSUME NEW i \in Nat, joined[c][s] < i, i <= base[s]
        PROVE  i \in settled'[c][s]
    <3>1. CASE i <= Acked(c, s)
      BY <2>1, <2>2, <2>4, <3>1 DEF Settled
    <3>2. CASE ~(i <= Acked(c, s))
      BY <2>1, <2>2, <2>4, <3>2
    <3> QED
      BY <3>1, <3>2
  <2> QED
    BY <1>2, <2>3, <2>4 DEF Settled
<1>5. ReceiptsCovered'
  <2> SUFFICES ASSUME NEW c \in Consumers \ Unsubscribes, NEW s \in Subjects,
                      receipt'[c][s] # NoReceipt
               PROVE  Settled(c, s, receipt[c][s])'
    BY DEF ReceiptsCovered
  <2>1. CASE s \in SkippedBy(c)
    <3>1. receipt'[c][s] = base'[s]
      BY <1>2, <2>1 DEF Pump, logVars
    <3> QED
      BY <1>4, <2>1, <3>1
  <2>2. CASE s \notin SkippedBy(c)
    BY <1>2, <2>2 DEF CoveredInv, ReceiptsCovered, Settled
  <2> QED
    BY <2>1, <2>2
<1>6. NoReceiptNoHistory'
  <2>1. ASSUME NEW c \in Consumers, NEW s \in Subjects, receipt'[c][s] = NoReceipt
        PROVE  joined'[c][s] = 0
    <3>1. base[s] \in Nat
      BY <1>1, AckedType
    <3>2. receipt[c][s] = NoReceipt
      BY <1>2, <2>1, <3>1, PusherAssumption
    <3> QED
      BY <1>2, <3>2 DEF CoveredInv, NoReceiptNoHistory
  <2> QED
    BY <2>1 DEF NoReceiptNoHistory
<1>7. ASSUME NEW i \in Live', subs'[i].inflight, subs'[i].consumer \notin Unsubscribes
      PROVE  Settled(subs[i].consumer, subs[i].subject, subs[i].first - 1)'
  <2>1. i \in DOMAIN subs /\ subs[i] \in Psub
    BY <1>1, <1>2, Indexes DEF Live
  <2> DEFINE p == subs[i]
             n == Pick(p)
             s == names[Turn(p, n)]
             c == p.consumer
  <2>2. CASE i \in Asked /\ n # Len(names) /\ p.conn
    <3>1. PICK size \in BatchSizes : subs'[i] = Started(p, size)
      BY <1>2, <2>2
    <3>2. /\ subs'[i].consumer = c /\ subs'[i].subject = s /\ subs'[i].first = Reached(c, s) + 1
      BY <1>1, <2>1, <2>2, <3>1, StartedType
    <3>3. n \in Turns /\ Waiting(p, n)
      BY <1>1, <2>1, <2>2, PickType
    <3>4. s \in Subjects /\ n \in Nat
      BY <1>1, <2>1, <3>3, TurnType
    <3>5. c \in Consumers \ Unsubscribes
      BY <1>7, <2>1, <3>2 DEF Psub
    <3>6. Reached(c, s) \in Nat /\ base' = base
      BY <1>1, <3>4, <3>5, AckedType DEF Pump, logVars
    <3>7. (Reached(c, s) + 1) - 1 = Reached(c, s)
      BY <3>6
    <3>8. \A t : settled[c][t] \subseteq settled'[c][t] \/ t \notin Subjects
      BY <1>2, <3>5
    <3>9. \A j \in Nat : joined'[c][s] < j /\ j <= Reached(c, s) => j \in settled'[c][s]
      <4>1. CASE Reached(c, s) = Acked(c, s)
        BY <1>2, <1>3, <3>4, <3>5, <3>8, <4>1 DEF Settled
      <4>2. CASE Reached(c, s) # Acked(c, s)
        <5>1. s \in p.pattern /\ n <= Pick(p)
          BY <3>3, <3>4 DEF Waiting
        <5>2. s \in SkippedBy(c)
          BY <1>1, <2>2, <3>3, <3>5, <4>2, <5>1, SkippedAre
        <5>3. Reached(c, s) = base'[s]
          BY <1>1, <3>4, <3>5, <3>6, <4>2, AckedType
        <5> QED
          BY <1>4, <3>4, <3>5, <5>2, <5>3 DEF Settled
      <4> QED
        BY <4>1, <4>2
    <3> HIDE DEF c, s, n, p
    <3>10. \A j \in Nat : joined'[c][s] < j /\ j <= subs'[i].first - 1 => j \in settled'[c][s]
      BY <3>2, <3>7, <3>9
    <3> QED
      BY <3>2, <3>10 DEF Settled
  <2>3. CASE ~(i \in Asked /\ n # Len(names) /\ p.conn)
    <3>1. /\ subs'[i].consumer = p.consumer /\ subs'[i].subject = p.subject
          /\ subs'[i].first = p.first /\ subs'[i].inflight = p.inflight
          /\ subs'[i].gone = p.gone
      <4>1. CASE i \notin Asked
        BY <1>2, <2>1, <4>1
      <4>2. CASE i \in Asked
        <5>1. PICK size \in BatchSizes : subs'[i] = Started(p, size)
          BY <1>2, <4>2
        <5> QED
          BY <1>1, <2>1, <2>3, <4>2, <5>1, StartedType
      <4> QED
        BY <4>1, <4>2
    <3>2. i \in Live /\ p.inflight /\ c \notin Unsubscribes
      BY <1>7, <2>1, <3>1 DEF Live
    <3>3. Settled(c, p.subject, p.first - 1)
      BY <3>2 DEF CoveredInv, FlightsCovered
    <3>4. c \in Consumers /\ p.subject \in Subjects
      BY <2>1, <3>2 DEF TypeInv, FlightsNamed, Psub
    <3>5. settled[c][p.subject] \subseteq settled'[c][p.subject]
      BY <1>2, <3>4
    <3> QED
      BY <1>2, <3>1, <3>3, <3>5 DEF Settled
  <2> QED
    BY <2>2, <2>3
<1>8. FlightsCovered'
  BY <1>7 DEF FlightsCovered
<1> QED
  BY <1>5, <1>6, <1>8 DEF CoveredInv

LEMMA FinishCovers ==
  ASSUME TypeInv, CoveredInv, NEW i \in DOMAIN subs, NEW ack \in Nat, Finish(i, ack)
  PROVE  CoveredInv'
<1>1. TypeOK
  BY DEF TypeInv
<1>2. joined' = joined /\ subs[i].inflight
  BY DEF Finish
<1>3. subs[i] \in Psub
  BY <1>1, Indexes
<1>4. \A d \in Consumers, s \in Subjects : joined[d][s] \in Nat
  BY <1>1, AckedType
<1>5. ASSUME ReceiptsCovered', NoReceiptNoHistory',
             \A d \in Consumers, s \in Subjects : settled[d][s] \subseteq settled'[d][s],
             \A k \in Live' : subs'[k].inflight => \E j \in Live : subs'[k] = subs[j]
      PROVE  CoveredInv'
  <2>1. \A k \in Live' : subs'[k].inflight =>
           \E j \in Live : /\ subs[j].inflight
                          /\ subs'[k].consumer = subs[j].consumer
                          /\ subs'[k].subject = subs[j].subject
                          /\ subs'[k].first = subs[j].first
    BY <1>5
  <2>2. \A d \in Consumers, s \in Subjects :
          joined[d][s] <= joined'[d][s] /\ settled[d][s] \subseteq settled'[d][s]
    BY <1>2, <1>4, <1>5
  <2>3. joined' \in [Consumers -> [Subjects -> Nat]]
    BY <1>1, <1>2 DEF TypeOK
  <2>4. FlightsCovered'
    BY <2>1, <2>2, <2>3, FlightsStayCovered DEF CoveredInv
  <2> QED
    BY <1>5, <2>4 DEF CoveredInv
<1>6. ASSUME NEW q \in {BackedOff(subs[i]), [Ended(subs[i]) EXCEPT !.wait = 0, !.failures = 0]},
             subs' = [subs EXCEPT ![i] = q]
      PROVE  \A k \in Live' : subs'[k].inflight => \E j \in Live : subs'[k] = subs[j]
  <2>1. ~q.inflight
    BY <1>3, EndedKeeps
  <2>2. /\ DOMAIN subs' = DOMAIN subs
        /\ \A j \in DOMAIN subs : subs'[j] = IF j = i THEN q ELSE subs[j]
    BY <1>6
  <2> QED
    BY <2>1, <2>2 DEF Live
<1>7. CASE receipt' = receipt /\ settled' = settled
  <2>1. ReceiptsCovered' /\ NoReceiptNoHistory'
    BY <1>2, <1>7 DEF CoveredInv, ReceiptsCovered, NoReceiptNoHistory, Settled
  <2>2. \A d \in Consumers, s \in Subjects : settled[d][s] \subseteq settled'[d][s]
    BY <1>7
  <2>3. CASE subs' = Reaped(i)
    <3>1. LeftOf(subs')
      BY <1>1, <2>3, ReapedLeaves
    <3>2. \A k \in Live' : subs'[k].inflight => \E j \in Live : subs'[k] = subs[j]
      BY <1>1, <3>1, LeftFlights
    <3> QED
      BY <1>5, <2>1, <2>2, <3>2
  <2>4. CASE subs' = [subs EXCEPT ![i] = BackedOff(subs[i])]
    <3>1. \A k \in Live' : subs'[k].inflight => \E j \in Live : subs'[k] = subs[j]
      BY <1>6, <2>4
    <3> QED
      BY <1>5, <2>1, <2>2, <3>1
  <2>5. CASE subs' = [subs EXCEPT ![i] = [Ended(subs[i]) EXCEPT !.wait = 0, !.failures = 0]]
    <3>1. \A k \in Live' : subs'[k].inflight => \E j \in Live : subs'[k] = subs[j]
      BY <1>6, <2>5
    <3> QED
      BY <1>5, <2>1, <2>2, <3>1
  <2> QED
    BY <2>3, <2>4, <2>5, FinishMakes
<1>8. CASE /\ ~subs[i].gone /\ ack \in subs[i].first .. subs[i].last
           /\ subs' = [subs EXCEPT ![i] = [Ended(subs[i]) EXCEPT !.wait = 0, !.failures = 0]]
           /\ receipt' \in [Consumers -> [Subjects -> Receipts]]
           /\ \A d \in Consumers, s \in Subjects :
                IF d = subs[i].consumer /\ s = subs[i].subject
                  THEN /\ settled'[d][s] = settled[d][s] \cup (subs[i].first .. ack)
                       /\ receipt'[d][s] = IF receipt[d][s] # NoReceipt /\ ack <= receipt[d][s]
                                             THEN receipt[d][s] ELSE ack
                  ELSE settled'[d][s] = settled[d][s] /\ receipt'[d][s] = receipt[d][s]
  <2>1. \A d \in Consumers, s \in Subjects : settled[d][s] \subseteq settled'[d][s]
    BY <1>8
  <2>2. \A k \in Live' : subs'[k].inflight => \E j \in Live : subs'[k] = subs[j]
    BY <1>6, <1>8
  <2>3. \A d \in Consumers, s \in Subjects :
          receipt'[d][s] = receipt[d][s] \/ receipt'[d][s] \in Nat
    BY <1>8
  <2>4. NoReceiptNoHistory'
    BY <1>2, <2>3, PusherAssumption DEF CoveredInv, NoReceiptNoHistory
  <2>5. ASSUME NEW d \in Consumers \ Unsubscribes, NEW s \in Subjects, receipt'[d][s] # NoReceipt
        PROVE  Settled(d, s, receipt[d][s])'
    <3>1. CASE receipt'[d][s] = receipt[d][s]
      <4>1. Settled(d, s, receipt[d][s])
        BY <2>5, <3>1 DEF CoveredInv, ReceiptsCovered
      <4> QED
        BY <1>2, <2>1, <3>1, <4>1 DEF Settled
    <3>2. CASE receipt'[d][s] # receipt[d][s]
      <4>1. /\ d = subs[i].consumer /\ s = subs[i].subject /\ receipt'[d][s] = ack
            /\ settled'[d][s] = settled[d][s] \cup (subs[i].first .. ack)
        BY <1>8, <3>2
      <4>2. i \in Live
        BY <1>8 DEF Live
      <4>3. Settled(d, s, subs[i].first - 1)
        BY <1>2, <4>1, <4>2 DEF CoveredInv, FlightsCovered
      <4>4. subs[i].first \in Nat /\ joined[d][s] \in Nat
        BY <1>3, <1>4 DEF Psub
      <4>5. ASSUME NEW n \in Nat, joined[d][s] < n, n <= ack
            PROVE  n \in settled'[d][s]
        <5>1. CASE n <= subs[i].first - 1
          BY <4>1, <4>3, <4>4, <4>5, <5>1 DEF Settled
        <5>2. CASE ~(n <= subs[i].first - 1)
          BY <4>1, <4>4, <4>5, <5>2
        <5> QED
          BY <5>1, <5>2
      <4> QED
        BY <1>2, <4>1, <4>5 DEF Settled
    <3> QED
      BY <3>1, <3>2
  <2>6. ReceiptsCovered'
    BY <2>5 DEF ReceiptsCovered
  <2> QED
    BY <1>5, <2>1, <2>2, <2>4, <2>6
<1> QED
  BY <1>7, <1>8, FinishMakes

LEMMA CoveredInvStep ==
  ASSUME TRUE \notin Purges, TypeInv, CoveredInv, [Next]_vars
  PROVE  CoveredInv'
<1>1. TypeOK
  BY DEF TypeInv
<1>2. \A d \in Consumers, s \in Subjects : joined[d][s] \in Nat
  BY <1>1, AckedType
\* Steps that leave receipts, history and deliveries alone.
<1>3. ASSUME receipt' = receipt, joined' = joined, settled' = settled,
             \A k \in Live' : subs'[k].inflight =>
               \E j \in Live : /\ subs[j].inflight
                              /\ subs'[k].consumer = subs[j].consumer
                              /\ subs'[k].subject = subs[j].subject
                              /\ subs'[k].first = subs[j].first
      PROVE  CoveredInv'
  <2>1. ReceiptsCovered' /\ NoReceiptNoHistory'
    BY <1>3 DEF CoveredInv, ReceiptsCovered, NoReceiptNoHistory, Settled
  <2>2. \A d \in Consumers, s \in Subjects :
          joined[d][s] <= joined'[d][s] /\ settled[d][s] \subseteq settled'[d][s]
    BY <1>2, <1>3
  <2>3. joined' \in [Consumers -> [Subjects -> Nat]]
    BY <1>1, <1>3 DEF TypeOK
  <2>4. FlightsCovered'
    BY <1>3, <2>2, <2>3, FlightsStayCovered DEF CoveredInv
  <2> QED
    BY <2>1, <2>4 DEF CoveredInv
<1>4. ASSUME receipt' = receipt, joined' = joined, settled' = settled, subs' = subs
      PROVE  CoveredInv'
  BY <1>3, <1>4 DEF Live
<1>5. ASSUME NEW c \in Consumers, NEW purge \in Purges, Delete(c, purge)
      PROVE  CoveredInv'
  <2>1. purge = FALSE
    BY PusherAssumption
  <2>2. Forget(c, {}) /\ subs' = Removed(c)
    BY <1>5, <2>1 DEF Delete
  <2>3. receipt' = receipt /\ joined' = joined /\ settled' = settled
    <3>1. /\ receipt \in [Consumers -> [Subjects -> Receipts]]
          /\ joined \in [Consumers -> [Subjects -> Nat]]
          /\ settled \in [Consumers -> [Subjects -> SUBSET Nat]]
      BY <1>1 DEF TypeOK
    <3> QED
      BY <2>2, <3>1 DEF Forget
  <2>4. LeftOf(subs')
    BY <1>1, <2>2, RemovedLeaves
  <2>5. \A k \in Live' : \E j \in Live : subs'[k] = subs[j]
    BY <1>1, <2>4, LeftFlights
  <2> QED
    BY <1>3, <2>3, <2>5
<1>6. ASSUME NEW c \in Consumers, NEW s \in Subjects, Unsubscribe(c, s)
      PROVE  CoveredInv'
  <2>1. c \in Unsubscribes /\ Forget(c, {s}) /\ subs' = subs
    BY <1>6 DEF Unsubscribe, pushVars
  <2>2. \A d \in Consumers, t \in Subjects :
          IF d = c /\ t = s
            THEN receipt'[d][t] = NoReceipt /\ joined'[d][t] = 0 /\ settled'[d][t] = {}
            ELSE /\ receipt'[d][t] = receipt[d][t]
                 /\ joined'[d][t] = joined[d][t]
                 /\ settled'[d][t] = settled[d][t]
    BY <1>1, <2>1, ForgetMakes
  <2>3. ReceiptsCovered'
    BY <2>1, <2>2 DEF CoveredInv, ReceiptsCovered, Settled
  <2>4. NoReceiptNoHistory'
    BY <2>2 DEF CoveredInv, NoReceiptNoHistory
  <2>5. FlightsCovered'
    <3> SUFFICES ASSUME NEW k \in Live, subs[k].inflight, subs[k].consumer \notin Unsubscribes
                 PROVE  Settled(subs[k].consumer, subs[k].subject, subs[k].first - 1)'
      BY <2>1 DEF FlightsCovered, Live
    <3>1. subs[k].consumer \in Consumers /\ subs[k].subject \in Subjects
      BY <1>1, Indexes DEF TypeInv, FlightsNamed, Live, Psub
    <3>2. Settled(subs[k].consumer, subs[k].subject, subs[k].first - 1)
      BY DEF CoveredInv, FlightsCovered
    <3>3. /\ joined'[subs[k].consumer][subs[k].subject] = joined[subs[k].consumer][subs[k].subject]
          /\ settled'[subs[k].consumer][subs[k].subject] = settled[subs[k].consumer][subs[k].subject]
      BY <2>1, <2>2, <3>1
    <3> QED
      BY <2>1, <3>2, <3>3 DEF Settled
  <2> QED
    BY <2>3, <2>4, <2>5 DEF CoveredInv
<1>7. ASSUME Tick
      PROVE  CoveredInv'
  <2>1. /\ DOMAIN subs' = DOMAIN subs
        /\ \A i \in DOMAIN subs : \E w \in 0 .. BackoffMax :
             subs'[i] = [subs[i] EXCEPT !.wait = w]
        /\ receipt' = receipt /\ joined' = joined /\ settled' = settled
    BY <1>1, <1>7, TickMakes DEF storeVars
  <2>2. ASSUME NEW k \in Live', subs'[k].inflight
        PROVE  \E j \in Live : /\ subs[j].inflight
                              /\ subs'[k].consumer = subs[j].consumer
                              /\ subs'[k].subject = subs[j].subject
                              /\ subs'[k].first = subs[j].first
    <3>1. k \in DOMAIN subs /\ ~subs'[k].gone
      BY <2>1 DEF Live
    <3>2. PICK w \in 0 .. BackoffMax : subs'[k] = [subs[k] EXCEPT !.wait = w]
      BY <2>1, <3>1
    <3>3. subs[k] \in Psub
      BY <1>1, <3>1, Indexes
    <3>4. /\ subs'[k].gone = subs[k].gone /\ subs'[k].inflight = subs[k].inflight
          /\ subs'[k].consumer = subs[k].consumer /\ subs'[k].subject = subs[k].subject
          /\ subs'[k].first = subs[k].first
      BY <3>2, <3>3 DEF Psub
    <3> QED
      BY <2>2, <3>1, <3>4 DEF Live
  <2> QED
    BY <1>3, <2>1, <2>2
<1>8. ASSUME Restart
      PROVE  CoveredInv'
  <2>1. \A k \in DOMAIN subs' : ~subs'[k].inflight
    <3>1. \A k \in DOMAIN subs' :
            subs'[k] = NewPsub(subs'[k].consumer, registry[subs'[k].consumer], FALSE)
      BY <1>1, <1>8, RestartMakes
    <3> QED
      BY <3>1 DEF NewPsub
  <2>2. receipt' = receipt /\ joined' = joined /\ settled' = settled
    BY <1>8 DEF Restart, storeVars
  <2> QED
    BY <1>3, <2>1, <2>2 DEF Live
<1>9. MaxIndex \in Nat /\ Froms \subseteq Nat
  BY PusherAssumption
<1>10. CASE \E s \in Subjects : Publish(s)
  BY <1>4, <1>10 DEF Publish
<1>11. CASE \E c \in Consumers, pattern \in Patterns :
              \/ Put(c, pattern, TRUE, 0)
              \/ \E from \in {0} \cup Froms : Put(c, pattern, FALSE, from)
  <2>1. PICK c \in Consumers, pattern \in Patterns :
          \E atEnd \in BOOLEAN, from \in Nat : Put(c, pattern, atEnd, from)
    BY <1>9, <1>11
  <2> QED
    BY <2>1, PutCovers
<1>12. CASE \E s \in Subjects, n \in 1 .. MaxIndex, force \in ForceFlags : Trim(s, n, force)
  BY <1>4, <1>12 DEF Trim, pushVars
<1>13. CASE \E i \in DOMAIN subs : \E ack \in 0 .. MaxIndex : Finish(i, ack)
  BY <1>9, <1>13, FinishCovers
<1>14. CASE UNCHANGED vars
  BY <1>4, <1>14 DEF vars
<1> QED
  BY <1>5, <1>6, <1>7, <1>8, <1>10, <1>11, <1>12, <1>13, <1>14, PumpCovers DEF Next

(***************************************************************************)
(* Deletions of receipts by hand aside (DELETE /consumers for the consumer, *)
(* ?purge=1), a receipt covers nothing its subscriber did not accept or was *)
(* not told is lost, however registrations, restarts and trims fall between *)
(* the start of a delivery and its end.                                     *)
(***************************************************************************)
THEOREM NothingIsSkipped ==
  ASSUME TRUE \notin Purges
  PROVE  Spec => []NothingSkipped
<1>1. Init => CoveredInv
  <2> SUFFICES ASSUME Init PROVE CoveredInv
    OBVIOUS
  <2>1. ReceiptsCovered
    BY DEF Init, ReceiptsCovered
  <2>2. FlightsCovered
    BY DEF Init, FlightsCovered, Live
  <2>3. NoReceiptNoHistory
    BY DEF Init, NoReceiptNoHistory
  <2> QED
    BY <2>1, <2>2, <2>3 DEF CoveredInv
<1>2. TypeInv /\ CoveredInv /\ [Next]_vars => CoveredInv'
  BY CoveredInvStep
<1>3. TypeInv /\ CoveredInv => NothingSkipped
  BY CoveredInvMeans
<1> QED
  BY <1>1, <1>2, <1>3, PusherTyped, PTL DEF Spec

-----------------------------------------------------------------------------

\* The psub at k was at j, and no wait has begun.
Stays(k, j) ==
  /\ subs'[k].consumer = subs[j].consumer
  /\ subs'[k].pattern = subs[j].pattern /\ subs'[k].rr = subs[j].rr
  /\ subs'[k].inflight = subs[j].inflight
  /\ subs[j].wait = 0 => subs'[k].wait = 0

(***************************************************************************)
(* No wakeup is lost.  A step that leaves `work' unset must not make a      *)
(* message waiting for a psub that is served: the list and the logs do not  *)
(* grow, served psubs are the ones there were, and no receipt moves back.   *)
(***************************************************************************)
LEMMA StillQuiet ==
  ASSUME TypeOK, TypeOK', NoLostWakeup, ~work, names' = names, last' = last,
         \A k \in Live' : Served(k)' => \E j \in Live : Served(j) /\ Stays(k, j),
         \A c \in Consumers \ Unsubscribes, s \in Subjects :
           Reached(c, s) >= last[s] => Reached(c, s)' >= last[s]
           \/ registry'[c] = Unregistered
  PROVE  NoLostWakeup'
<1> SUFFICES ASSUME NEW k \in Live', Served(k)'
             PROVE  /\ ~subs'[k].inflight /\ subs'[k].wait = 0
                    /\ \A n \in Turns' : ~Waiting(subs[k], n)'
  BY DEF NoLostWakeup
<1>1. PICK j \in Live :
        /\ Served(j)
        /\ subs'[k].consumer = subs[j].consumer
        /\ subs'[k].pattern = subs[j].pattern /\ subs'[k].rr = subs[j].rr
        /\ subs'[k].inflight = subs[j].inflight
        /\ subs[j].wait = 0 => subs'[k].wait = 0
  BY DEF Stays
<1>2. /\ ~subs[j].inflight /\ subs[j].wait = 0
      /\ \A n \in Turns : ~Waiting(subs[j], n)
  BY <1>1 DEF NoLostWakeup
<1>3. subs[j] \in Psub
  BY Indexes DEF Live
<1>4. Turns' = Turns
  BY DEF Turns
<1>5. ASSUME NEW n \in Turns
      PROVE  ~Waiting(subs[k], n)'
  <2>1. Turn(subs[k], n)' = Turn(subs[j], n)
    BY <1>1 DEF Turn
  <2>2. names[Turn(subs[j], n)] \in Subjects /\ subs[j].consumer \in Consumers
    BY <1>3, TurnType DEF Psub
  <2>3. PICK s \in Subjects : s = names[Turn(subs[j], n)]
    BY <2>2
  <2>4. PICK c \in Consumers : c = subs[j].consumer
    BY <2>2
  <2>5. c \notin Unsubscribes /\ registry'[c] # Unregistered
    BY <1>1, <2>4 DEF Served
  <2>6. Waiting(subs[k], n)' <=> s \in subs[j].pattern /\ Reached(c, s)' < last[s]
    BY <1>1, <2>1, <2>3, <2>4 DEF Waiting
  <2>7. Waiting(subs[j], n) <=> s \in subs[j].pattern /\ Reached(c, s) < last[s]
    BY <2>3, <2>4 DEF Waiting
  <2>8. Reached(c, s) \in Nat /\ last[s] \in Nat
    BY AckedType
  <2>9. Reached(c, s)' \in Nat
    <3>1. receipt'[c][s] \in Receipts /\ base'[s] \in Nat /\ last'[s] \in Nat
      BY DEF TypeOK
    <3> QED
      BY <3>1 DEF Reached, Acked, Higher, Receipts
  <2>10. Reached(c, s) >= last[s] => Reached(c, s)' >= last[s]
    BY <2>5
  <2> QED
    BY <1>2, <2>6, <2>7, <2>8, <2>9, <2>10
<1> QED
  BY <1>1, <1>2, <1>4, <1>5

\* start_delivery moves a receipt up to the base, never below the last entry.
LEMMA PumpReaches ==
  ASSUME TypeOK, Pump, NEW c \in Consumers, NEW s \in Subjects,
         Reached(c, s) >= last[s]
  PROVE  Reached(c, s)' >= last[s]
<1>1. /\ receipt'[c][s] = IF s \in SkippedBy(c) THEN base[s] ELSE receipt[c][s]
      /\ base' = base /\ last' = last
  BY PumpMakes DEF logVars
<1>2. /\ last[s] \in Nat /\ base[s] \in Nat /\ receipt[c][s] \in Receipts
      /\ Reached(c, s) \in Nat
  BY AckedType
<1>3. CASE s \in SkippedBy(c)
  <2>1. Reached(c, s) = base[s]
    BY <1>3, SkippedAre
  <2>2. Acked(c, s)' = base[s]
    BY <1>1, <1>2, <1>3, PusherAssumption DEF Acked
  <2> QED
    BY <1>1, <1>2, <2>1, <2>2 DEF Reached, Higher
<1>4. CASE s \notin SkippedBy(c)
  <2>1. Acked(c, s)' = Acked(c, s)
    BY <1>1, <1>4 DEF Acked
  <2> QED
    BY <1>1, <2>1 DEF Reached, Higher
<1> QED
  BY <1>3, <1>4

\* bjm_pusher_pump clears `work' only when it has looked at every psub.
LEMMA PumpQuiet ==
  ASSUME TypeOK, TypeOK', Pump, ~work'
  PROVE  work => NoLostWakeup'
<1>1. /\ DOMAIN subs' = DOMAIN subs
      /\ \A i \in Asked : \E size \in BatchSizes : subs'[i] = Started(subs[i], size)
      /\ \A i \in DOMAIN subs \ Asked : subs'[i] = subs[i]
      /\ work' = (work /\ (Busy \/ \E i \in Asked : subs'[i].inflight))
      /\ UNCHANGED <<last, base, registry, names>>
  BY PumpMakes DEF logVars
<1> SUFFICES ASSUME work, NEW k \in Live', Served(k)'
             PROVE  /\ ~subs'[k].inflight /\ subs'[k].wait = 0
                    /\ \A n \in Turns' : ~Waiting(subs[k], n)'
  BY DEF NoLostWakeup
<1>2. \A i \in DOMAIN subs : subs[i] \in Psub
  BY Indexes
<1>3. k \in DOMAIN subs /\ subs[k] \in Psub
  BY <1>1, <1>2 DEF Live
<1>4. subs'[k].gone = subs[k].gone /\ subs'[k].conn = subs[k].conn
  BY <1>1, <1>3, StartedType
<1>5. k \in Live /\ subs[k].conn
  BY <1>3, <1>4 DEF Live, Served
<1>6. ~Busy /\ \A i \in Asked : ~subs'[i].inflight
  BY <1>1
<1>7. ~subs[k].inflight /\ subs[k].wait = 0
  <2>1. subs[k].wait \in Nat
    BY <1>3, PusherAssumption DEF Psub
  <2> QED
    BY <1>5, <1>6, <2>1 DEF Busy
<1>8. k \in Asked
  BY <1>5, <1>7 DEF Asked, Eligible
<1>9. PICK size \in BatchSizes : subs'[k] = Started(subs[k], size)
  BY <1>1, <1>8
<1>10. Pick(subs[k]) = Len(names)
  <2> SUFFICES ASSUME Pick(subs[k]) # Len(names) PROVE FALSE
    OBVIOUS
  <2>1. Started(subs[k], size).inflight
    BY <1>3, <1>5 DEF Started, Psub
  <2> QED
    BY <1>6, <1>8, <1>9, <2>1
<1>11. subs'[k] = subs[k]
  BY <1>9, <1>10 DEF Started
<1>12. \A n \in Turns : ~Waiting(subs[k], n)
  BY <1>3, <1>10, PickType
<1>13. ASSUME NEW n \in Turns
       PROVE  ~Waiting(subs[k], n)'
  <2>1. Turn(subs[k], n)' = Turn(subs[k], n)
    BY <1>1, <1>11 DEF Turn
  <2>2. names[Turn(subs[k], n)] \in Subjects /\ subs[k].consumer \in Consumers
    BY <1>3, TurnType DEF Psub
  <2>3. PICK s \in Subjects : s = names[Turn(subs[k], n)]
    BY <2>2
  <2>4. PICK c \in Consumers : c = subs[k].consumer
    BY <2>2
  <2>5. Waiting(subs[k], n)' <=> s \in subs[k].pattern /\ Reached(c, s)' < last[s]
    BY <1>1, <1>11, <2>1, <2>3, <2>4 DEF Waiting
  <2>6. Waiting(subs[k], n) <=> s \in subs[k].pattern /\ Reached(c, s) < last[s]
    BY <2>3, <2>4 DEF Waiting
  <2>7. Reached(c, s) \in Nat /\ last[s] \in Nat
    BY AckedType
  <2>8. Reached(c, s)' \in Nat
    <3>1. receipt'[c][s] \in Receipts /\ base'[s] \in Nat /\ last'[s] \in Nat
      BY DEF TypeOK
    <3> QED
      BY <3>1 DEF Reached, Acked, Higher, Receipts
  <2>9. Reached(c, s) >= last[s] => Reached(c, s)' >= last[s]
    BY PumpReaches
  <2> QED
    BY <1>12, <2>5, <2>6, <2>7, <2>8, <2>9
<1>14. Turns' = Turns
  BY <1>1 DEF Turns
<1> QED
  BY <1>6, <1>7, <1>8, <1>11, <1>13, <1>14

\* Receipts and logs that stay as they are stay reached.
LEMMA SameReached ==
  ASSUME UNCHANGED <<last, base>>, NEW c, NEW s, receipt'[c][s] = receipt[c][s]
  PROVE  Reached(c, s)' = Reached(c, s)
  BY DEF Reached, Acked, Higher

LEMMA FinishQuiet ==
  ASSUME TypeInv, TypeOK', NoLostWakeup, NEW i \in DOMAIN subs, NEW ack \in Nat,
         Finish(i, ack), ~work'
  PROVE  NoLostWakeup'
<1>1. TypeOK
  BY DEF TypeInv
<1>2. /\ subs[i].inflight /\ UNCHANGED <<last, base, registry, names>>
      /\ UNCHANGED <<receipt, work>>
      /\ \/ subs[i].gone /\ subs' = Reaped(i)
         \/ ~subs[i].gone /\ subs' = [subs EXCEPT ![i] = BackedOff(subs[i])]
  BY FinishMakes DEF logVars
<1>3. ASSUME NEW k \in Live', Served(k)'
      PROVE  \E j \in Live : Served(j) /\ Stays(k, j)
  <2>1. CASE subs[i].gone /\ subs' = Reaped(i)
    <3>1. PICK j \in Live : subs'[k] = subs[j]
      BY <1>1, <1>3, <2>1, ReapedLeaves, LeftFlights
    <3> QED
      BY <1>2, <1>3, <3>1 DEF Served, Stays
  <2>2. CASE ~subs[i].gone /\ subs' = [subs EXCEPT ![i] = BackedOff(subs[i])]
    <3> DEFINE q == BackedOff(subs[i])
    <3>1. subs[i] \in Psub
      BY <1>1, Indexes
    <3>2. q.consumer = subs[i].consumer /\ q.conn = subs[i].conn
      BY <3>1, EndedKeeps
    <3> HIDE DEF q
    <3>3. DOMAIN subs' = DOMAIN subs /\ \A j \in DOMAIN subs : subs'[j] = IF j = i THEN q ELSE subs[j]
      BY <2>2 DEF q
    <3>4. CASE k = i
      <4>1. i \in Live /\ Served(i)
        BY <1>2, <1>3, <2>2, <3>2, <3>3, <3>4 DEF Live, Served
      <4> QED
        BY <1>2, <4>1 DEF NoLostWakeup
    <3>5. CASE k # i
      <4>1. k \in DOMAIN subs' /\ ~subs'[k].gone
        BY <1>3 DEF Live
      <4>2. subs'[k] = subs[k] /\ k \in Live
        BY <3>3, <3>5, <4>1 DEF Live
      <4> QED
        BY <1>2, <1>3, <4>2 DEF Served, Stays
    <3> QED
      BY <3>4, <3>5
  <2> QED
    BY <1>2, <2>1, <2>2
<1>4. \A c \in Consumers, s \in Subjects : Reached(c, s)' = Reached(c, s)
  BY <1>2, SameReached
<1> QED
  BY <1>1, <1>2, <1>3, <1>4, StillQuiet

LEMMA NoLostWakeupStep ==
  ASSUME TypeInv, TypeInv', NoLostWakeup, [Next]_vars
  PROVE  NoLostWakeup'
<1> SUFFICES ASSUME ~work' PROVE NoLostWakeup'
  BY DEF NoLostWakeup
<1>1. TypeOK /\ TypeOK'
  BY DEF TypeInv
<1>2. ASSUME UNCHANGED <<work, names, last, registry, subs>>,
             \A c \in Consumers \ Unsubscribes, s \in Subjects :
               Reached(c, s) >= last[s] => Reached(c, s)' >= last[s]
      PROVE  NoLostWakeup'
  <2>1. \A k \in Live' : Served(k)' => k \in Live /\ Served(k) /\ Stays(k, k)
    BY <1>2 DEF Live, Served, Stays
  <2> QED
    BY <1>1, <1>2, <2>1, StillQuiet
<1>3. ASSUME NEW c \in Consumers, NEW purge \in Purges, Delete(c, purge)
      PROVE  NoLostWakeup'
  <2>1. /\ registry' = [registry EXCEPT ![c] = Unregistered] /\ subs' = Removed(c)
        /\ UNCHANGED <<last, base, names, work>>
    BY <1>3 DEF Delete, logVars
  <2>2. PICK forgotten \in SUBSET Subjects : Forget(c, forgotten)
    BY <1>3 DEF Delete
  <2>3. \A d \in Consumers, s \in Subjects : d # c => receipt'[d][s] = receipt[d][s]
    BY <1>1, <2>2, ForgetMakes
  <2>4. registry'[c] = Unregistered /\ \A d \in Consumers : d # c => registry'[d] = registry[d]
    BY <1>1, <2>1 DEF TypeOK
  <2>5. ASSUME NEW k \in Live', Served(k)'
        PROVE  \E j \in Live : Served(j) /\ Stays(k, j)
    <3>1. PICK j \in Live : subs'[k] = subs[j]
      BY <1>1, <2>1, RemovedLeaves, LeftFlights
    <3>2. subs[j].consumer \in Consumers
      BY <1>1, Indexes DEF Live, Psub
    <3> QED
      BY <2>4, <2>5, <3>1, <3>2 DEF Served, Stays
  <2>6. \A d \in Consumers, s \in Subjects : d # c => Reached(d, s)' = Reached(d, s)
    BY <2>1, <2>3, SameReached
  <2> QED
    BY <1>1, <2>1, <2>4, <2>5, <2>6, StillQuiet
<1>4. ASSUME NEW c \in Consumers, NEW s \in Subjects, Unsubscribe(c, s)
      PROVE  NoLostWakeup'
  <2>1. c \in Unsubscribes /\ Forget(c, {s}) /\ UNCHANGED <<last, base, registry, pushVars>>
    BY <1>4 DEF Unsubscribe, logVars
  <2>2. {s} \in SUBSET Subjects
    OBVIOUS
  <2>3. \A d \in Consumers, t \in Subjects : d # c => receipt'[d][t] = receipt[d][t]
    BY <1>1, <2>1, <2>2, ForgetMakes
  <2>4. \A d \in Consumers, t \in Subjects : d # c => Reached(d, t)' = Reached(d, t)
    BY <2>1, <2>3, SameReached
  <2> QED
    BY <1>2, <2>1, <2>4 DEF pushVars
<1>5. ASSUME NEW s \in Subjects, NEW n \in 1 .. MaxIndex, NEW force, Trim(s, n, force)
      PROVE  NoLostWakeup'
  <2>1. /\ n \in base[s] + 1 .. last[s] /\ base' = [base EXCEPT ![s] = n]
        /\ UNCHANGED <<last, receipt, registry, pushVars>>
    BY <1>5 DEF Trim
  <2>2. ASSUME NEW c \in Consumers, NEW t \in Subjects, Reached(c, t) >= last[t]
        PROVE  Reached(c, t)' >= last[t]
    <3>1. /\ last[t] \in Nat /\ base[t] \in Nat /\ Acked(c, t) \in Nat
      BY <1>1, AckedType
    <3>2. base'[t] \in Nat /\ base'[t] >= base[t]
      BY <1>1, <2>1, <3>1 DEF TypeOK
    <3>3. Acked(c, t)' = Acked(c, t)
      BY <2>1 DEF Acked
    <3> QED
      BY <2>1, <2>2, <3>1, <3>2, <3>3 DEF Reached, Higher
  <2> QED
    BY <1>2, <2>1, <2>2 DEF pushVars
<1>6. ASSUME Pump
      PROVE  NoLostWakeup'
  <2>1. CASE work
    BY <1>1, <1>6, <2>1, PumpQuiet
  <2>2. CASE ~work
    <3>1. /\ DOMAIN subs' = DOMAIN subs /\ UNCHANGED <<last, registry, names>>
          /\ \A i \in DOMAIN subs \ Asked : subs'[i] = subs[i]
      BY <1>1, <1>6, PumpMakes DEF logVars
    <3>2. Asked = {}
      BY <2>2 DEF Asked
    <3>3. \A k \in Live' : Served(k)' => k \in Live /\ Served(k) /\ Stays(k, k)
      BY <3>1, <3>2 DEF Live, Served, Stays
    <3>4. \A c \in Consumers, s \in Subjects :
            Reached(c, s) >= last[s] => Reached(c, s)' >= last[s]
      BY <1>1, <1>6, PumpReaches
    <3> QED
      BY <1>1, <2>2, <3>1, <3>3, <3>4, StillQuiet
  <2> QED
    BY <2>1, <2>2
<1>7. ASSUME Tick
      PROVE  NoLostWakeup'
  <2>1. /\ DOMAIN subs' = DOMAIN subs
        /\ \A i \in DOMAIN subs : \E w \in 0 .. BackoffMax :
             /\ subs'[i] = [subs[i] EXCEPT !.wait = w]
             /\ subs[i].wait = 0 => w = 0
        /\ UNCHANGED <<last, base, receipt, registry, names, work>>
    BY <1>1, <1>7, TickMakes DEF storeVars
  <2>2. ASSUME NEW k \in Live', Served(k)'
        PROVE  k \in Live /\ Served(k) /\ Stays(k, k)
    <3>1. k \in DOMAIN subs /\ subs[k] \in Psub
      BY <1>1, <2>1, Indexes DEF Live
    <3>2. PICK w \in 0 .. BackoffMax : /\ subs'[k] = [subs[k] EXCEPT !.wait = w]
                                       /\ subs[k].wait = 0 => w = 0
      BY <2>1, <3>1
    <3>3. /\ subs'[k].consumer = subs[k].consumer /\ subs'[k].pattern = subs[k].pattern
          /\ subs'[k].rr = subs[k].rr /\ subs'[k].inflight = subs[k].inflight
          /\ subs'[k].gone = subs[k].gone /\ subs'[k].conn = subs[k].conn
          /\ subs'[k].wait = w
      BY <3>1, <3>2 DEF Psub
    <3> QED
      BY <2>1, <2>2, <3>1, <3>2, <3>3 DEF Live, Served, Stays
  <2>3. \A c \in Consumers, s \in Subjects : Reached(c, s)' = Reached(c, s)
    BY <2>1, SameReached
  <2>4. ~work
    BY <2>1
  <2> QED
    BY <1>1, <2>1, <2>2, <2>3, <2>4, StillQuiet
<1>8. CASE UNCHANGED vars
  <2>1. \A c \in Consumers, s \in Subjects : Reached(c, s)' = Reached(c, s)
    BY <1>8, SameReached DEF vars
  <2> QED
    BY <1>2, <1>8, <2>1 DEF vars
<1>9. CASE \E i \in DOMAIN subs : \E ack \in 0 .. MaxIndex : Finish(i, ack)
  BY <1>1, <1>9, FinishQuiet, PusherAssumption
<1>10. CASE \/ \E s \in Subjects : Publish(s)
            \/ \E c \in Consumers, pattern \in Patterns :
                 \/ Put(c, pattern, TRUE, 0)
                 \/ \E from \in {0} \cup Froms : Put(c, pattern, FALSE, from)
            \/ Restart
  BY <1>10 DEF Publish, Put, Restart
<1> QED
  BY <1>3, <1>4, <1>5, <1>6, <1>7, <1>8, <1>9, <1>10 DEF Next

(***************************************************************************)
(* When bjm_pusher_pump has decided that there is nothing to do until a     *)
(* publish or a completion says otherwise, no registered subscription with  *)
(* a connection has a message waiting, whatever the sequence of publishes,  *)
(* PUTs, DELETEs, trims, deliveries, backoffs and restarts before.          *)
(***************************************************************************)
THEOREM WakeupsAreKept == Spec => []NoLostWakeup
<1>1. Init => NoLostWakeup
  BY DEF Init, NoLostWakeup
<1>2. TypeInv /\ TypeInv' /\ NoLostWakeup /\ [Next]_vars => NoLostWakeup'
  BY NoLostWakeupStep
<1> QED
  BY <1>1, <1>2, PusherTyped, PTL DEF Spec

-----------------------------------------------------------------------------

(***************************************************************************)
(* "Fairness: next subject goes first."  How often a subject was passed     *)
(* over and how many turns are left before its own never add up to a whole  *)
(* round: a delivery that passes it over brings its turn nearer, and a new  *)
(* name makes the round longer.                                             *)
(***************************************************************************)
Distance(r, m, q) == IF m > r THEN (m - 1) - r ELSE (Len(q) + m) - (r + 1)

RoundIn(p, q) ==
  /\ p.rr = 0 \/ p.rr < Len(q)
  /\ \A s \in Subjects : p.passed[s] > 0 =>
       /\ p.conn
       /\ \E m \in DOMAIN q : q[m] = s /\ p.passed[s] + Distance(p.rr, m, q) < Len(q)

NamesOnce == \A m, n \in DOMAIN names : names[m] = names[n] => m = n

RoundInv == NamesOnce /\ \A i \in DOMAIN subs : RoundIn(subs[i], names)

LEMMA UpTo == \A n \in Nat : Cardinality(1 .. n) = n
<1> SUFFICES ASSUME NEW n \in Nat PROVE Cardinality(1 .. n) = n
  OBVIOUS
<1>1. 1 \in Int /\ n \in Int
  OBVIOUS
<1>2. Cardinality(1 .. n) = IF 1 > n THEN 0 ELSE n - 1 + 1
  BY <1>1, FS_Interval
<1> QED
  BY <1>2

\* The remainders of a sum of two numbers below l.
LEMMA Wraps ==
  ASSUME NEW l \in Nat \ {0}, NEW a \in Nat, NEW b \in Nat, a < l, b < l
  PROVE  (a + b) % l = IF a + b < l THEN a + b ELSE (a + b) - l
  OBVIOUS

\* From after the k-th place of a round of l that began at a, to the n-th place.
LEMMA Rests ==
  \A l, a, k, n, t, r \in Nat :
    /\ k < n /\ n < l /\ a < l
    /\ t = IF a + n < l THEN a + n + 1 ELSE (a + n) - l + 1
    /\ r = IF a + k + 1 < l THEN a + k + 1 ELSE (a + k + 1) - l
    => (n - k) - 1 = IF t > r THEN (t - 1) - r ELSE (l + t) - (r + 1)
<1> SUFFICES ASSUME NEW l \in Nat, NEW a \in Nat, NEW k \in Nat, NEW n \in Nat,
                    NEW t \in Nat, NEW r \in Nat, k < n, n < l, a < l,
                    t = IF a + n < l THEN a + n + 1 ELSE (a + n) - l + 1,
                    r = IF a + k + 1 < l THEN a + k + 1 ELSE (a + k + 1) - l
             PROVE  (n - k) - 1 = IF t > r THEN (t - 1) - r ELSE (l + t) - (r + 1)
  OBVIOUS
<1>1. CASE a + n < l
  <2>1. t = a + n + 1 /\ r = a + k + 1
    BY <1>1
  <2> QED
    BY <2>1
<1>2. CASE ~(a + n < l) /\ a + k + 1 < l
  <2>1. t = (a + n) - l + 1 /\ r = a + k + 1
    BY <1>2
  <2> QED
    BY <2>1
<1>3. CASE ~(a + n < l) /\ ~(a + k + 1 < l)
  <2>1. t = (a + n) - l + 1 /\ r = (a + k + 1) - l
    BY <1>3
  <2> QED
    BY <2>1
<1> QED
  BY <1>1, <1>2, <1>3

LEMMA RoundInvMeans == TypeOK /\ RoundInv => SubjectsTakeTurns
<1> SUFFICES ASSUME TypeOK, RoundInv, NEW i \in DOMAIN subs, NEW s \in Subjects
             PROVE  subs[i].passed[s] < Cardinality(Subjects)
  BY DEF SubjectsTakeTurns
<1>1. subs[i] \in Psub /\ subs[i].passed[s] \in Nat /\ subs[i].rr \in Nat
  BY Indexes DEF Psub
<1>2. IsFiniteSet(Subjects) /\ Cardinality(Subjects) \in Nat
  BY PusherAssumption, FS_CardinalityType
<1>3. names \in Seq(Subjects) /\ Len(names) \in Nat /\ DOMAIN names = 1 .. Len(names)
  BY Indexes DEF TypeOK
<1>4. Cardinality(Subjects) # 0
  BY <1>2, FS_EmptySet
<1>5. Len(names) <= Cardinality(Subjects)
  <2>1. names \in [1 .. Len(names) -> Subjects]
    BY <1>3
  <2>2. names \in Injection(1 .. Len(names), Subjects)
    BY <1>3, <2>1 DEF RoundInv, NamesOnce, Injection, IsInjective
  <2>3. Cardinality(1 .. Len(names)) <= Cardinality(Subjects)
    BY <1>2, <2>2, FS_Injection, Zenon
  <2>4. Cardinality(1 .. Len(names)) = Len(names)
    BY <1>3, UpTo
  <2> QED
    BY <2>3, <2>4
<1>6. CASE subs[i].passed[s] > 0
  <2>1. PICK m \in DOMAIN names :
          subs[i].passed[s] + Distance(subs[i].rr, m, names) < Len(names)
    BY <1>6 DEF RoundInv, RoundIn
  <2>2. subs[i].rr = 0 \/ subs[i].rr < Len(names)
    BY DEF RoundInv, RoundIn
  <2>3. m \in Nat /\ 1 <= m /\ m <= Len(names)
    BY <1>3
  <2>4. Distance(subs[i].rr, m, names) \in Nat
    BY <1>1, <1>3, <2>2, <2>3 DEF Distance
  <2>5. subs[i].passed[s] < Len(names)
    BY <1>1, <1>3, <2>1, <2>4
  <2> QED
    BY <1>1, <1>2, <1>3, <1>5, <2>5
<1> QED
  BY <1>1, <1>2, <1>4, <1>6

\* The subject at the n-th place of the round is n turns away.
LEMMA TurnDistance ==
  ASSUME TypeOK, NEW p \in Psub, p.rr = 0 \/ p.rr < Len(names), NEW n \in Turns
  PROVE  Distance(p.rr, Turn(p, n), names) = n
<1>1. /\ Len(names) \in Nat \ {0} /\ p.rr \in Nat /\ p.rr < Len(names)
      /\ n \in Nat /\ n < Len(names)
  BY TurnType, Indexes DEF Psub
<1>2. (p.rr + n) % Len(names) =
        IF p.rr + n < Len(names) THEN p.rr + n ELSE (p.rr + n) - Len(names)
  BY <1>1, Wraps
<1> DEFINE t == Turn(p, n)
<1>3. /\ p.rr + n < Len(names) => t = p.rr + n + 1
      /\ ~(p.rr + n < Len(names)) => t = (p.rr + n) - Len(names) + 1
  BY <1>2 DEF Turn
<1> HIDE DEF t
<1>4. t \in Nat /\ (t > p.rr <=> p.rr + n < Len(names))
  BY <1>1, <1>3
<1>5. Distance(p.rr, t, names) = n
  BY <1>1, <1>3, <1>4 DEF Distance
<1> QED
  BY <1>5 DEF t

\* ... and k + 1 turns nearer once the k-th place has had its delivery.
LEMMA TurnNearer ==
  ASSUME TypeOK, NEW p \in Psub, p.rr = 0 \/ p.rr < Len(names),
         NEW k \in Turns, NEW n \in Turns, k < n
  PROVE  /\ Turn(p, k) % Len(names) < Len(names)
         /\ Distance(Turn(p, k) % Len(names), Turn(p, n), names) = (n - k) - 1
<1> DEFINE l == Len(names)
<1>1. /\ l \in Nat \ {0} /\ p.rr \in Nat /\ p.rr < l
      /\ n \in Nat /\ n < l /\ k \in Nat /\ k < l
  BY TurnType, Indexes DEF Psub
<1>2. (p.rr + n) % l = IF p.rr + n < l THEN p.rr + n ELSE (p.rr + n) - l
  BY <1>1, Wraps
<1>3. (p.rr + k) % l = IF p.rr + k < l THEN p.rr + k ELSE (p.rr + k) - l
  BY <1>1, Wraps
<1>4. Turn(p, n) = (IF p.rr + n < l THEN p.rr + n ELSE (p.rr + n) - l) + 1
  BY <1>2 DEF Turn
<1>5. Turn(p, k) = (IF p.rr + k < l THEN p.rr + k ELSE (p.rr + k) - l) + 1
  BY <1>3 DEF Turn
<1>6. Turn(p, k) \in 1 .. l
  BY <1>1, <1>5
<1>7. Turn(p, k) % l = IF Turn(p, k) < l THEN Turn(p, k) ELSE 0
  BY <1>1, <1>6
<1>8. Turn(p, k) % l < l
  BY <1>1, <1>6, <1>7
<1>9. Distance(Turn(p, k) % l, Turn(p, n), names) = (n - k) - 1
  <2> DEFINE t == Turn(p, n)
             r == Turn(p, k) % l
  <2>1. /\ p.rr + n < l => t = p.rr + n + 1
        /\ ~(p.rr + n < l) => t = (p.rr + n) - l + 1
    BY <1>4
  <2>2. /\ p.rr + k + 1 < l => r = p.rr + k + 1
        /\ p.rr + k + 1 = l => r = 0
        /\ p.rr + k + 1 > l => r = (p.rr + k + 1) - l
    BY <1>1, <1>5, <1>7
  <2> HIDE DEF t, r
  <2>3. t \in Nat /\ r \in Nat
    BY <1>1, <2>1, <2>2
  <2>4. /\ t = IF p.rr + n < l THEN p.rr + n + 1 ELSE (p.rr + n) - l + 1
        /\ r = IF p.rr + k + 1 < l THEN p.rr + k + 1 ELSE (p.rr + k + 1) - l
    BY <1>1, <2>1, <2>2
  <2> HIDE DEF l
  <2>5. (n - k) - 1 = IF t > r THEN (t - 1) - r ELSE (l + t) - (r + 1)
    <3>1. l \in Nat /\ p.rr \in Nat /\ k \in Nat /\ n \in Nat /\ k < n /\ n < l /\ p.rr < l
      BY <1>1, k < n
    <3>2. \A a \in Nat :
            /\ k < n /\ n < l /\ a < l
            /\ t = IF a + n < l THEN a + n + 1 ELSE (a + n) - l + 1
            /\ r = IF a + k + 1 < l THEN a + k + 1 ELSE (a + k + 1) - l
            => (n - k) - 1 = IF t > r THEN (t - 1) - r ELSE (l + t) - (r + 1)
      BY <2>3, <3>1, Rests
    <3> QED
      BY <2>3, <2>4, <3>1, <3>2
  <2> QED
    BY <2>5 DEF Distance, t, r, l
<1> QED
  BY <1>8, <1>9

LEMMA RoundStarted ==
  ASSUME TypeOK, NamesOnce, NEW p \in Psub, RoundIn(p, names), NEW size \in BatchSizes
  PROVE  RoundIn(Started(p, size), names)
<1> DEFINE q == Started(p, size)
           k == Pick(p)
<1>1. p.rr = 0 \/ p.rr < Len(names)
  BY DEF RoundIn
<1>2. CASE k = Len(names)
  BY <1>2, StartedType
<1>3. CASE k # Len(names)
  <2>1. /\ k \in Turns /\ Waiting(p, k)
        /\ \A n \in Turns : n < k => ~Waiting(p, n)
    BY <1>3, PickType
  <2>2. /\ Len(names) \in Nat \ {0} /\ k \in Nat /\ k < Len(names)
        /\ Turn(p, k) \in DOMAIN names
    BY <2>1, TurnType, Indexes
  <2>3. q.rr = Turn(p, k) % Len(names) /\ q.conn = p.conn
    BY <1>3, StartedType
  <2>4. q.rr < Len(names)
    BY <2>2, <2>3, Indexes
  <2>5. CASE ~p.conn
    <3>1. q.passed = p.passed
      BY <1>3, <2>5, StartedType
    <3>2. \A s \in Subjects : ~(p.passed[s] > 0)
      BY <2>5 DEF RoundIn
    <3> QED
      BY <2>4, <3>1, <3>2 DEF RoundIn
  <2>6. CASE p.conn
    <3>1. q.passed = PassedOver(p, names[Turn(p, k)])
      BY <1>3, <2>6, StartedType
    <3> HIDE DEF q, k
    <3>2. ASSUME NEW s \in Subjects, q.passed[s] > 0
          PROVE  \E m \in DOMAIN names : names[m] = s /\ q.passed[s] + Distance(q.rr, m, names) < Len(names)
      <4>1. /\ q.passed[s] = p.passed[s] + 1 /\ s # names[Turn(p, k)]
            /\ \E n \in Turns : names[Turn(p, n)] = s /\ Waiting(p, n)
        BY <3>1, <3>2 DEF PassedOver
      <4>2. PICK n \in Turns : names[Turn(p, n)] = s /\ Waiting(p, n)
        BY <4>1
      <4>3. n # k /\ ~(n < k)
        BY <2>1, <4>1, <4>2
      <4>4. n \in Nat /\ n < Len(names) /\ Turn(p, n) \in DOMAIN names
        BY TurnType
      <4>5. k < n
        BY <2>2, <4>3, <4>4
      <4>6. Distance(q.rr, Turn(p, n), names) = (n - k) - 1
        BY <1>1, <2>1, <2>3, <4>5, TurnNearer
      <4>7. p.passed[s] \in Nat
        BY DEF Psub
      <4>8. p.passed[s] + n < Len(names)
        <5>1. CASE p.passed[s] = 0
          BY <4>4, <5>1
        <5>2. CASE p.passed[s] # 0
          <6>1. PICK m \in DOMAIN names :
                  names[m] = s /\ p.passed[s] + Distance(p.rr, m, names) < Len(names)
            BY <4>7, <5>2 DEF RoundIn
          <6>2. m = Turn(p, n)
            BY <4>2, <4>4, <6>1 DEF NamesOnce
          <6> QED
            BY <1>1, <6>1, <6>2, TurnDistance
        <5> QED
          BY <5>1, <5>2
      <4>9. q.passed[s] + Distance(q.rr, Turn(p, n), names) < Len(names)
        BY <2>2, <4>1, <4>4, <4>6, <4>7, <4>8
      <4> QED
        BY <4>2, <4>4, <4>9
    <3>3. RoundIn(q, names)
      BY <2>3, <2>4, <2>6, <3>2 DEF RoundIn
    <3> QED
      BY <3>3 DEF q
  <2> QED
    BY <2>5, <2>6
<1> QED
  BY <1>2, <1>3

\* names_add: a new name goes to the end.
LEMMA RoundGrows ==
  ASSUME TypeOK, NEW s \in Subjects, NEW p \in Psub, RoundIn(p, names)
  PROVE  RoundIn(p, Append(names, s))
<1> DEFINE q == Append(names, s)
<1>1. /\ names \in Seq(Subjects) /\ Len(names) \in Nat /\ DOMAIN names = 1 .. Len(names)
      /\ p.rr \in Nat
  BY Indexes DEF TypeOK, Psub
<1>2. /\ Len(q) = Len(names) + 1 /\ DOMAIN q = 1 .. Len(names) + 1
      /\ \A m \in DOMAIN names : q[m] = names[m] /\ m \in DOMAIN q
  BY <1>1
<1> HIDE DEF q
<1>3. p.rr = 0 \/ p.rr < Len(q)
  BY <1>1, <1>2 DEF RoundIn
<1>4. ASSUME NEW t \in Subjects, p.passed[t] > 0
      PROVE  p.conn /\ \E m \in DOMAIN q : q[m] = t /\ p.passed[t] + Distance(p.rr, m, q) < Len(q)
  <2>1. PICK m \in DOMAIN names :
          names[m] = t /\ p.passed[t] + Distance(p.rr, m, names) < Len(names)
    BY <1>4 DEF RoundIn
  <2>2. p.passed[t] \in Nat /\ m \in Nat
    BY <1>1 DEF Psub
  <2>3. p.passed[t] + Distance(p.rr, m, q) < Len(q)
    BY <1>1, <1>2, <2>1, <2>2 DEF Distance
  <2> QED
    BY <1>2, <1>4, <2>1, <2>3 DEF RoundIn
<1>5. RoundIn(p, q)
  BY <1>3, <1>4 DEF RoundIn
<1> QED
  BY <1>5 DEF q

\* A round is of the fields that start_delivery writes.
SameRound(p, e) == p.rr = e.rr /\ p.passed = e.passed /\ p.conn = e.conn

LEMMA SameRoundIn ==
  ASSUME NEW p, NEW e, NEW q, SameRound(p, e), RoundIn(e, q)
  PROVE  RoundIn(p, q)
  BY DEF SameRound, RoundIn

LEMMA NewRound ==
  ASSUME NEW c, NEW pattern, NEW transport, NEW q
  PROVE  RoundIn(NewPsub(c, pattern, transport), q)
  BY DEF NewPsub, RoundIn

LEMMA SameRounds ==
  ASSUME RoundInv, names' = names,
         \A k \in DOMAIN subs' :
           \/ \E j \in DOMAIN subs : SameRound(subs'[k], subs[j])
           \/ \E c, pattern, transport : subs'[k] = NewPsub(c, pattern, transport)
  PROVE  RoundInv'
<1>1. \A k \in DOMAIN subs' : RoundIn(subs'[k], names)
  BY SameRoundIn, NewRound DEF RoundInv
<1> QED
  BY <1>1 DEF RoundInv, NamesOnce

LEMMA LeftRounds ==
  ASSUME TypeOK, LeftOf(subs')
  PROVE  \A k \in DOMAIN subs' : \E j \in DOMAIN subs : SameRound(subs'[k], subs[j])
<1> SUFFICES ASSUME NEW k \in DOMAIN subs'
             PROVE  \E j \in DOMAIN subs : SameRound(subs'[k], subs[j])
  OBVIOUS
<1>1. PICK j \in DOMAIN subs : subs'[k] = subs[j] \/ subs'[k] = [subs[j] EXCEPT !.gone = TRUE]
  BY DEF LeftOf
<1>2. subs[j] \in Psub
  BY Indexes
<1>3. SameRound([subs[j] EXCEPT !.gone = TRUE], subs[j])
  BY <1>2 DEF SameRound, Psub
<1> QED
  BY <1>1, <1>3 DEF SameRound

\* Publish is the only step that makes the round longer.
LEMMA PublishRound ==
  ASSUME TypeOK, RoundInv, NEW s \in Subjects, names' = NamesAdd(s), subs' = subs
  PROVE  RoundInv'
<1>1. CASE \E n \in DOMAIN names : names[n] = s
  <2>1. names' = names
    BY <1>1 DEF NamesAdd
  <2> QED
    BY <2>1 DEF RoundInv, NamesOnce
<1>2. CASE ~\E n \in DOMAIN names : names[n] = s
  <2>1. names' = Append(names, s)
    BY <1>2 DEF NamesAdd
  <2>2. /\ DOMAIN names = 1 .. Len(names) /\ Len(names) \in Nat
        /\ names \in Seq(Subjects)
    BY Indexes DEF TypeOK
  <2>3. /\ DOMAIN names' = DOMAIN names \cup {Len(names) + 1}
        /\ names'[Len(names) + 1] = s
        /\ \A m \in DOMAIN names : names'[m] = names[m]
    BY <2>1, <2>2
  <2>4. NamesOnce'
    BY <1>2, <2>3 DEF RoundInv, NamesOnce
  <2>5. \A i \in DOMAIN subs : RoundIn(subs[i], names')
    BY <2>1, RoundGrows, Indexes DEF RoundInv
  <2>6. \A i \in DOMAIN subs' : RoundIn(subs'[i], names')
    BY <2>5
  <2> QED
    BY <2>4, <2>6 DEF RoundInv
<1> QED
  BY <1>1, <1>2

LEMMA RoundInvStep ==
  ASSUME TypeInv, RoundInv, [Next]_vars
  PROVE  RoundInv'
<1>1. TypeOK /\ \A i \in DOMAIN subs : subs[i] \in Psub
  BY Indexes DEF TypeInv
<1>2. ASSUME NEW s \in Subjects, Publish(s)
      PROVE  RoundInv'
  BY <1>1, <1>2, PublishRound DEF Publish
<1>3. ASSUME NEW c \in Consumers, NEW pattern \in Patterns, NEW atEnd, NEW from,
             Put(c, pattern, atEnd, from)
      PROVE  RoundInv'
  <2>1. subs' = Added(c, pattern) /\ names' = names
    BY <1>3 DEF Put
  <2>2. /\ \A k \in DOMAIN subs : subs'[k] =
             IF k \in Found(c) THEN [subs[k] EXCEPT !.pattern = pattern] ELSE subs[k]
        /\ \A k \in DOMAIN subs' : k \notin DOMAIN subs => subs'[k] = NewPsub(c, pattern, TRUE)
    BY <1>1, <2>1, AddedMakes
  <2>3. \A p \in Psub : SameRound([p EXCEPT !.pattern = pattern], p) /\ SameRound(p, p)
    BY DEF SameRound, Psub
  <2>4. \A k \in DOMAIN subs : SameRound(subs'[k], subs[k])
    BY <1>1, <2>2, <2>3
  <2>5. \A k \in DOMAIN subs' :
          \/ \E j \in DOMAIN subs : SameRound(subs'[k], subs[j])
          \/ \E d, q, transport : subs'[k] = NewPsub(d, q, transport)
    BY <2>2, <2>4, Zenon
  <2> QED
    BY <2>1, <2>5, SameRounds, Zenon
<1>4. ASSUME NEW c \in Consumers, NEW purge, Delete(c, purge)
      PROVE  RoundInv'
  <2>1. subs' = Removed(c) /\ names' = names
    BY <1>4 DEF Delete
  <2>2. LeftOf(subs')
    BY <1>1, <2>1, RemovedLeaves
  <2> QED
    BY <1>1, <2>1, <2>2, LeftRounds, SameRounds
<1>5. ASSUME Pump
      PROVE  RoundInv'
  <2>1. /\ DOMAIN subs' = DOMAIN subs /\ names' = names
        /\ \A i \in Asked : \E size \in BatchSizes : subs'[i] = Started(subs[i], size)
        /\ \A i \in DOMAIN subs \ Asked : subs'[i] = subs[i]
    BY <1>1, <1>5, PumpMakes
  <2>2. \A i \in DOMAIN subs : RoundIn(subs'[i], names)
    BY <1>1, <2>1, RoundStarted DEF RoundInv
  <2> QED
    BY <2>1, <2>2 DEF RoundInv, NamesOnce
<1>6. ASSUME NEW i \in DOMAIN subs, NEW ack \in Nat, Finish(i, ack)
      PROVE  RoundInv'
  <2>1. names' = names
    BY <1>6 DEF Finish
  <2>2. CASE subs' = Reaped(i)
    <3>1. LeftOf(subs')
      BY <1>1, <2>2, ReapedLeaves
    <3> QED
      BY <1>1, <2>1, <3>1, LeftRounds, SameRounds
  <2>3. CASE \E q \in {BackedOff(subs[i]), [Ended(subs[i]) EXCEPT !.wait = 0, !.failures = 0]} :
               subs' = [subs EXCEPT ![i] = q]
    <3>1. PICK q \in {BackedOff(subs[i]), [Ended(subs[i]) EXCEPT !.wait = 0, !.failures = 0]} :
                 subs' = [subs EXCEPT ![i] = q]
      BY <2>3
    <3>2. SameRound(q, subs[i])
      <4>1. /\ subs[i] \in Psub
            /\ q \in {Ended(subs[i]), BackedOff(subs[i]),
                     [Ended(subs[i]) EXCEPT !.wait = 0, !.failures = 0]}
        BY <1>1, <3>1
      <4>2. q.rr = subs[i].rr /\ q.passed = subs[i].passed /\ q.conn = subs[i].conn
        BY <4>1, EndedKeeps, Zenon
      <4> QED
        BY <4>2 DEF SameRound
    <3>3. \A p : SameRound(p, p)
      BY DEF SameRound
    <3>4. DOMAIN subs' = DOMAIN subs /\ \A j \in DOMAIN subs : subs'[j] = IF j = i THEN q ELSE subs[j]
      BY <3>1
    <3>5. \A k \in DOMAIN subs' : k \in DOMAIN subs /\ SameRound(subs'[k], subs[k])
      BY <3>2, <3>3, <3>4
    <3> QED
      BY <2>1, <3>5, SameRounds
  <2> QED
    BY <1>6, <2>2, <2>3, FinishMakes
<1>7. ASSUME Tick
      PROVE  RoundInv'
  <2>1. /\ DOMAIN subs' = DOMAIN subs /\ names' = names
        /\ \A i \in DOMAIN subs : \E w \in 0 .. BackoffMax :
             subs'[i] = [subs[i] EXCEPT !.wait = w]
    BY <1>1, <1>7, TickMakes
  <2>2. \A p \in Psub, w \in 0 .. BackoffMax : SameRound([p EXCEPT !.wait = w], p)
    BY DEF SameRound, Psub
  <2>3. \A k \in DOMAIN subs' : k \in DOMAIN subs /\ SameRound(subs'[k], subs[k])
    BY <1>1, <2>1, <2>2
  <2> QED
    BY <2>1, <2>3, SameRounds
<1>8. ASSUME Restart
      PROVE  RoundInv'
  <2>1. /\ \A m, n \in DOMAIN names' : names'[m] = names'[n] => m = n
        /\ \A k \in DOMAIN subs' :
             subs'[k] = NewPsub(subs'[k].consumer, registry[subs'[k].consumer], FALSE)
    BY <1>1, <1>8, RestartMakes
  <2>2. \A k \in DOMAIN subs' : RoundIn(subs'[k], names')
    BY <2>1, NewRound
  <2> QED
    BY <2>1, <2>2 DEF RoundInv, NamesOnce
<1>9. CASE \/ \E c \in Consumers, s \in Subjects : Unsubscribe(c, s)
           \/ \E s \in Subjects, n \in 1 .. MaxIndex, force \in ForceFlags : Trim(s, n, force)
           \/ UNCHANGED vars
  BY <1>9 DEF Unsubscribe, Trim, pushVars, vars, RoundInv, NamesOnce
<1>10. CASE \E i \in DOMAIN subs : \E ack \in 0 .. MaxIndex : Finish(i, ack)
  BY <1>6, <1>10, PusherAssumption
<1> QED
  BY <1>2, <1>3, <1>4, <1>5, <1>7, <1>8, <1>9, <1>10 DEF Next

(***************************************************************************)
(* A subject with a message for a subscription is passed over by fewer of   *)
(* its deliveries than there are subjects, accepted or refused, whatever    *)
(* subjects, registrations and restarts come meanwhile (start_delivery).    *)
(***************************************************************************)
THEOREM TurnsAreTaken == Spec => []SubjectsTakeTurns
<1>1. Init => RoundInv
  BY DEF Init, RoundInv, NamesOnce
<1>2. TypeInv /\ RoundInv /\ [Next]_vars => RoundInv'
  BY RoundInvStep
<1>3. TypeInv /\ RoundInv => SubjectsTakeTurns
  BY RoundInvMeans DEF TypeInv
<1> QED
  BY <1>1, <1>2, <1>3, PusherTyped, PTL DEF Spec

=============================================================================
