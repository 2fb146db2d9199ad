---------------------------- MODULE QueueProgress ----------------------------
(***************************************************************************)
(* Progress of the queue groups: what must eventually happen to a job when  *)
(* workers keep polling but may die with every job they take.               *)
(***************************************************************************)
EXTENDS WorkQueue

\* Time is worth modelling only while a lease runs: a clock that advances
\* with none running changes nothing a take looks at.
LeaseRunning == \E g \in known : \E e \in queues[g].inflight : e.expires > now

ProgressNext == Next /\ (now' = now \/ LeaseRunning)

(***************************************************************************)
(* Time passes; every group is polled again and again by some worker; and   *)
(* the broker finishes the take it is in the middle of.  Nothing is assumed *)
(* of the workers' answers.                                                 *)
(***************************************************************************)
Fairness ==
  /\ WF_vars(Tick /\ LeaseRunning)
  /\ \A g \in Groups : WF_vars(\E max \in Batch : Take(g, max, GroupLease))
  /\ WF_vars(\E d \in dying : DeadLetter(d))

ProgressSpec == Init /\ [][ProgressNext]_vars /\ Fairness

(***************************************************************************)
(* Every job ends: a published message is eventually finished or given up   *)
(* by every group with a limit on attempts, even if all its workers die     *)
(* with it and though a full in-flight table holds younger jobs back        *)
(* (bjm_take's backpressure and attempt limit).                             *)
(***************************************************************************)
EveryJobEnds ==
  \A g \in Groups : \A i \in 1 .. MaxIndex :
    i <= last ~> (g \in known /\ i < queues[g].next /\ i \notin Leased(g))

=============================================================================
