------------------------------- MODULE JobBoard -------------------------------
(***************************************************************************)
(* What the queue groups of a subject promise, without leases, clocks,      *)
(* tables or records: a group's jobs are handed out in the order they were  *)
(* published, each is tried a limited number of times, and one that is over *)
(* stays over until the group itself is deleted.  WorkQueue implements this *)
(* (GroupsImplementBoard there).                                            *)
(***************************************************************************)
EXTENDS Naturals

CONSTANTS
  Groups,   \* names of queue groups
  MaxJob,   \* the jobs are 1..MaxJob, published or not
  Limit,    \* attempts per job, 0 for no limit
  Over      \* no natural number: the job was finished or given up, or is gone

VARIABLE tries   \* how often each group has handed out each job, or Over

Jobs == 1 .. MaxJob

BoardInit == tries = [g \in Groups |-> [i \in Jobs |-> 0]]

\* A job is tried again, it ends, or nothing happens to it.
Progress(old, new) ==
  \/ new = old
  \/ old # Over /\ new = Over
  \/ old # Over /\ new = old + 1 /\ (Limit # 0 => new <= Limit)

\* A take moves several jobs at once.  No job is started before an older one.
Work(g) ==
  /\ \A i \in Jobs : Progress(tries[g][i], tries'[g][i])
  /\ \A i, j \in Jobs : i < j /\ tries'[g][i] = 0 => tries'[g][j] = 0

\* The group is deleted: what the log still holds is to be done again.
StartOver(g) ==
  \E gone \in 0 .. MaxJob :
    tries'[g] = [i \in Jobs |-> IF i <= gone THEN Over ELSE 0]

\* A trim of the log is seen by several groups at once.
BoardNext == \A g \in Groups : Work(g) \/ StartOver(g)

BoardSpec == BoardInit /\ [][BoardNext]_tries

=============================================================================
