----------------------------- MODULE MCWorkers -----------------------------
(***************************************************************************)
(* An instance of Workers for TLC: two workers and a reader of the dead     *)
(* letters, jobs of two attempts and leases of one tick.                    *)
(***************************************************************************)
EXTENDS Workers

TwoAttempts == [lease |-> 1, maxAttempts |-> 2, backoff |-> 1, maxBackoff |-> 1]

WorkersFirst == <<"w1", "w2", "audit">>
AuditorFirst == <<"audit", "w1">>

=============================================================================
