--------------------------- MODULE MCQueueProgress ---------------------------
(***************************************************************************)
(* An instance of QueueProgress for TLC.  With three jobs of two attempts,  *)
(* leases of one tick and backoffs of at most two, the last lease is over   *)
(* by the ninth tick, so that MaxTime = 10 never stops the clock.           *)
(***************************************************************************)
EXTENDS QueueProgress

TwoAttempts == [lease |-> 1, maxAttempts |-> 2, backoff |-> 1, maxBackoff |-> 2]

\* One attempt, instant retry, no cap on the backoff.
OneAttempt == [lease |-> 2, maxAttempts |-> 1, backoff |-> 0, maxBackoff |-> 0]

MCSettings == {OneAttempt}

=============================================================================
