----------------------------- MODULE MCWorkQueue -----------------------------
(***************************************************************************)
(* Instances of WorkQueue for TLC.  Leases and backoffs are a tick or two   *)
(* of the clock, so that leases expire, are renewed and run out of attempts *)
(* within MaxTime.                                                          *)
(***************************************************************************)
EXTENDS WorkQueue, TLC

\* Two attempts, then the dead-letter channel.
TwoAttempts == [lease |-> 1, maxAttempts |-> 2, backoff |-> 1, maxBackoff |-> 2]

=============================================================================
