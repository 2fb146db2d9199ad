------------------------------- MODULE MCDedup -------------------------------
(***************************************************************************)
(* Instances of Dedup for TLC: a window of a few ticks and enough time for  *)
(* three of them, so that both kinds of rotation, late lookups and          *)
(* re-publications after the window happen.                                 *)
(***************************************************************************)
EXTENDS Dedup

=============================================================================
