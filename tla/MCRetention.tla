---------------------------- MODULE MCRetention ----------------------------
(***************************************************************************)
(* Instances of Retention for TLC: a ring of two marks per window.          *)
(***************************************************************************)
EXTENDS Retention

Aged(age, ignore) == [age |-> age, messages |-> 0, bytes |-> 0, ignore |-> ignore]
Counted(n, bytes, ignore) ==
  [age |-> 0, messages |-> n, bytes |-> bytes, ignore |-> ignore]

SweptPolicies == {Aged(2, TRUE), Counted(3, 6, FALSE)}

=============================================================================
