---------------------------- MODULE PushProgress -----------------------------
(***************************************************************************)
(* Progress of the delivery engine: what is published reaches a subscriber  *)
(* that keeps accepting.                                                    *)
(***************************************************************************)
EXTENDS Pusher

\* The subscriber of c takes something of the batch it is sent.
Accepts(c) ==
  \E i \in Live : /\ subs[i].consumer = c
                  /\ \E ack \in 1 .. MaxIndex : Finish(i, ack)

(***************************************************************************)
(* bjm_serve's loop pumps and services the transport on every turn, and     *)
(* time passes; a delivery ends, at the latest by libcurl's timeout; a      *)
(* subscriber that is asked again and again takes something in the end; and *)
(* the broker is not restarted for ever.                                    *)
(***************************************************************************)
Fairness ==
  /\ WF_vars(Pump)
  /\ WF_vars(Tick)
  /\ WF_vars(\E i \in DOMAIN subs : \E ack \in 0 .. MaxIndex : Finish(i, ack))
  /\ \A c \in Consumers : SF_vars(Accepts(c))
  /\ <>[][~Restart]_vars

ProgressSpec == Spec /\ Fairness

Registered(c, s) == registry[c] # Unregistered /\ s \in registry[c]

(***************************************************************************)
(* A callback that does not answer is retried for ever, and "the broker     *)
(* restarts, reads it back out of _push.bpt, and carries on delivering":    *)
(* every message of a subject reaches every subscription to it that stays   *)
(* registered and whose subscriber keeps accepting.                         *)
(***************************************************************************)
EveryMessageArrives ==
  \A c \in Consumers, s \in Subjects, i \in 1 .. MaxIndex :
    (Registered(c, s) /\ i <= last[s]) ~> (Acked(c, s) >= i \/ ~Registered(c, s))

=============================================================================
