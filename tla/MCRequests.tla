---------------------------- MODULE MCRequests ----------------------------
(***************************************************************************)
(* One requester, one publisher, whose request may ask for a reply that is  *)
(* not the requester's, and one replier that may be leased a request twice. *)
(***************************************************************************)
EXTENDS Requests

RepliesToRequesters == {<<"replies", r>> : r \in Requesters}

=============================================================================
