----------------------------- MODULE MCFollowUp -----------------------------
(* An instance of FollowUp of its own: two steps, two customer messages, no faults and no /reset. *)
EXTENDS FollowUp
=============================================================================
