---- MODULE MCApprovals ----
(* One parked action, three concurrent requests, two unlock sessions. *)
EXTENDS Approvals, TLC
====
