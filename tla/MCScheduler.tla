---- MODULE MCScheduler ----
(* One schedule, one pool worker, one manual run at a time. *)
EXTENDS Scheduler, TLC
====
