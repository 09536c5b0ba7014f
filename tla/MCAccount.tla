---- MODULE MCAccount ----
(* Requests are interchangeable. *)
EXTENDS Account, TLC

Symmetry == Permutations(Request)
====
