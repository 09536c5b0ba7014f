---- MODULE MCKbIndex ----
(* A document of the user and one of a vault. *)
EXTENDS KbIndex, TLC

Symmetry == Permutations(Req)
====
