---- MODULE MCNiFlow ----
(* One card, two requests at once. *)
EXTENDS NiFlow

====
