---- MODULE MCAgentTurns ----
(* One turn over two parked actions. *)
EXTENDS AgentTurns, TLC

Symmetry == Permutations(Row) \cup Permutations(Req) \cup Permutations(Driver)
====
