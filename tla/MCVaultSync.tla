---- MODULE MCVaultSync ----
(* One subscription, the vault pass and the requests of one page. *)
EXTENDS VaultSync

====
