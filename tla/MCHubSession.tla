----------------------------- MODULE MCHubSession -----------------------------
(* Instances of HubSession for TLC. *)
EXTENDS HubSession, TLC

Symmetry == Permutations(Callers) \cup Permutations(Clients)

================================================================================
