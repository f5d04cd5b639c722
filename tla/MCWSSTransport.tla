---------------------------- MODULE MCWSSTransport ----------------------------
(* Instances of WSSTransport for TLC. *)
EXTENDS WSSTransport, TLC

Symmetry == Permutations(Callers)

================================================================================
