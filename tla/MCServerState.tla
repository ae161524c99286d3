--------------------------- MODULE MCServerState ----------------------------
(* Instances of ServerState for TLC. *)
EXTENDS ServerState, TLC

CallersSymmetry == Permutations(Callers)
=============================================================================
