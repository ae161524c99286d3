---------------------------- MODULE MCVlmEnhance ----------------------------
(* Instances of VlmEnhance for TLC. *)
EXTENDS VlmEnhance, TLC

ConvsAndIds == Permutations(Convs) \cup Permutations(Ids)
=============================================================================
