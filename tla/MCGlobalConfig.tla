-------------------------- MODULE MCGlobalConfig ---------------------------
(* Instances of GlobalConfig for TLC.                                       *)
EXTENDS GlobalConfig, TLC

ConfigSymmetry == Permutations(Handlers) \cup Permutations(Bodies)
=============================================================================
