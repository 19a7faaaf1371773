-------------------------- MODULE MCModelRegistry --------------------------
(* Model-checking instances of ModelRegistry. *)
EXTENDS ModelRegistry, TLC

RegistrySymmetry == Permutations(Models) \cup Permutations(Requests)
=============================================================================
