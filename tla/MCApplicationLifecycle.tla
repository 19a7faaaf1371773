----------------------- MODULE MCApplicationLifecycle -----------------------
(* Model-checking instances of ApplicationLifecycle. *)
EXTENDS ApplicationLifecycle, TLC

RequestSymmetry == Permutations(Requests)

(* No action reads the decision rows: a run whose properties do not name   *)
(* them need not tell states apart by them.                                *)
WithoutDecisions == <<status, cameFrom, req, visited, moves>>
=============================================================================
