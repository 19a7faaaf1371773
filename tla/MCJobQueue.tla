----------------------------- MODULE MCJobQueue -----------------------------
(* Model-checking instances of JobQueue and of its refinement. *)
EXTENDS JobRefinement, TLC

MCOneJobId    == 1 .. 1
MCJobIds      == 1 .. 2
=============================================================================
