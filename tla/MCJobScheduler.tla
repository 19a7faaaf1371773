--------------------------- MODULE MCJobScheduler ---------------------------
(* Model-checking instances of JobScheduler: a fast schedule and a slow    *)
(* one.                                                                    *)
EXTENDS JobScheduler, TLC

CONSTANTS fast, slow

MCInterval == fast :> 1 @@ slow :> 2
=============================================================================
