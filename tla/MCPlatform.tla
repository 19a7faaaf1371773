----------------------------- MODULE MCPlatform -----------------------------
(* Model-checking instance of the platform services that share no table    *)
(* and do not call one another: enqueueing by idempotency key, imported    *)
(* data and its synchronization, portfolio imports, billing, object        *)
(* storage and exposure limits.  A behaviour runs one of them.             *)
EXTENDS JobQueue, DataSync, PortfolioImports, Billing, ObjectStore, ExposureLimits, TLC

VARIABLE area

platform == <<area, vars, syncVars, importVars, billingVars, storeVars, riskVars>>

PlatformInit ==
  /\ Init /\ SyncInit /\ ImportsInit /\ BillingInit /\ StoreInit /\ RiskInit
  /\ area \in {"jobs", "sync", "imports", "billing", "storage", "limits"}

PlatformNext ==
  /\ UNCHANGED area
  /\ \/ /\ area = "jobs" /\ Next
        /\ UNCHANGED <<syncVars, importVars, billingVars, storeVars, riskVars>>
     \/ /\ area = "sync" /\ SyncNext
        /\ UNCHANGED <<vars, importVars, billingVars, storeVars, riskVars>>
     \/ /\ area = "imports" /\ ImportsNext
        /\ UNCHANGED <<vars, syncVars, billingVars, storeVars, riskVars>>
     \/ /\ area = "billing" /\ BillingNext
        /\ UNCHANGED <<vars, syncVars, importVars, storeVars, riskVars>>
     \/ /\ area = "storage" /\ StoreNext
        /\ UNCHANGED <<vars, syncVars, importVars, billingVars, riskVars>>
     \/ /\ area = "limits" /\ RiskNext
        /\ UNCHANGED <<vars, syncVars, importVars, billingVars, storeVars>>

PlatformSpec == PlatformInit /\ [][PlatformNext]_platform

(* Every row and every request of the six services keeps its type. *)
PlatformTypeOK ==
  /\ TypeOK /\ SyncTypeOK /\ ImportsTypeOK
  /\ BillingTypeOK /\ StoreTypeOK /\ RiskTypeOK

MCThreeIds == 1 .. 3

PlatformSymmetry == Permutations(Importers) \cup Permutations(Targets \ Unmapped)
=============================================================================
