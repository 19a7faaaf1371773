------------------------------- MODULE Billing -------------------------------
(***************************************************************************)
(* Subscriptions, invoices and payments of one organization:               *)
(* services/saas/billing/service.py behind the API threads of              *)
(* routes/saas.py, and the payment gateway it charges.                     *)
(*                                                                         *)
(* A number is taken from the count of the invoices, and is unique.  A     *)
(* payment checks the status it has loaded, charges, and commits.          *)
(***************************************************************************)
EXTENDS Naturals, Sequences

CONSTANTS
  Plans,            \* codes of the catalog
  BillingRequests,  \* concurrent API requests
  NoPlan,
  MaxSubscriptions, \* bound: rows of subscriptions
  MaxInvoices,      \* bound: rows of invoices
  MaxCharges        \* bound: charges of one number

ASSUME NoPlanAssumption       == NoPlan \notin Plans
ASSUME BillingBoundAssumption == {MaxSubscriptions, MaxInvoices, MaxCharges} \subseteq Nat

VARIABLES
  subscriptions, \* by id
  invoices,      \* by id
  charged,       \* external: successful charges by invoice number
  billing,       \* each request
  (* History: *)
  contested      \* numbers with two payments under way, or one cut short

billingVars == <<subscriptions, invoices, charged, billing, contested>>

Numbers == 1 .. MaxInvoices

Subscription == [plan : Plans, status : {"trialing", "active"}, ending : BOOLEAN]
Invoice      == [number : Numbers, plan : Plans, paid : BOOLEAN]
BillingCall  == [pc : {"idle", "plan", "cancel", "insert", "charge", "settle"},
                 plan : Plans \cup {NoPlan}, row : Nat, number : Nat]

NoBilling == [pc |-> "idle", plan |-> NoPlan, row |-> 0, number |-> 0]

BillingTypeOK ==
  /\ subscriptions \in Seq(Subscription)
  /\ invoices \in Seq(Invoice)
  /\ charged \in [Numbers -> Nat]
  /\ billing \in [BillingRequests -> BillingCall]
  /\ \A b \in BillingRequests :
       billing[b].pc \in {"charge", "settle"} => billing[b].row \in DOMAIN invoices
  /\ contested \subseteq Numbers

BillingInit ==
  /\ subscriptions = <<>>
  /\ invoices = <<>>
  /\ charged = [n \in Numbers |-> 0]
  /\ billing = [b \in BillingRequests |-> NoBilling]
  /\ contested = {}

-----------------------------------------------------------------------------
Doing(b, pc) == billing[b].pc = pc

(* active_subscription: the newest; nothing writes "canceled" or           *)
(* "past_due", so every row is live.                                       *)
ActiveSubscription == Len(subscriptions)

(* subscribe and change_plan look for the active subscription first, *)
LoadPlan(b, plan) ==
  /\ Doing(b, "idle")
  /\ billing' = [billing EXCEPT ![b] =
       [NoBilling EXCEPT !.pc = "plan", !.plan = plan, !.row = ActiveSubscription]]
  /\ UNCHANGED <<subscriptions, invoices, charged, contested>>

(* and create one without it, *)
CreateSubscription(b) ==
  /\ Doing(b, "plan") /\ billing[b].row = 0
  /\ Len(subscriptions) < MaxSubscriptions
  /\ \E status \in {"trialing", "active"} :
       subscriptions' = Append(subscriptions,
         [plan |-> billing[b].plan, status |-> status, ending |-> FALSE])
  /\ billing' = [billing EXCEPT ![b] = NoBilling]
  /\ UNCHANGED <<invoices, charged, contested>>

(* or change it; a cancellation at the period's end stays noted. *)
ChangePlan(b) ==
  /\ Doing(b, "plan") /\ billing[b].row # 0
  /\ subscriptions' = [subscriptions EXCEPT ![billing[b].row].plan = billing[b].plan,
       ![billing[b].row].status = "active"]
  /\ billing' = [billing EXCEPT ![b] = NoBilling]
  /\ UNCHANGED <<invoices, charged, contested>>

(* cancel_subscription, which the route calls with at_period_end. *)
LoadCancel(b) ==
  /\ Doing(b, "idle") /\ ActiveSubscription # 0
  /\ billing' = [billing EXCEPT ![b] =
       [NoBilling EXCEPT !.pc = "cancel", !.row = ActiveSubscription]]
  /\ UNCHANGED <<subscriptions, invoices, charged, contested>>

CancelSubscription(b) ==
  /\ Doing(b, "cancel")
  /\ subscriptions' = [subscriptions EXCEPT ![billing[b].row].ending = TRUE]
  /\ billing' = [billing EXCEPT ![b] = NoBilling]
  /\ UNCHANGED <<invoices, charged, contested>>

-----------------------------------------------------------------------------
(* generate_invoice reads the subscription, its plan and the next number. *)
NextInvoiceNumber == Len(invoices) + 1

LoadNumber(b) ==
  /\ Doing(b, "idle") /\ ActiveSubscription # 0
  /\ NextInvoiceNumber \in Numbers
  /\ billing' = [billing EXCEPT ![b] =
       [NoBilling EXCEPT !.pc = "insert", !.row = ActiveSubscription,
          !.plan = subscriptions[ActiveSubscription].plan, !.number = NextInvoiceNumber]]
  /\ UNCHANGED <<subscriptions, invoices, charged, contested>>

Issued(b) == Append(invoices, [number |-> billing[b].number, plan |-> billing[b].plan,
                               paid |-> FALSE])

(* Mutant: the column is not unique. *)
InsertInvoiceAnyNumber(b) ==
  /\ Doing(b, "insert")
  /\ invoices' = Issued(b)
  /\ billing' = [billing EXCEPT ![b] = NoBilling]
  /\ UNCHANGED <<subscriptions, charged, contested>>

InsertInvoice(b) ==
  /\ Doing(b, "insert")
  /\ \A i \in DOMAIN invoices : invoices[i].number # billing[b].number
  /\ invoices' = Issued(b)
  /\ billing' = [billing EXCEPT ![b] = NoBilling]
  /\ UNCHANGED <<subscriptions, charged, contested>>

-----------------------------------------------------------------------------
Paying(b, i) == billing[b].pc \in {"charge", "settle"} /\ billing[b].row = i

(* pay_invoice returns an invoice that is paid. *)
LoadInvoice(b, i) ==
  /\ Doing(b, "idle")
  /\ ~invoices[i].paid
  /\ billing' = [billing EXCEPT ![b] =
       [NoBilling EXCEPT !.pc = "charge", !.row = i, !.number = invoices[i].number]]
  /\ contested' = contested \cup
       {n \in {invoices[i].number} : \E other \in BillingRequests : Paying(other, i)}
  /\ UNCHANGED <<subscriptions, invoices, charged>>

Charge(b) ==
  /\ Doing(b, "charge")
  /\ charged[billing[b].number] < MaxCharges
  /\ charged' = [charged EXCEPT ![billing[b].number] = @ + 1]
  /\ billing' = [billing EXCEPT ![b].pc = "settle"]
  /\ UNCHANGED <<subscriptions, invoices, contested>>

Settle(b) ==
  /\ Doing(b, "settle")
  /\ invoices' = [invoices EXCEPT ![billing[b].row].paid = TRUE]
  /\ billing' = [billing EXCEPT ![b] = NoBilling]
  /\ UNCHANGED <<subscriptions, charged, contested>>

(* The process dies, a check or the gateway refuses, a commit fails. *)
AbandonBilling(b) ==
  /\ ~Doing(b, "idle")
  /\ contested' = contested \cup {n \in {billing[b].number} : Doing(b, "settle")}
  /\ billing' = [billing EXCEPT ![b] = NoBilling]
  /\ UNCHANGED <<subscriptions, invoices, charged>>

BillingStep(b) ==
  \/ \E plan \in Plans : LoadPlan(b, plan)
  \/ CreateSubscription(b) \/ ChangePlan(b)
  \/ LoadCancel(b) \/ CancelSubscription(b)
  \/ LoadNumber(b) \/ InsertInvoice(b)
  \/ \E i \in DOMAIN invoices : LoadInvoice(b, i)
  \/ Charge(b) \/ Settle(b)
  \/ AbandonBilling(b)

BillingNext == \E b \in BillingRequests : BillingStep(b)

BillingSpec == BillingInit /\ [][BillingNext]_billingVars

-----------------------------------------------------------------------------
(* Properties *)

(* The gateway charges a number once, and the charge is booked on the one  *)
(* invoice that has it or is about to be, although invoices are issued and *)
(* paid concurrently; the exceptions are two payments of one invoice that  *)
(* overlap and a payment cut short between its charge and its commit.      *)
ChargedOnce ==
  \A n \in Numbers \ contested :
    /\ charged[n] <= 1
    /\ charged[n] = 1 <=> \E i \in DOMAIN invoices :
         /\ invoices[i].number = n
         /\ invoices[i].paid \/ \E b \in BillingRequests : Paying(b, i) /\ Doing(b, "settle")
=============================================================================
