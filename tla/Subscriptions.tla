--------------------------- MODULE Subscriptions ---------------------------
(***************************************************************************)
(* Subscriptions and the suspension of organizations (services/billing):   *)
(* the handlers of subscriptions and of Stripe's webhooks write the table  *)
(* subscriptions (internal/handler/billing.go), and a worker in every      *)
(* instance of the service derives organizations.status from it            *)
(* (internal/worker/suspension.go).  The events of Stripe come in any      *)
(* order and any number of times.                                          *)
(*                                                                         *)
(* Time passes in days.  A handler whose statement fails changes nothing   *)
(* and is left out; a failing statement of the worker is modelled, for it  *)
(* ends the round.                                                         *)
(***************************************************************************)
EXTENDS Naturals

CONSTANTS
    Orgs,         \* organizations
    Workers,      \* instances of the service
    Cycles,       \* lengths of the billing cycles
    Grace,        \* what suspension.go:45 grants an active subscription
    Horizon,      \* bound on the clock
    MaxFaults     \* bound on failing statements and crashes

ASSUME CyclesAssumption == Cycles \subseteq Nat
ASSUME TimesAssumption == Grace \in Nat /\ Horizon \in Nat
ASSUME MaxFaultsAssumption == MaxFaults \in Nat

VARIABLES
    now,          \* NOW()
    org,          \* organizations.status
    sub,          \* the row of the organization in subscriptions
    phase,        \* where the goroutine of each worker is
    (* bookkeeping of the model *)
    cause,        \* the row for which an organization was last suspended
    paid,         \* those whose row was last written for a payment
    faults        \* statements that failed and crashes so far

vars == <<now, org, sub, phase, cause, paid, faults>>

\* A subscription: status, current_period_end, cancel_at_period_end.  The
\* code never writes the other statuses of the table.
Rows == [status : {"none", "active", "past_due", "cancelled"}, end : Nat, cancel : BOOLEAN]
NoRow == [status |-> "none", end |-> 0, cancel |-> FALSE]
HasRow(o) == sub[o].status # "none"

TypeOK ==
    /\ now \in 0..Horizon
    /\ org \in [Orgs -> {"active", "suspended"}]
    /\ sub \in [Orgs -> Rows]
    /\ phase \in [Workers -> {"waiting", "reactivating", "stopped"}]
    /\ cause \in [Orgs -> Rows]
    /\ paid \subseteq Orgs
    /\ faults \in 0..MaxFaults

Init ==
    /\ now = 0
    /\ org = [o \in Orgs |-> "active"]
    /\ sub = [o \in Orgs |-> NoRow]
    /\ phase = [w \in Workers |-> "waiting"]
    /\ cause = [o \in Orgs |-> NoRow]
    /\ paid = {}
    /\ faults = 0

-----------------------------------------------------------------------------
(* The handlers.                                                           *)

WriteRow(o, row) ==
    /\ sub' = [sub EXCEPT ![o] = row]
    /\ UNCHANGED <<now, org, phase, cause, faults>>

\* A row that is there keeps its status and its cancellation.
CreateSubscription(o, cycle) ==
    LET end == now + cycle
    IN  /\ WriteRow(o, IF HasRow(o) THEN [sub[o] EXCEPT !.end = end]
                       ELSE [status |-> "active", end |-> end, cancel |-> FALSE])
        /\ paid' = paid \ {o}

CancelAtPeriodEnd(o) ==
    /\ HasRow(o)
    /\ WriteRow(o, [sub[o] EXCEPT !.cancel = TRUE])
    /\ paid' = paid \ {o}

\* DELETE /subscription at once, and customer.subscription.deleted.
CancelNow(o) ==
    /\ HasRow(o)
    /\ WriteRow(o, [sub[o] EXCEPT !.status = "cancelled"])
    /\ paid' = paid \ {o}

\* invoice.payment_failed and invoice.payment_succeeded: the period is left
\* as it is.
PaymentUnpaid(o) ==   \* mutation: a status of Stripe's that the table does not have
    /\ HasRow(o)
    /\ WriteRow(o, [sub[o] EXCEPT !.status = "unpaid"])
    /\ paid' = paid \ {o}
PaymentFailed(o) ==
    /\ HasRow(o)
    /\ WriteRow(o, [sub[o] EXCEPT !.status = "past_due"])
    /\ paid' = paid \ {o}

PaymentSucceeded(o) ==
    /\ HasRow(o)
    /\ WriteRow(o, [sub[o] EXCEPT !.status = "active"])
    /\ paid' = paid \cup {o}

-----------------------------------------------------------------------------
(* A round of the worker: two statements, each of them atomic.             *)

Call(ok) ==
    /\ ok \/ faults < MaxFaults
    /\ faults' = IF ok THEN faults ELSE faults + 1

\* The rows the first statement looks for, and the second.
Lapsed(row) ==
    \/ row.status \notin {"none", "active", "trialing"}
    \/ row.status # "none" /\ row.cancel /\ row.end < now
    \/ row.status = "active" /\ row.end + Grace < now

Valid(row) ==
    /\ row.status = "active"
    /\ now < row.end
    /\ ~ row.cancel

\* When the first statement fails the round is over.
SuspendOr(w, found, failing) ==
    /\ phase[w] = "waiting"
    /\ \E ok \in BOOLEAN :
        /\ Call(ok)
        /\ LET hit == IF ok THEN {o \in found : org[o] = "active"} ELSE {}
           IN  /\ org' = [o \in Orgs |-> IF o \in hit THEN "suspended" ELSE org[o]]
               /\ cause' = [o \in Orgs |-> IF o \in hit THEN sub[o] ELSE cause[o]]
        /\ phase' = [phase EXCEPT ![w] = IF ok THEN "reactivating" ELSE failing]
    /\ UNCHANGED <<now, sub, paid>>

\* mutations: only a status that is not good suspends; an error ends the worker
SuspendUnpaid(w) ==
    SuspendOr(w, {o \in Orgs : sub[o].status \in {"past_due", "cancelled"}}, "waiting")
SuspendOrStop(w) == SuspendOr(w, {o \in Orgs : Lapsed(sub[o])}, "stopped")
Suspend(w) == SuspendOr(w, {o \in Orgs : Lapsed(sub[o])}, "waiting")

ReactivateThose(w, found) ==
    /\ phase[w] = "reactivating"
    /\ \E ok \in BOOLEAN :
        /\ Call(ok)
        /\ org' = [o \in Orgs |-> IF ok /\ o \in found THEN "active" ELSE org[o]]
    /\ phase' = [phase EXCEPT ![w] = "waiting"]
    /\ UNCHANGED <<now, sub, cause, paid>>

\* mutation: current_period_end not looked at
ReactivateActive(w) ==
    ReactivateThose(w, {o \in Orgs : sub[o].status = "active" /\ ~ sub[o].cancel})
Reactivate(w) == ReactivateThose(w, {o \in Orgs : Valid(sub[o])})

Round(w) == Suspend(w) \/ Reactivate(w)

-----------------------------------------------------------------------------
\* An instance dies and is started again: its worker begins with a round.
Crash(w) ==
    /\ Call(FALSE)
    /\ phase' = [phase EXCEPT ![w] = "waiting"]
    /\ UNCHANGED <<now, org, sub, cause, paid>>

DayPasses ==
    /\ now < Horizon
    /\ now' = now + 1
    /\ UNCHANGED <<org, sub, phase, cause, paid, faults>>

Next ==
    \/ \E o \in Orgs :
        \/ \E cycle \in Cycles : CreateSubscription(o, cycle)
        \/ CancelAtPeriodEnd(o)
        \/ CancelNow(o)
        \/ PaymentFailed(o)
        \/ PaymentSucceeded(o)
    \/ \E w \in Workers : Round(w) \/ Crash(w)
    \/ DayPasses

Spec == Init /\ [][Next]_vars

\* The ticker of a worker fires every hour, and PostgreSQL answers.
FairSpec == Spec /\ \A w \in Workers : WF_vars(Round(w))

-----------------------------------------------------------------------------
(***************************************************************************)
(* A suspended organization is not reactivated for the row it was          *)
(* suspended for: whatever the workers do to each other, and however long  *)
(* it takes, a reactivation follows a change of the subscription.  The two *)
(* conditions of the worker (suspension.go:43-45, 61-63) differ, with a    *)
(* gap between them; they must never overlap, or the organization would be *)
(* suspended and reactivated in every round.                               *)
(***************************************************************************)
NoFlapping ==
    [][\A o \in Orgs : org[o] = "suspended" /\ org'[o] = "active" => sub[o] # cause[o]]_vars

(***************************************************************************)
(* An organization "whose subscription has expired or been cancelled past  *)
(* period end" (suspension.go:11-12) is suspended, unless the subscription *)
(* is mended in time: the period has ended and the days of grace with it,  *)
(* or it has ended and the subscription was cancelled, at once or at its   *)
(* end.  Failed rounds and restarts only delay it.  That only those are    *)
(* suspended, as the same comment and line 38 ("whose subscription period  *)
(* ended") have it, is not so: line 43 looks at no period, and a failed    *)
(* payment or a cancellation at once suspends within the one paid for.     *)
(***************************************************************************)
Over(o) ==
    /\ HasRow(o)
    /\ \/ sub[o].end + Grace < now
       \/ sub[o].end < now /\ (sub[o].cancel \/ sub[o].status = "cancelled")

LapsedIsSuspended == \A o \in Orgs : Over(o) ~> (org[o] = "suspended" \/ ~ Over(o))

(***************************************************************************)
(* An organization that has a subscription in a running period again is    *)
(* reactivated, unless it loses it first (suspension.go:56-65).            *)
(***************************************************************************)
ValidIsReactivated ==
    \A o \in Orgs : Valid(sub[o]) ~> (org[o] = "active" \/ ~ Valid(sub[o]))

(***************************************************************************)
(* What suspension.go:56 says: "Reactivate orgs that have a valid          *)
(* subscription again (e.g. payment recovered)".  The code does not keep   *)
(* this: the payment sets the status alone, and the worker also wants a    *)
(* period that has not ended, which only CreateSubscription begins.        *)
(***************************************************************************)
Recovered(o) == o \in paid /\ ~ sub[o].cancel

RecoveryReactivates ==
    \A o \in Orgs : Recovered(o) ~> (org[o] = "active" \/ ~ Recovered(o))
=============================================================================
