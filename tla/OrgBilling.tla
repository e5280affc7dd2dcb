----------------------------- MODULE OrgBilling -----------------------------
(***************************************************************************)
(* The billing state of one org (identity.orgs) and everything that writes *)
(* it: the processor's webhooks (apps/api/src/billing/webhook*.ts), the    *)
(* owner's calls (org-billing.service.ts), the worker's sweep              *)
(* (apps/worker/src/billing/sweep.ts, sweep.service.ts) and the operator's *)
(* console (plan-catalog.service.ts, setOrgPlan).                          *)
(*                                                                         *)
(* The processor is a second source of truth.  An owner's call reads the   *)
(* row, calls the processor and writes the row, in that order and with     *)
(* nothing held in between; a webhook is checked for replay in one         *)
(* transaction and applied in another, and deliveries come late, more than *)
(* once and in any order.                                                  *)
(*                                                                         *)
(* Amounts are abstracted to one price per plan, dates to whether they     *)
(* have passed.  A checkout session is the subscription it would start.    *)
(***************************************************************************)
EXTENDS Integers, Sequences

CONSTANTS
    Paid,          \* plans on sale
    Price,         \* their current price
    Trial,         \* TRIAL_PLAN_ID
    Default,       \* the plan marked is_default
    Sub,           \* subscriptions the processor can start
    Caller,        \* the org's owner, in one tab or several
    Handler,       \* API processes taking webhook deliveries
    None,
    EventBound,    \* bound: events the processor emits
    RequestBound   \* bound: requests of the owner and the operator

Plan == Paid \cup {Trial, Default}

ASSUME BillingAssumption ==
    /\ Price \in [Paid -> Nat \ {0}]
    /\ Trial \notin Paid /\ Default \notin Paid
    /\ None \notin Plan \cup Sub
    /\ EventBound \in Nat /\ RequestBound \in Nat

VARIABLES
    \* The org row.
    status,            \* billing_status
    planId,
    subscription,      \* stripe_subscription_id
    trialOver,         \* trial_ends_at has passed
    grace,             \* billing_grace_ends_at
    periodEnd,         \* current_period_end
    paying,            \* the plan whose price is current_price_cents
    cancelAtPeriodEnd,
    pending,           \* pending_plan_id
    pendingAt,         \* pending_plan_effective_at
    \* The processor.
    sub,               \* its subscriptions
    event,             \* the events it emitted, in order
    \* Webhook deliveries.
    seen,              \* billing.webhook_events
    handling,          \* the event of a delivery past isReplay, else 0
    \* The owner's requests and the sweep.
    call,              \* what a request is doing and what it has read
    tick,              \* where the sweep is in its tick
    trialDue, graceDue,\* the org is in the tick's scans
    \* History, for the properties and the bounds.
    bought,            \* plans the processor sold or an operator granted
    orderly,           \* events so far applied in order, once, alone
    applied,           \* the last of them
    renewedGrace,      \* the grace period began after the tick's scan
    requests           \* requests begun

orgVars == <<status, planId, subscription, trialOver, grace, periodEnd, paying,
             cancelAtPeriodEnd, pending, pendingAt>>
hookVars == <<seen, handling>>
sweepVars == <<tick, trialDue, graceDue>>
history == <<bought, orderly, applied, renewedGrace, requests>>
vars == <<status, planId, subscription, trialOver, grace, periodEnd, paying,
          cancelAtPeriodEnd, pending, pendingAt, sub, event, seen, handling,
          call, tick, trialDue, graceDue, bought, orderly, applied,
          renewedGrace, requests>>

Kind == {"subscription_activated", "payment_failed", "payment_recovered",
         "subscription_canceled"}
Event == [kind : Kind, sub : Sub, plan : Paid \cup {None}]
EventId == 1..EventBound
Date == {"none", "ahead", "passed"}
SubState == {"none", "offered", "active", "past_due", "ended"}
Call == [op : {"none", "checkout", "change", "schedule", "reconcile"},
         step : {"idle", "call", "write"},
         plan : Paid \cup {None}, sub : Sub \cup {None},
         paying : Paid \cup {None}, at : Date, ends : BOOLEAN]

Idle == [op |-> "none", step |-> "idle", plan |-> None, sub |-> None,
         paying |-> None, at |-> "none", ends |-> FALSE]

LiveUnfiltered == {s \in Sub : sub[s].state # "none"}

Live == {s \in Sub : sub[s].state \in {"active", "past_due"}}

TypeOK ==
    /\ status \in {"trialing", "active", "past_due", "canceled"}
    /\ planId \in Plan
    /\ subscription \in Sub \cup {None}
    /\ trialOver \in BOOLEAN
    /\ grace \in Date /\ periodEnd \in Date /\ pendingAt \in Date
    /\ paying \in Paid \cup {None} /\ pending \in Paid \cup {None}
    /\ cancelAtPeriodEnd \in BOOLEAN
    /\ sub \in [Sub -> [state : SubState, plan : Paid \cup {None}, ends : BOOLEAN]]
    /\ event \in Seq(Event) /\ Len(event) <= EventBound
    /\ seen \subseteq EventId
    /\ handling \in [Handler -> 0..EventBound]
    /\ call \in [Caller -> Call]
    /\ tick \in {"idle", "plan", "trial", "grace"}
    /\ trialDue \in BOOLEAN /\ graceDue \in BOOLEAN
    /\ bought \subseteq Plan
    /\ orderly \in BOOLEAN /\ applied \in 0..EventBound
    /\ renewedGrace \in BOOLEAN
    /\ requests \in 0..RequestBound

\* createOrg starts the trial in the transaction that creates the org.
Init ==
    /\ status = "trialing"
    /\ planId = Trial
    /\ subscription = None
    /\ trialOver = FALSE
    /\ grace = "none" /\ periodEnd = "none" /\ pendingAt = "none"
    /\ paying = None /\ pending = None
    /\ cancelAtPeriodEnd = FALSE
    /\ sub = [s \in Sub |-> [state |-> "none", plan |-> None, ends |-> FALSE]]
    /\ event = <<>>
    /\ seen = {}
    /\ handling = [h \in Handler |-> 0]
    /\ call = [c \in Caller |-> Idle]
    /\ tick = "idle" /\ trialDue = FALSE /\ graceDue = FALSE
    /\ bought = {}
    /\ orderly = TRUE /\ applied = 0
    /\ renewedGrace = FALSE
    /\ requests = 0

-----------------------------------------------------------------------------
(* The processor. *)

Request == requests < RequestBound /\ requests' = requests + 1

Emit(kind, s, p) ==
    /\ Len(event) < EventBound
    /\ event' = Append(event, [kind |-> kind, sub |-> s, plan |-> p])

processorOnly == <<orgVars, hookVars, call, sweepVars, history>>

\* The customer pays in an open session.  checkout.session.completed carries
\* no price.
CompleteCheckout(s) ==
    /\ sub[s].state = "offered"
    /\ sub' = [sub EXCEPT ![s].state = "active"]
    /\ Emit("subscription_activated", s, None)
    /\ bought' = bought \cup {sub[s].plan}
    /\ UNCHANGED <<orgVars, hookVars, call, sweepVars, orderly, applied,
                   renewedGrace, requests>>

\* customer.subscription.updated, whatever the subscription's status is.
AnnounceUpdate(s) ==
    /\ s \in Live
    /\ Emit("subscription_activated", s, sub[s].plan)
    /\ UNCHANGED <<sub, processorOnly>>

ChargeFails(s) ==
    /\ sub[s].state = "active"
    /\ sub' = [sub EXCEPT ![s].state = "past_due"]
    /\ Emit("payment_failed", s, None)
    /\ UNCHANGED processorOnly

ChargeSucceeds(s) ==
    /\ s \in Live
    /\ sub' = [sub EXCEPT ![s].state = "active"]
    /\ Emit("payment_recovered", s, None)
    /\ UNCHANGED processorOnly

\* The paid period ran out, or the processor gave up on an unpaid one.
EndSubscription(s) ==
    /\ s \in Live
    /\ sub' = [sub EXCEPT ![s].state = "ended"]
    /\ Emit("subscription_canceled", s, None)
    /\ UNCHANGED processorOnly

\* The customer cancels or resumes in the processor's own portal.
PortalSchedules(s) ==
    /\ s \in Live
    /\ Request
    /\ sub' = [sub EXCEPT ![s].ends = ~@]
    /\ UNCHANGED <<orgVars, event, hookVars, call, sweepVars, bought, orderly,
                   applied, renewedGrace>>

Processor(s) ==
    \/ CompleteCheckout(s)
    \/ AnnounceUpdate(s)
    \/ ChargeFails(s)
    \/ ChargeSucceeds(s)
    \/ EndSubscription(s)
    \/ PortalSchedules(s)

-----------------------------------------------------------------------------
(* Webhooks. *)

\* verifyInboundBillingWebhook: the replay check, in a transaction of its own.
AcceptDelivery(h, e) ==
    /\ handling[h] = 0
    /\ e <= Len(event)
    /\ e \notin seen
    /\ handling' = [handling EXCEPT ![h] = e]
    /\ UNCHANGED <<orgVars, sub, event, seen, call, sweepVars, history>>

\* The plan of the price the event carries, else the plan the org is on.
PlanOf(e) == IF event[e].plan = None THEN planId ELSE event[e].plan

Activate(e) ==
    /\ status' = "active"
    /\ planId' = PlanOf(e)
    /\ subscription' = event[e].sub
    /\ grace' = "none"
    /\ UNCHANGED <<trialOver, periodEnd, paying, cancelAtPeriodEnd, pending,
                   pendingAt, renewedGrace>>

FailPayment ==
    /\ IF status \in {"trialing", "active"}
       THEN /\ status' = "past_due"
            /\ grace' = "ahead"
            /\ renewedGrace' = (tick # "idle")
       ELSE UNCHANGED <<status, grace, renewedGrace>>
    /\ UNCHANGED <<planId, subscription, trialOver, periodEnd, paying,
                   cancelAtPeriodEnd, pending, pendingAt>>

RecoverPayment ==
    /\ IF status = "past_due"
       THEN status' = "active" /\ grace' = "none"
       ELSE UNCHANGED <<status, grace>>
    /\ UNCHANGED <<planId, subscription, trialOver, periodEnd, paying,
                   cancelAtPeriodEnd, pending, pendingAt, renewedGrace>>

CancelPastDue ==
    /\ status' = IF status = "past_due" THEN "canceled" ELSE status
    /\ grace' = "none"
    /\ cancelAtPeriodEnd' = FALSE
    /\ UNCHANGED <<planId, subscription, trialOver, periodEnd, paying, pending,
                   pendingAt, renewedGrace>>

CancelSubscription ==
    /\ status' = "canceled"
    /\ grace' = "none"
    /\ cancelAtPeriodEnd' = FALSE
    /\ UNCHANGED <<planId, subscription, trialOver, periodEnd, paying, pending,
                   pendingAt, renewedGrace>>

ReconcilePending ==
    \E c \in Caller : call[c].op = "reconcile" /\ call[c].step = "write"

\* The event id is recorded (ON CONFLICT DO NOTHING) with the effect.
applyBillingWebhookEvent(h, e) ==
    /\ handling[h] = e
    /\ handling' = [handling EXCEPT ![h] = 0]
    /\ seen' = seen \cup {e}
    /\ \/ event[e].kind = "subscription_activated" /\ Activate(e)
       \/ event[e].kind = "payment_failed" /\ FailPayment
       \/ event[e].kind = "payment_recovered" /\ RecoverPayment
       \/ event[e].kind = "subscription_canceled" /\ CancelSubscription
    /\ orderly' = (orderly /\ e = applied + 1 /\ ~ReconcilePending)
    /\ applied' = IF orderly' THEN e ELSE 0
    /\ UNCHANGED <<sub, event, call, sweepVars, bought, requests>>

-----------------------------------------------------------------------------
(* The owner's calls. *)

callerOnly == <<hookVars, sweepVars, orderly, applied, renewedGrace, requests>>

\* Each call first reads the row and decides.
Begin(c, request) ==
    /\ call[c].step = "idle"
    /\ call' = [call EXCEPT ![c] = request]
    /\ UNCHANGED <<orgVars, sub, event, bought, hookVars, sweepVars, orderly,
                   applied, renewedGrace>>

createCheckoutSession(c, p) ==
    /\ Request
    /\ subscription = None
    /\ Begin(c, [Idle EXCEPT !.op = "checkout", !.step = "call", !.plan = p])

changePlan(c, p) ==
    /\ Request
    /\ subscription # None
    /\ planId # p
    /\ Begin(c, [op |-> "change", step |-> "call", plan |-> p,
                 sub |-> subscription, paying |-> paying, at |-> periodEnd,
                 ends |-> FALSE])

\* cancelPlan and resumePlan.
schedulePlan(c, ends) ==
    /\ Request
    /\ subscription # None
    /\ Begin(c, [Idle EXCEPT !.op = "schedule", !.step = "call",
                             !.sub = subscription, !.ends = ends])

\* reconcileSubscription begins with the processor: any live subscription of
\* the customer will do.
ReadProcessor(c) ==
    /\ Request
    /\ \E s \in Live :
        Begin(c, [Idle EXCEPT !.op = "reconcile", !.step = "write",
                              !.plan = sub[s].plan, !.sub = s,
                              !.ends = sub[s].ends])

ForgetCall(c) == call' = [call EXCEPT ![c] = Idle]

OpenSession(c) ==
    /\ call[c].op = "checkout"
    /\ \E s \in Sub :
          /\ sub[s].state = "none"
          /\ sub' = [sub EXCEPT ![s] = [state |-> "offered",
                                        plan |-> call[c].plan, ends |-> FALSE]]
    /\ ForgetCall(c)
    /\ UNCHANGED <<orgVars, event, bought, callerOnly>>

AwaitWrite(c) == call' = [call EXCEPT ![c].step = "write"]

\* changeSubscriptionPrice; a subscription that ended is refused.
Reprice(c) ==
    /\ call[c].op = "change" /\ call[c].step = "call"
    /\ call[c].sub \in Live
    /\ sub' = [sub EXCEPT ![call[c].sub].plan = call[c].plan]
    /\ bought' = bought \cup {call[c].plan}
    /\ AwaitWrite(c)
    /\ UNCHANGED <<orgVars, event, callerOnly>>

\* cancelSubscription, resumeSubscription.
ScheduleEnd(c) ==
    /\ call[c].op = "schedule" /\ call[c].step = "call"
    /\ call[c].sub \in Live
    /\ sub' = [sub EXCEPT ![call[c].sub].ends = call[c].ends]
    /\ AwaitWrite(c)
    /\ UNCHANGED <<orgVars, event, bought, callerOnly>>

\* The processor refuses, its answer is lost, or the process dies.
Abandon(c) ==
    /\ call[c].step # "idle"
    /\ ForgetCall(c)
    /\ UNCHANGED <<orgVars, sub, event, bought, callerOnly>>

IsUpgrade(c) ==
    call[c].paying = None \/ Price[call[c].plan] > Price[call[c].paying]

\* An upgrade applies now, as does a change with no period end to wait for;
\* any other change is parked.
WriteChange(c) ==
    /\ call[c].op = "change" /\ call[c].step = "write"
    /\ IF IsUpgrade(c) \/ call[c].at = "none"
       THEN /\ planId' = call[c].plan
            /\ paying' = call[c].plan
            /\ pending' = None
            /\ pendingAt' = "none"
       ELSE /\ pending' = call[c].plan
            /\ pendingAt' = call[c].at
            /\ UNCHANGED <<planId, paying>>
    /\ ForgetCall(c)
    /\ UNCHANGED <<status, subscription, trialOver, grace, periodEnd,
                   cancelAtPeriodEnd, sub, event, bought, callerOnly>>

WriteSchedule(c) ==
    /\ call[c].op = "schedule" /\ call[c].step = "write"
    /\ cancelAtPeriodEnd' = call[c].ends
    /\ ForgetCall(c)
    /\ UNCHANGED <<status, planId, subscription, trialOver, grace, periodEnd,
                   paying, pending, pendingAt, sub, event, bought, callerOnly>>

WriteReconciled(c) ==
    /\ call[c].op = "reconcile" /\ call[c].step = "write"
    /\ status' = "active"
    /\ planId' = call[c].plan
    /\ subscription' = call[c].sub
    /\ grace' = "none"
    /\ periodEnd' = "ahead"
    /\ cancelAtPeriodEnd' = call[c].ends
    /\ paying' = call[c].plan
    /\ ForgetCall(c)
    /\ UNCHANGED <<trialOver, pending, pendingAt, sub, event, bought, callerOnly>>

CallerStep(c) ==
    \/ \E p \in Paid : createCheckoutSession(c, p)
    \/ \E p \in Paid : changePlan(c, p)
    \/ \E ends \in BOOLEAN : schedulePlan(c, ends)
    \/ ReadProcessor(c)
    \/ OpenSession(c)
    \/ Reprice(c)
    \/ ScheduleEnd(c)
    \/ WriteChange(c)
    \/ WriteSchedule(c)
    \/ WriteReconciled(c)
    \/ Abandon(c)

-----------------------------------------------------------------------------
(* The sweep and the passing of time. *)

rowOnly == <<sub, event, hookVars, call, bought, orderly, applied, requests>>

TrialExpired == status = "trialing" /\ trialOver
GraceUnexpired == status = "past_due"

GraceExpired == status = "past_due" /\ grace = "passed"

ScanTrialsOnly ==
    /\ tick = "idle"
    /\ TrialExpired
    /\ trialDue' = TRUE
    /\ graceDue' = FALSE
    /\ tick' = "plan"
    /\ renewedGrace' = FALSE
    /\ UNCHANGED <<orgVars, rowOnly>>

ScanExpired ==
    /\ tick = "idle"
    /\ TrialExpired \/ GraceExpired
    /\ trialDue' = TrialExpired
    /\ graceDue' = GraceExpired
    /\ tick' = IF TrialExpired THEN "plan" ELSE "grace"
    /\ renewedGrace' = FALSE
    /\ UNCHANGED <<orgVars, rowOnly>>

\* Called for the orgs whose trial expired, and for no other.
applyPendingPlanChange ==
    /\ tick = "plan"
    /\ tick' = "trial"
    /\ IF pendingAt = "passed"
       THEN /\ planId' = pending
            /\ pending' = None
            /\ pendingAt' = "none"
       ELSE UNCHANGED <<planId, pending, pendingAt>>
    /\ UNCHANGED <<status, subscription, trialOver, grace, periodEnd, paying,
                   cancelAtPeriodEnd, trialDue, graceDue, renewedGrace, rowOnly>>

expireTrialUnconditionally ==
    /\ tick = "trial"
    /\ tick' = IF graceDue THEN "grace" ELSE "idle"
    /\ status' = "active"
    /\ planId' = Default
    /\ trialOver' = FALSE
    /\ grace' = "none"
    /\ UNCHANGED <<subscription, periodEnd, paying, cancelAtPeriodEnd, pending,
                   pendingAt, trialDue, graceDue, renewedGrace, rowOnly>>

expireTrial ==
    /\ tick = "trial"
    /\ tick' = IF graceDue THEN "grace" ELSE "idle"
    /\ IF status = "trialing"
       THEN /\ status' = "active"
            /\ planId' = Default
            /\ trialOver' = FALSE
            /\ grace' = "none"
       ELSE UNCHANGED <<status, planId, trialOver, grace>>
    /\ UNCHANGED <<subscription, periodEnd, paying, cancelAtPeriodEnd, pending,
                   pendingAt, trialDue, graceDue, renewedGrace, rowOnly>>

expireGracePeriod ==
    /\ tick = "grace"
    /\ tick' = "idle"
    /\ IF status = "past_due"
       THEN /\ status' = "active"
            /\ planId' = Default
            /\ grace' = "none"
       ELSE UNCHANGED <<status, planId, grace>>
    /\ UNCHANGED <<subscription, trialOver, periodEnd, paying,
                   cancelAtPeriodEnd, pending, pendingAt, trialDue, graceDue,
                   renewedGrace, rowOnly>>

SweepStep ==
    \/ ScanExpired
    \/ applyPendingPlanChange
    \/ expireTrial
    \/ expireGracePeriod

Pass(date) == IF date = "ahead" THEN "passed" ELSE date

TrialRunsOut ==
    /\ status = "trialing" /\ ~trialOver
    /\ trialOver' = TRUE
    /\ UNCHANGED <<status, planId, subscription, grace, periodEnd, paying,
                   cancelAtPeriodEnd, pending, pendingAt, sweepVars,
                   renewedGrace, rowOnly>>

GraceRunsOut ==
    /\ grace = "ahead"
    /\ grace' = "passed"
    /\ UNCHANGED <<status, planId, subscription, trialOver, periodEnd, paying,
                   cancelAtPeriodEnd, pending, pendingAt, sweepVars,
                   renewedGrace, rowOnly>>

PeriodEnds ==
    /\ "ahead" \in {periodEnd, pendingAt}
    /\ periodEnd' = Pass(periodEnd)
    /\ pendingAt' = Pass(pendingAt)
    /\ UNCHANGED <<status, planId, subscription, trialOver, grace, paying,
                   cancelAtPeriodEnd, pending, sweepVars, renewedGrace, rowOnly>>

\* The operator's console changes the plan and nothing else.
setOrgPlan(p) ==
    /\ Request
    /\ planId' = p
    /\ bought' = bought \cup {p}
    /\ UNCHANGED <<status, subscription, trialOver, grace, periodEnd, paying,
                   cancelAtPeriodEnd, pending, pendingAt, sub, event, hookVars,
                   call, sweepVars, orderly, applied, renewedGrace>>

Next ==
    \/ \E s \in Sub : Processor(s)
    \/ \E h \in Handler, e \in EventId :
          AcceptDelivery(h, e) \/ applyBillingWebhookEvent(h, e)
    \/ \E c \in Caller : CallerStep(c)
    \/ SweepStep
    \/ TrialRunsOut
    \/ GraceRunsOut
    \/ PeriodEnds
    \/ \E p \in Paid \cup {Default} : setOrgPlan(p)

Spec == Init /\ [][Next]_vars

\* The worker's interval timer keeps ticking, and a tick ends.
SweepFairness == WF_vars(SweepStep)

FairSpec == Spec /\ SweepFairness

-----------------------------------------------------------------------------
(* Properties. *)

\* An org is in a grace period exactly while it is past due, whichever of the
\* webhook, the owner's reconcile and the sweep wrote the row last: a deadline
\* left on a recovered org would be shown to its owner, and a past_due row
\* without one would never be scanned again.
GraceIffPastDue == (grace # "none") = (status = "past_due")

\* "It cannot invent a subscription" (reconcileSubscription): a plan on sale,
\* current or parked, was sold by the processor or granted by an operator, and
\* the tracked subscription is one a customer paid for.
NothingIsInvented ==
    /\ planId \in Paid => planId \in bought
    /\ pending # None => pending \in bought
    /\ subscription # None => sub[subscription].state \notin {"none", "offered"}

Settled ==
    /\ seen = 1..Len(event)
    /\ \A h \in Handler : handling[h] = 0
    /\ ~ReconcilePending

\* Once the events have been applied, each once and in order, and none during
\* a reconcile, the row agrees with the processor: an org whose subscription
\* ended is canceled, and an org is past due only over an unpaid subscription.
AgreesWithProcessor ==
    Settled /\ orderly =>
        /\ subscription # None /\ sub[subscription].state = "ended"
              => status = "canceled"
        /\ status = "past_due" => \E s \in Sub : sub[s].state = "past_due"

\* A subscribed org loses the plan it is on only to the end of a grace period
\* or to the operator ("nobody is locked out", expireTrial).
PurchaseIsKept ==
    [][subscription # None /\ planId \in Paid /\ planId' \notin Paid
         => status = "past_due" \/ \E p \in Plan : setOrgPlan(p)]_vars

\* The sweep cuts a grace period short only where it began after the tick's
\* scan: expireGracePeriod checks the status again, and not the deadline.
GraceIsHonoured ==
    [][status = "past_due" /\ grace = "ahead" /\ expireGracePeriod
         => renewedGrace]_vars

\* A trial and a grace period that ran out are ended by the sweep, unless the
\* customer pays first.
DeadlinesAreMet ==
    /\ TrialExpired ~> ~TrialExpired
    /\ GraceExpired ~> ~GraceExpired
=============================================================================
