---------------------------- MODULE MCOrgBilling ----------------------------
(***************************************************************************)
(* Instances of OrgBilling for TLC: two plans on sale at different prices, *)
(* so that a change is an upgrade or a downgrade.                          *)
(***************************************************************************)
EXTENDS OrgBilling, TLC

CONSTANTS pro, business, s1

\* An org that has checked out, applied the activation and reconciled: a state
\* Spec reaches in three requests, one more than the run's bound.
Subscribed ==
    /\ status = "active"
    /\ planId = business /\ paying = business /\ bought = {business}
    /\ subscription = s1
    /\ trialOver = FALSE
    /\ grace = "none" /\ periodEnd = "ahead" /\ pendingAt = "none"
    /\ pending = None
    /\ cancelAtPeriodEnd = FALSE
    /\ sub = [s \in Sub |->
                IF s = s1
                THEN [state |-> "active", plan |-> business, ends |-> FALSE]
                ELSE [state |-> "none", plan |-> None, ends |-> FALSE]]
    /\ event = <<[kind |-> "subscription_activated", sub |-> s1, plan |-> None]>>
    /\ seen = {1} /\ applied = 1
    /\ handling = [h \in Handler |-> 0]
    /\ call = [c \in Caller |-> Idle]
    /\ tick = "idle" /\ trialDue = FALSE /\ graceDue = FALSE
    /\ orderly = TRUE /\ renewedGrace = FALSE /\ requests = 1

MCSpec == (Init \/ Subscribed) /\ [][Next]_vars /\ SweepFairness

MCPrice == pro :> 1 @@ business :> 2
=============================================================================
