------------------------------- MODULE SpendGate -------------------------------
(***************************************************************************)
(* The telephony spend gate (apps/api/src/telephony/spend-gate.ts): what   *)
(* an org has spent on calls and messages within one window of its policy, *)
(* and the check every outbound action passes before the carrier hears of  *)
(* it.  The gate is a read; the action writes its ledger row in a later    *)
(* transaction.                                                            *)
(*                                                                         *)
(* A ledger row holds its estimate until `actual_cents` is written, and the *)
(* only value anything writes is 0.  The velocity limits and the table of  *)
(* allowed destinations are left out.                                      *)
(***************************************************************************)
EXTENDS Integers, FiniteSets, Functions

CONSTANTS
    Action,           \* outbound calls or messages
    Estimate,         \* estimateCostCents of each, which the gate adds
    Cost,             \* what its ledger row holds, in cents
    Automated,        \* actions a rule takes
    Cap,              \* spend_policy.cap_cents
    AutomationCap,    \* spend_policy.automation_cap_cents
    Prior             \* amounts people may have spent in the window before

ASSUME SpendAssumption ==
    /\ IsFiniteSet(Action)
    /\ Estimate \in [Action -> Nat \ {0}]
    /\ Cost \in [Action -> Nat \ {0}]
    /\ Automated \subseteq Action
    /\ Cap \in Nat /\ AutomationCap \in Nat
    /\ Prior \subseteq Nat

VARIABLES
    active,      \* the org and its carrier subaccount are active
    prior,       \* cents of the ledger rows that were there before
    ledger,      \* none, held (at its estimate) or released (at 0)
    warned,      \* spend.cap_reached was emitted in this window
    \* History, for the properties.
    saw,         \* what the gate read for an action not booked yet
    overtaken    \* actions booked on a reading that was too low by then

spendVars == <<active, prior, ledger, warned, saw, overtaken>>

Reading == [all : Nat, automated : Nat]

Unread == [all |-> 0, automated |-> 0]

SpendTypeOK ==
    /\ active \in BOOLEAN
    /\ prior \in Prior
    /\ ledger \in [Action -> {"none", "held", "released"}]
    /\ warned \in BOOLEAN
    /\ saw \in [Action -> Reading]
    /\ overtaken \subseteq Action

SpendInit ==
    /\ active = TRUE
    /\ prior \in Prior
    /\ ledger = [a \in Action |-> "none"]
    /\ warned = (prior * 100 >= Cap * 80)
    /\ saw = [a \in Action |-> Unread]
    /\ overtaken = {}

\* COALESCE(actual_cents, estimated_cents), summed.
Held(A) == SumFunctionOnSet(Cost, {a \in A : ledger[a] = "held"})
Spent == prior + Held(Action)
AutomationSpent == Held(Automated)

\* The action takes the org past 80% of its cap.
CrossesWarning(before, cost) ==
    /\ (before + cost) * 100 >= Cap * 80
    /\ before * 100 < Cap * 80

GateSteppingOver(a) ==
    /\ active
    /\ Spent <= Cap
    /\ a \in Automated => AutomationSpent <= AutomationCap
    /\ saw' = [saw EXCEPT ![a] = [all |-> Spent, automated |-> AutomationSpent]]

\* readSpendState and the decision, in one transaction.
checkOutboundAllowed(a) ==
    /\ active
    /\ Spent + Estimate[a] <= Cap
    /\ a \in Automated => AutomationSpent + Estimate[a] <= AutomationCap
    /\ saw' = [saw EXCEPT ![a] = [all |-> Spent, automated |-> AutomationSpent]]

\* Since the gate read it, the sum that bounds the action has grown.
Overtook(a) ==
    \/ Spent > saw[a].all
    \/ a \in Automated /\ AutomationSpent > saw[a].automated

\* The ledger row, in the transaction of the action it prices.  The warning is
\* decided on what the gate read.
recordSpend(a) ==
    /\ ledger' = [ledger EXCEPT ![a] = "held"]
    /\ warned' = (warned \/ CrossesWarning(saw[a].all, Estimate[a]))
    /\ overtaken' = IF Overtook(a) THEN overtaken \cup {a} ELSE overtaken
    /\ saw' = [saw EXCEPT ![a] = Unread]

\* An operator suspends the org, or lets it back in.
syncSubaccountStatus ==
    /\ active' = ~active
    /\ UNCHANGED <<prior, ledger, warned, saw, overtaken>>

-----------------------------------------------------------------------------
(* Properties. *)

Beyond(A) == SumFunctionOnSet(Cost, A \cap overtaken)
                + SumFunctionOnSet([a \in Action |-> Cost[a] - Estimate[a]],
                                   {a \in A \ overtaken : Cost[a] > Estimate[a]})

\* The cap and the automation allowance are exceeded by no more than the
\* actions that were booked on a reading other actions had overtaken
\* (checkOutboundAllowed reads, recordSpend writes later), by what actions
\* cost beyond their estimate, and by what was spent before.  At 80% of the
\* cap the org was warned ("the one notification that arrives while an org can
\* still act on it"), unless two actions overlapped so that neither saw itself
\* cross, or one cost more than it was estimated at.
OverspendIsOverlap ==
    /\ Spent <= (IF prior > Cap THEN prior ELSE Cap) + Beyond(Action)
    /\ AutomationSpent <= AutomationCap + Beyond(Automated)
    /\ Spent * 100 >= Cap * 80 =>
          \/ warned
          \/ overtaken # {}
          \/ \E a \in Action : ledger[a] # "none" /\ Cost[a] > Estimate[a]
=============================================================================
