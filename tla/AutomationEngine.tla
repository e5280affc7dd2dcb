-------------------------- MODULE AutomationEngine --------------------------
(***************************************************************************)
(* The automation engine (apps/worker/src/automation) on the rules of one  *)
(* organization: events of the outbox trigger rules, the actions of a rule *)
(* emit further events.  Two things stop a chain: the causation depth an   *)
(* event carries and the hourly execution budget.                          *)
(*                                                                         *)
(* A worker instance is a relay of the outbox: drainAutomations claims a   *)
(* batch, works on its rows one after another and marks all of them in the *)
(* claim transaction.  What the rules did on the way is committed by       *)
(* transactions of their own, and stays when that one is lost.             *)
(***************************************************************************)
EXTENDS Outbox, SequencesExt

CONSTANTS
    Name,           \* event names
    HumanName,      \* those that what a person does may emit
    Rule,
    Action,
    TriggerOf,      \* automations.trigger_event
    ActionsOf,      \* automations.actions
    Conditional,    \* rules whose condition may turn out false or unusable
    EVENTS_EMITTED_BY,
    CarriesDepth,   \* actions whose service puts causationDepth on its envelope
    MAX_DEPTH,
    HOURLY_EXECUTION_BUDGET,
    EmitBound,      \* bound: events one action appends
    HumanBound,     \* bound: events caused by people
    FaultBound      \* bound: drains that are lost

AUTOMATION_CONSUMER == "automation"

ASSUME AutomationAssumption ==
    /\ AUTOMATION_CONSUMER \in Consumer
    /\ \A g \in Relay : ConsumerOf[g] = AUTOMATION_CONSUMER
    /\ HumanName \subseteq Name
    /\ TriggerOf \in [Rule -> Name]
    /\ ActionsOf \in [Rule -> Seq(Action)]
    /\ Conditional \subseteq Rule
    /\ EVENTS_EMITTED_BY \in [Action -> SUBSET Name]
    /\ CarriesDepth \subseteq Action
    /\ {MAX_DEPTH, HOURLY_EXECUTION_BUDGET, EmitBound} \subseteq Nat

VARIABLES
    log,         \* what the rows of the outbox say, in the order of their ids
    left,        \* claimed rows the loop has not begun
    cause,       \* the row in hand, 0 before the first
    listening,   \* rules loaded for that row, not yet run
    acting,      \* the actions still to run of the rule in progress
    enabled,     \* automations.enabled
    orgActive,   \* identity.orgs.status = 'active'
    executions,  \* platform.automation_budget of the current hour
    humans,
    faults,      \* history: drains lost
    runs         \* history: executions begun, per rule and event

drainVars == <<left, cause, listening, acting>>
orgVars == <<enabled, orgActive, executions>>
engineVars == <<outbox, dispatched, phase, scan, claimed, log,
                left, cause, listening, acting,
                enabled, orgActive, executions, humans, faults, runs>>

\* `hops` and `restarts` are not in the code: how many actions lie between the
\* event and a person, and how many of them dropped the depth.
Row == [name : Name, depth : Nat, hops : Nat, restarts : Nat]

EngineTypeOK ==
    /\ OutboxTypeOK
    /\ log \in Seq(Row)
    /\ outbox = DOMAIN log
    /\ left \in [Relay -> SUBSET Event]
    /\ cause \in [Relay -> Nat]
    /\ listening \in [Relay -> SUBSET Rule]
    /\ acting \in [Relay -> Seq(Action)]
    /\ enabled \subseteq Rule
    /\ orgActive \in BOOLEAN
    /\ executions \in 0..HOURLY_EXECUTION_BUDGET
    /\ {humans, faults} \subseteq Nat
    /\ runs \in [Rule -> [Event -> Nat]]
    /\ \A g \in Relay :
          /\ left[g] \subseteq claimed[g]
          /\ phase[g] # "working" =>
                left[g] = {} /\ cause[g] = 0 /\ listening[g] = {} /\ acting[g] = <<>>

EngineInit ==
    /\ OutboxInit
    /\ log = <<>>
    /\ left = [g \in Relay |-> {}]
    /\ cause = [g \in Relay |-> 0]
    /\ listening = [g \in Relay |-> {}]
    /\ acting = [g \in Relay |-> <<>>]
    /\ enabled = Rule
    /\ orgActive = TRUE
    /\ executions = 0
    /\ humans = 0
    /\ faults = 0
    /\ runs = [r \in Rule |-> [e \in Event |-> 0]]

-----------------------------------------------------------------------------
\* The transaction of a mutation commits its events, if it has any.
Emit(rows) ==
    /\ log' = log \o rows
    /\ DOMAIN log' \subseteq Event
    /\ IF rows = <<>> THEN UNCHANGED outboxVars
                      ELSE appendToOutbox(DOMAIN log' \ DOMAIN log)

\* A person does something: the event has no causationDepth.
Mutate(n) ==
    /\ humans < HumanBound
    /\ humans' = humans + 1
    /\ Emit(<<[name |-> n, depth |-> 0, hops |-> 0, restarts |-> 0]>>)
    /\ UNCHANGED <<drainVars, orgVars, faults, runs>>

SetEnabled(r) ==
    /\ enabled' \in {enabled \cup {r}, enabled \ {r}}
    /\ UNCHANGED <<outboxVars, log, drainVars, orgActive, executions, humans, faults, runs>>

SetOrgStatus ==
    /\ orgActive' = ~orgActive
    /\ UNCHANGED <<outboxVars, log, drainVars, enabled, executions, humans, faults, runs>>

\* `date_trunc('hour', now())` moves on: the counter is a new row.
HourPasses ==
    /\ executions # 0
    /\ executions' = 0
    /\ UNCHANGED <<outboxVars, log, drainVars, enabled, orgActive, humans, faults, runs>>

-----------------------------------------------------------------------------
(* drainAutomations, the claim. *)

StartDrain(g) ==
    /\ BeginClaim(g)
    /\ UNCHANGED <<log, drainVars, orgVars, humans, faults, runs>>

ClaimRow(g) ==
    /\ LockNext(g)
    /\ UNCHANGED <<log, drainVars, orgVars, humans, faults, runs>>

ClaimReturns(g) ==
    /\ EndClaim(g)
    /\ left' = [left EXCEPT ![g] = claimed[g]]
    /\ UNCHANGED <<log, cause, listening, acting, orgVars, humans, faults, runs>>

-----------------------------------------------------------------------------
(* processEvent on one row after another. *)

RowDone(g) == listening[g] = {} /\ acting[g] = <<>>

\* The next row of the batch: the org's status and its rules are read once.
LoadRules(g) ==
    /\ phase[g] = "working"
    /\ RowDone(g)
    /\ \E e \in left[g] :
          /\ IsOldest(e, left[g])
          /\ left' = [left EXCEPT ![g] = @ \ {e}]
          /\ cause' = [cause EXCEPT ![g] = e]
          /\ listening' = [listening EXCEPT ![g] =
                {r \in enabled : orgActive /\ TriggerOf[r] = log[e].name}]
    /\ UNCHANGED <<outboxVars, log, acting, orgVars, humans, faults, runs>>

checkDepthOneMore(depth) == depth <= MAX_DEPTH
checkDepth(depth) == depth < MAX_DEPTH

selfTriggers(r) ==
    \E i \in DOMAIN ActionsOf[r] :
        TriggerOf[r] \in EVENTS_EMITTED_BY[ActionsOf[r][i]]

checkLoopProtection(r, depth) == checkDepth(depth) /\ ~selfTriggers(r)

Ready(g, r) == acting[g] = <<>> /\ r \in listening[g]

\* runOne refuses or skips: loop protection, a condition that is false or
\* cannot be evaluated, or no budget left.
PassOver(g, r) ==
    /\ Ready(g, r)
    /\ \/ ~checkLoopProtection(r, log[cause[g]].depth)
       \/ r \in Conditional
       \/ executions >= HOURLY_EXECUTION_BUDGET
    /\ listening' = [listening EXCEPT ![g] = @ \ {r}]
    /\ UNCHANGED <<outboxVars, log, left, cause, acting, orgVars, humans, faults, runs>>

consumeExecutionBudget ==
    /\ executions < HOURLY_EXECUTION_BUDGET
    /\ executions' = executions + 1

\* runOne passes its gates, the budget last, and hands over to the executor,
\* which resolves the owner's membership and finds none in a suspended org.
BeginRun(g, r) ==
    /\ Ready(g, r)
    /\ checkLoopProtection(r, log[cause[g]].depth)
    /\ consumeExecutionBudget
    /\ listening' = [listening EXCEPT ![g] = @ \ {r}]
    /\ acting' = [acting EXCEPT ![g] = IF orgActive THEN ActionsOf[r] ELSE <<>>]
    /\ runs' = [runs EXCEPT ![r][cause[g]] = @ + 1]
    /\ UNCHANGED <<outboxVars, log, left, cause, enabled, orgActive, humans, faults>>

\* What an event of action a carries: `nextDepth`, if the service the action
\* calls copies it from the actor, and nothing otherwise.
Effect(a, n, row) ==
    LET carried == a \in CarriesDepth
    IN [name     |-> n,
        depth    |-> IF carried THEN row.depth + 1 ELSE 0,
        hops     |-> row.hops + 1,
        restarts |-> IF carried THEN row.restarts ELSE row.restarts + 1]

\* One action commits, with events the table lists for it: fewer than it lists
\* or none if there was less to change, one of them several times if the
\* service loops.
ActionSucceeds(g) ==
    /\ acting[g] # <<>>
    /\ \E names \in SeqOf(EVENTS_EMITTED_BY[Head(acting[g])], EmitBound) :
          Emit([i \in DOMAIN names |->
                   Effect(Head(acting[g]), names[i], log[cause[g]])])
    /\ acting' = [acting EXCEPT ![g] = Tail(@)]
    /\ UNCHANGED <<left, cause, listening, orgVars, humans, faults, runs>>

ActionFailsAndRetries(g) ==
    /\ acting[g] # <<>>
    /\ acting' = [acting EXCEPT ![g] = <<>>]
    /\ listening' = [listening EXCEPT ![g] =
          @ \cup {r \in enabled : TriggerOf[r] = log[cause[g]].name}]
    /\ UNCHANGED <<outboxVars, log, left, cause, orgVars, humans, faults, runs>>

\* An action throws, or the rule's owner is no longer a member: the run stops.
ActionFails(g) ==
    /\ acting[g] # <<>>
    /\ acting' = [acting EXCEPT ![g] = <<>>]
    /\ UNCHANGED <<outboxVars, log, left, cause, listening, orgVars, humans, faults, runs>>

-----------------------------------------------------------------------------
(* drainAutomations, the end of its transaction. *)

BatchDone(g) == left[g] = {} /\ RowDone(g)

MarkBatchOfActiveOrg(g) ==
    /\ BatchDone(g)
    /\ orgActive
    /\ MarkAndCommit(g, claimed[g])
    /\ cause' = [cause EXCEPT ![g] = 0]
    /\ UNCHANGED <<log, left, listening, acting, orgVars, humans, faults, runs>>

\* Every row is through: the whole batch is marked dispatched and committed.
MarkBatch(g) ==
    /\ BatchDone(g)
    /\ MarkAndCommit(g, claimed[g])
    /\ cause' = [cause EXCEPT ![g] = 0]
    /\ UNCHANGED <<log, left, listening, acting, orgVars, humans, faults, runs>>

\* The drain's transaction is rolled back, the batch stays unmarked: the process
\* dies, or a query of the loop throws (the claim, orgIsActive, loadRulesFor,
\* consumeExecutionBudget, markDispatched) and the tick logs the error.
LoseDrain(g) ==
    /\ faults < FaultBound
    /\ Rollback(g)
    /\ left' = [left EXCEPT ![g] = {}]
    /\ cause' = [cause EXCEPT ![g] = 0]
    /\ listening' = [listening EXCEPT ![g] = {}]
    /\ acting' = [acting EXCEPT ![g] = <<>>]
    /\ faults' = faults + 1
    /\ UNCHANGED <<log, orgVars, humans, runs>>

EngineStep(g) ==
    \/ StartDrain(g)
    \/ ClaimRow(g)
    \/ ClaimReturns(g)
    \/ LoadRules(g)
    \/ \E r \in Rule : PassOver(g, r)
    \/ \E r \in Rule : BeginRun(g, r)
    \/ ActionSucceeds(g)
    \/ ActionFails(g)
    \/ MarkBatch(g)

EngineNext ==
    \/ \E n \in HumanName : Mutate(n)
    \/ \E r \in Rule : SetEnabled(r)
    \/ SetOrgStatus
    \/ HourPasses
    \/ \E g \in Relay : EngineStep(g)
    \/ \E g \in Relay : LoseDrain(g)

EngineSpec == EngineInit /\ [][EngineNext]_engineVars

\* Every instance polls for ever and carries a drain through.
EngineFairSpec == EngineSpec /\ \A g \in Relay : WF_engineVars(EngineStep(g))

-----------------------------------------------------------------------------
(* Conjuncts of the inductive invariant behind ChainsAreCapped. *)

\* A run in progress belongs to a row that is not at the cap.
CauseIsBelowCap ==
    \A g \in Relay : acting[g] # <<>> =>
        cause[g] \in outbox /\ log[cause[g]].depth < MAX_DEPTH

\* The depth an event carries counts from the last restart.
DepthIsDistance ==
    \A i \in DOMAIN log : /\ log[i].depth <= MAX_DEPTH
                          /\ log[i].hops <= log[i].restarts * MAX_DEPTH + log[i].depth

-----------------------------------------------------------------------------
(* Properties. *)

\* Along a chain of events, at most MAX_DEPTH actions lie between two that
\* drop the depth, whatever rules trigger each other (checkDepth): every
\* service that does not copy causationDepth starts the chain anew.
ChainsAreCapped ==
    \A i \in DOMAIN log : log[i].hops <= (log[i].restarts + 1) * MAX_DEPTH

\* A rule runs on one event at most once for each instance and once more for
\* each lost drain: a failed action is not retried, a lost drain reruns its
\* batch once, a stale snapshot costs one run.  An hour's budget is not
\* exceeded, however many workers take from it (consumeExecutionBudget).
RunsAreBounded ==
    /\ \A r \in Rule : \A e \in outbox :
          runs[r][e] <= faults + Cardinality(Relay)
    /\ executions <= HOURLY_EXECUTION_BUDGET

\* r may trigger s by an event of action a.
Triggers(r, a, s) ==
    a \in ToSet(ActionsOf[r]) /\ TriggerOf[s] \in EVENTS_EMITTED_BY[a]

\* No cycle of rules passes through a service that drops the depth: the rules
\* stand on levels that such an action always leaves upwards.
RestartsEnd ==
    \E level \in [Rule -> 1..Cardinality(Rule)] :
        \A r, s \in Rule, a \in Action :
            Triggers(r, a, s) /\ ~selfTriggers(r) =>
                IF a \in CarriesDepth THEN level[s] >= level[r]
                                      ELSE level[s] > level[r]

\* Once people stop, the chains they started come to an end, whatever the
\* budget, the switches and the lost drains do, if only finitely many of their
\* actions can drop the depth.
Drains == RestartsEnd => <>[](Pending(AUTOMATION_CONSUMER) = {})
=============================================================================
