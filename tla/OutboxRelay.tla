----------------------------- MODULE OutboxRelay -----------------------------
(***************************************************************************)
(* The at-least-once relays: claim, act outside the database, mark         *)
(* (apps/realtime/src/relay.ts).  The act - a broadcast, an automation     *)
(* rule, an index write - is not undone when the claim transaction is.     *)
(***************************************************************************)
EXTENDS Outbox

CONSTANTS
    Poison,      \* events whose dispatch always throws
    FailBound,   \* bound: transient dispatch failures counted per event
    CrashBound   \* bound: lost drain transactions per consumer

ASSUME RelayAssumption ==
    /\ Poison \subseteq Event
    /\ FailBound \in Nat
    /\ CrashBound \in [Consumer -> Nat]

VARIABLES
    todo,        \* claimed rows the loop has not dispatched yet
    delivered,   \* claimed rows whose dispatch returned
    sent,        \* per consumer and event, completed dispatches
    attempts,    \* outbox_dispatch.attempts, counted up to FailBound + 1
    crashes      \* lost drain transactions per consumer

relayVars == <<todo, delivered, sent, attempts, crashes>>
vars == <<outbox, dispatched, phase, scan, claimed,
          todo, delivered, sent, attempts, crashes>>

TypeOK ==
    /\ OutboxTypeOK
    /\ todo \in [Relay -> SUBSET Event]
    /\ delivered \in [Relay -> SUBSET Event]
    /\ sent \in [Consumer -> [Event -> Nat]]
    /\ attempts \in [Consumer -> [Event -> 0..FailBound + 1]]
    /\ crashes \in [Consumer -> Nat]
    /\ \A r \in Relay : phase[r] # "working" => todo[r] = {} /\ delivered[r] = {}

Init ==
    /\ OutboxInit
    /\ todo = [r \in Relay |-> {}]
    /\ delivered = [r \in Relay |-> {}]
    /\ sent = [c \in Consumer |-> [e \in Event |-> 0]]
    /\ attempts = [c \in Consumer |-> [e \in Event |-> 0]]
    /\ crashes = [c \in Consumer |-> 0]

-----------------------------------------------------------------------------
AppendEvents(E) == appendToOutbox(E) /\ UNCHANGED relayVars

Begin(r) == BeginClaim(r) /\ UNCHANGED relayVars

LockRow(r) == LockNext(r) /\ UNCHANGED relayVars

\* The claim returned: the loop over its rows starts.
StartBatch(r) ==
    /\ EndClaim(r)
    /\ todo' = [todo EXCEPT ![r] = claimed[r]]
    /\ UNCHANGED <<delivered, sent, attempts, crashes>>

\* `await options.dispatch(row)` returned.
DispatchRow(r) ==
    /\ phase[r] = "working"
    /\ \E e \in todo[r] \ Poison :
          /\ IsOldest(e, todo[r])
          /\ todo' = [todo EXCEPT ![r] = @ \ {e}]
          /\ delivered' = [delivered EXCEPT ![r] = @ \cup {e}]
          /\ sent' = [sent EXCEPT ![ConsumerOf[r]][e] = @ + 1]
    /\ UNCHANGED <<outboxVars, attempts, crashes>>

DispatchFailsEndsBatch(r) ==
    /\ phase[r] = "working"
    /\ \E e \in todo[r] :
          /\ IsOldest(e, todo[r])
          /\ e \in Poison \/ attempts[ConsumerOf[r]][e] < FailBound
          /\ todo' = [todo EXCEPT ![r] = {}]
    /\ UNCHANGED <<outboxVars, delivered, sent, attempts, crashes>>

\* `dispatch` threw: the row is left out of `delivered` and the loop goes on.
DispatchFails(r) ==
    /\ phase[r] = "working"
    /\ \E e \in todo[r] :
          /\ IsOldest(e, todo[r])
          /\ e \in Poison \/ attempts[ConsumerOf[r]][e] < FailBound
          /\ todo' = [todo EXCEPT ![r] = @ \ {e}]
    /\ UNCHANGED <<outboxVars, delivered, sent, attempts, crashes>>

\* The rows recordFailure wrote in this transaction.
Failed(r) == claimed[r] \ delivered[r]

CountFailure(n) == IF n <= FailBound THEN n + 1 ELSE n

FinishBatchMarkingClaimed(r) ==
    /\ todo[r] = {}
    /\ MarkAndCommit(r, claimed[r])
    /\ delivered' = [delivered EXCEPT ![r] = {}]
    /\ UNCHANGED <<todo, sent, attempts, crashes>>

\* The batch is through: mark the delivered rows, keep the failures, commit.
FinishBatch(r) ==
    /\ todo[r] = {}
    /\ MarkAndCommit(r, delivered[r])
    /\ attempts' = [attempts EXCEPT ![ConsumerOf[r]] =
                        [e \in Event |-> IF e \in Failed(r)
                                         THEN CountFailure(@[e]) ELSE @[e]]]
    /\ delivered' = [delivered EXCEPT ![r] = {}]
    /\ UNCHANGED <<todo, sent, crashes>>

\* The process dies, or its database session does.
Crash(r) ==
    /\ crashes[ConsumerOf[r]] < CrashBound[ConsumerOf[r]]
    /\ Rollback(r)
    /\ todo' = [todo EXCEPT ![r] = {}]
    /\ delivered' = [delivered EXCEPT ![r] = {}]
    /\ crashes' = [crashes EXCEPT ![ConsumerOf[r]] = @ + 1]
    /\ UNCHANGED <<sent, attempts>>

RelayStep(r) ==
    \/ Begin(r)
    \/ LockRow(r)
    \/ StartBatch(r)
    \/ DispatchRow(r)
    \/ DispatchFails(r)
    \/ FinishBatch(r)

Next ==
    \/ \E E \in Mutation : AppendEvents(E)
    \/ \E r \in Relay : RelayStep(r)
    \/ \E r \in Relay : Crash(r)

Spec == Init /\ [][Next]_vars

\* The poll timer of every running instance keeps ticking: the claim, the loop
\* over the rows and the commit are never abandoned for ever.  Appending and
\* dying are not assumed.
FairSpec == Spec /\ \A r \in Relay : WF_vars(RelayStep(r))

-----------------------------------------------------------------------------
(* Properties. *)

\* No two drain transactions hold the same outbox row, whatever their
\* consumers (FOR UPDATE OF o SKIP LOCKED in claimPending).
RowLockExclusion ==
    \A r, q \in Relay : r # q => claimed[r] \cap claimed[q] = {}

\* An event is marked dispatched to a consumer only after a dispatch of it to
\* that consumer returned, across crashes and failures: claim, broadcast, mark
\* (relay.ts: the other order "loses the event permanently").
NothingMarkedUnsent ==
    \A c \in Consumer : \A e \in dispatched[c] : sent[c][e] > 0

\* An event is sent again only after a lost transaction, or because an
\* instance of the same consumer claimed it from a snapshot taken before it
\* was marked: at most one extra send per crash and per further instance.
SendsBounded ==
    \A c \in Consumer, e \in Event :
        sent[c][e] <= crashes[c] + Cardinality({r \in Relay : ConsumerOf[r] = c})

\* Every event that can be dispatched is in the end dispatched to every
\* consumer that has an instance (with fewer poison events than a batch).
EventuallyDispatched ==
    \A e \in Event \ Poison, c \in {ConsumerOf[r] : r \in Relay} :
        (e \in outbox) ~> (e \in dispatched[c])
=============================================================================
