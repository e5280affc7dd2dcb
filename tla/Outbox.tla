------------------------------- MODULE Outbox -------------------------------
(***************************************************************************)
(* The transactional outbox (packages/db/src/outbox.ts, migrations 0006    *)
(* and 0015): the table domain events are appended to, the per-consumer    *)
(* dispatch rows, and the claim statement every relay runs.                *)
(*                                                                         *)
(* A relay instance runs ONE READ COMMITTED transaction per batch.  The    *)
(* claim reads `outbox LEFT JOIN outbox_dispatch` on the snapshot of the   *)
(* statement and only then locks the outbox rows one by one, FOR UPDATE OF *)
(* o SKIP LOCKED.  The lock protects the outbox row, which nobody ever     *)
(* updates, so Postgres returns a row whose dispatch row was committed     *)
(* after the snapshot: scan is that snapshot, and it may be stale.         *)
(*                                                                         *)
(* This module has the shared tables and the claim; what a relay does with *)
(* the rows it claimed is in the modules that extend it.                   *)
(***************************************************************************)
EXTENDS Integers, FiniteSets

CONSTANTS
    Event,       \* event rows, numbered in (occurred_at, id) order
    Mutation,    \* the sets of events that one transaction appends
    Consumer,    \* consumer names, one dispatch row per event and consumer
    Relay,       \* relay instances, all processes together
    ConsumerOf,  \* the consumer an instance claims for
    Batch        \* LIMIT of the claim statement

ASSUME OutboxAssumption ==
    /\ Event \subseteq Nat
    /\ Mutation \subseteq SUBSET Event
    /\ IsFiniteSet(Relay)
    /\ ConsumerOf \in [Relay -> Consumer]
    /\ Batch \in Nat \ {0}

VARIABLES
    outbox,      \* events committed to platform.outbox
    dispatched,  \* per consumer, the events with dispatched_at set
    phase,       \* where an instance is in its drain transaction
    scan,        \* snapshot rows the claim has not reached yet
    claimed      \* outbox rows an instance has locked

outboxVars == <<outbox, dispatched, phase, scan, claimed>>

Phase == {"idle", "scanning", "working"}

OutboxTypeOK ==
    /\ outbox \subseteq Event
    /\ dispatched \in [Consumer -> SUBSET Event]
    /\ phase \in [Relay -> Phase]
    /\ scan \in [Relay -> SUBSET Event]
    /\ claimed \in [Relay -> SUBSET Event]
    /\ \A r \in Relay : /\ phase[r] = "idle" => claimed[r] = {}
                        /\ phase[r] # "scanning" => scan[r] = {}

OutboxInit ==
    /\ outbox = {}
    /\ dispatched = [c \in Consumer |-> {}]
    /\ phase = [r \in Relay |-> "idle"]
    /\ scan = [r \in Relay |-> {}]
    /\ claimed = [r \in Relay |-> {}]

-----------------------------------------------------------------------------
\* The row `ORDER BY occurred_at, id` yields first.
IsOldest(e, S) == e \in S /\ \A f \in S : e <= f

PendingWithoutDispatch(c) == outbox

\* The consumer's dispatch row, or its absence, says the event is still owed.
Pending(c) == outbox \ dispatched[c]

LockedByOther(r, e) == \E q \in Relay \ {r} : e \in claimed[q]

\* The mutation's transaction commits its events.  The events
\* of a slow transaction become visible after younger ones.
appendToOutbox(E) ==
    /\ E # {}
    /\ E \cap outbox = {}
    /\ outbox' = outbox \cup E
    /\ UNCHANGED <<dispatched, phase, scan, claimed>>

\* claimPending, first half: the statement takes its snapshot.
BeginClaim(r) ==
    /\ phase[r] = "idle"
    /\ phase' = [phase EXCEPT ![r] = "scanning"]
    /\ scan' = [scan EXCEPT ![r] = Pending(ConsumerOf[r])]
    /\ UNCHANGED <<outbox, dispatched, claimed>>

\* LIMIT counts the rows locked, not the rows looked at.
ScanDone(r) == scan[r] = {} \/ Cardinality(claimed[r]) = Batch

\* claimPending, second half, row by row: a row another transaction has locked
\* is skipped, whichever consumer that transaction drains for.
LockNext(r) ==
    /\ phase[r] = "scanning"
    /\ ~ScanDone(r)
    /\ \E e \in scan[r] :
          /\ IsOldest(e, scan[r])
          /\ scan' = [scan EXCEPT ![r] = @ \ {e}]
          /\ claimed' = IF LockedByOther(r, e)
                        THEN claimed
                        ELSE [claimed EXCEPT ![r] = @ \cup {e}]
    /\ UNCHANGED <<outbox, dispatched, phase>>

\* The statement returns; an empty claim ends the transaction at once.
EndClaim(r) ==
    /\ phase[r] = "scanning"
    /\ ScanDone(r)
    /\ phase' = [phase EXCEPT ![r] = IF claimed[r] = {} THEN "idle"
                                                        ELSE "working"]
    /\ scan' = [scan EXCEPT ![r] = {}]
    /\ UNCHANGED <<outbox, dispatched, claimed>>

\* markDispatched upserts the dispatch rows of `done`, the transaction commits
\* and its row locks are released.
MarkAndCommit(r, done) ==
    /\ phase[r] = "working"
    /\ dispatched' = [dispatched EXCEPT ![ConsumerOf[r]] = @ \cup done]
    /\ phase' = [phase EXCEPT ![r] = "idle"]
    /\ claimed' = [claimed EXCEPT ![r] = {}]
    /\ UNCHANGED <<outbox, scan>>

\* The transaction is lost: the process died or a statement failed.
Rollback(r) ==
    /\ phase[r] # "idle"
    /\ phase' = [phase EXCEPT ![r] = "idle"]
    /\ scan' = [scan EXCEPT ![r] = {}]
    /\ claimed' = [claimed EXCEPT ![r] = {}]
    /\ UNCHANGED <<outbox, dispatched>>
=============================================================================
