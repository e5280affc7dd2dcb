--------------------------- MODULE AuditProjection ---------------------------
(***************************************************************************)
(* The audit projection (apps/api/src/tenancy/audit.projection.ts) and the *)
(* hash chain trigger it writes through (migration 0007).  Claiming,       *)
(* writing the entries and marking the events happen in ONE transaction.   *)
(*                                                                         *)
(* An entry is the position audit.chain_entry() gives it in its org's      *)
(* chain; the hash commits to the entry before it, so a chain without gaps *)
(* or doubles is a chain that verifies.  The trigger locks the org's head  *)
(* until commit.  The primary key (org_id, occurred_at, id) refuses a      *)
(* second entry of an event, which aborts the transaction.                 *)
(***************************************************************************)
EXTENDS Outbox

CONSTANTS
    Org,           \* organisations, numbered in code-unit order of their ids
    OrgOf,         \* the organisation of an event
    NeverAudited,  \* events whose name is in NEVER_AUDITED
    audit,         \* the consumer name 'audit'
    CrashBound     \* bound: lost drain transactions

ASSUME AuditAssumption ==
    /\ Org \subseteq Nat
    /\ OrgOf \in [Event -> Org]
    /\ NeverAudited \subseteq Event
    /\ audit \in Consumer
    /\ \A r \in Relay : ConsumerOf[r] = audit
    /\ CrashBound \in Nat

VARIABLES
    todo,          \* claimed rows the loop has not reached
    draft,         \* per instance, positions of its uncommitted entries
    tip,           \* per instance and org, chain_heads.seq as it sees it
    entry,         \* committed audit_log: position of an event, 0 if none
    head,          \* committed chain_heads.seq
    crashes

auditVars == <<todo, draft, tip, entry, head, crashes>>
vars == <<outbox, dispatched, phase, scan, claimed,
          todo, draft, tip, entry, head, crashes>>

\* The events an instance has inserted entries for and not committed.
Drafted(r) == {e \in Event : draft[r][e] # 0}

\* Rows and uncommitted entries belong to an open transaction.
IdleHoldsNothing ==
    \A r \in Relay :
        phase[r] # "working" => todo[r] = {} /\ Drafted(r) = {}

TypeOK ==
    /\ OutboxTypeOK
    /\ todo \in [Relay -> SUBSET Event]
    /\ draft \in [Relay -> [Event -> Nat]]
    /\ tip \in [Relay -> [Org -> Nat]]
    /\ entry \in [Event -> Nat]
    /\ head \in [Org -> Nat]
    /\ crashes \in Nat
    /\ IdleHoldsNothing

NoDraft == [e \in Event |-> 0]
NoTip == [o \in Org |-> 0]

Init ==
    /\ OutboxInit
    /\ todo = [r \in Relay |-> {}]
    /\ draft = [r \in Relay |-> NoDraft]
    /\ tip = [r \in Relay |-> NoTip]
    /\ entry = NoDraft
    /\ head = NoTip
    /\ crashes = 0

-----------------------------------------------------------------------------
\* The instance has inserted into the org's chain and not committed: it holds
\* the row lock on the org's chain_heads row.
HoldsHead(r, o) == \E e \in Drafted(r) : OrgOf[e] = o

BeforeUnsorted(e, f) == e <= f

\* The batch in the order of the loop: sorted by org, stable in occurred_at.
Before(e, f) == OrgOf[e] < OrgOf[f] \/ (OrgOf[e] = OrgOf[f] /\ e <= f)
IsNext(r, e) == e \in todo[r] /\ \A f \in todo[r] : Before(e, f)

\* An instance whose next insert needs a head another instance has locked.
Waits(r, q) ==
    /\ q \in Relay \ {r}
    /\ phase[r] = "working"
    /\ \E e \in todo[r] \ NeverAudited :
          IsNext(r, e) /\ HoldsHead(q, OrgOf[e])

AppendEvents(E) == appendToOutbox(E) /\ UNCHANGED auditVars

Begin(r) == BeginClaim(r) /\ UNCHANGED auditVars

LockRow(r) == LockNext(r) /\ UNCHANGED auditVars

StartBatch(r) ==
    /\ EndClaim(r)
    /\ todo' = [todo EXCEPT ![r] = claimed[r]]
    /\ UNCHANGED <<draft, tip, entry, head, crashes>>

\* `if (NEVER_AUDITED.has(row.name)) continue`
SkipRow(r) ==
    /\ phase[r] = "working"
    /\ \E e \in todo[r] \cap NeverAudited :
          /\ IsNext(r, e)
          /\ todo' = [todo EXCEPT ![r] = @ \ {e}]
    /\ UNCHANGED <<outboxVars, draft, tip, entry, head, crashes>>

HeadSeenCommitted(r, o) == head[o]

\* The head the trigger reads FOR UPDATE: its own uncommitted update, or the
\* committed one.
HeadSeen(r, o) == IF HoldsHead(r, o) THEN tip[r][o] ELSE head[o]

AlreadyAuditedUnchecked(e) == FALSE

AlreadyAudited(e) == entry[e] # 0

\* insertAuditEntry: the trigger locks the head, numbers the entry, advances
\* the head; the primary key accepts it.
InsertEntry(r) ==
    /\ phase[r] = "working"
    /\ \A q \in Relay : ~Waits(r, q)
    /\ \E e \in todo[r] \ NeverAudited :
          LET seq == HeadSeen(r, OrgOf[e]) + 1
          IN  /\ IsNext(r, e)
              /\ ~AlreadyAudited(e)
              /\ todo' = [todo EXCEPT ![r] = @ \ {e}]
              /\ draft' = [draft EXCEPT ![r] = [@ EXCEPT ![e] = seq]]
              /\ tip' = [tip EXCEPT ![r] = [@ EXCEPT ![OrgOf[e]] = seq]]
    /\ UNCHANGED <<outboxVars, entry, head, crashes>>

AbandonKeepingEntries(r) ==
    /\ Rollback(r)
    /\ entry' = [e \in Event |-> IF e \in Drafted(r) THEN draft[r][e]
                                                     ELSE entry[e]]
    /\ head' = [o \in Org |-> IF HoldsHead(r, o) THEN tip[r][o] ELSE head[o]]
    /\ todo' = [todo EXCEPT ![r] = {}]
    /\ draft' = [draft EXCEPT ![r] = NoDraft]
    /\ tip' = [tip EXCEPT ![r] = NoTip]

\* The transaction ends without a commit: its entries and heads are undone.
Abandon(r) ==
    /\ Rollback(r)
    /\ todo' = [todo EXCEPT ![r] = {}]
    /\ draft' = [draft EXCEPT ![r] = NoDraft]
    /\ tip' = [tip EXCEPT ![r] = NoTip]
    /\ UNCHANGED <<entry, head>>

\* The primary key refuses the entry: the whole transaction is lost.
DuplicateEntry(r) ==
    /\ phase[r] = "working"
    /\ \A q \in Relay : ~Waits(r, q)
    /\ \E e \in todo[r] \ NeverAudited : IsNext(r, e) /\ AlreadyAudited(e)
    /\ Abandon(r)
    /\ UNCHANGED crashes

FinishBatchMarkingDrafted(r) ==
    /\ todo[r] = {}
    /\ MarkAndCommit(r, Drafted(r))
    /\ entry' = [e \in Event |-> IF e \in Drafted(r) THEN draft[r][e]
                                                     ELSE entry[e]]
    /\ head' = [o \in Org |-> IF HoldsHead(r, o) THEN tip[r][o] ELSE head[o]]
    /\ draft' = [draft EXCEPT ![r] = NoDraft]
    /\ tip' = [tip EXCEPT ![r] = NoTip]
    /\ UNCHANGED <<todo, crashes>>

\* markDispatched for every claimed row, then the commit.
FinishBatch(r) ==
    /\ todo[r] = {}
    /\ MarkAndCommit(r, claimed[r])
    /\ entry' = [e \in Event |-> IF e \in Drafted(r) THEN draft[r][e]
                                                     ELSE entry[e]]
    /\ head' = [o \in Org |-> IF HoldsHead(r, o) THEN tip[r][o] ELSE head[o]]
    /\ draft' = [draft EXCEPT ![r] = NoDraft]
    /\ tip' = [tip EXCEPT ![r] = NoTip]
    /\ UNCHANGED <<todo, crashes>>

\* The process dies, or Postgres ends the transaction.
Crash(r) ==
    /\ crashes < CrashBound
    /\ Abandon(r)
    /\ crashes' = crashes + 1

RelayStep(r) ==
    \/ Begin(r)
    \/ LockRow(r)
    \/ StartBatch(r)
    \/ SkipRow(r)
    \/ InsertEntry(r)
    \/ DuplicateEntry(r)
    \/ FinishBatch(r)

Next ==
    \/ \E E \in Mutation : AppendEvents(E)
    \/ \E r \in Relay : RelayStep(r)
    \/ \E r \in Relay : Crash(r)

Spec == Init /\ [][Next]_vars

\* The relay's interval timer keeps ticking in every instance (relay.ts).
FairSpec == Spec /\ \A r \in Relay : WF_vars(RelayStep(r))

-----------------------------------------------------------------------------
(* Properties. *)

\* The record is exactly what the audit consumer marked: an auditable event
\* has an entry if and only if it is dispatched, whatever the crashes and the
\* stale claims (drainOutbox: "Exactly-once, not at-least-once").
RecordedIffDispatched ==
    \A e \in Event \ NeverAudited :
        e \in dispatched[audit] <=> entry[e] # 0

OfOrg(o) == {e \in Event : OrgOf[e] = o}

\* The chain of every org verifies: positions 1 up to the head, each taken by
\* exactly one event (the per-org lock "makes concurrent inserts a chain
\* rather than a tree", migration 0007).
ChainIntact ==
    \A o \in Org :
        /\ \A e \in OfOrg(o) : entry[e] <= head[o]
        /\ \A n \in 1..head[o] : \E e \in OfOrg(o) : entry[e] = n
        /\ \A e, f \in OfOrg(o) : entry[e] = entry[f] /\ entry[e] # 0 => e = f

\* An instance that is waited for and itself waits, waits for a younger org
\* than the one waiting for it: walking the orgs of a batch in one order "makes
\* a cycle impossible" (drainOutbox), so instances never wait for each other's
\* chain heads in a circle.
WaitsClimb ==
    \A r, q, s \in Relay, e, f \in Event :
        Waits(r, q) /\ IsNext(r, e) /\ Waits(q, s) /\ IsNext(q, f)
            => OrgOf[e] < OrgOf[f]

\* The compliance record is append-only.
AppendOnly ==
    [][\A e \in Event : entry[e] # 0 => entry'[e] = entry[e]]_vars

\* The audit projection implements the record it promises.
Log == INSTANCE AuditLog WITH happened <- outbox,
                              handled <- dispatched[audit],
                              size <- head
RecordKept == Log!Spec

\* Every event is in the end recorded, when crashes stop.
EventuallyRecorded ==
    \A e \in Event : (e \in outbox) ~> (e \in dispatched[audit])
=============================================================================
