------------------------ MODULE AuditProjectionProofs ------------------------
(***************************************************************************)
(* Theorems about the audit projection, for any number of events, orgs and *)
(* instances: the record is exactly-once, its chains verify, and the       *)
(* projection implements AuditLog.                                         *)
(***************************************************************************)
EXTENDS AuditProjection, TLAPS

USE DEF vars, auditVars, outboxVars, OutboxTypeOK, Phase

LEMMA NumbersAreNat == \A e \in Event : e \in Nat /\ OrgOf[e] \in Nat
BY OutboxAssumption, AuditAssumption

LEMMA InitTypeOK == Init => TypeOK
BY OutboxAssumption, AuditAssumption
   DEF Init, OutboxInit, TypeOK, IdleHoldsNothing, NoDraft, NoTip, Drafted

LEMMA HeadSeenNat ==
  ASSUME TypeOK, NEW r \in Relay, NEW o \in Org
  PROVE  HeadSeen(r, o) \in Nat
<1>1. tip[r][o] \in Nat /\ head[o] \in Nat
  BY DEF TypeOK
<1>. QED
  BY <1>1 DEF HeadSeen

\* What an insertion does to the variables.
LEMMA InsertEntryStep ==
  ASSUME TypeOK, NEW r \in Relay, InsertEntry(r)
  PROVE  \E e \in todo[r] \ NeverAudited :
            /\ HeadSeen(r, OrgOf[e]) \in Nat
            /\ IsNext(r, e)
            /\ ~AlreadyAudited(e)
            /\ todo' = [todo EXCEPT ![r] = todo[r] \ {e}]
            /\ draft' = [draft EXCEPT ![r] =
                            [draft[r] EXCEPT ![e] = HeadSeen(r, OrgOf[e]) + 1]]
            /\ tip' = [tip EXCEPT ![r] =
                          [tip[r] EXCEPT ![OrgOf[e]] = HeadSeen(r, OrgOf[e]) + 1]]
<1>1. todo[r] \subseteq Event
  BY DEF TypeOK
<1>2. \A e \in todo[r] : HeadSeen(r, OrgOf[e]) \in Nat
  BY <1>1, HeadSeenNat, AuditAssumption
<1>. QED
  BY <1>2 DEF InsertEntry

LEMMA NextTypeOK == TypeOK /\ [Next]_vars => TypeOK'
<1> SUFFICES ASSUME TypeOK, [Next]_vars PROVE TypeOK'
  OBVIOUS
<1> USE OutboxAssumption, AuditAssumption DEF TypeOK
<1>1. ASSUME NEW E \in Mutation, AppendEvents(E) PROVE TypeOK'
  BY <1>1 DEF AppendEvents, appendToOutbox, IdleHoldsNothing, Drafted
<1>2. ASSUME NEW r \in Relay, Begin(r) PROVE TypeOK'
  BY <1>2 DEF Begin, BeginClaim, Pending, IdleHoldsNothing, Drafted
<1>3. ASSUME NEW r \in Relay, LockRow(r) PROVE TypeOK'
  <2>1. PICK e \in scan[r] :
          /\ scan' = [scan EXCEPT ![r] = @ \ {e}]
          /\ claimed' = IF LockedByOther(r, e)
                        THEN claimed
                        ELSE [claimed EXCEPT ![r] = @ \cup {e}]
    BY <1>3 DEF LockRow, LockNext
  <2>2. OutboxTypeOK'
    BY <1>3, <2>1 DEF LockRow, LockNext
  <2>3. IdleHoldsNothing'
    BY <1>3 DEF LockRow, LockNext, IdleHoldsNothing, Drafted
  <2>. QED
    BY <1>3, <2>2, <2>3 DEF LockRow
<1>4. ASSUME NEW r \in Relay, StartBatch(r) PROVE TypeOK'
  <2>1. OutboxTypeOK' /\ todo' \in [Relay -> SUBSET Event]
    BY <1>4 DEF StartBatch, EndClaim
  <2>2. IdleHoldsNothing'
    BY <1>4 DEF StartBatch, EndClaim, IdleHoldsNothing, Drafted
  <2>. QED
    BY <1>4, <2>1, <2>2 DEF StartBatch
<1>5. ASSUME NEW r \in Relay, SkipRow(r) PROVE TypeOK'
  BY <1>5 DEF SkipRow, IdleHoldsNothing, Drafted
<1>6. ASSUME NEW r \in Relay, InsertEntry(r) PROVE TypeOK'
  <2>. PICK e \in todo[r] \ NeverAudited :
          /\ HeadSeen(r, OrgOf[e]) \in Nat
          /\ todo' = [todo EXCEPT ![r] = todo[r] \ {e}]
          /\ draft' = [draft EXCEPT ![r] =
                          [draft[r] EXCEPT ![e] = HeadSeen(r, OrgOf[e]) + 1]]
          /\ tip' = [tip EXCEPT ![r] =
                        [tip[r] EXCEPT ![OrgOf[e]] = HeadSeen(r, OrgOf[e]) + 1]]
    BY <1>6, InsertEntryStep
  <2>. DEFINE seq == HeadSeen(r, OrgOf[e]) + 1
  <2>1. /\ seq \in Nat
        /\ todo' = [todo EXCEPT ![r] = todo[r] \ {e}]
        /\ draft' = [draft EXCEPT ![r] = [draft[r] EXCEPT ![e] = seq]]
        /\ tip' = [tip EXCEPT ![r] = [tip[r] EXCEPT ![OrgOf[e]] = seq]]
    OBVIOUS
  <2>. HIDE DEF seq
  <2>2. /\ todo' \in [Relay -> SUBSET Event]
        /\ draft' \in [Relay -> [Event -> Nat]]
        /\ tip' \in [Relay -> [Org -> Nat]]
    BY <2>1
  <2>3. phase[r] = "working" /\ phase' = phase
    BY <1>6 DEF InsertEntry
  <2>4. \A q \in Relay \ {r} : draft'[q] = draft[q] /\ todo'[q] = todo[q]
    BY <2>1
  <2>5. \A q \in Relay \ {r} : Drafted(q)' = Drafted(q)
    BY <2>4 DEF Drafted
  <2>7. IdleHoldsNothing'
    BY <2>3, <2>4, <2>5 DEF IdleHoldsNothing
  <2>. QED
    BY <1>6, <2>2, <2>7 DEF InsertEntry
<1>7. ASSUME NEW r \in Relay, Abandon(r), crashes' \in Nat PROVE TypeOK'
  BY <1>7 DEF Abandon, Rollback, NoDraft, NoTip, IdleHoldsNothing, Drafted
<1>8. ASSUME NEW r \in Relay, DuplicateEntry(r) PROVE TypeOK'
  <2>1. Abandon(r) /\ crashes' = crashes
    BY <1>8 DEF DuplicateEntry
  <2>. QED
    BY <1>7, <2>1
<1>9. ASSUME NEW r \in Relay, FinishBatch(r) PROVE TypeOK'
  <2>1. OutboxTypeOK'
    BY <1>9 DEF FinishBatch, MarkAndCommit
  <2>2. entry' \in [Event -> Nat] /\ head' \in [Org -> Nat]
    BY <1>9 DEF FinishBatch
  <2>3. draft' \in [Relay -> [Event -> Nat]] /\ tip' \in [Relay -> [Org -> Nat]]
    BY <1>9 DEF FinishBatch, NoDraft, NoTip
  <2>4. IdleHoldsNothing'
    BY <1>9 DEF FinishBatch, MarkAndCommit, NoDraft, IdleHoldsNothing, Drafted
  <2>. QED
    BY <1>9, <2>1, <2>2, <2>3, <2>4 DEF FinishBatch
<1>10. ASSUME NEW r \in Relay, Crash(r) PROVE TypeOK'
  BY <1>7, <1>10 DEF Crash
<1>11. CASE UNCHANGED vars
  BY <1>11 DEF IdleHoldsNothing, Drafted
<1>. QED
  BY <1>1, <1>2, <1>3, <1>4, <1>5, <1>6, <1>8, <1>9, <1>10, <1>11
     DEF Next, RelayStep

\* Every variable keeps its type; an instance outside a drain transaction has
\* no lock, no row and no uncommitted entry.
THEOREM TypeCorrect == Spec => []TypeOK
<1>1. Init => TypeOK
  BY InitTypeOK
<1>2. TypeOK /\ [Next]_vars => TypeOK'
  BY NextTypeOK
<1>. QED
  BY <1>1, <1>2, PTL DEF Spec

-----------------------------------------------------------------------------
(* The inductive invariant. *)

\* Row locks are exclusive (FOR UPDATE SKIP LOCKED).
RowsExclusive == \A r, q \in Relay : r # q => claimed[r] \cap claimed[q] = {}

\* What the open transaction of an instance has and has not written: its loop
\* drafts an entry for every claimed auditable row it has passed, and for no
\* event that is recorded.
BatchHeld ==
    \A r \in Relay :
        /\ scan[r] \subseteq outbox
        /\ claimed[r] \subseteq outbox
        /\ todo[r] \subseteq claimed[r]
        /\ Drafted(r) \subseteq claimed[r] \ (todo[r] \cup NeverAudited)
        /\ phase[r] = "working"
              => claimed[r] \ (todo[r] \cup NeverAudited) \subseteq Drafted(r)
        /\ \A e \in Drafted(r) : entry[e] = 0

\* An org's chain head is locked by one instance at most.
HeadsExclusive ==
    \A r, q \in Relay, o \in Org :
        HoldsHead(r, o) /\ HoldsHead(q, o) => r = q

\* The uncommitted entries of an instance continue the committed chain.
DraftsDense ==
    \A r \in Relay, o \in Org : HoldsHead(r, o) =>
        /\ head[o] < tip[r][o]
        /\ \A e \in Drafted(r) :
              OrgOf[e] = o => draft[r][e] \in head[o] + 1 .. tip[r][o]
        /\ \A n \in head[o] + 1 .. tip[r][o] :
              \E e \in Drafted(r) : OrgOf[e] = o /\ draft[r][e] = n
        /\ \A e, f \in Drafted(r) :
              OrgOf[e] = o /\ OrgOf[f] = o /\ draft[r][e] = draft[r][f] => e = f

\* The loop passes its rows in the order of their orgs.
InOrder ==
    \A r \in Relay : \A e \in Drafted(r), f \in todo[r] : Before(e, f)

IInv == /\ TypeOK
        /\ RowsExclusive
        /\ BatchHeld
        /\ HeadsExclusive
        /\ DraftsDense
        /\ InOrder
        /\ RecordedIffDispatched
        /\ ChainIntact

\* The steps that touch neither the entries nor the chains.
Quiet == UNCHANGED <<draft, tip, entry, head>>

LEMMA StepKinds ==
  ASSUME [Next]_vars
  PROVE  \/ Quiet
         \/ \E r \in Relay : InsertEntry(r) \/ Abandon(r) \/ FinishBatch(r)
BY DEF Next, RelayStep, Quiet, AppendEvents, Begin, LockRow, StartBatch, SkipRow,
       DuplicateEntry, Crash

LEMMA NextRowsExclusive == TypeOK /\ RowsExclusive /\ [Next]_vars => RowsExclusive'
<1> SUFFICES ASSUME TypeOK, RowsExclusive, [Next]_vars PROVE RowsExclusive'
  OBVIOUS
<1> USE DEF RowsExclusive, TypeOK
<1>1. ASSUME NEW r \in Relay, LockRow(r) PROVE RowsExclusive'
  <2>1. PICK e \in scan[r] : claimed' = IF LockedByOther(r, e)
                                        THEN claimed
                                        ELSE [claimed EXCEPT ![r] = @ \cup {e}]
    BY <1>1 DEF LockRow, LockNext
  <2>. QED
    BY <2>1 DEF LockedByOther
<1>2. ASSUME NEW r \in Relay, claimed' = [claimed EXCEPT ![r] = {}]
      PROVE  RowsExclusive'
  BY <1>2
<1>3. CASE UNCHANGED claimed
  BY <1>3
<1>. QED
  BY <1>1, <1>2, <1>3
     DEF Next, RelayStep, AppendEvents, appendToOutbox, Begin, BeginClaim, StartBatch,
         EndClaim, SkipRow, InsertEntry, DuplicateEntry, Abandon, Rollback,
         FinishBatch, MarkAndCommit, Crash

\* An insertion adds one event to the instance's drafts.
LEMMA InsertDrafts ==
  ASSUME TypeOK, NEW r \in Relay, InsertEntry(r), NEW e \in Event, NEW n \in Nat,
         n > 0,
         draft' = [draft EXCEPT ![r] = [draft[r] EXCEPT ![e] = n]]
  PROVE  /\ Drafted(r)' = Drafted(r) \cup {e}
         /\ \A q \in Relay \ {r} : Drafted(q)' = Drafted(q)
BY DEF TypeOK, Drafted

LEMMA AbandonDrafts ==
  ASSUME TypeOK, NEW r \in Relay, draft' = [draft EXCEPT ![r] = NoDraft]
  PROVE  /\ Drafted(r)' = {}
         /\ \A q \in Relay \ {r} : Drafted(q)' = Drafted(q)
BY DEF TypeOK, Drafted, NoDraft

LEMMA NextBatchHeld ==
  TypeOK /\ RowsExclusive /\ BatchHeld /\ [Next]_vars => BatchHeld'
<1> SUFFICES ASSUME TypeOK, RowsExclusive, BatchHeld, [Next]_vars PROVE BatchHeld'
  OBVIOUS
<1> USE DEF BatchHeld, TypeOK
<1>0. Quiet => \A q \in Relay : Drafted(q)' = Drafted(q)
  BY DEF Quiet, Drafted
<1>1. ASSUME NEW E \in Mutation, AppendEvents(E) PROVE BatchHeld'
  BY <1>0, <1>1 DEF AppendEvents, appendToOutbox, Quiet
<1>2. ASSUME NEW r \in Relay, Begin(r) PROVE BatchHeld'
  BY <1>0, <1>2 DEF Begin, BeginClaim, Pending, Quiet
<1>3. ASSUME NEW r \in Relay, LockRow(r) PROVE BatchHeld'
  <2>1. PICK e \in scan[r] :
          /\ scan' = [scan EXCEPT ![r] = @ \ {e}]
          /\ claimed' = IF LockedByOther(r, e)
                        THEN claimed
                        ELSE [claimed EXCEPT ![r] = @ \cup {e}]
    BY <1>3 DEF LockRow, LockNext
  <2>2. /\ \A q \in Relay : claimed[q] \subseteq claimed'[q]
        /\ \A q \in Relay : claimed'[q] \subseteq outbox
        /\ \A q \in Relay \ {r} : claimed'[q] = claimed[q]
        /\ \A q \in Relay : scan'[q] \subseteq outbox
    BY <2>1
  <2>3. Quiet /\ UNCHANGED <<outbox, phase, todo>> /\ phase[r] = "scanning"
    BY <1>3 DEF LockRow, LockNext, Quiet
  <2>4. entry' = entry /\ \A q \in Relay : Drafted(q)' = Drafted(q)
    BY <1>0, <2>3 DEF Quiet
  <2>. HIDE DEF TypeOK
  <2>. QED
    BY <2>2, <2>3, <2>4
<1>4. ASSUME NEW r \in Relay, StartBatch(r) PROVE BatchHeld'
  <2>1. Drafted(r) = {}
    BY <1>4 DEF StartBatch, EndClaim, IdleHoldsNothing
  <2>2. Quiet /\ UNCHANGED <<outbox, claimed>>
    BY <1>4 DEF StartBatch, EndClaim, Quiet
  <2>3. /\ scan'[r] = {} /\ todo'[r] = claimed[r]
        /\ \A q \in Relay \ {r} :
              scan'[q] = scan[q] /\ todo'[q] = todo[q] /\ phase'[q] = phase[q]
    BY <1>4 DEF StartBatch, EndClaim
  <2>4. entry' = entry /\ \A q \in Relay : Drafted(q)' = Drafted(q)
    BY <1>0, <2>2 DEF Quiet
  <2>. HIDE DEF TypeOK
  <2>. QED
    BY <2>1, <2>2, <2>3, <2>4
<1>5. ASSUME NEW r \in Relay, SkipRow(r) PROVE BatchHeld'
  BY <1>0, <1>5 DEF SkipRow, Quiet
<1>6. ASSUME NEW r \in Relay, InsertEntry(r) PROVE BatchHeld'
  <2>1. PICK e \in todo[r] \ NeverAudited :
          /\ HeadSeen(r, OrgOf[e]) \in Nat
          /\ ~AlreadyAudited(e)
          /\ todo' = [todo EXCEPT ![r] = todo[r] \ {e}]
          /\ draft' = [draft EXCEPT ![r] =
                          [draft[r] EXCEPT ![e] = HeadSeen(r, OrgOf[e]) + 1]]
    BY <1>6, InsertEntryStep
  <2>2. /\ Drafted(r)' = Drafted(r) \cup {e}
        /\ \A q \in Relay \ {r} : Drafted(q)' = Drafted(q)
    <3>. DEFINE n == HeadSeen(r, OrgOf[e]) + 1
    <3>1. n \in Nat /\ n > 0
      BY <2>1
    <3>2. draft' = [draft EXCEPT ![r] = [draft[r] EXCEPT ![e] = n]] /\ e \in Event
      BY <2>1
    <3>. HIDE DEF n
    <3>. QED
      BY <1>6, <3>1, <3>2, InsertDrafts
  <2>3. entry[e] = 0
    BY <2>1 DEF AlreadyAudited
  <2>4. UNCHANGED <<outbox, scan, claimed, phase, entry>>
    BY <1>6 DEF InsertEntry
  <2>. QED
    BY <2>1, <2>2, <2>3, <2>4
<1>7. ASSUME NEW r \in Relay, Abandon(r) PROVE BatchHeld'
  <2>1. /\ Drafted(r)' = {}
        /\ \A q \in Relay \ {r} : Drafted(q)' = Drafted(q)
    BY <1>7, AbandonDrafts DEF Abandon
  <2>. QED
    BY <1>7, <2>1 DEF Abandon, Rollback
<1>8. ASSUME NEW r \in Relay, DuplicateEntry(r) PROVE BatchHeld'
  BY <1>7, <1>8 DEF DuplicateEntry
<1>9. ASSUME NEW r \in Relay, FinishBatch(r) PROVE BatchHeld'
  <2>1. /\ Drafted(r)' = {}
        /\ \A q \in Relay \ {r} : Drafted(q)' = Drafted(q)
    BY <1>9, AbandonDrafts DEF FinishBatch
  <2>2. \A q \in Relay \ {r} : \A e \in Drafted(q) : entry'[e] = 0
    <3>1. \A q \in Relay \ {r} : Drafted(q) \cap Drafted(r) = {}
      BY DEF RowsExclusive
    <3>2. \A e \in Event \ Drafted(r) : entry'[e] = entry[e]
      BY <1>9 DEF FinishBatch
    <3>. QED
      BY <3>1, <3>2
  <2>3. /\ UNCHANGED <<outbox, scan, todo>>
        /\ claimed' = [claimed EXCEPT ![r] = {}]
        /\ todo[r] = {}
        /\ phase' = [phase EXCEPT ![r] = "idle"]
    BY <1>9 DEF FinishBatch, MarkAndCommit
  <2>. QED
    BY <2>1, <2>2, <2>3
<1>10. ASSUME NEW r \in Relay, Crash(r) PROVE BatchHeld'
  BY <1>7, <1>10 DEF Crash
<1>11. CASE UNCHANGED vars
  BY <1>0, <1>11 DEF Quiet
<1>. QED
  BY <1>1, <1>2, <1>3, <1>4, <1>5, <1>6, <1>8, <1>9, <1>10, <1>11
     DEF Next, RelayStep

\* The trigger inserts into a chain whose head no other instance has locked.
LEMMA InsertAlone ==
  ASSUME TypeOK, NEW r \in Relay, InsertEntry(r),
         NEW e \in todo[r] \ NeverAudited, IsNext(r, e), NEW q \in Relay \ {r}
  PROVE  ~HoldsHead(q, OrgOf[e])
<1> SUFFICES ASSUME HoldsHead(q, OrgOf[e]) PROVE FALSE
  OBVIOUS
<1>1. Waits(r, q)
  BY DEF Waits, InsertEntry
<1>. QED
  BY <1>1 DEF InsertEntry

\* What a step that writes does to the drafts and heads.
LEMMA InsertEffect ==
  ASSUME TypeOK, NEW r \in Relay, InsertEntry(r)
  PROVE  \E e \in todo[r] \ NeverAudited, n \in Nat :
            /\ IsNext(r, e)
            /\ n = HeadSeen(r, OrgOf[e]) + 1
            /\ \A q \in Relay \ {r} : ~HoldsHead(q, OrgOf[e])
            /\ todo' = [todo EXCEPT ![r] = todo[r] \ {e}]
            /\ Drafted(r)' = Drafted(r) \cup {e}
            /\ \A q \in Relay \ {r} : Drafted(q)' = Drafted(q)
            /\ draft' = [draft EXCEPT ![r] = [draft[r] EXCEPT ![e] = n]]
            /\ tip' = [tip EXCEPT ![r] = [tip[r] EXCEPT ![OrgOf[e]] = n]]
            /\ UNCHANGED <<outboxVars, entry, head>>
<1>1. PICK e \in todo[r] \ NeverAudited :
        /\ HeadSeen(r, OrgOf[e]) \in Nat
        /\ IsNext(r, e)
        /\ todo' = [todo EXCEPT ![r] = todo[r] \ {e}]
        /\ draft' = [draft EXCEPT ![r] =
                        [draft[r] EXCEPT ![e] = HeadSeen(r, OrgOf[e]) + 1]]
        /\ tip' = [tip EXCEPT ![r] =
                      [tip[r] EXCEPT ![OrgOf[e]] = HeadSeen(r, OrgOf[e]) + 1]]
  BY InsertEntryStep
<1>. DEFINE n == HeadSeen(r, OrgOf[e]) + 1
<1>2. n \in Nat /\ n > 0 /\ n = HeadSeen(r, OrgOf[e]) + 1
  BY <1>1
<1>3. /\ draft' = [draft EXCEPT ![r] = [draft[r] EXCEPT ![e] = n]]
      /\ tip' = [tip EXCEPT ![r] = [tip[r] EXCEPT ![OrgOf[e]] = n]]
  BY <1>1
<1>. HIDE DEF n
<1>4. e \in Event
  BY DEF TypeOK
<1>5. /\ Drafted(r)' = Drafted(r) \cup {e}
      /\ \A q \in Relay \ {r} : Drafted(q)' = Drafted(q)
  BY <1>2, <1>3, <1>4, InsertDrafts
<1>6. \A q \in Relay \ {r} : ~HoldsHead(q, OrgOf[e])
  BY <1>1, InsertAlone
<1>7. UNCHANGED <<outboxVars, entry, head>>
  BY DEF InsertEntry
<1>. QED
  BY <1>1, <1>2, <1>3, <1>5, <1>6, <1>7

LEMMA NextHeadsExclusive ==
  TypeOK /\ HeadsExclusive /\ [Next]_vars => HeadsExclusive'
<1> SUFFICES ASSUME TypeOK, HeadsExclusive, [Next]_vars PROVE HeadsExclusive'
  OBVIOUS
<1> USE DEF HeadsExclusive, HoldsHead
<1>1. CASE Quiet
  BY <1>1 DEF Quiet, Drafted
<1>2. ASSUME NEW r \in Relay, InsertEntry(r) PROVE HeadsExclusive'
  <2>1. PICK e \in todo[r] \ NeverAudited :
          /\ \A q \in Relay \ {r} : ~HoldsHead(q, OrgOf[e])
          /\ Drafted(r)' = Drafted(r) \cup {e}
          /\ \A q \in Relay \ {r} : Drafted(q)' = Drafted(q)
    BY <1>2, InsertEffect
  <2>. QED
    BY <2>1
<1>3. ASSUME NEW r \in Relay, draft' = [draft EXCEPT ![r] = NoDraft]
      PROVE  HeadsExclusive'
  <2>1. /\ Drafted(r)' = {}
        /\ \A q \in Relay \ {r} : Drafted(q)' = Drafted(q)
    BY <1>3, AbandonDrafts
  <2>. QED
    BY <2>1
<1>. QED
  BY <1>1, <1>2, <1>3, StepKinds DEF Abandon, FinishBatch

LEMMA NextInOrder == TypeOK /\ InOrder /\ [Next]_vars => InOrder'
<1> SUFFICES ASSUME TypeOK, InOrder, [Next]_vars PROVE InOrder'
  OBVIOUS
<1> USE DEF InOrder
<1>1. ASSUME Quiet, \A q \in Relay : todo'[q] \subseteq todo[q] \/ Drafted(q) = {}
      PROVE  InOrder'
  <2>1. \A q \in Relay : Drafted(q)' = Drafted(q)
    BY <1>1 DEF Quiet, Drafted
  <2>2. \A e, f : Before(e, f)' = Before(e, f)
    BY DEF Before
  <2>. QED
    BY <1>1, <2>1, <2>2
<1>2. ASSUME NEW r \in Relay, InsertEntry(r) PROVE InOrder'
  <2>1. PICK e \in todo[r] \ NeverAudited :
          /\ IsNext(r, e)
          /\ todo' = [todo EXCEPT ![r] = todo[r] \ {e}]
          /\ Drafted(r)' = Drafted(r) \cup {e}
          /\ \A q \in Relay \ {r} : Drafted(q)' = Drafted(q)
    BY <1>2, InsertEffect
  <2>2. \A q \in Relay : todo'[q] \subseteq todo[q]
    BY <2>1 DEF TypeOK
  <2>3. \A f \in todo[r] : Before(e, f)
    BY <2>1 DEF IsNext
  <2>4. \A d, f : Before(d, f)' = Before(d, f)
    BY DEF Before
  <2>. QED
    BY <2>1, <2>2, <2>3, <2>4
<1>3. ASSUME NEW r \in Relay, draft' = [draft EXCEPT ![r] = NoDraft],
             \A q \in Relay : todo'[q] \subseteq todo[q]
      PROVE  InOrder'
  <2>1. /\ Drafted(r)' = {}
        /\ \A q \in Relay \ {r} : Drafted(q)' = Drafted(q)
    BY <1>3, AbandonDrafts
  <2>2. \A d, f : Before(d, f)' = Before(d, f)
    BY DEF Before
  <2>. QED
    BY <1>3, <2>1, <2>2
<1>4. ASSUME NEW r \in Relay, StartBatch(r) PROVE InOrder'
  <2>1. Drafted(r) = {}
    BY <1>4 DEF StartBatch, EndClaim, TypeOK, IdleHoldsNothing
  <2>2. \A q \in Relay \ {r} : todo'[q] = todo[q]
    BY <1>4 DEF StartBatch, TypeOK
  <2>3. Quiet
    BY <1>4 DEF StartBatch, Quiet
  <2>. QED
    BY <1>1, <2>1, <2>2, <2>3
<1>5. ASSUME NEW r \in Relay, SkipRow(r) PROVE InOrder'
  BY <1>1, <1>5 DEF SkipRow, Quiet, TypeOK
<1>6. ASSUME Quiet, UNCHANGED todo PROVE InOrder'
  BY <1>1, <1>6
<1>7. ASSUME NEW r \in Relay, Abandon(r) PROVE InOrder'
  BY <1>3, <1>7 DEF Abandon, TypeOK
<1>8. ASSUME NEW r \in Relay, FinishBatch(r) PROVE InOrder'
  BY <1>3, <1>8 DEF FinishBatch, TypeOK
<1>. QED
  BY <1>2, <1>4, <1>5, <1>6, <1>7, <1>8
     DEF Next, RelayStep, Quiet, AppendEvents, Begin, LockRow,
         DuplicateEntry, Crash

\* DraftsDense for one instance and one org.
DenseAt(r, o) == HoldsHead(r, o) =>
    /\ head[o] < tip[r][o]
    /\ \A e \in Drafted(r) :
          OrgOf[e] = o => draft[r][e] \in head[o] + 1 .. tip[r][o]
    /\ \A n \in head[o] + 1 .. tip[r][o] :
          \E e \in Drafted(r) : OrgOf[e] = o /\ draft[r][e] = n
    /\ \A e, f \in Drafted(r) :
          OrgOf[e] = o /\ OrgOf[f] = o /\ draft[r][e] = draft[r][f] => e = f

\* Where nothing of an instance and an org moves, its drafts stay dense.
LEMMA DenseKept ==
  ASSUME NEW r \in Relay, NEW o \in Org, DenseAt(r, o),
         Drafted(r)' = Drafted(r),
         draft'[r] = draft[r], tip'[r] = tip[r],
         HoldsHead(r, o) => head'[o] = head[o]
  PROVE  DenseAt(r, o)'
<1>1. HoldsHead(r, o)' = HoldsHead(r, o)
  BY DEF HoldsHead
<1>. QED
  BY <1>1 DEF DenseAt

\* The org an entry is inserted for: its drafts grow by the next position.
LEMMA DenseGrows ==
  ASSUME TypeOK, NEW r \in Relay, NEW e \in Event \ Drafted(r), NEW n \in Nat,
         DenseAt(r, OrgOf[e]),
         n = HeadSeen(r, OrgOf[e]) + 1,
         Drafted(r)' = Drafted(r) \cup {e},
         draft' = [draft EXCEPT ![r] = [draft[r] EXCEPT ![e] = n]],
         tip' = [tip EXCEPT ![r] = [tip[r] EXCEPT ![OrgOf[e]] = n]],
         UNCHANGED head
  PROVE  DenseAt(r, OrgOf[e])'
<1>. DEFINE o == OrgOf[e]
<1>0. o \in Org
  BY AuditAssumption
<1>1. tip'[r][o] = n /\ draft'[r][e] = n /\ head'[o] = head[o]
  BY <1>0 DEF TypeOK
<1>2. \A f \in Drafted(r) : draft'[r][f] = draft[r][f] /\ f # e
  BY DEF TypeOK, Drafted
<1>3. head[o] \in Nat /\ tip[r][o] \in Nat
  BY <1>0 DEF TypeOK
<1>4. CASE HoldsHead(r, o)
  <2>1. n = tip[r][o] + 1 /\ head[o] < tip[r][o]
    BY <1>4 DEF HeadSeen, DenseAt
  <2>2. \A m \in head[o] + 1 .. n : m = n \/ m \in head[o] + 1 .. tip[r][o]
    BY <1>3, <2>1
  <2>3. \A m \in head[o] + 1 .. tip[r][o] : m \in head[o] + 1 .. n /\ m # n
    BY <1>3, <2>1
  <2>4. n \in head[o] + 1 .. n
    BY <1>3, <2>1
  <2>. HIDE DEF o
  <2>5. DenseAt(r, o)
    BY DEF o
  <2>6. e \in Drafted(r)' /\ OrgOf[e] = o
    BY DEF o
  <2>7. head[o] < n
    BY <1>3, <2>1
  <2>8. \A f \in Drafted(r)' :
          OrgOf[f] = o => draft'[r][f] \in head[o] + 1 .. n
    BY <1>1, <1>2, <1>4, <2>3, <2>4, <2>5 DEF DenseAt
  <2>9. \A m \in head[o] + 1 .. n :
          \E f \in Drafted(r)' : OrgOf[f] = o /\ draft'[r][f] = m
    BY <1>1, <1>2, <1>4, <2>2, <2>5, <2>6 DEF DenseAt
  <2>10. \A f, g \in Drafted(r)' :
           OrgOf[f] = o /\ OrgOf[g] = o /\ draft'[r][f] = draft'[r][g] => f = g
    BY <1>1, <1>2, <1>4, <2>3, <2>5 DEF DenseAt
  <2>11. DenseAt(r, o)'
    BY <1>1, <2>7, <2>8, <2>9, <2>10 DEF DenseAt
  <2>. QED
    BY <2>11 DEF o
<1>5. CASE ~HoldsHead(r, o)
  <2>1. n = head[o] + 1
    BY <1>5 DEF HeadSeen
  <2>2. \A f \in Drafted(r)' : OrgOf[f] = o => f = e
    BY <1>5 DEF HoldsHead
  <2>3. head[o] < n /\ head[o] + 1 .. n = {n}
    BY <1>3, <2>1
  <2>. QED
    BY <1>1, <2>2, <2>3 DEF DenseAt
<1>. QED
  BY <1>4, <1>5

LEMMA NextDraftsDense ==
  /\ TypeOK /\ BatchHeld /\ HeadsExclusive /\ DraftsDense
  /\ [Next]_vars
  => DraftsDense'
<1> SUFFICES ASSUME TypeOK, BatchHeld, HeadsExclusive, DraftsDense, [Next]_vars,
                    NEW q \in Relay, NEW o \in Org
             PROVE  DenseAt(q, o)'
  BY DEF DraftsDense, DenseAt
<1>0. DenseAt(q, o)
  BY DEF DraftsDense, DenseAt
<1>1. CASE Quiet
  BY <1>0, <1>1, DenseKept DEF Quiet, Drafted
<1>2. ASSUME NEW r \in Relay, InsertEntry(r) PROVE DenseAt(q, o)'
  <2>1. PICK e \in todo[r] \ NeverAudited, n \in Nat :
          /\ n = HeadSeen(r, OrgOf[e]) + 1
          /\ Drafted(r)' = Drafted(r) \cup {e}
          /\ \A s \in Relay \ {r} : Drafted(s)' = Drafted(s)
          /\ draft' = [draft EXCEPT ![r] = [draft[r] EXCEPT ![e] = n]]
          /\ tip' = [tip EXCEPT ![r] = [tip[r] EXCEPT ![OrgOf[e]] = n]]
          /\ UNCHANGED <<outboxVars, entry, head>>
    BY <1>2, InsertEffect
  <2>2. e \in Event \ Drafted(r)
    BY DEF BatchHeld, TypeOK
  <2>3. CASE q # r
    BY <1>0, <2>1, <2>3, DenseKept DEF TypeOK
  <2>4. CASE q = r /\ o = OrgOf[e]
    BY <1>0, <2>1, <2>2, <2>4, DenseGrows
  <2>5. CASE q = r /\ o # OrgOf[e]
    <3>1. HoldsHead(r, o)' = HoldsHead(r, o)
      BY <2>1, <2>5 DEF HoldsHead
    <3>2. tip'[r][o] = tip[r][o]
      BY <2>1, <2>5 DEF TypeOK
    <3>3. \A f \in Drafted(r) : draft'[r][f] = draft[r][f]
      BY <2>1, <2>2 DEF TypeOK, Drafted
    <3>. QED
      BY <1>0, <2>1, <2>5, <3>1, <3>2, <3>3 DEF DenseAt
  <2>. QED
    BY <2>3, <2>4, <2>5
<1>3. ASSUME NEW r \in Relay,
             draft' = [draft EXCEPT ![r] = NoDraft],
             tip' = [tip EXCEPT ![r] = NoTip],
             ~HoldsHead(r, o) => head'[o] = head[o]
      PROVE  DenseAt(q, o)'
  <2>1. /\ Drafted(r)' = {}
        /\ \A s \in Relay \ {r} : Drafted(s)' = Drafted(s)
    BY <1>3, AbandonDrafts
  <2>2. CASE q = r
    BY <2>1, <2>2 DEF DenseAt, HoldsHead
  <2>3. CASE q # r
    <3>1. HoldsHead(q, o) => head'[o] = head[o]
      BY <1>3, <2>3 DEF HeadsExclusive
    <3>. QED
      BY <1>0, <1>3, <2>1, <2>3, <3>1, DenseKept DEF TypeOK
  <2>. QED
    BY <2>2, <2>3
<1>4. ASSUME NEW r \in Relay, Abandon(r) PROVE DenseAt(q, o)'
  BY <1>3, <1>4 DEF Abandon
<1>5. ASSUME NEW r \in Relay, FinishBatch(r) PROVE DenseAt(q, o)'
  BY <1>3, <1>5 DEF FinishBatch
<1>. QED
  BY <1>1, <1>2, <1>4, <1>5, StepKinds

\* A projector that has passed its whole batch drafted its auditable rows.
LEMMA BatchDrafted ==
  ASSUME BatchHeld, NEW r \in Relay, FinishBatch(r)
  PROVE  Drafted(r) = claimed[r] \ NeverAudited
BY DEF BatchHeld, FinishBatch, MarkAndCommit

LEMMA NextRecorded ==
  TypeOK /\ BatchHeld /\ RecordedIffDispatched /\ [Next]_vars
    => RecordedIffDispatched'
<1> SUFFICES ASSUME TypeOK, BatchHeld, RecordedIffDispatched, [Next]_vars
             PROVE  RecordedIffDispatched'
  OBVIOUS
<1>1. ASSUME UNCHANGED <<entry, dispatched>> PROVE RecordedIffDispatched'
  BY <1>1 DEF RecordedIffDispatched
<1>2. ASSUME NEW r \in Relay, FinishBatch(r) PROVE RecordedIffDispatched'
  <2>1. ConsumerOf[r] = audit
    BY AuditAssumption
  <2>2. dispatched'[audit] = dispatched[audit] \cup claimed[r]
    BY <1>2, <2>1, AuditAssumption DEF FinishBatch, MarkAndCommit, TypeOK
  <2>3. \A e \in Event : entry'[e] # 0 <=> e \in Drafted(r) \/ entry[e] # 0
    BY <1>2 DEF FinishBatch, Drafted
  <2>. QED
    BY <1>2, <2>2, <2>3, BatchDrafted DEF RecordedIffDispatched
<1>. QED
  BY <1>1, <1>2
     DEF Next, RelayStep, AppendEvents, appendToOutbox, Begin, BeginClaim, LockRow,
         LockNext, StartBatch, EndClaim, SkipRow, InsertEntry, DuplicateEntry,
         Abandon, Rollback, Crash

\* What a committed batch does to the record.
LEMMA BatchRecords ==
  ASSUME TypeOK, BatchHeld, DraftsDense, NEW r \in Relay, FinishBatch(r),
         NEW o \in Org
  PROVE  /\ \A e \in Event \ Drafted(r) : entry'[e] = entry[e]
         /\ \A e \in Drafted(r) : entry[e] = 0
         /\ ~HoldsHead(r, o) => head'[o] = head[o]
         /\ HoldsHead(r, o) =>
              /\ head[o] < head'[o]
              /\ \A e \in Drafted(r) :
                    OrgOf[e] = o => entry'[e] \in head[o] + 1 .. head'[o]
              /\ \A n \in head[o] + 1 .. head'[o] :
                    \E e \in Drafted(r) : OrgOf[e] = o /\ entry'[e] = n
              /\ \A e, f \in Drafted(r) :
                    OrgOf[e] = o /\ OrgOf[f] = o /\ entry'[e] = entry'[f] => e = f
<1>1. /\ \A e \in Event \ Drafted(r) : entry'[e] = entry[e]
      /\ \A e \in Drafted(r) : entry'[e] = draft[r][e]
  BY DEF FinishBatch, Drafted
<1>2. head'[o] = IF HoldsHead(r, o) THEN tip[r][o] ELSE head[o]
  BY DEF FinishBatch
<1>3. \A e \in Drafted(r) : entry[e] = 0
  BY DEF BatchHeld
<1>. QED
  BY <1>1, <1>2, <1>3 DEF DraftsDense

\* ChainIntact for one org.
IntactAt(o) ==
    /\ \A e \in OfOrg(o) : entry[e] <= head[o]
    /\ \A n \in 1..head[o] : \E e \in OfOrg(o) : entry[e] = n
    /\ \A e, f \in OfOrg(o) : entry[e] = entry[f] /\ entry[e] # 0 => e = f

LEMMA NextChainIntact ==
  TypeOK /\ BatchHeld /\ DraftsDense /\ ChainIntact /\ [Next]_vars => ChainIntact'
<1> SUFFICES ASSUME TypeOK, BatchHeld, DraftsDense, ChainIntact, [Next]_vars,
                    NEW o \in Org
             PROVE  IntactAt(o)'
  BY DEF ChainIntact, IntactAt
<1>0. IntactAt(o)
  BY DEF ChainIntact, IntactAt
<1>1. ASSUME UNCHANGED <<entry, head>> PROVE IntactAt(o)'
  BY <1>0, <1>1 DEF IntactAt, OfOrg
<1>2. ASSUME NEW r \in Relay, FinishBatch(r) PROVE IntactAt(o)'
  <2>0. /\ entry \in [Event -> Nat] /\ entry' \in [Event -> Nat]
        /\ head[o] \in Nat /\ head'[o] \in Nat
    BY NextTypeOK DEF TypeOK
  <2>1. OfOrg(o)' = OfOrg(o) /\ Drafted(r) \subseteq Event
    BY DEF OfOrg, Drafted
  <2>2. CASE ~HoldsHead(r, o)
    <3>1. head'[o] = head[o]
      BY <1>2, <2>2, BatchRecords
    <3>2. \A e \in OfOrg(o) : entry'[e] = entry[e]
      BY <1>2, <2>2, BatchRecords DEF HoldsHead, OfOrg
    <3>. QED
      BY <1>0, <2>1, <3>1, <3>2 DEF IntactAt
  <2>3. CASE HoldsHead(r, o)
    <3>. DEFINE D == {e \in Drafted(r) : OrgOf[e] = o}
    <3>1. /\ head[o] < head'[o]
          /\ \A e \in D : entry[e] = 0 /\ entry'[e] \in head[o] + 1 .. head'[o]
          /\ \A n \in head[o] + 1 .. head'[o] : \E e \in D : entry'[e] = n
          /\ \A e, f \in D : entry'[e] = entry'[f] => e = f
      BY <1>2, <2>3, BatchRecords
    <3>2. D \subseteq OfOrg(o) /\ \A e \in OfOrg(o) \ D : entry'[e] = entry[e]
      BY <1>2, <2>1, BatchRecords DEF OfOrg
    <3>. HIDE DEF D
    <3>3. \A e \in OfOrg(o) : entry'[e] <= head'[o]
      BY <1>0, <2>0, <3>1, <3>2 DEF IntactAt, OfOrg
    <3>4. ASSUME NEW n \in 1 .. head'[o] PROVE \E e \in OfOrg(o) : entry'[e] = n
      <4>1. CASE n \in head[o] + 1 .. head'[o]
        BY <3>1, <3>2, <4>1
      <4>2. CASE n \in 1 .. head[o]
        <5>1. PICK e \in OfOrg(o) : entry[e] = n
          BY <1>0, <4>2 DEF IntactAt
        <5>2. e \notin D
          BY <3>1, <5>1
        <5>. QED
          BY <3>2, <5>1, <5>2
      <4>. QED
        BY <2>0, <4>1, <4>2
    <3>5. ASSUME NEW e \in OfOrg(o), NEW f \in OfOrg(o),
                 entry'[e] = entry'[f], entry'[e] # 0
          PROVE  e = f
      <4>1. \A g \in OfOrg(o) \ D : entry'[g] <= head[o]
        BY <1>0, <3>2 DEF IntactAt
      <4>2. \A g \in D : entry'[g] > head[o]
        BY <2>0, <3>1
      <4>3. e \in D <=> f \in D
        BY <2>0, <3>5, <4>1, <4>2 DEF OfOrg
      <4>. QED
        BY <1>0, <3>1, <3>2, <3>5, <4>3 DEF IntactAt
    <3>. QED
      BY <2>1, <3>3, <3>4, <3>5 DEF IntactAt
  <2>. QED
    BY <2>2, <2>3
<1>. QED
  BY <1>1, <1>2, StepKinds DEF Quiet, InsertEntry, Abandon

LEMMA InitIInv == Init => IInv
<1> SUFFICES ASSUME Init PROVE IInv
  OBVIOUS
<1> USE DEF Init, OutboxInit, NoDraft, NoTip
<1>1. \A r \in Relay : Drafted(r) = {}
  BY DEF Drafted
<1>2. \A r \in Relay, o \in Org : ~HoldsHead(r, o)
  BY <1>1 DEF HoldsHead
<1>3. TypeOK
  BY InitTypeOK
<1>4. RowsExclusive /\ BatchHeld /\ InOrder
  BY <1>1 DEF RowsExclusive, BatchHeld, InOrder
<1>5. HeadsExclusive /\ DraftsDense
  BY <1>2 DEF HeadsExclusive, DraftsDense
<1>6. RecordedIffDispatched
  BY AuditAssumption DEF RecordedIffDispatched
<1>7. ChainIntact
  BY DEF ChainIntact, OfOrg
<1>. QED
  BY <1>3, <1>4, <1>5, <1>6, <1>7 DEF IInv

LEMMA NextIInv == IInv /\ [Next]_vars => IInv'
BY NextTypeOK, NextRowsExclusive, NextBatchHeld, NextHeadsExclusive,
   NextDraftsDense, NextInOrder, NextRecorded, NextChainIntact DEF IInv

LEMMA Inductive == Spec => []IInv
<1>1. Init => IInv
  BY InitIInv
<1>2. IInv /\ [Next]_vars => IInv'
  BY NextIInv
<1>. QED
  BY <1>1, <1>2, PTL DEF Spec

-----------------------------------------------------------------------------
(* The results. *)

\* An auditable event has an entry if and only if the audit consumer marked it
\* (drainOutbox claims, inserts and marks in one transaction).
THEOREM ExactlyOnce == Spec => []RecordedIffDispatched
<1>1. IInv => RecordedIffDispatched
  BY DEF IInv
<1>. QED
  BY <1>1, Inductive, PTL

\* Every org's chain verifies (audit.chain_entry locks the head).
THEOREM ChainVerifies == Spec => []ChainIntact
<1>1. IInv => ChainIntact
  BY DEF IInv
<1>. QED
  BY <1>1, Inductive, PTL

\* A chain of waiting instances waits for ever younger orgs, so it cannot close
\* (drainOutbox sorts its batch by org).
THEOREM WaitsAreOrdered == Spec => []WaitsClimb
<1>1. ASSUME IInv, NEW r \in Relay, NEW q \in Relay, NEW s \in Relay,
             NEW e \in Event, NEW f \in Event,
             Waits(r, q), IsNext(r, e), Waits(q, s), IsNext(q, f)
      PROVE  OrgOf[e] < OrgOf[f]
  <2>. USE <1>1
  <2>1. \A x \in Relay, g, h \in Event : IsNext(x, g) /\ IsNext(x, h) => g = h
    BY NumbersAreNat DEF IsNext, Before
  <2>2. r \in Relay /\ q \in Relay /\ s \in Relay /\ q # s
    BY DEF Waits
  <2>3. HoldsHead(q, OrgOf[e])
    BY <2>1, <2>2 DEF Waits, IInv, TypeOK
  <2>4. HoldsHead(s, OrgOf[f])
    BY <2>1, <2>2 DEF Waits, IInv, TypeOK
  <2>5. OrgOf[e] # OrgOf[f]
    BY <2>2, <2>3, <2>4, AuditAssumption DEF IInv, HeadsExclusive
  <2>6. PICK g \in Drafted(q) : OrgOf[g] = OrgOf[e]
    BY <2>3 DEF HoldsHead
  <2>7. Before(g, f)
    BY <2>2, <2>6 DEF IInv, InOrder, IsNext
  <2>8. OrgOf[e] \in Nat /\ OrgOf[f] \in Nat
    BY NumbersAreNat
  <2>. QED
    BY <2>5, <2>6, <2>7, <2>8 DEF Before
<1>2. IInv => WaitsClimb
  BY <1>1 DEF WaitsClimb
<1>. QED
  BY <1>2, Inductive, PTL

\* A step of the projection commits whole batches into the abstract record, or
\* does nothing the record shows.
LEMMA StepRefines == IInv /\ [Next]_vars => [Log!Next]_(Log!auditVars)
<1> SUFFICES ASSUME IInv, [Next]_vars PROVE [Log!Next]_(Log!auditVars)
  OBVIOUS
<1> USE DEF IInv
<1>1. ASSUME NEW E \in Mutation, AppendEvents(E) PROVE \E F \in SUBSET Event : Log!Happen(F)
  BY <1>1, OutboxAssumption DEF AppendEvents, appendToOutbox, Log!Happen
<1>2. ASSUME NEW r \in Relay, FinishBatch(r)
      PROVE  \E B \in SUBSET Event : Log!Record(B)
  <2>. DEFINE B == claimed[r] \ dispatched[audit]
  <2>1. ConsumerOf[r] = audit
    BY AuditAssumption
  <2>2. dispatched'[audit] = dispatched[audit] \cup B
    BY <1>2, <2>1, AuditAssumption DEF FinishBatch, MarkAndCommit, TypeOK
  <2>3. B \subseteq outbox \ dispatched[audit] /\ B \in SUBSET Event
    BY DEF BatchHeld, TypeOK
  <2>4. B \ NeverAudited = Drafted(r)
    <3>1. \A e \in Drafted(r) : e \notin dispatched[audit]
      BY <1>2, BatchDrafted DEF BatchHeld, RecordedIffDispatched, Drafted
    <3>. QED
      BY <1>2, <3>1, BatchDrafted
  <2>5. UNCHANGED outbox
    BY <1>2 DEF FinishBatch, MarkAndCommit
  <2>6. entry' \in [Event -> Nat] /\ head' \in [Org -> Nat]
    BY NextTypeOK DEF TypeOK
  <2>7. \A e \in Event \ (B \ NeverAudited) : entry'[e] = entry[e]
    BY <1>2, <2>4 DEF FinishBatch
  <2>. HIDE DEF B
  <2>8. ASSUME NEW o \in Org
        PROVE  /\ head'[o] >= head[o]
               /\ {entry'[e] : e \in Log!Share(B, o)} = head[o] + 1 .. head'[o]
               /\ \A e, f \in Log!Share(B, o) : entry'[e] = entry'[f] => e = f
    <3>1. Log!Share(B, o) = {e \in Drafted(r) : OrgOf[e] = o}
      BY <2>4 DEF Log!Share
    <3>2. head[o] \in Nat /\ head'[o] \in Nat
      BY <2>6 DEF TypeOK
    <3>3. CASE HoldsHead(r, o)
      BY <1>2, <3>1, <3>2, <3>3, BatchRecords
    <3>4. CASE ~HoldsHead(r, o)
      <4>1. Log!Share(B, o) = {} /\ head'[o] = head[o]
        BY <1>2, <3>1, <3>4, BatchRecords DEF HoldsHead
      <4>. QED
        BY <3>2, <4>1
    <3>. QED
      BY <3>3, <3>4
  <2>9. Log!Record(B)
    BY <2>2, <2>3, <2>5, <2>6, <2>7, <2>8 DEF Log!Record
  <2>. QED
    BY <2>3, <2>9
<1>3. ASSUME UNCHANGED <<outbox, dispatched, entry, head>>
      PROVE  UNCHANGED Log!auditVars
  BY <1>3 DEF Log!auditVars
<1>. QED
  BY <1>1, <1>2, <1>3
     DEF Next, RelayStep, Log!Next, Begin, BeginClaim, LockRow,
         LockNext, StartBatch, EndClaim, SkipRow, InsertEntry, DuplicateEntry,
         Abandon, Rollback, Crash

\* The audit projection implements the append-only record of AuditLog.
THEOREM ProjectionImplementsLog == Spec => RecordKept
<1>1. Init => Log!Init
  BY AuditAssumption DEF Init, OutboxInit, NoDraft, NoTip, Log!Init
<1>2. IInv /\ [Next]_vars => [Log!Next]_(Log!auditVars)
  BY StepRefines
<1>. QED
  BY <1>1, <1>2, Inductive, PTL DEF Spec, RecordKept, Log!Spec

\* A recorded entry is never renumbered or removed (migration 0007).
THEOREM RecordAppendOnly == Spec => AppendOnly
<1>1. ASSUME IInv, [Next]_vars, NEW e \in Event, entry[e] # 0
      PROVE  entry'[e] = entry[e]
  <2>1. ASSUME NEW r \in Relay, FinishBatch(r) PROVE entry'[e] = entry[e]
    BY <1>1, <2>1 DEF FinishBatch, IInv, BatchHeld
  <2>. QED
    BY <1>1, <2>1, StepKinds DEF Quiet, InsertEntry, Abandon
<1>2. IInv /\ [Next]_vars
        => [\A e \in Event : entry[e] # 0 => entry'[e] = entry[e]]_vars
  BY <1>1
<1>. QED
  BY <1>2, Inductive, PTL DEF Spec, AppendOnly
=============================================================================
