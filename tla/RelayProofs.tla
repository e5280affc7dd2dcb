----------------------------- MODULE RelayProofs -----------------------------
(***************************************************************************)
(* Theorems about the at-least-once relays, for any number of events,      *)
(* consumers and instances: the relay of OutboxRelay, and the automation   *)
(* engine with any rules, actions and depths.                              *)
(***************************************************************************)
EXTENDS OutboxRelay, AutomationEngine, FiniteSetTheorems, SequenceTheorems, TLAPS

\* What the automation relay says of redelivery (relay.ts:36: "Redelivery
\* requires the process to die between executing actions and marking").
RedeliveryNeedsACrash ==
    \A c \in Consumer, e \in Event : sent[c][e] <= 1 + crashes[c]

\* What every definition of a step expands to.
USE DEF vars, relayVars, outboxVars, OutboxTypeOK, Phase

-----------------------------------------------------------------------------
(* Type correctness. *)

LEMMA InitTypeOK == Init => TypeOK
BY OutboxAssumption, RelayAssumption DEF Init, OutboxInit, TypeOK

LEMMA NextTypeOK == TypeOK /\ [Next]_vars => TypeOK'
<1> SUFFICES ASSUME TypeOK, [Next]_vars PROVE TypeOK'
  OBVIOUS
<1> USE OutboxAssumption, RelayAssumption DEF TypeOK
<1>1. ASSUME NEW E \in Mutation, AppendEvents(E) PROVE TypeOK'
  <2>1. outbox' \subseteq Event
        /\ UNCHANGED <<dispatched, phase, scan, claimed, todo, delivered, sent, attempts, crashes>>
    BY <1>1 DEF AppendEvents, appendToOutbox
  <2>. QED
    BY <2>1
<1>2. ASSUME NEW r \in Relay, Begin(r) PROVE TypeOK'
  BY <1>2 DEF Begin, BeginClaim, Pending
<1>3. ASSUME NEW r \in Relay, LockRow(r) PROVE TypeOK'
  <2>1. scan' \in [Relay -> SUBSET Event] /\ claimed' \in [Relay -> SUBSET Event]
    BY <1>3 DEF LockRow, LockNext
  <2>. QED
    BY <1>3, <2>1 DEF LockRow, LockNext
<1>4. ASSUME NEW r \in Relay, StartBatch(r) PROVE TypeOK'
  BY <1>4 DEF StartBatch, EndClaim
<1>5. ASSUME NEW r \in Relay, DispatchRow(r) PROVE TypeOK'
  <2>. PICK e \in todo[r] \ Poison :
          /\ todo' = [todo EXCEPT ![r] = @ \ {e}]
          /\ delivered' = [delivered EXCEPT ![r] = @ \cup {e}]
          /\ sent' = [sent EXCEPT ![ConsumerOf[r]][e] = @ + 1]
    BY <1>5 DEF DispatchRow
  <2>1. sent' \in [Consumer -> [Event -> Nat]]
    OBVIOUS
  <2>. QED
    BY <1>5, <2>1 DEF DispatchRow
<1>6. ASSUME NEW r \in Relay, DispatchFails(r) PROVE TypeOK'
  BY <1>6 DEF DispatchFails
<1>7. ASSUME NEW r \in Relay, FinishBatch(r) PROVE TypeOK'
  <2>1. \A n \in 0..FailBound + 1 : CountFailure(n) \in 0..FailBound + 1
    BY DEF CountFailure
  <2>2. attempts' \in [Consumer -> [Event -> 0..FailBound + 1]]
    BY <1>7, <2>1 DEF FinishBatch
  <2>. QED
    BY <1>7, <2>2 DEF FinishBatch, MarkAndCommit
<1>8. ASSUME NEW r \in Relay, Crash(r) PROVE TypeOK'
  <2>1. crashes' \in [Consumer -> Nat]
    BY <1>8 DEF Crash
  <2>. QED
    BY <1>8, <2>1 DEF Crash, Rollback
<1>9. CASE UNCHANGED vars
  BY <1>9
<1>. QED
  BY <1>1, <1>2, <1>3, <1>4, <1>5, <1>6, <1>7, <1>8, <1>9 DEF Next, RelayStep

\* Every variable keeps its type, and an instance outside a drain transaction
\* holds no row lock and no row.
THEOREM TypeCorrect == Spec => []TypeOK
<1>1. Init => TypeOK
  BY InitTypeOK
<1>2. TypeOK /\ [Next]_vars => TypeOK'
  BY NextTypeOK
<1>. QED
  BY <1>1, <1>2, PTL DEF Spec

-----------------------------------------------------------------------------
(* Row locks, and nothing marked unsent. *)

\* What a drain transaction holds: rows its loop has dispatched are rows it
\* locked, and each of them has been sent.
DeliveredSent ==
    \A r \in Relay : /\ todo[r] \subseteq claimed[r]
                     /\ delivered[r] \subseteq claimed[r]
                     /\ \A e \in delivered[r] : sent[ConsumerOf[r]][e] > 0

SafeInv == TypeOK /\ RowLockExclusion /\ DeliveredSent /\ NothingMarkedUnsent

LEMMA NextSafeInv == SafeInv /\ [Next]_vars => SafeInv'
<1> SUFFICES ASSUME SafeInv, [Next]_vars
             PROVE  RowLockExclusion' /\ DeliveredSent' /\ NothingMarkedUnsent'
  BY NextTypeOK DEF SafeInv
<1> USE OutboxAssumption, RelayAssumption
        DEF SafeInv, TypeOK, RowLockExclusion, DeliveredSent, NothingMarkedUnsent
<1>1. ASSUME NEW E \in Mutation, AppendEvents(E)
      PROVE  RowLockExclusion' /\ DeliveredSent' /\ NothingMarkedUnsent'
  BY <1>1 DEF AppendEvents, appendToOutbox
<1>2. ASSUME NEW r \in Relay, Begin(r)
      PROVE  RowLockExclusion' /\ DeliveredSent' /\ NothingMarkedUnsent'
  BY <1>2 DEF Begin, BeginClaim
<1>3. ASSUME NEW r \in Relay, LockRow(r)
      PROVE  RowLockExclusion' /\ DeliveredSent' /\ NothingMarkedUnsent'
  <2>1. PICK e \in scan[r] : claimed' = IF LockedByOther(r, e)
                                        THEN claimed
                                        ELSE [claimed EXCEPT ![r] = @ \cup {e}]
    BY <1>3 DEF LockRow, LockNext
  <2>2. RowLockExclusion'
    BY <2>1 DEF LockedByOther
  <2>3. DeliveredSent' /\ NothingMarkedUnsent'
    BY <1>3, <2>1 DEF LockRow, LockNext
  <2>. QED
    BY <2>2, <2>3
<1>4. ASSUME NEW r \in Relay, StartBatch(r)
      PROVE  RowLockExclusion' /\ DeliveredSent' /\ NothingMarkedUnsent'
  BY <1>4 DEF StartBatch, EndClaim
<1>5. ASSUME NEW r \in Relay, DispatchRow(r)
      PROVE  RowLockExclusion' /\ DeliveredSent' /\ NothingMarkedUnsent'
  <2>1. PICK e \in todo[r] :
          /\ todo' = [todo EXCEPT ![r] = @ \ {e}]
          /\ delivered' = [delivered EXCEPT ![r] = @ \cup {e}]
          /\ sent' = [sent EXCEPT ![ConsumerOf[r]][e] = @ + 1]
    BY <1>5 DEF DispatchRow
  <2>2. \A c \in Consumer, f \in Event : sent[c][f] > 0 => sent'[c][f] > 0
    BY <2>1
  <2>3. sent'[ConsumerOf[r]][e] > 0
    BY <2>1
  <2>. QED
    BY <1>5, <2>1, <2>2, <2>3 DEF DispatchRow
<1>6. ASSUME NEW r \in Relay, DispatchFails(r)
      PROVE  RowLockExclusion' /\ DeliveredSent' /\ NothingMarkedUnsent'
  BY <1>6 DEF DispatchFails
<1>7. ASSUME NEW r \in Relay, FinishBatch(r)
      PROVE  RowLockExclusion' /\ DeliveredSent' /\ NothingMarkedUnsent'
  BY <1>7 DEF FinishBatch, MarkAndCommit
<1>8. ASSUME NEW r \in Relay, Crash(r)
      PROVE  RowLockExclusion' /\ DeliveredSent' /\ NothingMarkedUnsent'
  BY <1>8 DEF Crash, Rollback
<1>9. CASE UNCHANGED vars
  BY <1>9
<1>. QED
  BY <1>1, <1>2, <1>3, <1>4, <1>5, <1>6, <1>7, <1>8, <1>9 DEF Next, RelayStep

LEMMA Safe == Spec => []SafeInv
<1>1. Init => SafeInv
  BY InitTypeOK, OutboxAssumption
     DEF Init, OutboxInit, SafeInv, RowLockExclusion, DeliveredSent,
         NothingMarkedUnsent
<1>2. SafeInv /\ [Next]_vars => SafeInv'
  BY NextSafeInv
<1>. QED
  BY <1>1, <1>2, PTL DEF Spec

\* claimPending's SKIP LOCKED keeps the row locks of all instances disjoint.
THEOREM LocksExclusive == Spec => []RowLockExclusion
<1>1. SafeInv => RowLockExclusion
  BY DEF SafeInv
<1>. QED
  BY <1>1, Safe, PTL

\* No consumer ever marks an event it was not sent: nothing is lost.
THEOREM NothingLost == Spec => []NothingMarkedUnsent
<1>1. SafeInv => NothingMarkedUnsent
  BY DEF SafeInv
<1>. QED
  BY <1>1, Safe, PTL

-----------------------------------------------------------------------------
(* One instance per consumer: only a crash sends an event again. *)

\* No consumer is drained by two instances.
SingleInstance == \A r, q \in Relay : ConsumerOf[r] = ConsumerOf[q] => r = q

\* The rows an instance may still dispatch are not marked, and not twice in
\* its hands.
FreshClaim ==
    \A r \in Relay :
        /\ scan[r] \cap dispatched[ConsumerOf[r]] = {}
        /\ claimed[r] \cap dispatched[ConsumerOf[r]] = {}
        /\ todo[r] \cap delivered[r] = {}

InDelivery(c, e) == \E r \in Relay : ConsumerOf[r] = c /\ e \in delivered[r]

\* One send is accounted for by the mark or by the open transaction, every
\* other one by a crash.
SendsAccounted ==
    \A c \in Consumer, e \in Event :
        /\ sent[c][e] <= 1 + crashes[c]
        /\ e \notin dispatched[c] /\ ~InDelivery(c, e) => sent[c][e] <= crashes[c]

OneInv == SafeInv /\ FreshClaim /\ SendsAccounted

LEMMA NextOneInv ==
  ASSUME SingleInstance
  PROVE  OneInv /\ [Next]_vars => OneInv'
<1> SUFFICES ASSUME OneInv, [Next]_vars PROVE FreshClaim' /\ SendsAccounted'
  BY NextSafeInv DEF OneInv
<1> USE OutboxAssumption, RelayAssumption
        DEF OneInv, SafeInv, TypeOK, DeliveredSent, FreshClaim, SendsAccounted,
            InDelivery
<1>1. ASSUME NEW E \in Mutation, AppendEvents(E)
      PROVE  FreshClaim' /\ SendsAccounted'
  BY <1>1 DEF AppendEvents, appendToOutbox
<1>2. ASSUME NEW r \in Relay, Begin(r)
      PROVE  FreshClaim' /\ SendsAccounted'
  BY <1>2 DEF Begin, BeginClaim, Pending
<1>3. ASSUME NEW r \in Relay, LockRow(r)
      PROVE  FreshClaim' /\ SendsAccounted'
  <2>1. PICK e \in scan[r] :
          /\ scan' = [scan EXCEPT ![r] = @ \ {e}]
          /\ claimed' = IF LockedByOther(r, e)
                        THEN claimed
                        ELSE [claimed EXCEPT ![r] = @ \cup {e}]
    BY <1>3 DEF LockRow, LockNext
  <2>. QED
    BY <1>3, <2>1 DEF LockRow, LockNext
<1>4. ASSUME NEW r \in Relay, StartBatch(r)
      PROVE  FreshClaim' /\ SendsAccounted'
  <2>1. delivered[r] = {}
    BY <1>4 DEF StartBatch, EndClaim
  <2>. QED
    BY <1>4, <2>1 DEF StartBatch, EndClaim
<1>5. ASSUME NEW r \in Relay, DispatchRow(r)
      PROVE  FreshClaim' /\ SendsAccounted'
  <2>1. PICK e \in todo[r] :
          /\ todo' = [todo EXCEPT ![r] = @ \ {e}]
          /\ delivered' = [delivered EXCEPT ![r] = @ \cup {e}]
          /\ sent' = [sent EXCEPT ![ConsumerOf[r]][e] = @ + 1]
    BY <1>5 DEF DispatchRow
  <2>2. e \notin dispatched[ConsumerOf[r]] /\ ~InDelivery(ConsumerOf[r], e)
    BY DEF SingleInstance
  <2>3. FreshClaim'
    BY <1>5, <2>1 DEF DispatchRow
  <2>4. ASSUME NEW c \in Consumer, NEW f \in Event
        PROVE  /\ sent'[c][f] <= 1 + crashes'[c]
               /\ f \notin dispatched'[c] /\ ~InDelivery(c, f)'
                     => sent'[c][f] <= crashes'[c]
    <3>1. CASE c = ConsumerOf[r] /\ f = e
      <4>1. sent'[c][f] = sent[c][f] + 1 /\ sent[c][f] <= crashes[c]
        BY <2>1, <2>2, <3>1
      <4>2. e \in delivered'[r]
        BY <2>1
      <4>3. InDelivery(c, f)'
        BY <3>1, <4>2
      <4>. QED
        BY <1>5, <4>1, <4>3 DEF DispatchRow
    <3>2. CASE c # ConsumerOf[r] \/ f # e
      <4>1. sent'[c][f] = sent[c][f]
        BY <2>1, <3>2
      <4>2. InDelivery(c, f) => InDelivery(c, f)'
        BY <2>1
      <4>. QED
        BY <1>5, <4>1, <4>2 DEF DispatchRow
    <3>. QED
      BY <3>1, <3>2
  <2>. QED
    BY <2>3, <2>4
<1>6. ASSUME NEW r \in Relay, DispatchFails(r)
      PROVE  FreshClaim' /\ SendsAccounted'
  BY <1>6 DEF DispatchFails
<1>7. ASSUME NEW r \in Relay, FinishBatch(r)
      PROVE  FreshClaim' /\ SendsAccounted'
  <2>1. \A q \in Relay \ {r} : ConsumerOf[q] # ConsumerOf[r]
    BY DEF SingleInstance
  <2>2. FreshClaim'
    <3> SUFFICES ASSUME NEW q \in Relay
                 PROVE  /\ scan'[q] \cap dispatched'[ConsumerOf[q]] = {}
                        /\ claimed'[q] \cap dispatched'[ConsumerOf[q]] = {}
                        /\ todo'[q] \cap delivered'[q] = {}
      BY DEF FreshClaim
    <3>1. CASE q = r
      <4>1. scan'[q] = {} /\ claimed'[q] = {} /\ delivered'[q] = {}
        BY <1>7, <3>1, SMTT(30) DEF FinishBatch, MarkAndCommit
      <4>. QED
        BY <4>1
    <3>2. CASE q # r
      <4>1. dispatched'[ConsumerOf[q]] = dispatched[ConsumerOf[q]]
        BY <1>7, <2>1, <3>2 DEF FinishBatch, MarkAndCommit
      <4>2. /\ scan'[q] = scan[q] /\ claimed'[q] = claimed[q]
            /\ todo'[q] = todo[q] /\ delivered'[q] = delivered[q]
        BY <1>7, <3>2 DEF FinishBatch, MarkAndCommit
      <4>. QED
        BY <4>1, <4>2 DEF FreshClaim
    <3>. QED
      BY <3>1, <3>2
  <2>3. SendsAccounted'
    BY <1>7, <2>1 DEF FinishBatch, MarkAndCommit
  <2>. QED
    BY <2>2, <2>3
<1>8. ASSUME NEW r \in Relay, Crash(r)
      PROVE  FreshClaim' /\ SendsAccounted'
  <2>1. FreshClaim'
    BY <1>8 DEF Crash, Rollback
  <2>2. ASSUME NEW c \in Consumer, NEW e \in Event
        PROVE  /\ sent'[c][e] <= 1 + crashes'[c]
               /\ e \notin dispatched'[c] /\ ~InDelivery(c, e)'
                     => sent'[c][e] <= crashes'[c]
    <3>1. CASE c = ConsumerOf[r]
      BY <1>8, <3>1 DEF Crash, Rollback
    <3>2. CASE c # ConsumerOf[r]
      <4>1. InDelivery(c, e) => InDelivery(c, e)'
        BY <1>8, <3>2 DEF Crash
      <4>. QED
        BY <1>8, <3>2, <4>1 DEF Crash, Rollback
    <3>. QED
      BY <3>1, <3>2
  <2>. QED
    BY <2>1, <2>2
<1>9. CASE UNCHANGED vars
  BY <1>9
<1>. QED
  BY <1>1, <1>2, <1>3, <1>4, <1>5, <1>6, <1>7, <1>8, <1>9 DEF Next, RelayStep

\* With one instance per consumer an event is acted on again only if a drain
\* transaction was lost, by the death of the process or of its session or by a
\* statement that failed.
THEOREM RedeliveryOnlyByCrash ==
  ASSUME SingleInstance
  PROVE  Spec => []RedeliveryNeedsACrash
<1>1. Init => OneInv
  BY InitTypeOK, OutboxAssumption
     DEF Init, OutboxInit, OneInv, SafeInv, RowLockExclusion, DeliveredSent,
         NothingMarkedUnsent, FreshClaim, SendsAccounted
<1>2. OneInv /\ [Next]_vars => OneInv'
  BY NextOneInv
<1>3. OneInv => RedeliveryNeedsACrash
  BY DEF OneInv, SendsAccounted, RedeliveryNeedsACrash
<1>. QED
  BY <1>1, <1>2, <1>3, PTL DEF Spec

-----------------------------------------------------------------------------
(* Any number of instances: a stale snapshot sends an event again, once. *)

InstancesOf(c) == {r \in Relay : ConsumerOf[r] = c}

\* The instances that may still send the event on what they have read.
MaySend(c, e) ==
    {r \in InstancesOf(c) : e \in scan[r] \/ e \in claimed[r] \ delivered[r]}

\* A marked event has as many sends left as instances have read it unmarked; an
\* event that is not marked is, but for the crashes, sent in one open
\* transaction at most.
SendsLeftOf(c, e) ==
    /\ e \in dispatched[c] =>
          sent[c][e] + Cardinality(MaySend(c, e)) <= crashes[c] + Cardinality(InstancesOf(c))
    /\ e \notin dispatched[c] /\ InDelivery(c, e) => sent[c][e] <= crashes[c] + 1
    /\ e \notin dispatched[c] /\ ~InDelivery(c, e) => sent[c][e] <= crashes[c]

SendsLeft == \A c \in Consumer, e \in Event : SendsLeftOf(c, e)

InHandOnce == \A r \in Relay : todo[r] \cap delivered[r] = {}

BoundInv == SafeInv /\ InHandOnce /\ SendsLeft

LEMMA InstancesFinite ==
  ASSUME NEW c, NEW S \in SUBSET InstancesOf(c), NEW T \in SUBSET S
  PROVE  /\ IsFiniteSet(S) /\ Cardinality(S) \in Nat /\ Cardinality(T) \in Nat
         /\ Cardinality(T) <= Cardinality(S)
         /\ S # T => Cardinality(T) < Cardinality(S)
<1>1. IsFiniteSet(S) /\ IsFiniteSet(T)
  BY OutboxAssumption, FS_Subset DEF InstancesOf
<1>2. Cardinality(S) \in Nat /\ Cardinality(T) \in Nat /\ Cardinality(T) <= Cardinality(S)
  BY <1>1, FS_Subset, FS_CardinalityType
<1>3. S # T => Cardinality(T) # Cardinality(S)
  BY <1>1, FS_Subset
<1>. QED
  BY <1>1, <1>2, <1>3

\* The sends that are left only become fewer, unless a crash adds one.
LEMMA LeftShrinks ==
  ASSUME TypeOK, TypeOK', NEW c \in Consumer, NEW e \in Event, SendsLeftOf(c, e),
         e \in dispatched'[c] <=> e \in dispatched[c],
         sent'[c][e] = sent[c][e], crashes'[c] >= crashes[c],
         e \in dispatched[c] => MaySend(c, e)' \subseteq MaySend(c, e),
         InDelivery(c, e) => InDelivery(c, e)' \/ crashes'[c] >= crashes[c] + 1
  PROVE  SendsLeftOf(c, e)'
<1>1. /\ sent[c][e] \in Nat /\ crashes[c] \in Nat /\ crashes'[c] \in Nat
  BY DEF TypeOK
<1>2. CASE e \in dispatched[c]
  <2>1. PICK S \in SUBSET InstancesOf(c) : S = MaySend(c, e)
    BY DEF MaySend
  <2>2. PICK T \in SUBSET S : T = MaySend(c, e)'
    BY <1>2, <2>1
  <2>3. /\ Cardinality(T) <= Cardinality(S) /\ Cardinality(S) \in Nat /\ Cardinality(T) \in Nat
        /\ Cardinality(InstancesOf(c)) \in Nat
    BY InstancesFinite
  <2>4. sent[c][e] + Cardinality(S) <= crashes[c] + Cardinality(InstancesOf(c))
    BY <1>2, <2>1 DEF SendsLeftOf
  <2>5. sent'[c][e] + Cardinality(T) <= crashes'[c] + Cardinality(InstancesOf(c))
    BY <1>1, <2>3, <2>4
  <2>. QED
    BY <1>2, <2>2, <2>5 DEF SendsLeftOf, InstancesOf
<1>3. CASE e \notin dispatched[c]
  BY <1>1, <1>3 DEF SendsLeftOf
<1>. QED
  BY <1>2, <1>3

LEMMA SendIsBounded ==
  ASSUME BoundInv, TypeOK', NEW r \in Relay, DispatchRow(r)
  PROVE  InHandOnce' /\ SendsLeft'
<1>. DEFINE k == ConsumerOf[r]
<1>1. PICK e \in todo[r] :
        /\ todo' = [todo EXCEPT ![r] = @ \ {e}]
        /\ delivered' = [delivered EXCEPT ![r] = @ \cup {e}]
        /\ sent' = [sent EXCEPT ![k][e] = @ + 1]
        /\ UNCHANGED <<outbox, dispatched, phase, scan, claimed, crashes>>
  BY DEF DispatchRow
<1>2. /\ TypeOK /\ RowLockExclusion /\ DeliveredSent /\ InHandOnce
      /\ k \in Consumer /\ e \in Event /\ r \in InstancesOf(k) /\ scan[r] = {}
      /\ e \in claimed[r] /\ e \notin delivered[r] /\ e \in delivered'[r]
  <2>1. TypeOK /\ RowLockExclusion /\ DeliveredSent /\ InHandOnce
    BY DEF BoundInv, SafeInv
  <2>2. k \in Consumer /\ e \in Event /\ r \in InstancesOf(k) /\ scan[r] = {}
    BY <1>1, <2>1, OutboxAssumption DEF DispatchRow, InstancesOf, TypeOK
  <2>3. e \in claimed[r]
    BY <1>1, <2>1, <2>2 DEF DispatchRow, TypeOK, DeliveredSent
  <2>. QED
    BY <1>1, <2>1, <2>2, <2>3 DEF InHandOnce, TypeOK
<1>3. InHandOnce'
  BY <1>1, <1>2 DEF InHandOnce, TypeOK
<1>4. \A q \in Relay : delivered[q] \subseteq delivered'[q]
  BY <1>1, <1>2 DEF TypeOK
<1>5. ASSUME NEW c \in Consumer, NEW f \in Event PROVE SendsLeftOf(c, f)'
  <2>1. SendsLeftOf(c, f)
    BY DEF BoundInv, SendsLeft
  <2>2. MaySend(c, f)' \subseteq MaySend(c, f) /\ (InDelivery(c, f) => InDelivery(c, f)')
    BY <1>1, <1>4 DEF MaySend, InstancesOf, InDelivery
  <2>3. CASE ~(c = k /\ f = e)
    <3>1. sent'[c][f] = sent[c][f] /\ crashes'[c] = crashes[c] /\ crashes[c] \in Nat
      BY <1>1, <1>2, <2>3 DEF TypeOK
    <3>. QED
      BY <1>1, <1>2, <2>1, <2>2, <3>1, LeftShrinks
  <2>4. CASE c = k /\ f = e
    <3>1. /\ sent'[c][f] = sent[c][f] + 1 /\ crashes'[c] = crashes[c]
          /\ sent[c][f] \in Nat /\ crashes[c] \in Nat
      BY <1>1, <1>2, <2>4 DEF TypeOK
    <3>2. InDelivery(c, f)'
      BY <1>2, <2>4 DEF InDelivery
    <3>3. CASE f \notin dispatched[c]
      <4>1. ~InDelivery(c, f)
        BY <1>2, <2>4 DEF InDelivery, RowLockExclusion, DeliveredSent
      <4>. QED
        BY <1>1, <2>1, <3>1, <3>2, <3>3, <4>1 DEF SendsLeftOf
    <3>4. CASE f \in dispatched[c]
      <4>1. PICK S \in SUBSET InstancesOf(c) : S = MaySend(c, f)
        BY DEF MaySend
      <4>2. PICK T \in SUBSET S : T = MaySend(c, f)'
        BY <2>2, <4>1
      <4>3. r \in S /\ r \notin T
        BY <1>1, <1>2, <2>4, <4>1, <4>2 DEF MaySend
      <4>4. /\ Cardinality(T) < Cardinality(S) /\ Cardinality(S) \in Nat /\ Cardinality(T) \in Nat
            /\ Cardinality(InstancesOf(c)) \in Nat
        BY <4>3, InstancesFinite
      <4>5. sent[c][f] + Cardinality(S) <= crashes[c] + Cardinality(InstancesOf(c))
        BY <2>1, <3>4, <4>1 DEF SendsLeftOf
      <4>6. sent'[c][f] + Cardinality(T) <= crashes'[c] + Cardinality(InstancesOf(c))
        BY <3>1, <4>4, <4>5
      <4>. QED
        BY <1>1, <3>4, <4>2, <4>6 DEF SendsLeftOf, InstancesOf
    <3>. QED
      BY <3>3, <3>4
  <2>. QED
    BY <2>3, <2>4
<1>. QED
  BY <1>3, <1>5 DEF SendsLeft

\* The commit that marks an event has sent it, and no longer may.
LEMMA MarkIsBounded ==
  ASSUME BoundInv, TypeOK', NEW r \in Relay, FinishBatch(r)
  PROVE  InHandOnce' /\ SendsLeft'
<1>. DEFINE k == ConsumerOf[r]
<1>1. /\ phase[r] = "working" /\ todo[r] = {} /\ todo' = todo
      /\ dispatched' = [dispatched EXCEPT ![k] = @ \cup delivered[r]]
      /\ claimed' = [claimed EXCEPT ![r] = {}] /\ delivered' = [delivered EXCEPT ![r] = {}]
      /\ UNCHANGED <<outbox, scan, sent, crashes>>
  BY DEF FinishBatch, MarkAndCommit
<1>2. TypeOK /\ InHandOnce /\ DeliveredSent /\ k \in Consumer /\ scan[r] = {}
  BY <1>1, OutboxAssumption DEF BoundInv, SafeInv, TypeOK
<1>3. InHandOnce'
  BY <1>1, <1>2 DEF InHandOnce, TypeOK
<1>4. \A q \in Relay : q # r => claimed'[q] = claimed[q] /\ delivered'[q] = delivered[q]
  BY <1>1, <1>2 DEF TypeOK
<1>5. claimed'[r] = {} /\ delivered'[r] = {} /\ scan'[r] = {}
  BY <1>1, <1>2 DEF TypeOK
<1>6. ASSUME NEW c \in Consumer, NEW e \in Event PROVE SendsLeftOf(c, e)'
  <2>1. SendsLeftOf(c, e)
    BY DEF BoundInv, SendsLeft
  <2>2. MaySend(c, e)' \subseteq MaySend(c, e) \ {r}
    BY <1>1, <1>4, <1>5 DEF MaySend, InstancesOf
  <2>3. CASE e \in dispatched'[c] /\ e \notin dispatched[c]
    <3>1. c = k /\ e \in delivered[r] /\ InDelivery(c, e)
      BY <1>1, <1>2, <2>3 DEF TypeOK, InDelivery
    <3>2. /\ sent[c][e] <= crashes[c] + 1 /\ sent[c][e] \in Nat /\ crashes[c] \in Nat
      BY <1>2, <2>1, <2>3, <3>1 DEF SendsLeftOf, TypeOK
    <3>3. PICK T \in SUBSET (InstancesOf(c) \ {r}) : T = MaySend(c, e)'
      BY <2>2 DEF MaySend, InstancesOf
    <3>4. r \in InstancesOf(c) /\ T \in SUBSET InstancesOf(c) /\ T # InstancesOf(c)
      BY <3>1 DEF InstancesOf
    <3>5. /\ Cardinality(T) < Cardinality(InstancesOf(c)) /\ Cardinality(T) \in Nat
          /\ Cardinality(InstancesOf(c)) \in Nat
      BY <3>4, InstancesFinite
    <3>6. sent[c][e] + Cardinality(T) <= crashes[c] + Cardinality(InstancesOf(c))
      BY <3>2, <3>5
    <3>. QED
      BY <1>1, <2>3, <3>3, <3>6 DEF SendsLeftOf, InstancesOf
  <2>4. CASE e \in dispatched'[c] <=> e \in dispatched[c]
    <3>1. crashes'[c] >= crashes[c]
      BY <1>1, <1>2 DEF TypeOK
    <3>2. CASE e \in dispatched[c]
      <4>1. PICK S \in SUBSET InstancesOf(c) : S = MaySend(c, e)
        BY DEF MaySend
      <4>2. PICK T \in SUBSET S : T = MaySend(c, e)'
        BY <2>2, <4>1
      <4>3. /\ Cardinality(T) <= Cardinality(S) /\ Cardinality(S) \in Nat /\ Cardinality(T) \in Nat
            /\ Cardinality(InstancesOf(c)) \in Nat
        BY InstancesFinite
      <4>6. sent[c][e] \in Nat /\ crashes[c] \in Nat
        BY <1>2 DEF TypeOK
      <4>4. sent[c][e] + Cardinality(S) <= crashes[c] + Cardinality(InstancesOf(c))
        BY <2>1, <3>2, <4>1 DEF SendsLeftOf
      <4>5. sent[c][e] + Cardinality(T) <= crashes[c] + Cardinality(InstancesOf(c))
        BY <4>3, <4>4, <4>6
      <4>. QED
        BY <1>1, <2>4, <3>2, <4>2, <4>5 DEF SendsLeftOf, InstancesOf
    <3>3. CASE e \notin dispatched[c]
      <4>1. InDelivery(c, e) => InDelivery(c, e)'
        BY <1>1, <1>2, <1>4, <2>4, <3>3 DEF InDelivery, TypeOK
      <4>. QED
        BY <1>2, <2>1, <2>2, <2>4, <3>1, <3>3, <4>1, <1>1, LeftShrinks
    <3>. QED
      BY <3>2, <3>3
  <2>5. e \in dispatched[c] => e \in dispatched'[c]
    BY <1>1, <1>2 DEF TypeOK
  <2>. QED
    BY <2>3, <2>4, <2>5
<1>. QED
  BY <1>3, <1>6 DEF SendsLeft

LEMMA NextBoundInv == BoundInv /\ [Next]_vars => BoundInv'
<1> SUFFICES ASSUME BoundInv, [Next]_vars PROVE InHandOnce' /\ SendsLeft'
  BY NextSafeInv DEF BoundInv
<1>1. TypeOK /\ TypeOK' /\ InHandOnce /\ DeliveredSent
  BY NextTypeOK DEF BoundInv, SafeInv
<1>2. \A c \in Consumer, e \in Event : SendsLeftOf(c, e) /\ crashes[c] \in Nat
  BY <1>1 DEF BoundInv, SendsLeft, TypeOK
<1>3. ASSUME NEW r \in Relay, DispatchRow(r) PROVE InHandOnce' /\ SendsLeft'
  BY <1>1, <1>3, SendIsBounded
<1>4. ASSUME NEW r \in Relay, FinishBatch(r) PROVE InHandOnce' /\ SendsLeft'
  BY <1>1, <1>4, MarkIsBounded
<1>5. ASSUME UNCHANGED <<dispatched, sent, crashes, delivered>>, InHandOnce',
             \A c \in Consumer, e \in Event :
                e \in dispatched[c] => MaySend(c, e)' \subseteq MaySend(c, e)
      PROVE  InHandOnce' /\ SendsLeft'
  <2>1. ASSUME NEW c \in Consumer, NEW e \in Event PROVE SendsLeftOf(c, e)'
    <3>1. crashes'[c] >= crashes[c] /\ (InDelivery(c, e) => InDelivery(c, e)')
      BY <1>2, <1>5 DEF InDelivery
    <3>. QED
      BY <1>1, <1>2, <1>5, <3>1, LeftShrinks
  <2>. QED
    BY <1>5, <2>1 DEF SendsLeft
<1>6. ASSUME NEW E \in Mutation, AppendEvents(E) PROVE InHandOnce' /\ SendsLeft'
  BY <1>1, <1>5, <1>6 DEF AppendEvents, appendToOutbox, InHandOnce, MaySend, InstancesOf
<1>7. ASSUME NEW r \in Relay, Begin(r) PROVE InHandOnce' /\ SendsLeft'
  <2>1. /\ scan' = [scan EXCEPT ![r] = outbox \ dispatched[ConsumerOf[r]]]
        /\ UNCHANGED <<dispatched, sent, crashes, delivered, claimed, todo>>
    BY <1>7 DEF Begin, BeginClaim, Pending
  <2>2. \A c \in Consumer, e \in Event :
            e \in dispatched[c] => MaySend(c, e)' \subseteq MaySend(c, e)
    BY <1>1, <2>1 DEF MaySend, InstancesOf, TypeOK
  <2>. QED
    BY <1>1, <1>5, <2>1, <2>2 DEF InHandOnce
<1>8. ASSUME NEW r \in Relay, LockRow(r) PROVE InHandOnce' /\ SendsLeft'
  <2>1. PICK e \in scan[r] :
          /\ scan' = [scan EXCEPT ![r] = @ \ {e}]
          /\ claimed' = IF LockedByOther(r, e) THEN claimed
                        ELSE [claimed EXCEPT ![r] = @ \cup {e}]
          /\ UNCHANGED <<dispatched, sent, crashes, delivered, todo>>
    BY <1>8 DEF LockRow, LockNext
  <2>2. \A q \in Relay : /\ scan'[q] \subseteq scan[q]
                         /\ claimed'[q] \subseteq claimed[q] \cup scan[q]
    BY <1>1, <2>1 DEF TypeOK
  <2>3. \A c \in Consumer, f \in Event : MaySend(c, f)' \subseteq MaySend(c, f)
    BY <2>1, <2>2 DEF MaySend, InstancesOf
  <2>. QED
    BY <1>1, <1>5, <2>1, <2>3 DEF InHandOnce
<1>9. ASSUME NEW r \in Relay, StartBatch(r) PROVE InHandOnce' /\ SendsLeft'
  <2>1. /\ phase[r] = "scanning" /\ delivered[r] = {}
        /\ todo' = [todo EXCEPT ![r] = claimed[r]] /\ scan' = [scan EXCEPT ![r] = {}]
        /\ UNCHANGED <<dispatched, sent, crashes, delivered, claimed>>
    BY <1>1, <1>9 DEF StartBatch, EndClaim, TypeOK
  <2>2. InHandOnce'
    BY <1>1, <2>1 DEF InHandOnce, TypeOK
  <2>3. \A q \in Relay : scan'[q] \subseteq scan[q]
    BY <1>1, <2>1 DEF TypeOK
  <2>4. \A c \in Consumer, f \in Event : MaySend(c, f)' \subseteq MaySend(c, f)
    BY <2>1, <2>3 DEF MaySend, InstancesOf
  <2>. QED
    BY <1>5, <2>1, <2>2, <2>4
<1>10. ASSUME NEW r \in Relay, DispatchFails(r) PROVE InHandOnce' /\ SendsLeft'
  <2>1. PICK e \in todo[r] :
          /\ todo' = [todo EXCEPT ![r] = @ \ {e}]
          /\ UNCHANGED <<dispatched, sent, crashes, delivered, claimed, scan>>
    BY <1>10 DEF DispatchFails
  <2>2. InHandOnce'
    BY <1>1, <2>1 DEF InHandOnce, TypeOK
  <2>3. \A c \in Consumer, f \in Event : MaySend(c, f)' \subseteq MaySend(c, f)
    BY <2>1 DEF MaySend, InstancesOf
  <2>. QED
    BY <1>5, <2>1, <2>2, <2>3
<1>11. ASSUME NEW r \in Relay, Crash(r) PROVE InHandOnce' /\ SendsLeft'
  <2>1. /\ todo' = [todo EXCEPT ![r] = {}] /\ delivered' = [delivered EXCEPT ![r] = {}]
        /\ scan' = [scan EXCEPT ![r] = {}] /\ claimed' = [claimed EXCEPT ![r] = {}]
        /\ crashes' = [crashes EXCEPT ![ConsumerOf[r]] = @ + 1]
        /\ UNCHANGED <<dispatched, sent>>
    BY <1>11 DEF Crash, Rollback
  <2>2. InHandOnce'
    BY <1>1, <2>1 DEF InHandOnce, TypeOK
  <2>3. \A q \in Relay : \/ q # r /\ scan'[q] = scan[q] /\ claimed'[q] = claimed[q]
                              /\ delivered'[q] = delivered[q]
                         \/ q = r /\ scan'[q] = {} /\ claimed'[q] = {}
    BY <1>1, <2>1 DEF TypeOK
  <2>4. \A c \in Consumer, f \in Event : MaySend(c, f)' \subseteq MaySend(c, f)
    BY <2>3 DEF MaySend, InstancesOf
  <2>5. ASSUME NEW c \in Consumer, NEW e \in Event PROVE SendsLeftOf(c, e)'
    <3>1. crashes'[c] = IF c = ConsumerOf[r] THEN crashes[c] + 1 ELSE crashes[c]
      BY <1>1, <2>1 DEF TypeOK
    <3>2. crashes'[c] >= crashes[c]
      BY <1>2, <3>1
    <3>3. InDelivery(c, e) => InDelivery(c, e)' \/ crashes'[c] >= crashes[c] + 1
      BY <1>2, <2>3, <3>1 DEF InDelivery
    <3>. QED
      BY <1>1, <1>2, <2>1, <2>4, <3>2, <3>3, LeftShrinks
  <2>. QED
    BY <2>2, <2>5 DEF SendsLeft
<1>12. CASE UNCHANGED vars
  BY <1>1, <1>5, <1>12 DEF InHandOnce, MaySend, InstancesOf
<1>. QED
  BY <1>3, <1>4, <1>6, <1>7, <1>8, <1>9, <1>10, <1>11, <1>12 DEF Next, RelayStep

\* However many instances drain a consumer, an event is sent at most once for
\* each of them and once more for each lost transaction: a snapshot that is
\* stale by the time the claim locks its rows costs one send (claimPending).
THEOREM ResendsBounded == Spec => []SendsBounded
<1>1. Init => BoundInv
  BY InitTypeOK, OutboxAssumption
     DEF Init, OutboxInit, BoundInv, SafeInv, RowLockExclusion, DeliveredSent,
         NothingMarkedUnsent, InHandOnce, SendsLeft, SendsLeftOf
<1>2. BoundInv /\ [Next]_vars => BoundInv'
  BY NextBoundInv
<1>3. BoundInv => SendsBounded
  <2> SUFFICES ASSUME BoundInv, NEW c \in Consumer, NEW e \in Event
               PROVE  sent[c][e] <= crashes[c] + Cardinality(InstancesOf(c))
    BY DEF SendsBounded, InstancesOf
  <2>1. SendsLeftOf(c, e) /\ sent[c][e] \in Nat /\ crashes[c] \in Nat
    BY DEF BoundInv, SendsLeft, SafeInv, TypeOK
  <2>2. PICK S \in SUBSET InstancesOf(c) : S = MaySend(c, e)
    BY DEF MaySend
  <2>3. Cardinality(S) \in Nat /\ Cardinality(InstancesOf(c)) \in Nat
    BY InstancesFinite
  <2>4. InDelivery(c, e) => Cardinality(InstancesOf(c)) >= 1
    <3> SUFFICES ASSUME InDelivery(c, e) PROVE Cardinality(InstancesOf(c)) >= 1
      OBVIOUS
    <3>1. {} \in SUBSET InstancesOf(c) /\ {} # InstancesOf(c)
      BY DEF InDelivery, InstancesOf
    <3>2. Cardinality({}) < Cardinality(InstancesOf(c))
      BY <3>1, InstancesFinite
    <3>. QED
      BY <2>3, <3>2, FS_EmptySet
  <2>. QED
    BY <2>1, <2>2, <2>3, <2>4 DEF SendsLeftOf
<1>. QED
  BY <1>1, <1>2, <1>3, PTL DEF Spec

-----------------------------------------------------------------------------
(* The automation engine: type correctness. *)

USE DEF engineVars, drainVars, orgVars

\* A row in hand is a claimed row, rules wait and run only for a row in hand,
\* and nothing is claimed or read that is not in the outbox.
InHand ==
    \A g \in Relay :
        /\ claimed[g] \cup scan[g] \subseteq outbox
        /\ cause[g] # 0 => cause[g] \in claimed[g] \ left[g]
        /\ cause[g] = 0 => listening[g] = {} /\ acting[g] = <<>>

DrainInv == EngineTypeOK /\ InHand /\ RowLockExclusion

\* A row's id is its place in the log, which only grows at its end.
LEMMA RowsAreAppended ==
  ASSUME EngineTypeOK, NEW rows \in Seq(Row), Emit(rows)
  PROVE  /\ log' \in Seq(Row) /\ outbox' = DOMAIN log' /\ outbox' \subseteq Event
         /\ outbox \subseteq outbox' /\ UNCHANGED <<dispatched, phase, scan, claimed>>
         /\ \A i \in DOMAIN log : log'[i] = log[i]
         /\ \A i \in DOMAIN log' \ DOMAIN log : \E k \in DOMAIN rows : log'[i] = rows[k]
<1>1. log \in Seq(Row) /\ outbox = DOMAIN log /\ log' = log \o rows /\ DOMAIN log' \subseteq Event
  BY DEF EngineTypeOK, Emit
<1>2. log' \in Seq(Row) /\ Len(log') = Len(log) + Len(rows)
      /\ DOMAIN log = 1..Len(log) /\ DOMAIN log' = 1..Len(log') /\ DOMAIN rows = 1..Len(rows)
      /\ Len(log) \in Nat /\ Len(rows) \in Nat
  BY <1>1
<1>3. \A i \in 1..Len(log') : log'[i] = IF i <= Len(log) THEN log[i] ELSE rows[i - Len(log)]
  BY <1>1, <1>2
<1>4. \A i \in DOMAIN log : log'[i] = log[i]
  BY <1>2, <1>3
<1>5. ASSUME NEW i \in DOMAIN log' \ DOMAIN log
      PROVE  \E k \in DOMAIN rows : log'[i] = rows[k]
  <2>1. i - Len(log) \in DOMAIN rows /\ log'[i] = rows[i - Len(log)]
    BY <1>2, <1>3
  <2>. QED
    BY <2>1
<1>6. DOMAIN log \subseteq DOMAIN log'
  BY <1>2
<1>7. outbox' = DOMAIN log' /\ UNCHANGED <<dispatched, phase, scan, claimed>>
  <2>1. CASE rows = <<>>
    BY <1>1, <1>2, <2>1 DEF Emit
  <2>2. CASE rows # <<>>
    BY <1>1, <1>6, <2>2 DEF Emit, appendToOutbox
  <2>. QED
    BY <2>1, <2>2
<1>. QED
  BY <1>1, <1>2, <1>4, <1>5, <1>6, <1>7

LEMMA InitDrainInv == EngineInit => DrainInv
BY OutboxAssumption, AutomationAssumption
   DEF EngineInit, OutboxInit, DrainInv, EngineTypeOK, InHand, RowLockExclusion

\* The row whose rules run, and the action that commits next.
LEMMA RowInHand ==
  ASSUME DrainInv, NEW g \in Relay, acting[g] # <<>> \/ listening[g] # {}
  PROVE  /\ cause[g] \in claimed[g] /\ cause[g] \in outbox /\ cause[g] \in Event
         /\ cause[g] \notin left[g]
         /\ log[cause[g]] \in Row /\ phase[g] = "working" /\ scan[g] = {}
<1>1. cause[g] \in claimed[g] \ left[g] /\ claimed[g] \subseteq outbox
  BY DEF DrainInv, InHand
<1>2. log \in Seq(Row) /\ outbox = DOMAIN log /\ outbox \subseteq Event /\ phase[g] = "working"
      /\ scan[g] = {}
  BY DEF DrainInv, EngineTypeOK
<1>. QED
  BY <1>1, <1>2

LEMMA ActionEmits ==
  ASSUME DrainInv, NEW g \in Relay, ActionSucceeds(g)
  PROVE  \E rows \in Seq(Row) :
            /\ Emit(rows)
            /\ \A k \in DOMAIN rows :
                  \E n \in Name, a \in Action : rows[k] = Effect(a, n, log[cause[g]])
<1>1. log[cause[g]] \in Row
  BY RowInHand DEF ActionSucceeds
<1>2. acting[g] \in Seq(Action) /\ acting[g] # <<>>
  BY DEF DrainInv, EngineTypeOK, ActionSucceeds
<1>3. PICK a \in Action : a = Head(acting[g])
  BY <1>2
<1>4. PICK names \in SeqOf(EVENTS_EMITTED_BY[a], EmitBound) :
         Emit([i \in DOMAIN names |-> Effect(a, names[i], log[cause[g]])])
  BY <1>3 DEF ActionSucceeds
<1>5. PICK m \in Nat : names \in [1..m -> Name]
  <2>1. PICK m \in 0..EmitBound : names \in [1..m -> EVENTS_EMITTED_BY[a]]
    BY <1>4 DEF SeqOf
  <2>2. EVENTS_EMITTED_BY[a] \subseteq Name /\ m \in Nat
    BY <2>1, AutomationAssumption
  <2>. QED
    BY <2>1, <2>2
<1>6. \A n \in Name : Effect(a, n, log[cause[g]]) \in Row
  BY <1>1 DEF Effect, Row
<1>. DEFINE rows == [i \in 1..m |-> Effect(a, names[i], log[cause[g]])]
<1>7. rows \in [1..m -> Row]
  BY <1>5, <1>6
<1>8. rows \in Seq(Row)
  BY <1>7
<1>9. Emit(rows)
  BY <1>4, <1>5
<1>10. ASSUME NEW k \in DOMAIN rows
       PROVE  \E n \in Name, b \in Action : rows[k] = Effect(b, n, log[cause[g]])
  BY <1>5
<1>. QED
  BY <1>8, <1>9, <1>10

LEMMA NextDrainInv == DrainInv /\ [EngineNext]_engineVars => DrainInv'
<1> SUFFICES ASSUME DrainInv, [EngineNext]_engineVars PROVE DrainInv'
  OBVIOUS
<1> USE OutboxAssumption, AutomationAssumption
<1>1. EngineTypeOK /\ InHand /\ RowLockExclusion
  BY DEF DrainInv
<1>2. ASSUME NEW rows \in Seq(Row), Emit(rows), UNCHANGED drainVars,
             UNCHANGED <<enabled, orgActive, executions, faults, runs>>, humans' \in Nat
      PROVE  DrainInv'
  <2>1. /\ log' \in Seq(Row) /\ outbox' = DOMAIN log' /\ outbox' \subseteq Event
        /\ outbox \subseteq outbox' /\ UNCHANGED <<dispatched, phase, scan, claimed>>
    BY <1>1, <1>2, RowsAreAppended
  <2>. QED
    BY <1>1, <1>2, <2>1 DEF DrainInv, EngineTypeOK, InHand, RowLockExclusion
<1>3. ASSUME NEW n \in HumanName, Mutate(n) PROVE DrainInv'
  <2>1. PICK row : row = [name |-> n, depth |-> 0, hops |-> 0, restarts |-> 0]
    OBVIOUS
  <2>2. row \in Row
    BY <2>1 DEF Row
  <2>3. <<row>> \in Seq(Row) /\ Emit(<<row>>)
    BY <1>3, <2>1, <2>2 DEF Mutate
  <2>4. humans' \in Nat
    BY <1>1, <1>3 DEF EngineTypeOK, Mutate
  <2>. QED
    BY <1>2, <1>3, <2>3, <2>4 DEF Mutate
<1>4. ASSUME NEW r \in Rule, SetEnabled(r) PROVE DrainInv'
  BY <1>1, <1>4 DEF SetEnabled, DrainInv, EngineTypeOK, InHand, RowLockExclusion
<1>5. CASE SetOrgStatus
  BY <1>1, <1>5 DEF SetOrgStatus, DrainInv, EngineTypeOK, InHand, RowLockExclusion
<1>6. CASE HourPasses
  BY <1>1, <1>6 DEF HourPasses, DrainInv, EngineTypeOK, InHand, RowLockExclusion
<1>7. ASSUME NEW g \in Relay, StartDrain(g) PROVE DrainInv'
  <2>1. EngineTypeOK'
    BY <1>1, <1>7 DEF StartDrain, BeginClaim, Pending, EngineTypeOK
  <2>2. InHand'
    BY <1>1, <1>7 DEF StartDrain, BeginClaim, Pending, EngineTypeOK, InHand
  <2>3. RowLockExclusion'
    BY <1>1, <1>7 DEF StartDrain, BeginClaim, RowLockExclusion
  <2>. QED
    BY <2>1, <2>2, <2>3 DEF DrainInv
<1>8. ASSUME NEW g \in Relay, ClaimRow(g) PROVE DrainInv'
  <2>1. PICK e \in scan[g] :
          /\ scan' = [scan EXCEPT ![g] = @ \ {e}]
          /\ claimed' = IF LockedByOther(g, e) THEN claimed
                        ELSE [claimed EXCEPT ![g] = @ \cup {e}]
    BY <1>8 DEF ClaimRow, LockNext
  <2>2. phase[g] = "scanning" /\ phase' = phase /\ outbox' = outbox /\ e \in outbox /\ e \in Event
    BY <1>1, <1>8 DEF ClaimRow, LockNext, InHand, EngineTypeOK
  <2>3. scan' \in [Relay -> SUBSET Event] /\ claimed' \in [Relay -> SUBSET Event]
    BY <1>1, <2>1, <2>2 DEF EngineTypeOK
  <2>4. \A q \in Relay : /\ claimed[q] \subseteq claimed'[q] /\ scan'[q] \subseteq scan[q]
                         /\ claimed'[q] \subseteq outbox
                         /\ q # g => claimed'[q] = claimed[q]
    BY <1>1, <2>1, <2>2 DEF EngineTypeOK, InHand
  <2>5. EngineTypeOK'
    BY <1>1, <1>8, <2>2, <2>3, <2>4, SMTT(30) DEF ClaimRow, LockNext, EngineTypeOK
  <2>6. InHand'
    BY <1>1, <1>8, <2>2, <2>4 DEF ClaimRow, LockNext, InHand
  <2>7. RowLockExclusion'
    BY <1>1, <2>1, SMTT(30) DEF EngineTypeOK, LockedByOther, RowLockExclusion
  <2>. QED
    BY <2>5, <2>6, <2>7 DEF DrainInv
<1>9. ASSUME NEW g \in Relay, ClaimReturns(g) PROVE DrainInv'
  <2>1. EngineTypeOK'
    BY <1>1, <1>9 DEF ClaimReturns, EndClaim, EngineTypeOK
  <2>2. InHand'
    BY <1>1, <1>9 DEF ClaimReturns, EndClaim, EngineTypeOK, InHand
  <2>3. RowLockExclusion'
    BY <1>1, <1>9 DEF ClaimReturns, EndClaim, RowLockExclusion
  <2>. QED
    BY <2>1, <2>2, <2>3 DEF DrainInv
<1>10. ASSUME NEW g \in Relay, LoadRules(g) PROVE DrainInv'
  <2>1. PICK e \in left[g] :
          /\ left' = [left EXCEPT ![g] = @ \ {e}] /\ cause' = [cause EXCEPT ![g] = e]
          /\ listening' = [listening EXCEPT ![g] =
                {r \in enabled : orgActive /\ TriggerOf[r] = log[e].name}]
    BY <1>10 DEF LoadRules
  <2>2. e \in claimed[g] /\ e \in DOMAIN log /\ e \in Nat /\ e # 0 /\ log \in Seq(Row)
    BY <1>1, <2>1 DEF EngineTypeOK, InHand
  <2>3. EngineTypeOK'
    BY <1>1, <1>10, <2>1, <2>2 DEF LoadRules, EngineTypeOK
  <2>4. InHand'
    BY <1>1, <1>10, <2>1, <2>2 DEF LoadRules, EngineTypeOK, InHand
  <2>. QED
    BY <1>1, <1>10, <2>3, <2>4 DEF LoadRules, DrainInv, RowLockExclusion
<1>11. ASSUME NEW g \in Relay, NEW r \in Rule, PassOver(g, r) PROVE DrainInv'
  <2>1. listening' = [listening EXCEPT ![g] = @ \ {r}] /\ listening[g] # {}
    BY <1>11 DEF PassOver, Ready
  <2>2. EngineTypeOK'
    <3>1. listening' \in [Relay -> SUBSET Rule] /\ phase[g] = "working"
      BY <1>1, <2>1 DEF EngineTypeOK
    <3>. QED
      BY <1>1, <1>11, <2>1, <3>1 DEF PassOver, EngineTypeOK
  <2>3. InHand'
    BY <1>1, <1>11, <2>1 DEF PassOver, EngineTypeOK, InHand
  <2>. QED
    BY <1>1, <1>11, <2>2, <2>3 DEF PassOver, DrainInv, RowLockExclusion
<1>12. ASSUME NEW g \in Relay, NEW r \in Rule, BeginRun(g, r) PROVE DrainInv'
  <2>1. cause[g] # 0 /\ phase[g] = "working"
    BY <1>1, <1>12 DEF BeginRun, Ready, EngineTypeOK, InHand
  <2>2. runs' \in [Rule -> [Event -> Nat]]
    <3>1. PICK e \in Event : runs' = [runs EXCEPT ![r][e] = @ + 1]
      BY <1>12, RowInHand DEF BeginRun, Ready
    <3>2. runs \in [Rule -> [Event -> Nat]]
      BY <1>1 DEF EngineTypeOK
    <3>3. [runs[r] EXCEPT ![e] = @ + 1] \in [Event -> Nat]
      BY <3>2
    <3>. QED
      BY <3>1, <3>2, <3>3
  <2>6. executions' \in 0..HOURLY_EXECUTION_BUDGET
    <3>1. executions < HOURLY_EXECUTION_BUDGET /\ executions' = executions + 1
      BY <1>12 DEF BeginRun, consumeExecutionBudget
    <3>2. executions \in 0..HOURLY_EXECUTION_BUDGET /\ HOURLY_EXECUTION_BUDGET \in Nat
      BY <1>1 DEF EngineTypeOK
    <3>. QED
      BY <3>1, <3>2
  <2>3. acting' \in [Relay -> Seq(Action)]
    BY <1>1, <1>12 DEF BeginRun, EngineTypeOK
  <2>4. EngineTypeOK'
    BY <1>1, <1>12, <2>1, <2>2, <2>3, <2>6 DEF BeginRun, EngineTypeOK
  <2>5. InHand'
    BY <1>1, <1>12, <2>1 DEF BeginRun, EngineTypeOK, InHand
  <2>. QED
    BY <1>1, <1>12, <2>4, <2>5 DEF BeginRun, DrainInv, RowLockExclusion
<1>13. ASSUME NEW g \in Relay, ActionSucceeds(g) PROVE DrainInv'
  <2>1. PICK rows \in Seq(Row) : Emit(rows)
    BY <1>13, ActionEmits
  <2>2. /\ log' \in Seq(Row) /\ outbox' = DOMAIN log' /\ outbox' \subseteq Event
        /\ outbox \subseteq outbox' /\ UNCHANGED <<dispatched, phase, scan, claimed>>
    BY <1>1, <2>1, RowsAreAppended
  <2>3. acting' = [acting EXCEPT ![g] = Tail(@)] /\ acting[g] # <<>>
        /\ UNCHANGED <<left, cause, listening, orgVars, humans, faults, runs>>
    BY <1>13 DEF ActionSucceeds
  <2>4. acting' \in [Relay -> Seq(Action)]
    BY <1>1, <2>3 DEF EngineTypeOK
  <2>5. EngineTypeOK'
    BY <1>1, <2>2, <2>3, <2>4 DEF EngineTypeOK
  <2>6. InHand'
    BY <1>1, <2>2, <2>3 DEF EngineTypeOK, InHand
  <2>. QED
    BY <1>1, <2>2, <2>5, <2>6 DEF DrainInv, RowLockExclusion
<1>14. ASSUME NEW g \in Relay, ActionFails(g) PROVE DrainInv'
  BY <1>1, <1>14 DEF ActionFails, DrainInv, EngineTypeOK, InHand, RowLockExclusion
<1>15. ASSUME NEW g \in Relay, MarkBatch(g) PROVE DrainInv'
  <2>1. dispatched' \in [Consumer -> SUBSET Event]
    BY <1>1, <1>15 DEF MarkBatch, MarkAndCommit, EngineTypeOK
  <2>2. EngineTypeOK'
    BY <1>1, <1>15, <2>1 DEF MarkBatch, MarkAndCommit, BatchDone, RowDone, EngineTypeOK
  <2>3. InHand'
    BY <1>1, <1>15 DEF MarkBatch, MarkAndCommit, BatchDone, RowDone, EngineTypeOK, InHand
  <2>4. RowLockExclusion'
    BY <1>1, <1>15 DEF MarkBatch, MarkAndCommit, EngineTypeOK, RowLockExclusion
  <2>. QED
    BY <2>2, <2>3, <2>4 DEF DrainInv
<1>16. ASSUME NEW g \in Relay, LoseDrain(g) PROVE DrainInv'
  <2>1. EngineTypeOK'
    BY <1>1, <1>16 DEF LoseDrain, Rollback, EngineTypeOK
  <2>2. InHand'
    BY <1>1, <1>16 DEF LoseDrain, Rollback, EngineTypeOK, InHand
  <2>3. RowLockExclusion'
    BY <1>1, <1>16 DEF LoseDrain, Rollback, EngineTypeOK, RowLockExclusion
  <2>. QED
    BY <2>1, <2>2, <2>3 DEF DrainInv
<1>17. CASE UNCHANGED engineVars
  BY <1>1, <1>17 DEF DrainInv, EngineTypeOK, InHand, RowLockExclusion
<1>. QED
  BY <1>3, <1>4, <1>5, <1>6, <1>7, <1>8, <1>9, <1>10, <1>11, <1>12, <1>13, <1>14, <1>15, <1>16,
     <1>17 DEF EngineNext, EngineStep

LEMMA DrainInvHolds == EngineSpec => []DrainInv
<1>. QED
  BY InitDrainInv, NextDrainInv, PTL DEF EngineSpec

\* Every variable of the engine keeps its type: a worker outside a drain holds
\* no row and no rule, an hour's executions stay within the budget.
THEOREM EngineTypeCorrect == EngineSpec => []EngineTypeOK
<1>1. DrainInv => EngineTypeOK
  BY DEF DrainInv
<1>. QED
  BY <1>1, DrainInvHolds, PTL

-----------------------------------------------------------------------------
(* The automation engine: how long a chain gets. *)

ChainInv == DrainInv /\ CauseIsBelowCap /\ DepthIsDistance

\* What DepthIsDistance says of one row.
Measured(row) ==
    row.depth <= MAX_DEPTH /\ row.hops <= row.restarts * MAX_DEPTH + row.depth

\* An action started below the cap emits events that are measured.
LEMMA EffectIsMeasured ==
  ASSUME NEW row \in Row, Measured(row), row.depth < MAX_DEPTH, NEW a, NEW n
  PROVE  Measured(Effect(a, n, row))
<1>1. /\ row.depth \in Nat /\ row.hops \in Nat /\ row.restarts \in Nat /\ MAX_DEPTH \in Nat
  BY AutomationAssumption DEF Row
<1>2. PICK p \in Nat : p = row.restarts * MAX_DEPTH
  BY <1>1
<1>3. (row.restarts + 1) * MAX_DEPTH = p + MAX_DEPTH
  BY <1>1, <1>2
<1>4. row.hops <= p + row.depth /\ row.depth < MAX_DEPTH
  BY <1>2 DEF Measured
<1>5. CASE a \in CarriesDepth
  BY <1>1, <1>2, <1>4, <1>5 DEF Effect, Measured
<1>6. CASE a \notin CarriesDepth
  <2>1. row.hops + 1 <= p + MAX_DEPTH
    BY <1>1, <1>4
  <2>. QED
    BY <1>1, <1>3, <1>6, <2>1 DEF Effect, Measured
<1>. QED
  BY <1>5, <1>6

\* Measured rows behind the log leave what the invariant says of it.
LEMMA MeasuredRowsKeepChains ==
  ASSUME ChainInv, NEW rows \in Seq(Row), Emit(rows), UNCHANGED cause,
         \A k \in DOMAIN rows : Measured(rows[k]),
         \A g \in Relay : acting'[g] # <<>> => acting[g] # <<>>
  PROVE  CauseIsBelowCap' /\ DepthIsDistance'
<1>1. /\ outbox \subseteq outbox' /\ outbox = DOMAIN log
      /\ \A i \in DOMAIN log : log'[i] = log[i]
      /\ \A i \in DOMAIN log' \ DOMAIN log : \E k \in DOMAIN rows : log'[i] = rows[k]
  BY RowsAreAppended DEF ChainInv, DrainInv, EngineTypeOK
<1>2. CauseIsBelowCap'
  BY <1>1 DEF ChainInv, CauseIsBelowCap
<1>3. ASSUME NEW i \in DOMAIN log' PROVE Measured(log'[i])
  <2>1. CASE i \in DOMAIN log
    BY <1>1, <2>1 DEF ChainInv, DepthIsDistance, Measured
  <2>2. CASE i \notin DOMAIN log
    BY <1>1, <2>2
  <2>. QED
    BY <2>1, <2>2
<1>. QED
  BY <1>2, <1>3 DEF DepthIsDistance, Measured

LEMMA NextChainInv == ChainInv /\ [EngineNext]_engineVars => ChainInv'
<1> SUFFICES ASSUME ChainInv, [EngineNext]_engineVars PROVE CauseIsBelowCap' /\ DepthIsDistance'
  BY NextDrainInv DEF ChainInv
<1>1. DrainInv /\ EngineTypeOK /\ InHand /\ CauseIsBelowCap /\ DepthIsDistance
  BY DEF ChainInv, DrainInv
<1>2. ASSUME NEW n \in HumanName, Mutate(n) PROVE CauseIsBelowCap' /\ DepthIsDistance'
  <2>1. PICK row : row = [name |-> n, depth |-> 0, hops |-> 0, restarts |-> 0]
    OBVIOUS
  <2>2. row \in Row /\ Measured(row)
    BY <2>1, AutomationAssumption DEF Row, Measured
  <2>3. <<row>> \in Seq(Row)
    BY <2>2
  <2>4. PICK rows \in Seq(Row) : rows = <<row>>
    BY <2>3
  <2>5. DOMAIN rows = {1} /\ rows[1] = row
    BY <2>4
  <2>6. Emit(rows) /\ UNCHANGED <<cause, acting>> /\ \A k \in DOMAIN rows : Measured(rows[k])
    BY <1>2, <2>1, <2>2, <2>4, <2>5 DEF Mutate
  <2>. QED
    BY <2>6, MeasuredRowsKeepChains
<1>3. ASSUME NEW g \in Relay, ActionSucceeds(g) PROVE CauseIsBelowCap' /\ DepthIsDistance'
  <2>1. PICK rows \in Seq(Row) :
           /\ Emit(rows)
           /\ \A k \in DOMAIN rows :
                 \E n \in Name, a \in Action : rows[k] = Effect(a, n, log[cause[g]])
    BY <1>1, <1>3, ActionEmits
  <2>2. log[cause[g]] \in Row /\ cause[g] \in outbox /\ acting[g] # <<>>
    BY <1>1, <1>3, RowInHand DEF ActionSucceeds
  <2>3. Measured(log[cause[g]]) /\ log[cause[g]].depth < MAX_DEPTH
    BY <1>1, <2>2 DEF EngineTypeOK, CauseIsBelowCap, DepthIsDistance, Measured
  <2>4. \A k \in DOMAIN rows : Measured(rows[k])
    BY <2>1, <2>2, <2>3, EffectIsMeasured
  <2>5. UNCHANGED cause /\ \A q \in Relay : acting'[q] # <<>> => acting[q] # <<>>
    BY <1>1, <1>3 DEF ActionSucceeds, EngineTypeOK
  <2>. QED
    BY <2>1, <2>4, <2>5, MeasuredRowsKeepChains
<1>4. ASSUME UNCHANGED <<outbox, log>>,
             \A g \in Relay : acting'[g] # <<>> => acting[g] # <<>> /\ cause'[g] = cause[g]
      PROVE  CauseIsBelowCap' /\ DepthIsDistance'
  BY <1>1, <1>4 DEF CauseIsBelowCap, DepthIsDistance
<1>5. ASSUME NEW g \in Relay, NEW r \in Rule, BeginRun(g, r)
      PROVE  CauseIsBelowCap' /\ DepthIsDistance'
  <2>1. cause[g] \in outbox /\ log[cause[g]].depth < MAX_DEPTH
    BY <1>1, <1>5, RowInHand DEF BeginRun, Ready, checkLoopProtection, checkDepth
  <2>2. \A q \in Relay \ {g} : acting'[q] = acting[q]
    BY <1>1, <1>5 DEF BeginRun, EngineTypeOK
  <2>. QED
    BY <1>1, <1>5, <2>1, <2>2 DEF BeginRun, CauseIsBelowCap, DepthIsDistance
<1>6. ASSUME NEW g \in Relay, LoadRules(g) PROVE CauseIsBelowCap' /\ DepthIsDistance'
  <2>1. acting[g] = <<>> /\ acting' = acting /\ UNCHANGED <<outbox, log>>
        /\ \A q \in Relay \ {g} : cause'[q] = cause[q]
    BY <1>1, <1>6 DEF LoadRules, RowDone, EngineTypeOK
  <2>. QED
    BY <1>4, <2>1
<1>7. ASSUME NEW g \in Relay, MarkBatch(g) PROVE CauseIsBelowCap' /\ DepthIsDistance'
  <2>1. acting[g] = <<>> /\ acting' = acting /\ UNCHANGED <<outbox, log>>
        /\ \A q \in Relay \ {g} : cause'[q] = cause[q]
    BY <1>1, <1>7 DEF MarkBatch, BatchDone, RowDone, MarkAndCommit, EngineTypeOK
  <2>. QED
    BY <1>4, <2>1
<1>8. ASSUME NEW g \in Relay, LoseDrain(g) PROVE CauseIsBelowCap' /\ DepthIsDistance'
  <2>1. acting'[g] = <<>> /\ UNCHANGED <<outbox, log>>
        /\ \A q \in Relay \ {g} : cause'[q] = cause[q] /\ acting'[q] = acting[q]
    BY <1>1, <1>8 DEF LoseDrain, Rollback, EngineTypeOK
  <2>. QED
    BY <1>4, <2>1
<1>9. ASSUME NEW g \in Relay, ActionFails(g) PROVE CauseIsBelowCap' /\ DepthIsDistance'
  <2>1. UNCHANGED <<outbox, log, cause>> /\ acting' = [acting EXCEPT ![g] = <<>>]
    BY <1>9 DEF ActionFails
  <2>2. \A q \in Relay : acting'[q] # <<>> => acting[q] # <<>>
    BY <1>1, <2>1 DEF EngineTypeOK
  <2>. QED
    BY <1>4, <2>1, <2>2
<1>10. ASSUME NEW g \in Relay,
              StartDrain(g) \/ ClaimRow(g) \/ ClaimReturns(g) \/ (\E r \in Rule : PassOver(g, r))
       PROVE  CauseIsBelowCap' /\ DepthIsDistance'
  <2>1. UNCHANGED <<outbox, log, cause, acting>>
    BY <1>10 DEF StartDrain, BeginClaim, ClaimRow, LockNext, ClaimReturns, EndClaim, PassOver
  <2>. QED
    BY <1>4, <2>1
<1>11. ASSUME (\E r \in Rule : SetEnabled(r)) \/ SetOrgStatus \/ HourPasses \/ UNCHANGED engineVars
       PROVE  CauseIsBelowCap' /\ DepthIsDistance'
  <2>1. UNCHANGED <<outbox, log, cause, acting>>
    BY <1>11 DEF SetEnabled, SetOrgStatus, HourPasses
  <2>. QED
    BY <1>4, <2>1
<1>. QED
  BY <1>2, <1>3, <1>5, <1>6, <1>7, <1>8, <1>9, <1>10, <1>11 DEF EngineNext, EngineStep

\* However the rules of an org trigger each other, at most MAX_DEPTH actions lie
\* between a person, or an action that dropped the depth, and the next that
\* drops it or the end of the chain (checkDepth).  Which services drop it is a
\* parameter.
THEOREM ChainsCapped == EngineSpec => []ChainsAreCapped
<1>1. EngineInit => ChainInv
  <2>1. EngineInit => CauseIsBelowCap /\ DepthIsDistance
    BY DEF EngineInit, CauseIsBelowCap, DepthIsDistance
  <2>. QED
    BY <2>1, InitDrainInv DEF ChainInv
<1>2. ChainInv => ChainsAreCapped
  <2> SUFFICES ASSUME ChainInv, NEW i \in DOMAIN log
               PROVE  log[i].hops <= (log[i].restarts + 1) * MAX_DEPTH
    BY DEF ChainsAreCapped
  <2>1. log[i] \in Row
    BY DEF ChainInv, DrainInv, EngineTypeOK
  <2>2. /\ log[i].depth \in Nat /\ log[i].hops \in Nat /\ log[i].restarts \in Nat
        /\ MAX_DEPTH \in Nat
    BY <2>1, AutomationAssumption DEF Row
  <2>3. PICK p \in Nat : p = log[i].restarts * MAX_DEPTH
    BY <2>2
  <2>4. (log[i].restarts + 1) * MAX_DEPTH = p + MAX_DEPTH
    BY <2>2, <2>3
  <2>5. log[i].depth <= MAX_DEPTH /\ log[i].hops <= p + log[i].depth
    BY <2>3 DEF ChainInv, DepthIsDistance
  <2>. QED
    BY <2>2, <2>4, <2>5
<1>. QED
  BY <1>1, <1>2, NextChainInv, PTL DEF EngineSpec

-----------------------------------------------------------------------------
(* The automation engine: how often a rule runs on an event. *)

Marked(e) == e \in dispatched[AUTOMATION_CONSUMER]

\* The workers that may still run the rule on what they have read or claimed.
MayRun(r, e) ==
    {g \in Relay : \/ e \in scan[g] \/ e \in left[g]
                   \/ e \in claimed[g] /\ phase[g] = "scanning"
                   \/ e = cause[g] /\ r \in listening[g]}

\* A worker that holds the event is through with the rule.
IsThrough(r, e) == \E g \in Relay : e \in claimed[g] /\ g \notin MayRun(r, e)

\* A marked event has as many runs left as workers have read it unmarked; an
\* event that is not marked is, but for the lost drains, in the hands of the
\* one worker that locked it.
RunsLeftOf(r, e) ==
    /\ Marked(e) => runs[r][e] + Cardinality(MayRun(r, e)) <= faults + Cardinality(Relay)
    /\ ~Marked(e) /\ IsThrough(r, e) => runs[r][e] <= faults + 1
    /\ ~Marked(e) /\ ~IsThrough(r, e) => runs[r][e] <= faults

RunsLeft == \A r \in Rule, e \in Event : RunsLeftOf(r, e)

RunsInv == DrainInv /\ RunsLeft

LEMMA IdleHoldsNothing ==
  ASSUME EngineTypeOK, NEW g \in Relay, phase[g] = "idle"
  PROVE  claimed[g] = {}
BY DEF EngineTypeOK

LEMMA WorkersFinite ==
  ASSUME NEW S \in SUBSET Relay, NEW T \in SUBSET S
  PROVE  /\ IsFiniteSet(S) /\ Cardinality(S) \in Nat /\ Cardinality(T) \in Nat
         /\ Cardinality(T) <= Cardinality(S)
         /\ S # T => Cardinality(T) < Cardinality(S)
<1>1. IsFiniteSet(S) /\ IsFiniteSet(T)
  BY OutboxAssumption, FS_Subset
<1>2. Cardinality(S) \in Nat /\ Cardinality(T) \in Nat /\ Cardinality(T) <= Cardinality(S)
  BY <1>1, FS_Subset, FS_CardinalityType
<1>3. S # T => Cardinality(T) # Cardinality(S)
  BY <1>1, FS_Subset
<1>. QED
  BY <1>1, <1>2, <1>3

LEMMA RunTypes ==
  ASSUME DrainInv, NEW r \in Rule, NEW e \in Event
  PROVE  runs[r][e] \in Nat /\ faults \in Nat
         /\ MayRun(r, e) \in SUBSET Relay
BY DEF DrainInv, EngineTypeOK, MayRun

\* The runs that are left only become fewer, unless a lost drain adds one.
LEMMA RunsLeftShrink ==
  ASSUME DrainInv, DrainInv', NEW r \in Rule, NEW e \in Event, RunsLeftOf(r, e),
         Marked(e)' <=> Marked(e), runs'[r][e] = runs[r][e], faults' >= faults,
         Marked(e) => MayRun(r, e)' \subseteq MayRun(r, e),
         IsThrough(r, e) => IsThrough(r, e)' \/ faults' >= faults + 1
  PROVE  RunsLeftOf(r, e)'
<1>1. runs[r][e] \in Nat /\ faults \in Nat /\ faults' \in Nat
  <2>1. faults' \in Nat
    BY DEF DrainInv, EngineTypeOK
  <2>. QED
    BY <2>1, RunTypes
<1>2. CASE Marked(e)
  <2>1. PICK S \in SUBSET Relay : S = MayRun(r, e)
    BY RunTypes
  <2>2. PICK T \in SUBSET S : T = MayRun(r, e)'
    BY <1>2, <2>1
  <2>3. /\ Cardinality(T) <= Cardinality(S) /\ Cardinality(S) \in Nat /\ Cardinality(T) \in Nat
        /\ Cardinality(Relay) \in Nat
    BY WorkersFinite
  <2>4. runs[r][e] + Cardinality(S) <= faults + Cardinality(Relay)
    BY <1>2, <2>1 DEF RunsLeftOf
  <2>5. runs'[r][e] + Cardinality(T) <= faults' + Cardinality(Relay)
    BY <1>1, <2>3, <2>4
  <2>. QED
    BY <1>2, <2>2, <2>5 DEF RunsLeftOf
<1>3. CASE ~Marked(e)
  BY <1>1, <1>3 DEF RunsLeftOf
<1>. QED
  BY <1>2, <1>3

\* A run uses up what the worker had left of it.
LEMMA BeginKeepsRunsLeft ==
  ASSUME RunsInv, DrainInv', NEW g \in Relay, NEW q \in Rule, BeginRun(g, q)
  PROVE  RunsLeft'
<1>1. DrainInv /\ EngineTypeOK /\ RowLockExclusion
  BY DEF RunsInv, DrainInv
<1>2. PICK c \in Event : c = cause[g]
  BY <1>1, RowInHand DEF BeginRun, Ready
<1>3. /\ listening' = [listening EXCEPT ![g] = @ \ {q}] /\ q \in listening[g]
      /\ runs' = [runs EXCEPT ![q][c] = @ + 1]
      /\ UNCHANGED <<outbox, dispatched, phase, scan, claimed, left, cause, faults>>
  BY <1>2 DEF BeginRun, Ready
<1>4. c \in claimed[g] /\ c \notin left[g] /\ phase[g] = "working" /\ scan[g] = {}
  BY <1>1, <1>2, <1>3, RowInHand
<1>5. \A h \in Relay : listening'[h] \subseteq listening[h] /\ (h # g => listening'[h] = listening[h])
  BY <1>1, <1>3 DEF EngineTypeOK
<1>6. q \notin listening'[g]
  BY <1>1, <1>3 DEF EngineTypeOK
<1>7. ASSUME NEW r \in Rule, NEW e \in Event PROVE RunsLeftOf(r, e)'
  <2>1. RunsLeftOf(r, e) /\ faults' = faults /\ (Marked(e)' <=> Marked(e)) /\ faults \in Nat
    BY <1>1, <1>3, RunTypes DEF RunsInv, RunsLeft, Marked
  <2>2. MayRun(r, e)' \subseteq MayRun(r, e)
    BY <1>3, <1>5 DEF MayRun
  <2>3. IsThrough(r, e) => IsThrough(r, e)'
    BY <1>3, <2>2 DEF IsThrough
  <2>4. CASE ~(r = q /\ e = c)
    <3>1. runs'[r][e] = runs[r][e]
      BY <1>1, <1>3, <2>4 DEF EngineTypeOK
    <3>. QED
      BY <1>1, <2>1, <2>2, <2>3, <3>1, RunsLeftShrink
  <2>5. CASE r = q /\ e = c
    <3>1. runs'[r][e] = runs[r][e] + 1 /\ runs[r][e] \in Nat
      BY <1>1, <1>3, <2>5 DEF EngineTypeOK
    <3>2. g \in MayRun(r, e) /\ g \notin MayRun(r, e)'
      <4>1. g \in MayRun(r, e)
        BY <1>2, <1>3, <2>5 DEF MayRun
      <4>2. g \notin MayRun(r, e)'
        BY <1>3, <1>4, <1>6, <2>5 DEF MayRun
      <4>. QED
        BY <4>1, <4>2
    <3>3. CASE ~Marked(e)
      <4>1. ~IsThrough(r, e)
        BY <1>1, <1>4, <2>5, <3>2 DEF IsThrough, RowLockExclusion
      <4>2. IsThrough(r, e)'
        BY <1>3, <1>4, <2>5, <3>2 DEF IsThrough
      <4>. QED
        BY <2>1, <3>1, <3>3, <4>1, <4>2 DEF RunsLeftOf
    <3>4. CASE Marked(e)
      <4>1. PICK S \in SUBSET Relay : S = MayRun(r, e)
        BY <1>1, RunTypes
      <4>2. PICK T \in SUBSET S : T = MayRun(r, e)'
        BY <2>2, <4>1
      <4>3. /\ Cardinality(T) < Cardinality(S) /\ Cardinality(S) \in Nat /\ Cardinality(T) \in Nat
            /\ Cardinality(Relay) \in Nat
        BY <3>2, <4>1, <4>2, WorkersFinite
      <4>4. runs[r][e] + Cardinality(S) <= faults + Cardinality(Relay)
        BY <2>1, <3>4, <4>1 DEF RunsLeftOf
      <4>5. runs'[r][e] + Cardinality(T) <= faults' + Cardinality(Relay)
        BY <2>1, <3>1, <4>3, <4>4
      <4>. QED
        BY <2>1, <3>4, <4>2, <4>5 DEF RunsLeftOf
    <3>. QED
      BY <3>3, <3>4
  <2>. QED
    BY <2>4, <2>5
<1>. QED
  BY <1>7 DEF RunsLeft

\* The commit that marks a batch is through with every row of it.
LEMMA MarkKeepsRunsLeft ==
  ASSUME RunsInv, DrainInv', NEW g \in Relay, MarkBatch(g)
  PROVE  RunsLeft'
<1>1. DrainInv /\ EngineTypeOK
  BY DEF RunsInv, DrainInv
<1>2. /\ phase[g] = "working" /\ left[g] = {} /\ listening[g] = {}
      /\ dispatched' = [dispatched EXCEPT ![AUTOMATION_CONSUMER] = @ \cup claimed[g]]
      /\ claimed' = [claimed EXCEPT ![g] = {}] /\ phase' = [phase EXCEPT ![g] = "idle"]
      /\ cause' = [cause EXCEPT ![g] = 0]
      /\ UNCHANGED <<outbox, scan, left, listening, runs, faults>>
  BY AutomationAssumption DEF MarkBatch, BatchDone, RowDone, MarkAndCommit
<1>3. \A h \in Relay \ {g} : claimed'[h] = claimed[h] /\ phase'[h] = phase[h] /\ cause'[h] = cause[h]
  BY <1>1, <1>2 DEF EngineTypeOK
<1>4. claimed'[g] = {} /\ scan[g] = {}
  BY <1>1, <1>2 DEF EngineTypeOK
<1>5. \A e : Marked(e)' <=> Marked(e) \/ e \in claimed[g]
  BY <1>1, <1>2, AutomationAssumption DEF EngineTypeOK, Marked
<1>6. ASSUME NEW r \in Rule, NEW e \in Event PROVE RunsLeftOf(r, e)'
  <2>1. RunsLeftOf(r, e) /\ faults' = faults /\ faults \in Nat /\ runs[r][e] \in Nat
    BY <1>1, <1>2, RunTypes DEF RunsInv, RunsLeft
  <2>2. MayRun(r, e)' \subseteq MayRun(r, e) \ {g}
    BY <1>2, <1>3, <1>4 DEF MayRun
  <2>3. CASE Marked(e)' /\ ~Marked(e)
    <3>1. e \in claimed[g]
      BY <1>5, <2>3
    <3>2. g \notin MayRun(r, e)
      BY <1>2, <1>4 DEF MayRun
    <3>3. IsThrough(r, e)
      BY <3>1, <3>2 DEF IsThrough
    <3>4. runs[r][e] <= faults + 1
      BY <2>1, <2>3, <3>3 DEF RunsLeftOf
    <3>5. PICK T \in SUBSET Relay : T = MayRun(r, e)'
      BY <2>2 DEF MayRun
    <3>6. T # Relay
      BY <2>2, <3>5
    <3>7. /\ Cardinality(T) < Cardinality(Relay) /\ Cardinality(T) \in Nat
          /\ Cardinality(Relay) \in Nat
      BY <3>6, WorkersFinite
    <3>8. runs[r][e] + Cardinality(T) <= faults + Cardinality(Relay)
      BY <2>1, <3>4, <3>7
    <3>. QED
      BY <1>2, <2>1, <2>3, <3>5, <3>8 DEF RunsLeftOf
  <2>4. CASE Marked(e)' <=> Marked(e)
    <3>1. CASE Marked(e)
      <4>1. PICK S \in SUBSET Relay : S = MayRun(r, e)
        BY <1>1, RunTypes
      <4>2. PICK T \in SUBSET S : T = MayRun(r, e)'
        BY <2>2, <4>1
      <4>3. /\ Cardinality(T) <= Cardinality(S) /\ Cardinality(S) \in Nat /\ Cardinality(T) \in Nat
            /\ Cardinality(Relay) \in Nat
        BY WorkersFinite
      <4>4. runs[r][e] + Cardinality(S) <= faults + Cardinality(Relay)
        BY <2>1, <3>1, <4>1 DEF RunsLeftOf
      <4>5. runs[r][e] + Cardinality(T) <= faults + Cardinality(Relay)
        BY <2>1, <4>3, <4>4
      <4>. QED
        BY <1>2, <2>1, <2>4, <3>1, <4>2, <4>5 DEF RunsLeftOf
    <3>2. CASE ~Marked(e)
      <4>1. e \notin claimed[g]
        BY <1>5, <2>4, <3>2
      <4>2. IsThrough(r, e) => IsThrough(r, e)'
        BY <1>3, <2>2, <4>1 DEF IsThrough
      <4>3. runs'[r][e] = runs[r][e]
        BY <1>2
      <4>4. RunsLeftOf(r, e) /\ faults' >= faults
        BY <2>1
      <4>. QED
        BY <1>1, <2>4, <3>2, <4>2, <4>3, <4>4, RunsLeftShrink
    <3>. QED
      BY <3>1, <3>2
  <2>5. Marked(e) => Marked(e)'
    BY <1>5
  <2>. QED
    BY <2>3, <2>4, <2>5
<1>. QED
  BY <1>6 DEF RunsLeft

\* A lost drain lets go of its rows, and pays for their next run.
LEMMA LossKeepsRunsLeft ==
  ASSUME RunsInv, DrainInv', NEW g \in Relay, LoseDrain(g)
  PROVE  RunsLeft'
<1>1. DrainInv /\ EngineTypeOK
  BY DEF RunsInv, DrainInv
<1>2. /\ left' = [left EXCEPT ![g] = {}] /\ cause' = [cause EXCEPT ![g] = 0]
      /\ listening' = [listening EXCEPT ![g] = {}] /\ scan' = [scan EXCEPT ![g] = {}]
      /\ claimed' = [claimed EXCEPT ![g] = {}] /\ phase' = [phase EXCEPT ![g] = "idle"]
      /\ UNCHANGED <<dispatched, runs>> /\ faults' = faults + 1
  BY DEF LoseDrain, Rollback
<1>3. \A h \in Relay :
         \/ h # g /\ left'[h] = left[h] /\ cause'[h] = cause[h] /\ listening'[h] = listening[h]
                  /\ scan'[h] = scan[h] /\ claimed'[h] = claimed[h] /\ phase'[h] = phase[h]
         \/ h = g /\ left'[h] = {} /\ listening'[h] = {} /\ scan'[h] = {} /\ claimed'[h] = {}
  BY <1>1, <1>2 DEF EngineTypeOK
<1>4. ASSUME NEW r \in Rule, NEW e \in Event PROVE RunsLeftOf(r, e)'
  <2>1. RunsLeftOf(r, e) /\ faults \in Nat
    BY <1>1, RunTypes DEF RunsInv, RunsLeft
  <2>2. faults' >= faults /\ faults' >= faults + 1
    BY <1>2, <2>1
  <2>3. MayRun(r, e)' \subseteq MayRun(r, e)
    BY <1>3 DEF MayRun
  <2>4. (Marked(e)' <=> Marked(e)) /\ runs'[r][e] = runs[r][e]
    BY <1>2 DEF Marked
  <2>. QED
    BY <1>1, <2>1, <2>2, <2>3, <2>4, RunsLeftShrink
<1>. QED
  BY <1>4 DEF RunsLeft

LEMMA NextRunsInv == RunsInv /\ [EngineNext]_engineVars => RunsInv'
<1> SUFFICES ASSUME RunsInv, [EngineNext]_engineVars PROVE RunsLeft'
  BY NextDrainInv DEF RunsInv
<1>1. DrainInv /\ DrainInv' /\ EngineTypeOK
  BY NextDrainInv DEF RunsInv, DrainInv
<1>2. ASSUME UNCHANGED <<dispatched, runs, faults>>,
             \A r \in Rule, e \in Event :
                /\ Marked(e) => MayRun(r, e)' \subseteq MayRun(r, e)
                /\ IsThrough(r, e) => IsThrough(r, e)'
      PROVE  RunsLeft'
  <2>1. ASSUME NEW r \in Rule, NEW e \in Event PROVE RunsLeftOf(r, e)'
    <3>1. RunsLeftOf(r, e) /\ faults \in Nat /\ faults' = faults
      BY <1>1, <1>2, RunTypes DEF RunsInv, RunsLeft
    <3>2. faults' >= faults /\ (Marked(e)' <=> Marked(e)) /\ runs'[r][e] = runs[r][e]
      BY <1>2, <3>1 DEF Marked
    <3>. QED
      BY <1>1, <1>2, <3>1, <3>2, RunsLeftShrink
  <2>. QED
    BY <2>1 DEF RunsLeft
\* Steps that only make the work of the instances smaller.
<1>3. ASSUME UNCHANGED <<dispatched, runs, faults, claimed>>,
             \A r \in Rule, e \in Event : MayRun(r, e)' \subseteq MayRun(r, e)
      PROVE  RunsLeft'
  <2>1. \A r \in Rule, e \in Event : IsThrough(r, e) => IsThrough(r, e)'
    BY <1>3 DEF IsThrough
  <2>. QED
    BY <1>2, <1>3, <2>1
<1>4. ASSUME UNCHANGED <<dispatched, phase, scan, claimed, left, cause, listening, runs,
                         faults>>
      PROVE  RunsLeft'
  BY <1>3, <1>4 DEF MayRun
<1>5. ASSUME NEW n \in HumanName, Mutate(n) PROVE RunsLeft'
  <2>1. UNCHANGED <<dispatched, phase, scan, claimed>>
    BY <1>5 DEF Mutate, Emit, appendToOutbox
  <2>. QED
    BY <1>4, <1>5, <2>1 DEF Mutate
<1>6. ASSUME NEW g \in Relay, ActionSucceeds(g) PROVE RunsLeft'
  <2>1. UNCHANGED <<dispatched, phase, scan, claimed>>
    <3>1. PICK rows \in Seq(Row) : Emit(rows)
      BY <1>1, <1>6, ActionEmits
    <3>. QED
      BY <1>1, <3>1, RowsAreAppended
  <2>. QED
    BY <1>4, <1>6, <2>1 DEF ActionSucceeds
<1>7. CASE (\E r \in Rule : SetEnabled(r)) \/ SetOrgStatus \/ HourPasses \/ UNCHANGED engineVars
  BY <1>4, <1>7 DEF SetEnabled, SetOrgStatus, HourPasses
<1>8. ASSUME NEW g \in Relay, ActionFails(g) PROVE RunsLeft'
  BY <1>4, <1>8 DEF ActionFails
<1>9. ASSUME NEW g \in Relay, StartDrain(g) PROVE RunsLeft'
  <2>1. /\ scan' = [scan EXCEPT ![g] = outbox \ dispatched[AUTOMATION_CONSUMER]]
        /\ phase' = [phase EXCEPT ![g] = "scanning"] /\ claimed[g] = {}
        /\ UNCHANGED <<dispatched, claimed, left, cause, listening, runs, faults>>
    <3>1. phase[g] = "idle" /\ ConsumerOf[g] = AUTOMATION_CONSUMER
      BY <1>9, AutomationAssumption DEF StartDrain, BeginClaim
    <3>2. claimed[g] = {}
      BY <1>1, <3>1, IdleHoldsNothing
    <3>. QED
      BY <1>9, <3>1, <3>2 DEF StartDrain, BeginClaim, Pending
  <2>2. \A h \in Relay \ {g} : scan'[h] = scan[h] /\ phase'[h] = phase[h]
    BY <1>1, <2>1 DEF EngineTypeOK
  <2>3. \A e : e \in scan'[g] => ~Marked(e)
    BY <1>1, <2>1 DEF EngineTypeOK, Marked
  <2>4. ASSUME NEW r \in Rule, NEW e \in Event, Marked(e)
        PROVE  MayRun(r, e)' \subseteq MayRun(r, e)
    BY <2>1, <2>2, <2>3, <2>4 DEF MayRun
  <2>5. ASSUME NEW r \in Rule, NEW e \in Event, IsThrough(r, e) PROVE IsThrough(r, e)'
    <3>1. PICK h \in Relay : e \in claimed[h] /\ h \notin MayRun(r, e)
      BY <2>5 DEF IsThrough
    <3>2. h # g
      BY <2>1, <3>1
    <3>3. h \notin MayRun(r, e)'
      BY <2>1, <2>2, <3>1, <3>2 DEF MayRun
    <3>. QED
      BY <2>1, <3>1, <3>3 DEF IsThrough
  <2>. QED
    BY <1>2, <2>1, <2>4, <2>5
<1>10. ASSUME NEW g \in Relay, ClaimRow(g) PROVE RunsLeft'
  <2>1. PICK c \in scan[g] :
          /\ scan' = [scan EXCEPT ![g] = @ \ {c}]
          /\ claimed' = IF LockedByOther(g, c) THEN claimed
                        ELSE [claimed EXCEPT ![g] = @ \cup {c}]
          /\ phase[g] = "scanning"
          /\ UNCHANGED <<dispatched, phase, left, cause, listening, runs, faults>>
    BY <1>10 DEF ClaimRow, LockNext
  <2>2. \A h \in Relay : /\ scan'[h] \subseteq scan[h] /\ claimed[h] \subseteq claimed'[h]
                         /\ h # g => claimed'[h] = claimed[h]
    BY <1>1, <2>1 DEF EngineTypeOK
  <2>3. claimed'[g] \subseteq claimed[g] \cup scan[g]
    BY <1>1, <2>1 DEF EngineTypeOK
  <2>4. \A r \in Rule, e \in Event : MayRun(r, e)' \subseteq MayRun(r, e)
    BY <2>1, <2>2, <2>3 DEF MayRun
  <2>5. ASSUME NEW r \in Rule, NEW e \in Event, IsThrough(r, e) PROVE IsThrough(r, e)'
    <3>1. PICK h \in Relay : e \in claimed[h] /\ h \notin MayRun(r, e)
      BY <2>5 DEF IsThrough
    <3>2. e \in claimed'[h] /\ h \notin MayRun(r, e)'
      BY <2>1, <2>2, <2>3, <3>1 DEF MayRun
    <3>. QED
      BY <3>2 DEF IsThrough
  <2>. QED
    BY <1>2, <2>1, <2>4, <2>5
<1>11. ASSUME NEW g \in Relay, ClaimReturns(g) PROVE RunsLeft'
  <2>1. /\ phase[g] = "scanning" /\ scan' = [scan EXCEPT ![g] = {}]
        /\ left' = [left EXCEPT ![g] = claimed[g]]
        /\ \E p \in {"idle", "working"} : phase' = [phase EXCEPT ![g] = p]
        /\ UNCHANGED <<dispatched, claimed, cause, listening, runs, faults>>
    BY <1>11 DEF ClaimReturns, EndClaim
  <2>2. \A h \in Relay \ {g} : scan'[h] = scan[h] /\ left'[h] = left[h] /\ phase'[h] = phase[h]
    BY <1>1, <2>1 DEF EngineTypeOK
  <2>3. scan'[g] = {} /\ left'[g] = claimed[g]
    BY <1>1, <2>1 DEF EngineTypeOK
  <2>4. \A r \in Rule, e \in Event : MayRun(r, e)' \subseteq MayRun(r, e)
    BY <2>1, <2>2, <2>3 DEF MayRun
  <2>. QED
    BY <1>3, <2>1, <2>4
<1>12. ASSUME NEW g \in Relay, LoadRules(g) PROVE RunsLeft'
  <2>1. PICK c \in left[g] :
          /\ left' = [left EXCEPT ![g] = @ \ {c}] /\ cause' = [cause EXCEPT ![g] = c]
          /\ UNCHANGED <<dispatched, phase, scan, claimed, runs, faults>>
          /\ \A h \in Relay \ {g} : listening'[h] = listening[h]
    BY <1>1, <1>12 DEF LoadRules, EngineTypeOK
  <2>2. \A h \in Relay \ {g} : left'[h] = left[h] /\ cause'[h] = cause[h]
    BY <1>1, <2>1 DEF EngineTypeOK
  <2>3. left'[g] \subseteq left[g] /\ cause'[g] = c
    BY <1>1, <2>1 DEF EngineTypeOK
  <2>4. \A r \in Rule, e \in Event : MayRun(r, e)' \subseteq MayRun(r, e)
    BY <2>1, <2>2, <2>3 DEF MayRun
  <2>. QED
    BY <1>3, <2>1, <2>4
<1>13. ASSUME NEW g \in Relay, NEW q \in Rule, PassOver(g, q) PROVE RunsLeft'
  <2>1. /\ listening' = [listening EXCEPT ![g] = @ \ {q}]
        /\ UNCHANGED <<dispatched, phase, scan, claimed, left, cause, runs, faults>>
    BY <1>13 DEF PassOver
  <2>2. \A h \in Relay : listening'[h] \subseteq listening[h]
    BY <1>1, <2>1 DEF EngineTypeOK
  <2>3. \A r \in Rule, e \in Event : MayRun(r, e)' \subseteq MayRun(r, e)
    BY <2>1, <2>2 DEF MayRun
  <2>. QED
    BY <1>3, <2>1, <2>3
<1>14. ASSUME NEW g \in Relay, NEW q \in Rule, BeginRun(g, q) PROVE RunsLeft'
  BY <1>1, <1>14, BeginKeepsRunsLeft
<1>15. ASSUME NEW g \in Relay, MarkBatch(g) PROVE RunsLeft'
  BY <1>1, <1>15, MarkKeepsRunsLeft
<1>16. ASSUME NEW g \in Relay, LoseDrain(g) PROVE RunsLeft'
  BY <1>1, <1>16, LossKeepsRunsLeft
<1>. QED
  BY <1>5, <1>6, <1>7, <1>8, <1>9, <1>10, <1>11, <1>12, <1>13, <1>14, <1>15, <1>16
     DEF EngineNext, EngineStep

\* However many workers drain the outbox and however large their batches, a
\* rule runs on an event at most once for each of them and once more for each
\* lost drain, which reruns the rows of its batch; and an hour's runs stay
\* within the budget (drainAutomations, consumeExecutionBudget).
THEOREM RunsBounded == EngineSpec => []RunsAreBounded
<1>1. EngineInit => RunsInv
  <2> SUFFICES ASSUME EngineInit PROVE RunsInv
    OBVIOUS
  <2>1. DrainInv
    BY InitDrainInv
  <2>2. ASSUME NEW r \in Rule, NEW e \in Event PROVE RunsLeftOf(r, e)
    <3>1. runs[r][e] = 0 /\ faults = 0
      BY DEF EngineInit
    <3>2. ~Marked(e)
      BY AutomationAssumption DEF EngineInit, OutboxInit, Marked
    <3>. QED
      BY <3>1, <3>2 DEF RunsLeftOf
  <2>. QED
    BY <2>1, <2>2 DEF RunsInv, RunsLeft
<1>2. RunsInv => RunsAreBounded
  <2> SUFFICES ASSUME RunsInv PROVE RunsAreBounded
    OBVIOUS
  <2>1. DrainInv /\ EngineTypeOK /\ outbox \subseteq Event
    BY DEF RunsInv, DrainInv, EngineTypeOK
  <2>2. ASSUME NEW r \in Rule, NEW e \in Event
        PROVE  runs[r][e] <= faults + Cardinality(Relay)
    <3>1. RunsLeftOf(r, e) /\ runs[r][e] \in Nat /\ faults \in Nat
      BY <2>1, RunTypes DEF RunsInv, RunsLeft
    <3>2. PICK S \in SUBSET Relay : S = MayRun(r, e)
      BY <2>1, RunTypes
    <3>3. Cardinality(S) \in Nat /\ Cardinality(Relay) \in Nat
      BY WorkersFinite
    <3>4. IsThrough(r, e) => Cardinality(Relay) >= 1
      <4> SUFFICES ASSUME IsThrough(r, e) PROVE Cardinality(Relay) >= 1
        OBVIOUS
      <4>1. {} \in SUBSET Relay /\ {} # Relay
        BY DEF IsThrough
      <4>2. Cardinality({}) < Cardinality(Relay)
        BY <4>1, WorkersFinite
      <4>. QED
        BY <3>3, <4>2, FS_EmptySet
    <3>5. runs[r][e] <= faults + Cardinality(Relay)
      BY <3>1, <3>2, <3>3, <3>4 DEF RunsLeftOf
    <3>. QED
      BY <3>5
  <2>3. executions <= HOURLY_EXECUTION_BUDGET
    BY <2>1, AutomationAssumption DEF EngineTypeOK
  <2>. QED
    BY <2>1, <2>2, <2>3 DEF RunsAreBounded
<1>. QED
  BY <1>1, <1>2, NextRunsInv, PTL DEF EngineSpec
=============================================================================
