------------------------------ MODULE AuditLog ------------------------------
(***************************************************************************)
(* What the audit projection promises of the compliance record: the events *)
(* of an organisation are recorded in a chain numbered 1, 2, 3, ..., each  *)
(* at most once and none before it happened; a recorded entry is never     *)
(* renumbered or removed; events are handed over in whole batches.         *)
(***************************************************************************)
EXTENDS Integers, FiniteSets

CONSTANTS Event, Org, OrgOf, NeverAudited

VARIABLES
    happened,    \* events that were committed
    handled,     \* events the audit consumer is done with
    entry,       \* position of an event in its org's chain, 0 if none
    size         \* length of an org's chain

auditVars == <<happened, handled, entry, size>>

Init ==
    /\ happened = {}
    /\ handled = {}
    /\ entry = [e \in Event |-> 0]
    /\ size = [o \in Org |-> 0]

Happen(E) ==
    /\ happened' = happened \cup E
    /\ UNCHANGED <<handled, entry, size>>

\* The events of B that go into the chain of o.
Share(B, o) == {e \in B \ NeverAudited : OrgOf[e] = o}

\* A batch is recorded: in every org its auditable events get the next
\* positions, one each, and nothing recorded before is touched.
Record(B) ==
    /\ B \subseteq happened \ handled
    /\ handled' = handled \cup B
    /\ entry' \in [Event -> Nat]
    /\ size' \in [Org -> Nat]
    /\ \A e \in Event \ (B \ NeverAudited) : entry'[e] = entry[e]
    /\ \A o \in Org :
          /\ size'[o] >= size[o]
          /\ {entry'[e] : e \in Share(B, o)} = size[o] + 1 .. size'[o]
          /\ \A e, f \in Share(B, o) : entry'[e] = entry'[f] => e = f
    /\ UNCHANGED happened

Next ==
    \/ \E E \in SUBSET Event : Happen(E)
    \/ \E B \in SUBSET Event : Record(B)

Spec == Init /\ [][Next]_auditVars
=============================================================================
