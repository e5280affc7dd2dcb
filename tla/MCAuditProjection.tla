-------------------------- MODULE MCAuditProjection --------------------------
(* Instances of AuditProjection for TLC.                                   *)
EXTENDS AuditProjection, TLC

CONSTANTS p1, p2

MCConsumerOfAudit == p1 :> audit @@ p2 :> audit

\* Two orgs, each with an event older and one younger than the other's: two
\* batches of two can meet their orgs in opposite orders.
MCEvent5 == 1..5
MCMutation == {{1, 4}, {2, 3}, {5}}
MCOrg == 1..2
MCOrgOf == [e \in Event |-> IF e \in {1, 4} THEN 1 ELSE 2]
=============================================================================
