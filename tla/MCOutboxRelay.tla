---------------------------- MODULE MCOutboxRelay ----------------------------
(* Instances of OutboxRelay for TLC.                                       *)
EXTENDS OutboxRelay, TLC

CONSTANTS realtime, automation, r1, r2, r3

\* Two consumers, the first with two instances.
MCRelayThree == {r1, r2, r3}
MCConsumerOfThree == r1 :> realtime @@ r2 :> realtime @@ r3 :> automation

\* Instances of the first consumer may die, the other consumer's only fail.
MCCrashFirst == realtime :> 1 @@ automation :> 0

MCEvent2 == 1..2
MCMutation == {{e} : e \in Event}
=============================================================================
