-------------------------- MODULE MCWebhookDelivery --------------------------
(***************************************************************************)
(* Instances of WebhookDelivery for TLC.  The program's MAX_ATTEMPTS is 6  *)
(* and its DISABLE_AFTER_FAILURES is 5; 2 and 1 or 2 reach every branch    *)
(* that compares with them.                                                *)
(***************************************************************************)
EXTENDS WebhookDelivery, TLC

CONSTANTS h1, w1, w2

MCDelivery2 == 1..2
MCHookOf2 == [d \in 1..2 |-> h1]

Symmetric == Permutations(Worker)
=============================================================================
