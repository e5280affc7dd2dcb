------------------------------- MODULE Outbound -------------------------------
(***************************************************************************)
(* What an outbound call and an outbound text have in common               *)
(* (apps/api/src/telephony): the request that passes the spend gate and    *)
(* tells the carrier, the action's row, its state at the carrier, and the  *)
(* status callbacks that report on it.  A callback's effect and the nonce  *)
(* that marks it as seen are separate transactions.                        *)
(***************************************************************************)
EXTENDS SpendGate

CONSTANTS
    CrashBound        \* bound: deaths of an api process

ASSUME OutboundAssumption == CrashBound \in Nat

VARIABLES
    phase,       \* where the request of an action is
    row,         \* its status in calls or messages, "none" without a row
    carrier,     \* the action at the carrier
    sent,        \* status callbacks the carrier sends
    applied,     \* callbacks whose effect has committed
    nonces,      \* comms.webhook_nonces: callbacks seen
    crashes,
    \* History, for the properties.
    lost,        \* accepted by the carrier, but the answer never came back
    astray       \* callback before what it is matched by, or out of order

hookVars == <<sent, applied, nonces, astray>>

OutboundInit(A) ==
    /\ phase = [a \in A |-> "idle"]
    /\ row = [a \in A |-> "none"]
    /\ carrier = [a \in A |-> "none"]
    /\ sent = [a \in A |-> {}]
    /\ applied = [a \in A |-> {}]
    /\ nonces = [a \in A |-> {}]
    /\ crashes = 0
    /\ lost = {} /\ astray = {}

Goto(a, p) == phase' = [phase EXCEPT ![a] = p]

\* The carrier reports the status the action has reached there.
Report(a, s) ==
    /\ carrier' = [carrier EXCEPT ![a] = s]
    /\ sent' = [sent EXCEPT ![a] = @ \cup {s}]

\* commitWebhookNonce
MarkSeen(a, s) ==
    /\ s \in applied[a] \ nonces[a]
    /\ nonces' = [nonces EXCEPT ![a] = @ \cup {s}]
=============================================================================
