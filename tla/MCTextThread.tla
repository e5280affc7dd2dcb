--------------------------- MODULE MCTextThread ---------------------------
(***************************************************************************)
(* Three texts of a person, two of them keywords, and two outbound ones,   *)
(* the second of more than one segment: it is estimated at 1 and costs 2.  *)
(***************************************************************************)
EXTENDS TextThread, TLC

MCEstimate == [t \in {1, 2} |-> 1]
MCCost == [t \in {1, 2} |-> t]

MCInbound == 1..3
\* Bounds: both texts may be sent, the carrier reports on one of them; the
\* person's third text comes where the second text was not sent yet.
OneMovesOn ==
    /\ Cardinality({t \in Text : sent[t] # {}}) <= 1
    /\ Cardinality(texted) = 3 => sent = [t \in Text |-> {}] /\ phase[2] = "idle"

MCSays == <<"stop", "none", "start">>

\* For the replay: START, and a STOP that was texted after it.
MCReplayInbound == 1..2
MCStartThenStop == <<"start", "stop">>
=============================================================================
