------------------------------ MODULE MCRtcCall ------------------------------
(***************************************************************************)
(* Instances of RtcCall for TLC: a conversation of three, with two         *)
(* requests in flight at a time.                                           *)
(***************************************************************************)
EXTENDS RtcCall, TLC

CONSTANTS u1, u2, u3, r1, r2

Symmetric == Permutations(User) \cup Permutations(Request)
=============================================================================
