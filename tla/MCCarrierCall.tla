--------------------------- MODULE MCCarrierCall ---------------------------
(***************************************************************************)
(* Two calls of which the first is recorded behind an announcement and the *)
(* second is placed by a rule, and two recording sweeps.  With a cap of 2, *)
(* overlapping calls exceed it where 1 was spent before, and miss the      *)
(* warning where nothing was.                                              *)
(***************************************************************************)
EXTENDS CarrierCall, TLC

CONSTANTS w1, w2

MCCost == [a \in {1, 2} |-> 1]

\* Bound: both calls may be dialled, one of them goes on from there.
OneMovesOn == Cardinality({c \in Call : sent[c] # {}}) <= 1

Symmetric == Permutations(Sweeper)
=============================================================================
