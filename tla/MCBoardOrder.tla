---------------------------- MODULE MCBoardOrder ----------------------------
(***************************************************************************)
(* Two lists, four cards of which one is yet to be created, two requests   *)
(* at a time.  The board is as it was made, or two cards were dropped at   *)
(* the same place at once, or it is crowded between two cards.  Or there   *)
(* are two pairs of cards, each dropped at one place at once.              *)
(***************************************************************************)
EXTENDS BoardOrder, TLC

CONSTANTS todo, doing

Board(r) == [list |-> <<todo, todo, doing, Nowhere>>,
             rank |-> <<<<0, 0>>, r, <<0, 0>>, Null>>]

TwoTies == [list |-> <<todo, todo, doing, doing>>, rank |-> [c \in Card |-> <<0, 0>>]]

MCBoards == {Board(<<0, 1>>), Board(<<0, 0>>), Board(<<0, 0, 1>>), TwoTies}
MCLowest == -2
Symmetry == Permutations(Mover)
=============================================================================
