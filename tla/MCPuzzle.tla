------------------------------ MODULE MCPuzzle -------------------------------
(* Two stages on a board of 4x4 cells and three pieces, the least that the *)
(* validator of stages admits.                                             *)
EXTENDS Puzzle

Board(r1, r2, r3, r4) == LET rows == <<r1, r2, r3, r4>> IN [c \in Cells |-> rows[c[2] + 1][c[1] + 1]]

MCDeals == {Board(<<1, 3, 2, 1>>, <<3, 2, 2, 1>>, <<3, 1, 3, 3>>, <<1, 2, 3, 2>>)}
MCDraws == {<<1, 1, 3>>, <<3, 3, 1>>}
MCStages == <<[target |-> 60, moves |-> 2], [target |-> 90, moves |-> 2]>>
MCTappable == {<<0, 0>>, <<1, 0>>}
=============================================================================
