----------------------------- MODULE PuzzleBoard -----------------------------
(***************************************************************************)
(* The board of a match-3 puzzle (lib/puzzle/board.ts).  A cell is a pair  *)
(* of a column and a row, the row 0 on top; an empty cell holds None.      *)
(***************************************************************************)
EXTENDS Integers, FiniteSets, Sequences, SequencesExt, FiniteSetsExt

CONSTANTS Width, Height, Pieces, None

ASSUME BoardAssumption ==
    /\ Width \in Nat \ {0} /\ Height \in Nat \ {0}
    /\ None \notin Pieces

Columns == 0..Width - 1
Rows == 0..Height - 1
Cells == Columns \X Rows
Boards == [Cells -> Pieces \cup {None}]

\* The lines of cells that a run may occupy: three or more side by side.
Horizontal(x1, x2, y) == {<<x, y>> : x \in x1..x2}
Vertical(x, y1, y2) == {<<x, y>> : y \in y1..y2}
HorizontalLines ==
    {Horizontal(r[1], r[2], r[3]) :
        r \in {r \in Columns \X Columns \X Rows : r[2] - r[1] >= 2}}
VerticalLines ==
    {Vertical(r[1], r[2], r[3]) :
        r \in {r \in Columns \X Rows \X Rows : r[3] - r[2] >= 2}}
Lines == HorizontalLines \cup VerticalLines

Uniform(b, line) == \E p \in Pieces : \A c \in line : b[c] = p

\* A match is a uniform line that is part of no longer one.
FindMatches(b) ==
    LET runs == {line \in Lines : Uniform(b, line)}
    IN  {line \in runs : \A other \in runs : line \subseteq other => other = line}

MutantScoreForRun(length) == CASE length > 5 -> 100 [] length > 4 -> 60 [] OTHER -> 0

ScoreForRun(length) == CASE length >= 5 -> 100 [] length = 4 -> 60 [] OTHER -> 30

\* Every run counts: a cell where two of them cross counts twice.
ScoreOf(matches) == MapThenSumSet(LAMBDA m : ScoreForRun(Cardinality(m)), matches)

AreAdjacent(a, b) ==
    \/ a[1] = b[1] /\ a[2] - b[2] \in {-1, 1}
    \/ a[2] = b[2] /\ a[1] - b[1] \in {-1, 1}

Swapped(b, a, c) == [b EXCEPT ![a] = b[c], ![c] = b[a]]
Matching(b) == FindMatches(b) # {}

HasValidMove(b) ==
    \E a, c \in Cells : AreAdjacent(a, c) /\ Matching(Swapped(b, a, c))

Emptied(b, cleared) == [c \in Cells |-> IF c \in cleared THEN None ELSE b[c]]

\* A piece falls by the empty cells below it.
Below(b, c) == {y \in c[2] + 1..Height - 1 : b[<<c[1], y>>] = None}
Landing(b, c) == <<c[1], c[2] + Cardinality(Below(b, c))>>

\* Where each piece that falls lands.
Falls(b) ==
    [c \in {c \in Cells : b[c] # None /\ Landing(b, c) # c} |-> Landing(b, c)]

MutantBottomUp == [i \in 1..Width * Height |-> <<(i - 1) \div Height, (i - 1) % Height>>]

\* The order of the falls: column by column, from the bottom to the top.
BottomUp == [i \in 1..Width * Height |-> <<(i - 1) \div Height, (Height - 1) - ((i - 1) % Height)>>]

ApplyGravity(b) ==
    [c \in Cells |->
        LET source == {d \in Cells : b[d] # None /\ Landing(b, d) = c}
        IN  IF source = {} THEN None ELSE b[CHOOSE d \in source : TRUE]]

EmptyCells(b) == {c \in Cells : b[c] = None}

\* Refilled with the pieces of spawns, a function of the empty cells.
Refill(b, spawns) == [c \in Cells |-> IF c \in DOMAIN spawns THEN spawns[c] ELSE b[c]]

\* A cell is not filled with the piece of the two on its left or above it.
FilledInOrder(b) ==
    /\ b \in [Cells -> Pieces]
    /\ \A x \in Columns, y \in Rows :
        /\ x >= 2 => ~(b[<<x - 1, y>>] = b[<<x, y>>] /\ b[<<x - 2, y>>] = b[<<x, y>>])
        /\ y >= 2 => ~(b[<<x, y - 1>>] = b[<<x, y>>] /\ b[<<x, y - 2>>] = b[<<x, y>>])

\* What generateBoard builds, but for the fill of a hundredth attempt.
Dealt(b) == FilledInOrder(b) /\ HasValidMove(b)
=============================================================================
