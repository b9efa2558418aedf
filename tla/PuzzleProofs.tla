----------------------------- MODULE PuzzleProofs -----------------------------
(* What is proved of the puzzle, for boards of any size, any pieces, stages, *)
(* deals and draws.                                                          *)
(*                                                                           *)
(* A wave is shown in three parts: its runs are emptied, its sprites fall,   *)
(* its refills appear.  The board has all three at once, and the sprites     *)
(* are moved one at a time, each overwriting the cell where it lands.  So    *)
(* the screen ends with the board only if no sprite lands on one that has    *)
(* yet to move: the first section proves it (SpritesFollow), from the order  *)
(* bottom up and from landings that are distinct and never above the piece.  *)
(* The invariant IInv then says what a run holds while each animation plays  *)
(* (RunOK) and what the view says of it (ViewOK).                            *)
EXTENDS Puzzle, CommonLemmas

USE BoardAssumption

\* A board without an empty cell.
FullBoards == [Cells -> Pieces]

-----------------------------------------------------------------------------
(* Gravity *)

\* What is below a cell is counted, and the piece stays on its column.
LEMMA LandingIs ==
    ASSUME NEW b \in Boards, NEW c \in Cells
    PROVE  /\ IsFiniteSet(Below(b, c)) /\ Cardinality(Below(b, c)) \in Nat
           /\ Landing(b, c) \in Cells
           /\ Landing(b, c)[1] = c[1] /\ Landing(b, c)[2] >= c[2]
  <1> DEFINE low == c[2] + 1 .. Height - 1
  <1>1. c[1] \in Columns /\ c[2] \in Rows /\ c[2] \in Nat /\ Height \in Nat
    BY DEF Cells, Columns, Rows
  <1>2. IsFiniteSet(low) /\ Cardinality(low) <= Height - 1 - c[2]
    <2>1. c[2] + 1 \in Int /\ Height - 1 \in Int
      BY <1>1
    <2>2. IsFiniteSet(low) /\ Cardinality(low) =
            IF c[2] + 1 > Height - 1 THEN 0 ELSE (Height - 1) - (c[2] + 1) + 1
      BY <2>1, FS_Interval
    <2> QED BY <1>1, <2>2 DEF Rows
  <1>3. Below(b, c) \subseteq low
    BY DEF Below
  <1>4. IsFiniteSet(Below(b, c)) /\ Cardinality(Below(b, c)) <= Cardinality(low)
    BY <1>2, <1>3, FS_Subset
  <1>5. Cardinality(Below(b, c)) \in Nat /\ Cardinality(low) \in Nat
    BY <1>2, <1>4, FS_CardinalityType
  <1>6. c[2] + Cardinality(Below(b, c)) \in Rows
    BY <1>1, <1>2, <1>4, <1>5 DEF Rows
  <1> QED
    BY <1>1, <1>4, <1>5, <1>6 DEF Landing, Cells

\* Of two pieces on a column, the higher one lands above the lower.
LEMMA LandingOrder ==
    ASSUME NEW b \in Boards, NEW d \in Cells, NEW e \in Cells,
           d[1] = e[1], d[2] < e[2], b[e] # None
    PROVE  Landing(b, d)[2] < Landing(b, e)[2]
  <1> DEFINE gap == d[2] + 1 .. e[2] - 1
  <1>1. d[2] \in Nat /\ e[2] \in Nat /\ e = <<d[1], e[2]>> /\ e[2] <= Height - 1
    BY DEF Cells, Columns, Rows
  <1>2. IsFiniteSet(gap) /\ Cardinality(gap) = e[2] - 1 - d[2]
    <2>1. d[2] + 1 \in Int /\ e[2] - 1 \in Int
      BY <1>1
    <2>2. IsFiniteSet(gap) /\ Cardinality(gap) =
            IF d[2] + 1 > e[2] - 1 THEN 0 ELSE (e[2] - 1) - (d[2] + 1) + 1
      BY <2>1, FS_Interval
    <2> QED BY <1>1, <2>2
  <1>3. Below(b, d) \subseteq Below(b, e) \cup gap
    BY <1>1 DEF Below
  <1>4. IsFiniteSet(Below(b, e)) /\ IsFiniteSet(Below(b, d))
        /\ Cardinality(Below(b, e)) \in Nat /\ Cardinality(Below(b, d)) \in Nat
    BY LandingIs
  <1>5. /\ IsFiniteSet(Below(b, e) \cup gap)
        /\ Cardinality(Below(b, e) \cup gap) =
             Cardinality(Below(b, e)) + Cardinality(gap) - Cardinality(Below(b, e) \cap gap)
    BY <1>2, <1>4, FS_Union
  <1>6. Cardinality(Below(b, e) \cap gap) \in Nat
    BY <1>2, FS_Intersection, FS_CardinalityType
  <1>7. Cardinality(Below(b, d)) <= Cardinality(Below(b, e) \cup gap)
    BY <1>3, <1>5, FS_Subset
  <1>8. Cardinality(Below(b, d)) <= Cardinality(Below(b, e)) + (e[2] - 1 - d[2])
    <2>1. Cardinality(Below(b, e) \cup gap) \in Nat
      BY <1>5, FS_CardinalityType
    <2> QED BY <1>1, <1>2, <1>4, <1>5, <1>6, <1>7, <2>1, SMTT(30)
  <1> QED
    BY <1>1, <1>4, <1>8 DEF Landing

\* No two pieces land on the same cell.
LEMMA LandingInjective ==
    ASSUME NEW b \in Boards, NEW d \in Cells, NEW e \in Cells,
           b[d] # None, b[e] # None, Landing(b, d) = Landing(b, e)
    PROVE  d = e
  <1>1. d[1] = e[1] /\ d = <<d[1], d[2]>> /\ e = <<e[1], e[2]>> /\ d[2] \in Nat /\ e[2] \in Nat
    BY LandingIs DEF Cells, Columns, Rows
  <1>2. Landing(b, d)[2] \in Nat
    BY LandingIs DEF Cells, Rows
  <1>3. CASE d[2] < e[2]
    BY <1>1, <1>2, <1>3, LandingOrder
  <1>4. CASE e[2] < d[2]
    BY <1>1, <1>2, <1>4, LandingOrder
  <1> QED
    BY <1>1, <1>3, <1>4

\* BottomUp lists every cell once, and each column from the bottom.
LEMMA BottomUpIs ==
    /\ Width * Height \in Nat
    /\ \A i \in 1 .. Width * Height : BottomUp[i] \in Cells
    /\ \A c \in Cells : \E i \in 1 .. Width * Height : BottomUp[i] = c
    /\ \A i, j \in 1 .. Width * Height :
         i < j => \/ BottomUp[i][1] # BottomUp[j][1]
                  \/ BottomUp[i][2] > BottomUp[j][2]
  <1> DEFINE N == Width * Height
             q(i) == (i - 1) \div Height
             m(i) == (i - 1) % Height
  <1>0. N \in Nat /\ Width \in Nat /\ Height \in Nat \ {0}
    OBVIOUS
  <1>1. ASSUME NEW i \in 1 .. N
        PROVE  /\ q(i) \in 0 .. Width - 1 /\ m(i) \in 0 .. Height - 1
               /\ i - 1 = Height * q(i) + m(i)
               /\ BottomUp[i] = <<q(i), (Height - 1) - m(i)>>
    <2>1. i - 1 \in Nat /\ i - 1 < Width * Height
      BY <1>0
    <2>2. q(i) \in 0 .. Width - 1
      BY <1>0, <2>1, DivBound
    <2>3. m(i) \in 0 .. Height - 1 /\ i - 1 = Height * q(i) + m(i)
      BY <1>0, <2>1, DivMod
    <2> QED BY <2>2, <2>3 DEF BottomUp
  <1>2. ASSUME NEW i \in 1 .. N PROVE BottomUp[i] \in Cells
    <2>1. /\ q(i) \in 0 .. Width - 1 /\ m(i) \in 0 .. Height - 1
          /\ BottomUp[i] = <<q(i), (Height - 1) - m(i)>>
      BY <1>1
    <2> HIDE DEF q, m
    <2>2. (Height - 1) - m(i) \in 0 .. Height - 1
      BY <1>0, <2>1
    <2> QED BY <2>1, <2>2 DEF Cells, Columns, Rows
  <1>3. ASSUME NEW c \in Cells PROVE \E i \in 1 .. N : BottomUp[i] = c
    <2> DEFINE x == c[1]
               r == (Height - 1) - c[2]
               i == Height * x + r + 1
    <2>1. x \in 0 .. Width - 1 /\ r \in 0 .. Height - 1 /\ c = <<x, (Height - 1) - r>>
      BY <1>0 DEF Cells, Columns, Rows
    <2> HIDE DEF x, r
    <2>2. Height * x + r \in Nat /\ Height * x + r < Width * Height
      <3>1. Height * (x + 1) <= Height * Width
        BY <1>0, <2>1, SMTT(30)
      <3>2. Height * (x + 1) = Height * x + Height /\ Height * Width = Width * Height
            /\ Height * x \in Nat
        BY <1>0, <2>1, SMTT(30)
      <3> QED BY <1>0, <2>1, <3>1, <3>2, SMTT(30)
    <2>3. i \in 1 .. N /\ i - 1 = Height * x + r
      BY <1>0, <2>2
    <2>4. (Height * x + r) \div Height = x /\ (Height * x + r) % Height = r
      BY <1>0, <2>1, DivUnique, SMTT(30)
    <2>5. q(i) = x /\ m(i) = r
      BY <2>3, <2>4
    <2>6. BottomUp[i] = <<q(i), (Height - 1) - m(i)>>
      BY <1>1, <2>3
    <2> HIDE DEF q, m, i
    <2> QED BY <2>1, <2>3, <2>5, <2>6
  <1>4. ASSUME NEW i \in 1 .. N, NEW j \in 1 .. N, i < j, q(i) = q(j)
        PROVE  m(i) < m(j)
    <2>1. i - 1 = Height * q(i) + m(i) /\ j - 1 = Height * q(i) + m(j)
      BY <1>1, <1>4
    <2>2. m(i) \in Int /\ m(j) \in Int /\ Height * q(i) \in Int
      BY <1>0, <1>1
    <2> HIDE DEF q, m
    <2> QED BY <1>4, <2>1, <2>2
  <1>5. \A i, j \in 1 .. N : i < j => \/ BottomUp[i][1] # BottomUp[j][1]
                                      \/ BottomUp[i][2] > BottomUp[j][2]
    <2> SUFFICES ASSUME NEW i \in 1 .. N, NEW j \in 1 .. N, i < j, q(i) = q(j)
                 PROVE  BottomUp[i][2] > BottomUp[j][2]
      <3>1. \A k \in 1 .. N : BottomUp[k][1] = q(k)
        BY <1>1
      <3> HIDE DEF q
      <3> QED BY <3>1
    <2>1. m(i) < m(j) /\ m(i) \in 0 .. Height - 1 /\ m(j) \in 0 .. Height - 1
      BY <1>1, <1>4
    <2>2. /\ BottomUp[i] = <<q(i), (Height - 1) - m(i)>>
          /\ BottomUp[j] = <<q(j), (Height - 1) - m(j)>>
      BY <1>1
    <2> HIDE DEF q, m
    <2> QED BY <1>0, <2>1, <2>2
  <1> QED
    BY <1>0, <1>2, <1>3, <1>5

\* The recursion of Fallen, step by step.
FallNext(s, c, falls) ==
    IF c \notin DOMAIN falls \/ s[c] = None THEN s
    ELSE [s EXCEPT ![falls[c]] = s[c], ![c] = None]
FallUnfolds(k, s, falls, n) ==
    /\ k = [i \in 0 .. n |-> k[i]]
    /\ k[0] = s
    /\ \A i \in 1 .. n : k[i] = FallNext(k[i - 1], BottomUp[i], falls)

\* Fallen is where that recursion ends.
LEMMA FallenUnfolds ==
    ASSUME NEW s, NEW falls
    PROVE  \E k : /\ Fallen(s, falls) = k[Width * Height]
                  /\ FallUnfolds(k, s, falls, Width * Height)
  <1> DEFINE N == Width * Height
             Turn(k, i) == IF i = 0 THEN s
                           ELSE FallNext(k[i - 1], BottomUp[i], falls)
             Is(k) == k = [i \in 0 .. Width * Height |-> Turn(k, i)]
             moved == CHOOSE k : Is(k)
             B == {n \in 0 .. N : ~ \E k : FallUnfolds(k, s, falls, n)}
  <1>0. N \in Nat /\ N = Width * Height
    BY BottomUpIs
  <1>1. B = {}
    <2> HIDE DEF N
    <2>1. SUFFICES ASSUME B # {} PROVE FALSE
      OBVIOUS
    <2>2. PICK n \in B : \A m \in B : n <= m
      <3>1. B \in SUBSET Nat
        BY <1>0
      <3> HIDE DEF B
      <3> QED BY <2>1, <3>1, LeastNumber
    <2>3. n # 0
      <3>1. FallUnfolds([i \in 0 .. 0 |-> s], s, falls, 0)
        BY DEF FallUnfolds
      <3> QED
        BY <3>1
    <2>4. n - 1 \in 0 .. N /\ n - 1 \notin B /\ n \in 1 .. N
      BY <1>0, <2>2, <2>3
    <2>5. PICK k : FallUnfolds(k, s, falls, n - 1)
      BY <2>4
    <2> DEFINE x == FallNext(k[n - 1], BottomUp[n], falls)
               h == [i \in 0 .. n |-> IF i = n THEN x ELSE k[i]]
    <2>6. h[n] = x /\ \A i \in 0 .. n - 1 : h[i] = k[i]
      BY <1>0, <2>3, <2>4
    <2>7. FallUnfolds(h, s, falls, n)
      <3>1. h = [i \in 0 .. n |-> h[i]]
        OBVIOUS
      <3> HIDE DEF h
      <3>2. h[0] = s
        <4>1. 0 \in 0 .. n - 1
          BY <1>0, <2>3, <2>4
        <4>2. k[0] = s
          BY <2>5 DEF FallUnfolds
        <4> QED
          BY <2>6, <4>1, <4>2
      <3>3. ASSUME NEW i \in 1 .. n PROVE h[i] = FallNext(h[i - 1], BottomUp[i], falls)
        <4>1. h[i - 1] = k[i - 1]
          BY <1>0, <2>4, <2>6
        <4>2. CASE i = n
          BY <2>6, <4>1, <4>2
        <4>3. CASE i # n
          <5>1. i \in 1 .. n - 1 /\ i \in 0 .. n - 1
            BY <1>0, <2>4, <4>3
          <5> QED
            BY <2>5, <2>6, <4>1, <5>1 DEF FallUnfolds
        <4> QED BY <4>2, <4>3
      <3> QED
        BY <3>1, <3>2, <3>3 DEF FallUnfolds
    <2> QED
      BY <2>2, <2>7
  <1> HIDE DEF N
  <1>2. PICK f : FallUnfolds(f, s, falls, N)
    <2>1. N \in 0 .. N
      BY <1>0
    <2> QED BY <1>1, <2>1
  <1>3. Is(f)
    <2>1. \A i \in 0 .. N : f[i] = Turn(f, i)
      <3>1. \A i \in 0 .. N : i = 0 \/ i \in 1 .. N
        BY <1>0
      <3> QED BY <1>2, <3>1 DEF FallUnfolds
    <2>2. f = [i \in 0 .. N |-> f[i]]
      BY <1>2 DEF FallUnfolds
    <2> HIDE DEF Turn
    <2> QED
      BY <1>0, <2>1, <2>2
  <1> HIDE DEF Is
  <1>4. Is(moved)
    BY <1>3
  <1>5. Fallen(s, falls) = moved[Width * Height]
    BY DEF Fallen, Is, FallNext
  <1> HIDE DEF moved
  <1>6. FallUnfolds(moved, s, falls, N)
    <2>1. \A i \in 0 .. N : moved[i] = Turn(moved, i)
      BY <1>0, <1>4 DEF Is
    <2>2. moved = [i \in 0 .. N |-> moved[i]]
      BY <1>0, <1>4 DEF Is
    <2>3. \A i \in 1 .. N : i \in 0 .. N /\ i # 0
      BY <1>0
    <2>4. moved[0] = s
      <3>1. 0 \in 0 .. N
        BY <1>0
      <3> QED BY <2>1, <3>1
    <2>5. \A i \in 1 .. N : moved[i] = FallNext(moved[i - 1], BottomUp[i], falls)
      BY <2>1, <2>3
    <2> QED
      BY <2>2, <2>4, <2>5 DEF FallUnfolds
  <1> QED
    BY <1>0, <1>5, <1>6

\* After the first n cells, the pieces of theirs that fall have landed.
Gone(b, n) == {BottomUp[i] : i \in 1 .. n} \cap DOMAIN Falls(b)
Landed(b, s, n) ==
    /\ s \in Boards
    /\ \A c \in Cells :
         /\ \A d \in Gone(b, n) : Landing(b, d) = c => s[c] = b[d]
         /\ (\A d \in Gone(b, n) : Landing(b, d) # c) =>
               s[c] = IF c \in Gone(b, n) THEN None ELSE b[c]

\* One more cell.
LEMMA LandsNext ==
    ASSUME NEW b \in Boards, NEW n \in 1 .. Width * Height, NEW s,
           Landed(b, s, n - 1)
    PROVE  Landed(b, FallNext(s, BottomUp[n], Falls(b)), n)
  <1> DEFINE f == BottomUp[n]
             t == Landing(b, f)
  <1>1. f \in Cells /\ n - 1 \in Nat /\ n \in Nat
    BY BottomUpIs
  <1>2. DOMAIN Falls(b) = {c \in Cells : b[c] # None /\ Landing(b, c) # c}
    BY DEF Falls
  <1>3. Gone(b, n) = IF f \in DOMAIN Falls(b) THEN Gone(b, n - 1) \cup {f} ELSE Gone(b, n - 1)
    <2>1. \A i : i \in 1 .. n <=> i \in 1 .. n - 1 \/ i = n
      BY <1>1
    <2> QED BY <2>1 DEF Gone
  <1>4. ASSUME NEW d \in Gone(b, n - 1)
        PROVE  /\ d \in Cells /\ b[d] # None /\ d # f
               /\ Landing(b, d) # f
    <2>1. PICK i \in 1 .. n - 1 : d = BottomUp[i]
      BY DEF Gone
    <2>2. i \in 1 .. Width * Height /\ i < n
      BY <1>1, BottomUpIs
    <2>3. d[1] # f[1] \/ d[2] > f[2]
      BY <2>1, <2>2, BottomUpIs
    <2>4. d \in Cells /\ b[d] # None
      BY <1>2 DEF Gone
    <2>5. Landing(b, d)[1] = d[1] /\ Landing(b, d)[2] >= d[2] /\ Landing(b, d) \in Cells
      BY <2>4, LandingIs
    <2>6. d[2] \in Int /\ f[2] \in Int /\ Landing(b, d)[2] \in Int
      BY <1>1, <2>4, <2>5 DEF Cells, Rows
    <2> HIDE DEF f
    <2> QED BY <2>3, <2>4, <2>5, <2>6
  <1> HIDE DEF f, t
  <1>5. CASE f \notin DOMAIN Falls(b)
    BY <1>3, <1>5 DEF FallNext, Landed, f
  <1>6. CASE f \in DOMAIN Falls(b)
    <2>1. b[f] # None /\ t # f /\ t \in Cells /\ Falls(b)[f] = t
      BY <1>1, <1>2, <1>6, LandingIs DEF Falls, t
    <2>2. f \notin Gone(b, n - 1)
      BY <1>4
    <2>3. s[f] = b[f]
      BY <1>1, <1>4, <2>2 DEF Landed
    <2> DEFINE z == FallNext(s, f, Falls(b))
    <2>4. z = [s EXCEPT ![t] = b[f], ![f] = None]
      BY <1>6, <2>1, <2>3 DEF FallNext
    <2>5. s \in Boards /\ b[f] \in Pieces \cup {None}
      BY <1>1 DEF Landed, Boards
    <2>6. z \in Boards /\ z[f] = None /\ z[t] = b[f]
          /\ \A c \in Cells : c # f /\ c # t => z[c] = s[c]
      BY <1>1, <2>1, <2>4, <2>5 DEF Boards
    <2> HIDE DEF z
    <2>7. ASSUME NEW d \in Gone(b, n - 1) PROVE Landing(b, d) # t
      BY <1>1, <1>4, <2>1, LandingInjective DEF t
    <2>8. ASSUME NEW c \in Cells, NEW d \in Gone(b, n), Landing(b, d) = c
          PROVE  z[c] = b[d]
      <3>1. CASE d = f
        BY <2>6, <2>8, <3>1 DEF t
      <3>2. CASE d # f
        <4>1. d \in Gone(b, n - 1)
          BY <1>3, <2>8, <3>2
        <4>2. c # f /\ c # t
          BY <1>4, <2>7, <2>8, <4>1
        <4> QED BY <2>6, <2>8, <4>1, <4>2 DEF Landed
      <3> QED BY <3>1, <3>2
    <2>9. ASSUME NEW c \in Cells, \A d \in Gone(b, n) : Landing(b, d) # c
          PROVE  z[c] = IF c \in Gone(b, n) THEN None ELSE b[c]
      <3>1. f \in Gone(b, n) /\ c # t
        BY <1>3, <1>6, <2>9 DEF t
      <3>2. CASE c = f
        BY <2>6, <3>1, <3>2
      <3>3. CASE c # f
        <4>1. z[c] = s[c] /\ (c \in Gone(b, n) <=> c \in Gone(b, n - 1))
          BY <1>3, <1>6, <2>6, <3>1, <3>3
        <4>2. \A d \in Gone(b, n - 1) : Landing(b, d) # c
          BY <1>3, <1>6, <2>9
        <4> QED BY <4>1, <4>2 DEF Landed
      <3> QED BY <3>2, <3>3
    <2> QED
      BY <2>6, <2>8, <2>9 DEF Landed, z, f
  <1> QED
    BY <1>5, <1>6

\* The sprites fall to where gravity moves the pieces in memory.
LEMMA SpritesFollow ==
    ASSUME NEW b \in Boards
    PROVE  Fallen(b, Falls(b)) = ApplyGravity(b) /\ ApplyGravity(b) \in Boards
  <1> DEFINE N == Width * Height
  <1>0. N \in Nat
    BY BottomUpIs
  <1>1. PICK k : Fallen(b, Falls(b)) = k[N] /\ FallUnfolds(k, b, Falls(b), N)
    BY FallenUnfolds
  <1> DEFINE B == {n \in 0 .. N : ~Landed(b, k[n], n)}
  <1>2. B = {}
    <2>1. SUFFICES ASSUME B # {} PROVE FALSE
      OBVIOUS
    <2>2. PICK n \in B : \A m \in B : n <= m
      <3>1. B \in SUBSET Nat
        BY <1>0
      <3> HIDE DEF B
      <3> QED BY <2>1, <3>1, LeastNumber
    <2>3. n # 0
      <3>1. k[0] = b /\ Gone(b, 0) = {}
        BY <1>1 DEF FallUnfolds, Gone
      <3>2. Landed(b, k[0], 0)
        BY <3>1 DEF Landed
      <3> QED BY <2>2, <3>2
    <2>4. n - 1 \in 0 .. N /\ n - 1 \notin B /\ n \in 1 .. N
      <3>1. n \in 0 .. N
        OBVIOUS
      <3>2. n - 1 \in 0 .. N /\ ~(n <= n - 1) /\ n \in 1 .. N
        BY <1>0, <2>3, <3>1
      <3> QED BY <2>2, <3>2
    <2>5. Landed(b, k[n - 1], n - 1)
      BY <2>4
    <2>6. k[n] = FallNext(k[n - 1], BottomUp[n], Falls(b))
      BY <1>1, <2>4 DEF FallUnfolds
    <2>7. Landed(b, k[n], n)
      BY <2>4, <2>5, <2>6, LandsNext
    <2> QED BY <2>2, <2>7
  <1>3. Landed(b, k[N], N)
    <2>1. N \in 0 .. N
      BY <1>0
    <2> QED BY <1>2, <2>1
  <1>4. Gone(b, N) = {c \in Cells : b[c] # None /\ Landing(b, c) # c}
    BY BottomUpIs DEF Gone, Falls
  <1> HIDE DEF N
  <1>5. ASSUME NEW c \in Cells
        PROVE  /\ k[N][c] = ApplyGravity(b)[c]
               /\ ApplyGravity(b)[c] \in Pieces \cup {None}
    <2> DEFINE source == {d \in Cells : b[d] # None /\ Landing(b, d) = c}
               d == CHOOSE e \in source : TRUE
    <2>1. ApplyGravity(b)[c] = IF source = {} THEN None ELSE b[d]
      BY DEF ApplyGravity
    <2>2. CASE source = {}
      <3>1. \A e \in Gone(b, N) : Landing(b, e) # c
        BY <1>4, <2>2
      <3>2. c \notin Gone(b, N) => b[c] = None
        BY <1>4, <2>2
      <3> QED BY <1>3, <2>1, <2>2, <3>1, <3>2 DEF Landed
    <2>3. CASE source # {}
      <3>1. d \in source
        BY <2>3
      <3> HIDE DEF d
      <3>2. d \in Cells /\ b[d] # None /\ Landing(b, d) = c
        BY <3>1
      <3>3. CASE d \in Gone(b, N)
        BY <1>3, <2>1, <2>3, <3>2, <3>3 DEF Landed, Boards
      <3>4. CASE d \notin Gone(b, N)
        <4>1. d = c
          BY <1>4, <3>2, <3>4
        <4>2. ASSUME NEW e \in Gone(b, N) PROVE Landing(b, e) # c
          <5>1. e \in Cells /\ b[e] # None /\ e # d
            BY <1>4, <3>4
          <5> QED BY <3>2, <5>1, LandingInjective
        <4> QED
          BY <1>3, <2>1, <2>3, <3>2, <3>4, <4>1, <4>2 DEF Landed, Boards
      <3> QED BY <3>3, <3>4
    <2> QED BY <2>2, <2>3
  <1>6. k[N] \in Boards
    BY <1>3 DEF Landed
  <1>7. ApplyGravity(b) \in Boards
    <2>1. ApplyGravity(b) = [c \in Cells |-> ApplyGravity(b)[c]]
      BY DEF ApplyGravity
    <2> QED BY <1>5, <2>1 DEF Boards
  <1> QED
    BY <1>1, <1>5, <1>6, <1>7 DEF Boards, N

-----------------------------------------------------------------------------
(* Boards *)

\* A board has finitely many cells.
LEMMA CellsFinite == IsFiniteSet(Cells)
  <1>1. IsFiniteSet(Columns) /\ IsFiniteSet(Rows)
    BY FS_Interval DEF Columns, Rows
  <1> QED
    BY <1>1, FS_Product DEF Cells

\* Swaps, clears and refills leave boards.
LEMMA SwappedIs ==
    ASSUME NEW b \in FullBoards, NEW a \in Cells, NEW c \in Cells
    PROVE  Swapped(b, a, c) \in FullBoards
  BY DEF Swapped, FullBoards

LEMMA EmptiedIs ==
    ASSUME NEW b \in Boards, NEW gone
    PROVE  Emptied(b, gone) \in Boards
  BY DEF Emptied, Boards

LEMMA RefillIs ==
    ASSUME NEW b \in Boards, NEW f \in [EmptyCells(b) -> Pieces]
    PROVE  Refill(b, f) \in FullBoards
  BY DEF Refill, Boards, FullBoards, EmptyCells

\* What is drawn for the empty cells is a piece for each.
LEMMA RefillsAre ==
    ASSUME NEW b \in Boards, NEW depth, NEW f \in Refills(b, depth)
    PROVE  f \in [EmptyCells(b) -> Pieces]
  <1>1. ASSUME NEW draw \in Draws PROVE Drawn(b, draw) \in [EmptyCells(b) -> Pieces]
    <2>1. draw \in Seq(Pieces) /\ Len(draw) \in Nat \ {0}
      BY <1>1, PuzzleAssumption
    <2>2. ASSUME NEW c \in EmptyCells(b), NEW S \in SUBSET EmptyCells(b)
          PROVE  draw[1 + (Cardinality(S) % Len(draw))] \in Pieces
      <3>1. S \subseteq Cells
        BY DEF EmptyCells
      <3>2. Cardinality(S) \in Nat
        BY <3>1, CellsFinite, FS_Subset, FS_CardinalityType
      <3>3. Cardinality(S) % Len(draw) \in 0 .. Len(draw) - 1
        BY <2>1, <3>2, DivMod
      <3>4. 1 + (Cardinality(S) % Len(draw)) \in 1 .. Len(draw)
        BY <2>1, <3>3
      <3> QED BY <2>1, <3>4
    <2> QED BY <2>2 DEF Drawn
  <1>2. CASE depth < MaxDepth
    BY <1>1, <1>2 DEF Refills
  <1>3. CASE ~(depth < MaxDepth)
    <2> DEFINE any == [EmptyCells(b) -> Pieces]
               settles(g) == ~Matching(Refill(b, g))
    <2>1. /\ \E g \in any : settles(g)
          /\ f = CHOOSE g \in any : settles(g)
      BY <1>3 DEF Refills
    <2> HIDE DEF settles
    <2>2. f \in any
      BY <2>1
    <2> QED BY <2>2
  <1> QED BY <1>2, <1>3

\* A board that was dealt has no run of three, and a move to make.
LEMMA DealtIsSettled ==
    ASSUME NEW b, Dealt(b)
    PROVE  b \in FullBoards /\ ~Matching(b) /\ HasValidMove(b)
  <1>1. b \in FullBoards /\ HasValidMove(b) /\ FilledInOrder(b)
    BY DEF Dealt, FilledInOrder, FullBoards
  <1>2. ASSUME NEW line \in Lines, Uniform(b, line) PROVE FALSE
    <2>1. PICK p \in Pieces : \A c \in line : b[c] = p
      BY <1>2 DEF Uniform
    <2>2. CASE line \in HorizontalLines
      <3>1. PICK r \in Columns \X Columns \X Rows :
                r[2] - r[1] >= 2 /\ line = Horizontal(r[1], r[2], r[3])
        BY <2>2 DEF HorizontalLines
      <3> DEFINE x == r[2]
                 y == r[3]
      <3>2. /\ x \in Columns /\ y \in Rows /\ x >= 2 /\ r[1] \in Columns
            /\ x \in r[1] .. x /\ x - 1 \in r[1] .. x /\ x - 2 \in r[1] .. x
        BY <3>1 DEF Columns
      <3>3. <<x, y>> \in line /\ <<x - 1, y>> \in line /\ <<x - 2, y>> \in line
        BY <3>1, <3>2 DEF Horizontal
      <3> HIDE DEF x, y
      <3> QED BY <1>1, <2>1, <3>2, <3>3 DEF FilledInOrder
    <2>3. CASE line \in VerticalLines
      <3>1. PICK r \in Columns \X Rows \X Rows :
                r[3] - r[2] >= 2 /\ line = Vertical(r[1], r[2], r[3])
        BY <2>3 DEF VerticalLines
      <3> DEFINE x == r[1]
                 y == r[3]
      <3>2. /\ x \in Columns /\ y \in Rows /\ y >= 2 /\ r[2] \in Rows
            /\ y \in r[2] .. y /\ y - 1 \in r[2] .. y /\ y - 2 \in r[2] .. y
        BY <3>1 DEF Rows
      <3>3. <<x, y>> \in line /\ <<x, y - 1>> \in line /\ <<x, y - 2>> \in line
        BY <3>1, <3>2 DEF Vertical
      <3> HIDE DEF x, y
      <3> QED BY <1>1, <2>1, <3>2, <3>3 DEF FilledInOrder
    <2> QED BY <2>2, <2>3 DEF Lines
  <1>3. ~Matching(b)
    BY <1>2 DEF Matching, FindMatches
  <1> QED BY <1>1, <1>3

\* The score of a wave is the sum of what its runs earn.
LEMMA ScoreOfIs ==
    ASSUME NEW S
    PROVE  ScoreOf(S) = SumOf([m \in S |-> ScoreForRun(Cardinality(m))], S)
  <1> DEFINE w == [m \in S |-> ScoreForRun(Cardinality(m))]
             Unfold(f) == [s \in SUBSET S |->
                            IF s = {} THEN 0
                            ELSE ScoreForRun(Cardinality(FirstOut(s))) + f[s \ {FirstOut(s)}]]
  <1>1. ScoreOf(S) = (CHOOSE f : f = Unfold(f))[S]
    BY DEF ScoreOf, MapThenSumSet, MapThenFoldSet, FirstOut
  <1>2. \A f : Unfold(f) = [U \in SUBSET S |-> Body(w, f, U)]
    BY FirstOutIn DEF Body
  <1> HIDE DEF Unfold, w
  <1>3. (CHOOSE f : f = Unfold(f))
          = (CHOOSE f : f = [U \in SUBSET S |-> Body(w, f, U)])
    BY <1>2
  <1> QED
    BY <1>1, <1>3 DEF SumOf, w

LEMMA LinesInCells == \A line \in Lines : line \subseteq Cells
  <1>1. \A line \in HorizontalLines : line \subseteq Cells
    BY DEF HorizontalLines, Horizontal, Cells, Columns, Rows
  <1>2. \A line \in VerticalLines : line \subseteq Cells
    BY DEF VerticalLines, Vertical, Cells, Columns, Rows
  <1> QED
    BY <1>1, <1>2 DEF Lines

\* A board with a match scores.
LEMMA MatchesScore ==
    ASSUME NEW b, Matching(b)
    PROVE  ScoreOf(FindMatches(b)) \in Nat /\ ScoreOf(FindMatches(b)) >= 30
  <1> DEFINE S == FindMatches(b)
             w == [m \in S |-> ScoreForRun(Cardinality(m))]
  <1>2. IsFiniteSet(S)
    <2>1. IsFiniteSet(SUBSET Cells)
      BY CellsFinite, FS_SUBSET
    <2>2. S \subseteq SUBSET Cells
      BY LinesInCells DEF FindMatches
    <2> QED BY <2>1, <2>2, FS_Subset
  <1>3. \A m \in S : w[m] \in Nat /\ w[m] >= 30
    BY DEF ScoreForRun
  <1>4. PICK m : m \in S
    BY DEF Matching
  <1>5. ScoreOf(S) = SumOf(w, S)
    BY ScoreOfIs
  <1> HIDE DEF S, w
  <1>6. SumOf(w, S) \in Nat /\ w[m] <= SumOf(w, S)
    BY <1>2, <1>3, <1>4, SumOfNat
  <1>7. ScoreOf(S) \in Nat /\ ScoreOf(S) >= 30
    BY <1>3, <1>4, <1>5, <1>6
  <1> QED
    BY <1>7 DEF S

\* The waves, and the empty one.
WaveType ==
    [cleared : SUBSET Cells,
     falls : (UNION {[D -> Cells] : D \in SUBSET Cells}) \cup {<<>>},
     spawns : (UNION {[D -> Pieces] : D \in SUBSET Cells}) \cup {<<>>},
     score : Nat, next : FullBoards \cup {<<>>}]

LEMMA NoWaveType == NoWave \in WaveType
  BY DEF NoWave, WaveType

\* What a wave holds, and what it is worth.
WaveOf(w, hollow) ==
    /\ w.falls = Falls(hollow)
    /\ w.spawns \in [EmptyCells(ApplyGravity(hollow)) -> Pieces]
    /\ w.next = Refill(ApplyGravity(hollow), w.spawns)
    /\ w.score \in Nat /\ w.score >= 30

\* The wave of a board with a match is one.
LEMMA WavesAre ==
    ASSUME NEW b \in Boards, Matching(b), NEW depth \in Nat \ {0}, NEW w \in Waves(b, depth)
    PROVE  w \in WaveType /\ WaveOf(w, Emptied(b, w.cleared))
  <1> DEFINE cleared == UNION FindMatches(b)
             hollow == Emptied(b, cleared)
             fallen == ApplyGravity(hollow)
  <1>1. PICK f \in Refills(fallen, depth) :
            w = [cleared |-> cleared, falls |-> Falls(hollow), spawns |-> f,
                 score |-> ScoreOf(FindMatches(b)) * depth, next |-> Refill(fallen, f)]
    BY DEF Waves
  <1>2. hollow \in Boards /\ fallen \in Boards
    BY EmptiedIs, SpritesFollow
  <1>3. f \in [EmptyCells(fallen) -> Pieces]
    BY <1>2, RefillsAre
  <1>4. ScoreOf(FindMatches(b)) * depth \in Nat /\ ScoreOf(FindMatches(b)) * depth >= 30
    <2> DEFINE n == ScoreOf(FindMatches(b))
    <2>1. n \in Nat /\ n >= 30
      BY MatchesScore
    <2> HIDE DEF n
    <2>2. n * depth = n + n * (depth - 1) /\ n * (depth - 1) >= 0 /\ n * depth \in Nat
      BY <2>1
    <2>3. n * depth >= 30
      BY <2>1, <2>2
    <2> QED BY <2>2, <2>3 DEF n
  <1>7. w \in WaveType
    <2>1. cleared \in SUBSET Cells
      BY LinesInCells DEF FindMatches
    <2>2. Falls(hollow) \in [DOMAIN Falls(hollow) -> Cells] /\ DOMAIN Falls(hollow) \in SUBSET Cells
      BY <1>2, LandingIs DEF Falls
    <2>3. EmptyCells(fallen) \in SUBSET Cells
      BY DEF EmptyCells
    <2>4. Refill(fallen, f) \in FullBoards
      BY <1>2, <1>3, RefillIs
    <2> HIDE DEF hollow, fallen, cleared
    <2> QED BY <1>1, <1>3, <1>4, <2>1, <2>2, <2>3, <2>4 DEF WaveType
  <1> HIDE DEF hollow, fallen, cleared
  <1>5. /\ w.cleared = cleared /\ w.falls = Falls(hollow) /\ w.spawns = f
        /\ w.score = ScoreOf(FindMatches(b)) * depth /\ w.next = Refill(fallen, f)
    BY <1>1
  <1>6. Emptied(b, w.cleared) = hollow /\ ApplyGravity(hollow) = fallen
    BY <1>5 DEF hollow, fallen
  <1> QED
    BY <1>3, <1>4, <1>5, <1>6, <1>7 DEF WaveOf

-----------------------------------------------------------------------------
(* The run *)

\* The runs, live or not.
RunType ==
    [cells : FullBoards, sprites : Boards, score : Nat, moves : Nat, ended : BOOLEAN,
     awaits : {Idle, "invalid", "swap", "clear", "fall"}, wave : WaveType,
     depth : Nat, selected : Cells \cup {None}]

\* What the wave under way will still earn.
Pending(r) == IF r.awaits = "clear" THEN r.wave.score ELSE 0

\* A run of stage s.  The sprites show the board, except while a wave is
\* cleared: then they show what gravity starts from.
RunOK(r, s) ==
    /\ r \in RunType
    /\ r.moves <= Stages[s].moves
    /\ r.awaits # "clear" => r.sprites = r.cells
    /\ r.awaits = "clear" =>
         /\ WaveOf(r.wave, r.sprites)
         /\ r.cells = r.wave.next
    /\ r.awaits \in {Idle, "invalid"} => ~Matching(r.cells) /\ HasValidMove(r.cells)
    /\ r.awaits = "swap" => Matching(r.cells)
    /\ r.awaits = Idle => (r.ended <=> r.score >= Stages[s].target \/ r.moves = 0)
    /\ r.awaits # Idle => ~r.ended
    /\ r.awaits \in {"invalid", "swap"} => r.moves > 0 /\ r.score < Stages[s].target
    /\ r.score + Pending(r) >= (Stages[s].moves - r.moves) * 30
    /\ r.score > 0 \/ r.awaits \in {"clear", "fall"} => r.moves < Stages[s].moves

\* The stages, and the boards that are dealt.
LEMMA StageIs ==
    /\ 1 \in DOMAIN Stages /\ Len(Stages) \in Nat /\ DOMAIN Stages = 1 .. Len(Stages)
    /\ \A s \in DOMAIN Stages : Stages[s].target \in Nat \ {0} /\ Stages[s].moves \in Nat \ {0}
  <1> DEFINE Shape == [target : Nat \ {0}, moves : Nat \ {0}]
  <1>1. Stages \in Seq(Shape) /\ Stages # <<>>
    BY PuzzleAssumption
  <1>2. Len(Stages) \in Nat \ {0} /\ DOMAIN Stages = 1 .. Len(Stages)
        /\ \A s \in DOMAIN Stages : Stages[s] \in Shape
    <2> HIDE DEF Shape
    <2> QED BY <1>1
  <1> QED BY <1>2

\* No deal starts with a match, and each has a move.
LEMMA DealIs ==
    /\ Deals # {}
    /\ \A b \in Deals : b \in FullBoards /\ b \in Boards /\ ~Matching(b) /\ HasValidMove(b)
  BY PuzzleAssumption, DealtIsSettled DEF FullBoards, Boards

\* A run starts well, and so is what stands for no run.
LEMMA NewRunOK ==
    ASSUME NEW b \in Deals, NEW s \in DOMAIN Stages
    PROVE  RunOK(NewRun(b, s), s) /\ ~NewRun(b, s).ended /\ NewRun(b, s).awaits = Idle
  BY DealIs, StageIs, NoWaveType DEF NewRun, RunOK, RunType, Pending, Idle

LEMMA NoRunType == NoRun \in RunType
  <1>1. (CHOOSE b \in Deals : TRUE) \in Deals
    BY DealIs
  <1> QED
    BY <1>1, NewRunOK, StageIs DEF NoRun, RunOK

\* A swap leaves a run to be animated.
LEMMA RequestedOK ==
    ASSUME NEW s \in DOMAIN Stages, NEW r, RunOK(r, s), r.awaits = Idle, ~r.ended,
           NEW a \in Cells, NEW c \in Cells
    PROVE  RunOK(Requested(r, a, c), s) /\ ~Requested(r, a, c).ended
           /\ Requested(r, a, c).awaits # Idle /\ Mirror(Requested(r, a, c)) = Mirror(r)
  <1> DEFINE b == Swapped(r.cells, a, c)
  <1>1. b \in FullBoards /\ b \in Boards
    BY SwappedIs DEF RunOK, RunType, FullBoards, Boards
  <1>2. r.sprites = r.cells
    BY DEF RunOK, Idle
  <1>3. r.moves > 0 /\ r.score < Stages[s].target
    BY StageIs DEF RunOK, RunType, Idle
  <1>4. CASE Matching(b)
    <2> DEFINE q == [r EXCEPT !.selected = None, !.awaits = "swap", !.depth = 0,
                              !.cells = b, !.sprites = b]
    <2>1. Requested(r, a, c) = q
      BY <1>2, <1>4 DEF Requested
    <2> HIDE DEF b
    <2>2. /\ q.selected = None /\ q.awaits = "swap" /\ q.depth = 0 /\ q.cells = b
          /\ q.sprites = b /\ q.score = r.score /\ q.moves = r.moves /\ q.ended = r.ended
          /\ q.wave = r.wave
      BY DEF RunOK, RunType
    <2>3. q \in RunType
      <3> HIDE DEF b
      <3> QED BY <1>1 DEF RunOK, RunType
    <2> HIDE DEF q
    <2>4. RunOK(q, s) /\ Mirror(q) = Mirror(r)
      BY <1>3, <1>4, <2>2, <2>3 DEF RunOK, Pending, Idle, Mirror
    <2> QED BY <2>1, <2>2, <2>4 DEF Idle
  <1>5. CASE ~Matching(b)
    <2> DEFINE q == [r EXCEPT !.selected = None, !.awaits = "invalid"]
    <2>1. Requested(r, a, c) = q
      BY <1>5 DEF Requested
    <2>2. /\ q.selected = None /\ q.awaits = "invalid" /\ q.depth = r.depth /\ q.cells = r.cells
          /\ q.sprites = r.sprites /\ q.score = r.score /\ q.moves = r.moves
          /\ q.ended = r.ended /\ q.wave = r.wave
      BY DEF RunOK, RunType
    <2>3. q \in RunType
      <3> HIDE DEF b
      <3> QED BY DEF RunOK, RunType
    <2> HIDE DEF q, b
    <2>4. RunOK(q, s) /\ Mirror(q) = Mirror(r)
      BY <1>2, <1>3, <2>2, <2>3 DEF RunOK, Pending, Idle, Mirror
    <2> QED BY <2>1, <2>2, <2>4 DEF Idle
  <1> QED BY <1>4, <1>5

\* A board with a match starts a wave, which pays for the move.
LEMMA StartWavesOK ==
    ASSUME NEW s \in DOMAIN Stages, NEW r, r \in RunType, r.sprites = r.cells,
           Matching(r.cells), ~r.ended, r.moves < Stages[s].moves,
           r.score + 30 >= (Stages[s].moves - r.moves) * 30,
           NEW q \in StartWaves(r)
    PROVE  RunOK(q, s) /\ ~q.ended /\ q.awaits = "clear"
  <1>1. PICK w \in Waves(r.cells, r.depth + 1) :
            q = [r EXCEPT !.cells = w.next, !.wave = w, !.depth = @ + 1, !.awaits = "clear",
                          !.sprites = Emptied(@, w.cleared)]
    BY DEF StartWaves
  <1> DEFINE hollow == Emptied(r.cells, w.cleared)
  <1>2. r.cells \in Boards /\ r.depth + 1 \in Nat \ {0} /\ r.depth \in Nat
    BY DEF RunType, Boards, FullBoards
  <1>3. WaveOf(w, hollow)
    BY <1>2, WavesAre
  <1>4. hollow \in Boards
    BY <1>2, EmptiedIs
  <1>5. w.next \in FullBoards
    BY <1>3, <1>4, SpritesFollow, RefillIs DEF WaveOf
  <1> HIDE DEF hollow
  <1>6. /\ q.cells = w.next /\ q.wave = w /\ q.depth = r.depth + 1 /\ q.awaits = "clear"
        /\ q.sprites = hollow /\ q.score = r.score /\ q.moves = r.moves
        /\ q.ended = r.ended /\ q.selected = r.selected
    BY <1>1 DEF RunType, hollow
  <1>7. q \in RunType
    <2>1. w \in WaveType
      BY <1>2, WavesAre
    <2> QED BY <1>1, <1>2, <1>4, <1>5, <2>1 DEF RunType, hollow
  <1>8. q.score + Pending(q) >= (Stages[s].moves - q.moves) * 30
    <2>1. Pending(q) = w.score /\ w.score \in Nat /\ w.score >= 30
      BY <1>3, <1>6 DEF Pending, WaveOf
    <2>2. Stages[s].moves \in Nat /\ r.moves \in Nat /\ r.score \in Nat
      BY StageIs DEF RunType
    <2> QED BY <1>6, <2>1, <2>2
  <1> QED
    BY <1>3, <1>6, <1>7, <1>8, StageIs DEF RunOK, RunType, Idle

\* A board without a match comes to rest.
LEMMA EndedOK ==
    ASSUME NEW s \in DOMAIN Stages, s = stageIndex, NEW r, r \in RunType,
           r.sprites = r.cells, ~Matching(r.cells), r.moves < Stages[s].moves,
           r.score >= (Stages[s].moves - r.moves) * 30,
           NEW x \in Settle(r)
    PROVE  RunOK(Ended(x), s) /\ Ended(x).awaits = Idle
  <1>1. /\ x.cells = x.sprites /\ x.cells \in FullBoards /\ x.cells \in Boards
        /\ ~Matching(x.cells) /\ HasValidMove(x.cells)
        /\ x.score = r.score /\ x.moves = r.moves /\ x.selected = r.selected
        /\ x \in RunType
    <2>1. CASE HasValidMove(r.cells)
      BY <2>1 DEF Settle, RunType, FullBoards, Boards
    <2>2. CASE ~HasValidMove(r.cells)
      <3>1. PICK b \in Deals : x = [r EXCEPT !.cells = b, !.sprites = b]
        BY <2>2 DEF Settle
      <3> QED BY <3>1, DealIs DEF RunType
    <2> QED BY <2>1, <2>2
  <1> DEFINE q == Ended(x)
             over == x.score >= Target \/ x.moves <= 0
  <1>2. /\ q.cells = x.cells /\ q.sprites = x.sprites /\ q.score = x.score /\ q.moves = x.moves
        /\ q.awaits = Idle /\ q.depth = 0 /\ q.selected = x.selected /\ q.ended = over
    BY <1>1 DEF Ended, RunType
  <1>3. x.score \in Nat /\ x.moves \in Nat /\ Target = Stages[s].target /\ over \in BOOLEAN
    BY <1>1 DEF RunType, Target
  <1>4. q \in RunType
    <2> HIDE DEF over
    <2>1. q = [x EXCEPT !.awaits = Idle, !.wave = NoWave, !.depth = 0, !.ended = over]
      BY DEF Ended, over
    <2> HIDE DEF q
    <2> QED BY <1>1, <1>3, <2>1, NoWaveType DEF RunType
  <1>5. over <=> x.score >= Stages[s].target \/ x.moves = 0
    BY <1>3
  <1> HIDE DEF q, over
  <1>6. RunOK(q, s)
    BY <1>1, <1>2, <1>3, <1>4, <1>5, StageIs DEF RunOK, Pending, Idle
  <1> QED BY <1>2, <1>6 DEF q

\* When its animation has ended, a run goes on to the next or comes to rest.
LEMMA ResumedOK ==
    ASSUME stageIndex \in DOMAIN Stages, NEW r, RunOK(r, stageIndex), r.awaits # Idle,
           NEW q \in Resumed(r)
    PROVE  RunOK(q, stageIndex) /\ (q.awaits # Idle => ~q.ended)
  <1> DEFINE s == stageIndex
  <1>0. /\ r \in RunType /\ r.score \in Nat /\ r.moves \in Nat /\ ~r.ended
        /\ r.awaits \in {"invalid", "swap", "clear", "fall"}
        /\ Stages[s].moves \in Nat /\ Stages[s].target \in Nat
        /\ r.score + Pending(r) >= (Stages[s].moves - r.moves) * 30
        /\ r.moves <= Stages[s].moves
    BY StageIs DEF RunOK, RunType
  <1> HIDE DEF s
  <1>1. CASE r.awaits = "invalid"
    <2>1. q = [r EXCEPT !.awaits = Idle]
      BY <1>1 DEF Resumed
    <2>2. q \in RunType
      BY <1>0, <2>1 DEF RunType
    <2>3. /\ q.awaits = Idle /\ q.cells = r.cells /\ q.sprites = r.sprites /\ q.score = r.score
          /\ q.moves = r.moves /\ q.ended = r.ended
      BY <1>0, <2>1 DEF RunType
    <2> QED BY <1>0, <1>1, <2>2, <2>3 DEF RunOK, Pending, Idle, s
  <1>2. CASE r.awaits = "swap"
    <2> DEFINE p == Spend(r)
    <2>0. Matching(r.cells) /\ r.moves > 0 /\ r.sprites = r.cells /\ Pending(r) = 0
      BY <1>2 DEF RunOK, Pending
    <2>1. p = [r EXCEPT !.moves = r.moves - 1]
      BY DEF Spend
    <2> HIDE DEF p
    <2>2. /\ p \in RunType /\ p.cells = r.cells /\ p.sprites = r.sprites /\ p.score = r.score
          /\ p.moves = r.moves - 1 /\ p.ended = r.ended
      BY <1>0, <2>0, <2>1 DEF RunType
    <2>3. q \in StartWaves(p)
      BY <1>2, <2>0, <2>2 DEF Resumed, Continue, p
    <2>4. p.moves < Stages[s].moves /\ p.score + 30 >= (Stages[s].moves - p.moves) * 30
      BY <1>0, <2>0, <2>2
    <2> QED BY <1>0, <2>0, <2>2, <2>3, <2>4, StartWavesOK DEF s
  <1>3. CASE r.awaits = "clear"
    <2> DEFINE w == r.wave
    <2>0. WaveOf(w, r.sprites) /\ r.cells = w.next /\ r.moves < Stages[s].moves
          /\ Pending(r) = w.score
      BY <1>3 DEF RunOK, Pending, s
    <2>1. q = StartFalls(r)
      BY <1>3 DEF Resumed
    <2>2. Fallen(r.sprites, w.falls) = ApplyGravity(r.sprites)
          /\ ApplyGravity(r.sprites) \in Boards
      BY <1>0, <2>0, SpritesFollow DEF RunType, WaveOf
    <2>3. Refill(Fallen(r.sprites, w.falls), w.spawns) = r.cells
      BY <2>0, <2>2 DEF WaveOf
    <2>4. q = [r EXCEPT !.score = r.score + w.score, !.awaits = "fall", !.sprites = r.cells]
      BY <2>1, <2>3 DEF StartFalls
    <2>5. r.cells \in Boards /\ w.score \in Nat
      BY <1>0, <2>0 DEF RunType, FullBoards, Boards, WaveOf
    <2> HIDE DEF w
    <2>6. /\ q \in RunType /\ q.cells = r.cells /\ q.sprites = r.cells /\ q.awaits = "fall"
          /\ q.score = r.score + w.score /\ q.moves = r.moves /\ q.ended = r.ended
      <3> DEFINE sum == r.score + w.score
      <3>1. sum \in Nat
        BY <1>0, <2>5 DEF RunType
      <3>2. q = [r EXCEPT !.score = sum, !.awaits = "fall", !.sprites = r.cells]
        BY <2>4
      <3> HIDE DEF sum
      <3>3. /\ q \in RunType /\ q.cells = r.cells /\ q.sprites = r.cells /\ q.awaits = "fall"
            /\ q.score = sum /\ q.moves = r.moves /\ q.ended = r.ended
        BY <1>0, <2>5, <3>1, <3>2 DEF RunType
      <3> QED BY <3>3 DEF sum
    <2>7. q.score + Pending(q) >= (Stages[s].moves - q.moves) * 30
      BY <1>0, <1>3, <2>0, <2>5, <2>6 DEF Pending
    <2> QED BY <1>0, <2>0, <2>6, <2>7 DEF RunOK, Idle, s
  <1>4. CASE r.awaits = "fall"
    <2>0. r.sprites = r.cells /\ r.moves < Stages[s].moves /\ Pending(r) = 0
      BY <1>4 DEF RunOK, Pending, s
    <2>1. q \in Continue(r)
      BY <1>4 DEF Resumed
    <2>2. CASE Matching(r.cells)
      <3>1. q \in StartWaves(r)
        BY <2>1, <2>2 DEF Continue
      <3>2. r.score + 30 >= (Stages[s].moves - r.moves) * 30
        BY <1>0, <2>0
      <3> QED BY <1>0, <2>0, <2>2, <3>1, <3>2, StartWavesOK DEF s
    <2>3. CASE ~Matching(r.cells)
      <3>1. PICK x \in Settle(r) : q = Ended(x)
        BY <2>1, <2>3 DEF Continue
      <3>2. r.score >= (Stages[s].moves - r.moves) * 30
        BY <1>0, <2>0
      <3> QED BY <1>0, <2>0, <2>3, <3>1, <3>2, EndedOK DEF s
    <2> QED BY <2>2, <2>3
  <1> QED
    BY <1>0, <1>1, <1>2, <1>3, <1>4

-----------------------------------------------------------------------------
(* The inductive invariant *)

\* What the view says of a live run.
ViewOK ==
    /\ hud = Mirror(run)
    /\ status \in {"playing", "cleared", "failed"}
    /\ ~run.ended => status = "playing"
    /\ status = "cleared" => run.score >= Target /\ (IsFinalStage => arrived)
    /\ status = "failed" => run.score < Target
    /\ status = "playing" /\ run.ended => arrived
    /\ arrived => run.ended /\ run.score >= Target /\ IsFinalStage

\* What holds in every reachable state: only a live run means anything, and
\* an abandoned one is out of the way.
IInv ==
    /\ mounted \in BOOLEAN /\ arrived \in BOOLEAN
    /\ stageIndex \in DOMAIN Stages
    /\ run \in RunType
    /\ phase \in {"none", "init", "live"}
    /\ phase = "live" => RunOK(run, stageIndex) /\ ViewOK
    /\ phase # "live" => run = NoRun /\ status = "loading" /\ ~arrived
    /\ ~mounted => phase = "none" /\ stageIndex = 1
    /\ IsFiniteSet(stale) /\ Cardinality(stale \ {Hung}) <= MaxStale

\* It holds at first.
LEMMA InitOK == Init => IInv
  <1> SUFFICES ASSUME Init PROVE IInv
    OBVIOUS
  <1>1. IsFiniteSet(stale) /\ Cardinality(stale \ {Hung}) <= MaxStale
    <2>1. stale \ {Hung} = {} /\ stale = {}
      BY DEF Init
    <2> QED BY <2>1, FS_EmptySet, PuzzleAssumption
  <1> QED
    BY <1>1, NoRunType, StageIs DEF Init, IInv

\* Teardown remembers what the run awaited.
LEMMA DestroyOK ==
    ASSUME IInv, Destroy
    PROVE  IsFiniteSet(stale') /\ Cardinality(stale' \ {Hung}) <= MaxStale
           /\ run' = NoRun /\ run' \in RunType
  <1>1. IsFiniteSet(Abandoned)
    BY FS_EmptySet, FS_Singleton DEF Abandoned
  <1>2. IsFiniteSet(stale \cup Abandoned)
    BY <1>1, FS_Union DEF IInv
  <1> QED
    BY <1>2, NoRunType DEF Destroy

\* An animation ends: the run goes on, and the view is told.
LEMMA AnimateOK == ASSUME IInv, Animate PROVE IInv'
  <1>1. PICK r \in Resumed(run) :
            /\ run' = r /\ hud' = Mirror(r)
            /\ status' = IF r.ended THEN Outcome(r) ELSE status
            /\ arrived' = (arrived \/ Announces(r))
    BY DEF Animate
  <1>2. phase = "live" /\ run.awaits # Idle /\ RunOK(run, stageIndex) /\ ViewOK
        /\ stageIndex \in DOMAIN Stages
    BY DEF Animate, Busy, IInv
  <1>3. RunOK(r, stageIndex) /\ r \in RunType /\ r.ended \in BOOLEAN /\ r.score \in Nat
    BY <1>2, ResumedOK DEF RunOK, RunType
  <1>4. ~run.ended /\ status = "playing" /\ arrived = FALSE
    BY <1>2 DEF RunOK, ViewOK, IInv
  <1>5. stageIndex' = stageIndex /\ phase' = "live" /\ mounted' = mounted /\ stale' = stale
    BY <1>2 DEF Animate
  <1>6. Target \in Nat /\ Target' = Target /\ IsFinalStage' = IsFinalStage
    BY <1>2, <1>5, StageIs DEF Target, IsFinalStage
  <1>7. ViewOK'
    <2>1. CASE ~r.ended
      BY <1>1, <1>4, <2>1 DEF ViewOK, Announces
    <2>2. CASE r.ended /\ r.score >= Target
      <3>1. status' = "cleared" /\ (IsFinalStage <=> arrived')
        BY <1>1, <1>4, <2>2 DEF Outcome, Announces
      <3> QED BY <1>1, <1>6, <2>2, <3>1 DEF ViewOK
    <2>3. CASE r.ended /\ ~(r.score >= Target)
      <3>1. status' = "failed" /\ ~arrived'
        BY <1>1, <1>4, <2>3 DEF Outcome, Announces
      <3> QED BY <1>1, <1>3, <1>6, <2>3, <3>1 DEF ViewOK
    <2> QED BY <1>3, <2>1, <2>2, <2>3
  <1>8. RunOK(run, stageIndex)'
    BY <1>1, <1>3, <1>5
  <1>9. arrived' \in BOOLEAN
    BY <1>1, <1>4 DEF Announces
  <1> QED
    BY <1>1, <1>2, <1>3, <1>5, <1>7, <1>8, <1>9 DEF IInv

\* The pointer moves nothing but the run.
LEMMA PointerOK ==
    ASSUME IInv, Listens, UNCHANGED <<view, phase, stale>>, run' \in RunType,
           RunOK(run', stageIndex), ~run'.ended, Mirror(run') = Mirror(run)
    PROVE  IInv'
  <1>1. phase = "live" /\ ~run.ended /\ ViewOK /\ run.awaits = Idle
    BY DEF Listens, Busy, IInv
  <1>2. UNCHANGED <<mounted, stageIndex, status, failed, arrived, hud, phase, stale>>
    BY DEF view
  <1>3. status = "playing" /\ ~arrived /\ hud = Mirror(run)
    BY <1>1 DEF ViewOK
  <1>4. ViewOK'
    BY <1>2, <1>3 DEF ViewOK
  <1>5. RunOK(run, stageIndex)'
    BY <1>2
  <1> QED
    BY <1>1, <1>2, <1>4, <1>5 DEF IInv

\* A drag asks for a swap.
LEMMA DragOK == ASSUME IInv, NEW a \in Cells, NEW c \in Cells, Drag(a, c) PROVE IInv'
  <1>1. RunOK(run, stageIndex) /\ run.awaits = Idle /\ ~run.ended /\ stageIndex \in DOMAIN Stages
    BY DEF Drag, Listens, Busy, IInv
  <1>2. run' = Requested(run, a, c) /\ Listens /\ UNCHANGED <<view, phase, stale>>
    BY DEF Drag
  <1>3. RunOK(run', stageIndex) /\ ~run'.ended /\ Mirror(run') = Mirror(run)
    BY <1>1, <1>2, RequestedOK
  <1>4. run' \in RunType
    BY <1>3 DEF RunOK
  <1> QED
    BY <1>2, <1>3, <1>4, PointerOK

\* A tap selects, deselects or asks for a swap.
LEMMA TapOK == ASSUME IInv, NEW c \in Tappable, Tap(c) PROVE IInv'
  <1>1. /\ RunOK(run, stageIndex) /\ run.awaits = Idle /\ ~run.ended
        /\ stageIndex \in DOMAIN Stages /\ run \in RunType
    BY DEF Tap, Listens, Busy, IInv
  <1>2. c \in Cells /\ Listens /\ UNCHANGED <<view, phase, stale>>
    BY PuzzleAssumption DEF Tap
  <1>3. ASSUME NEW z \in Cells \cup {None}, run' = [run EXCEPT !.selected = z]
        PROVE  RunOK(run', stageIndex) /\ ~run'.ended /\ Mirror(run') = Mirror(run)
    <2>1. /\ run' \in RunType /\ run'.cells = run.cells /\ run'.sprites = run.sprites
          /\ run'.score = run.score /\ run'.moves = run.moves /\ run'.ended = run.ended
          /\ run'.awaits = run.awaits /\ run'.wave = run.wave
      BY <1>1, <1>3 DEF RunType
    <2> QED BY <1>1, <2>1 DEF RunOK, Pending, Mirror
  <1>4. CASE run.selected = c
    BY <1>2, <1>3, <1>4, PointerOK DEF Tap, RunOK
  <1>5. CASE run.selected # c /\ run.selected # None /\ AreAdjacent(run.selected, c)
    <2>1. run' = Requested(run, run.selected, c)
      BY <1>5 DEF Tap
    <2>2. run.selected \in Cells
      BY <1>1, <1>5 DEF RunType
    <2>3. RunOK(run', stageIndex) /\ ~run'.ended /\ Mirror(run') = Mirror(run)
      BY <1>1, <1>2, <2>1, <2>2, RequestedOK
    <2> QED BY <1>2, <2>3, PointerOK DEF RunOK
  <1>6. CASE run.selected # c /\ ~(run.selected # None /\ AreAdjacent(run.selected, c))
    <2>1. run' = [run EXCEPT !.selected = c]
      BY <1>6 DEF Tap
    <2>2. RunOK(run', stageIndex) /\ ~run'.ended /\ Mirror(run') = Mirror(run)
      BY <1>2, <1>3, <2>1
    <2> QED BY <1>2, <2>2, PointerOK DEF RunOK
  <1> QED
    BY <1>4, <1>5, <1>6

\* A fresh board: at the start of a run, and of a retry.
LEMMA DealtOK ==
    ASSUME IInv, NEW b \in Deals, run' = NewRun(b, stageIndex), hud' = Mirror(run'),
           status' = "playing", ~arrived, phase' = "live", mounted,
           UNCHANGED <<mounted, stageIndex, failed, arrived, stale>>
    PROVE  IInv'
  <1>1. stageIndex \in DOMAIN Stages
    BY DEF IInv
  <1>2. RunOK(run', stageIndex) /\ ~run'.ended
    BY <1>1, NewRunOK
  <1>3. RunOK(run, stageIndex)' /\ run' \in RunType
    BY <1>2 DEF RunOK
  <1>4. ViewOK'
    BY <1>2 DEF ViewOK
  <1> QED
    BY <1>1, <1>3, <1>4 DEF IInv

LEMMA AppReadyOK == ASSUME IInv, AppReady PROVE IInv'
  <1>1. PICK b \in Deals : run' = NewRun(b, stageIndex)
    BY DEF AppReady
  <1>2. ~arrived /\ mounted
    BY DEF AppReady, IInv
  <1> QED
    BY <1>1, <1>2, DealtOK DEF AppReady

LEMMA HandleRetryOK == ASSUME IInv, HandleRetry PROVE IInv'
  <1>1. PICK b \in Deals : run' = NewRun(b, stageIndex)
    BY DEF HandleRetry
  <1>2. Target \in Nat /\ run.score \in Nat
    BY StageIs DEF IInv, Target, RunType
  <1>3. ~arrived /\ mounted
    BY <1>2 DEF HandleRetry, IInv, ViewOK
  <1> QED
    BY <1>1, <1>3, DealtOK DEF HandleRetry

\* The visitor goes on to the chat, and the run stays ended behind it.
LEMMA StartChatOK == ASSUME IInv, HandleStartChat PROVE IInv'
  <1>1. phase = "live" /\ ViewOK /\ RunOK(run, stageIndex)
    BY DEF HandleStartChat, IInv
  <1>2. run.ended /\ IsFinalStage /\ arrived
    BY <1>1 DEF ViewOK, HandleStartChat
  <1>3. UNCHANGED <<mounted, stageIndex, failed, arrived, hud, phase, run, stale>>
        /\ status' = "playing"
    BY DEF HandleStartChat
  <1>4. ViewOK'
    BY <1>1, <1>2, <1>3 DEF ViewOK, Target, IsFinalStage
  <1>5. RunOK(run, stageIndex)'
    BY <1>1, <1>3
  <1> QED
    BY <1>1, <1>3, <1>4, <1>5 DEF IInv

\* The runtime is destroyed for the next stage, or when the visitor leaves.
LEMMA NextStageOK == ASSUME IInv, HandleNextStage PROVE IInv'
  <1>1. phase = "live" /\ ViewOK /\ ~IsFinalStage /\ mounted
    BY DEF HandleNextStage, IInv
  <1>2. ~arrived
    BY <1>1 DEF ViewOK
  <1>3. stageIndex + 1 \in DOMAIN Stages
    BY <1>1, StageIs DEF IsFinalStage, IInv
  <1>4. /\ IsFiniteSet(stale') /\ Cardinality(stale' \ {Hung}) <= MaxStale
        /\ run' = NoRun /\ run' \in RunType
    BY DestroyOK DEF HandleNextStage
  <1> QED
    BY <1>1, <1>2, <1>3, <1>4 DEF HandleNextStage, IInv

LEMMA LeaveOK == ASSUME IInv, Leave PROVE IInv'
  <1>1. /\ IsFiniteSet(stale') /\ Cardinality(stale' \ {Hung}) <= MaxStale
        /\ run' = NoRun /\ run' \in RunType
    BY DestroyOK DEF Leave
  <1> QED
    BY <1>1, StageIs DEF Leave, IInv

\* What an abandoned runtime still does touches nothing of the live one.
LEMMA ResumeOK == ASSUME IInv, NEW s \in stale, Resume(s) PROVE IInv'
  <1>1. IsFiniteSet(stale \ {Hung}) /\ IsFiniteSet(stale) /\ stale' \subseteq stale
        /\ Cardinality(stale \ {Hung}) <= MaxStale
    BY FS_Subset DEF IInv, Resume
  <1>2. IsFiniteSet(stale') /\ stale' \ {Hung} \subseteq stale \ {Hung}
    BY <1>1, FS_Subset
  <1>3. Cardinality(stale' \ {Hung}) <= Cardinality(stale \ {Hung})
    BY <1>1, <1>2, FS_Subset
  <1>4. Cardinality(stale' \ {Hung}) <= MaxStale
    <2>1. IsFiniteSet(stale' \ {Hung})
      BY <1>1, <1>2, FS_Subset
    <2> QED BY <1>1, <1>3, <2>1, FS_CardinalityType, PuzzleAssumption
  <1>5. UNCHANGED <<mounted, stageIndex, status, failed, arrived, hud, phase, run>>
    BY DEF Resume, view
  <1> QED
    BY <1>2, <1>4, <1>5 DEF IInv, ViewOK, Target, IsFinalStage

\* Every step preserves the invariant.
LEMMA NextOK == IInv /\ [Next]_vars => IInv'
  <1> SUFFICES ASSUME IInv, [Next]_vars PROVE IInv'
    OBVIOUS
  <1>1. CASE InitFails
    BY <1>1 DEF InitFails, IInv
  <1>2. CASE Visit
    BY <1>2 DEF Visit, IInv
  <1>3. CASE UNCHANGED vars
    BY <1>3 DEF vars, view, IInv, ViewOK, Target, IsFinalStage
  <1> QED
    BY <1>1, <1>2, <1>3, AnimateOK, DragOK, TapOK, AppReadyOK, ResumeOK, NextStageOK,
       StartChatOK, HandleRetryOK, LeaveOK DEF Next

-----------------------------------------------------------------------------
(* The theorems *)

\* The invariant of the puzzle holds in every reachable state, for any board,
\* pieces, stages, draws, depth of a cascade and number of abandoned runs.
THEOREM InvariantHolds == Spec => []IInv
  BY InitOK, NextOK, PTL DEF Spec

\* Whenever the player may move, the screen shows the board that is in memory,
\* no run of three is left and there is a move to make; a run ends for its own
\* reason, and the view shows its numbers (PuzzleGameRuntime.ts, board.ts).
THEOREM PuzzleInvHolds == Spec => []PuzzleInv
  <1>1. IInv => PuzzleInv
    <2> SUFFICES ASSUME IInv PROVE PuzzleInv
      OBVIOUS
    <2>1. /\ run \in RunType /\ stageIndex \in DOMAIN Stages
          /\ Stages[stageIndex].moves \in Nat /\ Target = Stages[stageIndex].target
          /\ Target \in Nat
      BY StageIs DEF IInv, Target
    <2>2. phase = "live" => RunOK(run, stageIndex) /\ ViewOK
      BY DEF IInv
    <2>3. TypeOK
      <3>1. phase = "live" => run.moves \in 0 .. Stages[stageIndex].moves
        BY <2>1, <2>2 DEF RunOK, RunType
      <3>2. status \in {"loading", "playing", "cleared", "failed"}
        BY <2>2 DEF ViewOK, IInv
      <3> QED BY <2>1, <3>1, <3>2 DEF TypeOK, IInv, RunType, FullBoards, Boards
    <2>4. SettledBoard
      <3>1. \A b \in FullBoards : EmptyCells(b) = {}
        BY DEF EmptyCells, FullBoards
      <3> QED BY <2>1, <2>2, <3>1 DEF SettledBoard, RunOK, RunType, Busy, Idle
    <2>5. EndsForAReason
      BY <2>1, <2>2 DEF EndsForAReason, RunOK, RunType, Busy, ViewOK, Idle
    <2>6. HudIsRuns
      BY <2>2 DEF HudIsRuns, ViewOK
    <2>7. ArrivedByClearing
      BY <2>2 DEF ArrivedByClearing, ViewOK, IInv
    <2> QED BY <2>3, <2>4, <2>5, <2>6, <2>7 DEF PuzzleInv
  <1> QED
    BY <1>1, InvariantHolds, PTL

\* Each move that is spent has earned the score of a run of three, at least,
\* and nothing is earned without one (requestSwap, resolveCascades).
THEOREM MovesPayHolds == Spec => []MovesPay
  <1>1. IInv => MovesPay
    <2> SUFFICES ASSUME IInv, phase = "live", ~Busy
                 PROVE  LET spent == Stages[stageIndex].moves - run.moves
                        IN  /\ run.score >= spent * 30
                            /\ run.score > 0 => spent > 0
      BY DEF MovesPay
    <2>1. /\ RunOK(run, stageIndex) /\ run.score \in Nat /\ run.moves \in Nat
          /\ Stages[stageIndex].moves \in Nat /\ run.awaits = Idle /\ Pending(run) = 0
      BY StageIs DEF IInv, RunType, Busy, Pending, Idle
    <2> QED BY <2>1 DEF RunOK
  <1> QED
    BY <1>1, InvariantHolds, PTL
===============================================================================
