----------------------------- MODULE IslandProofs -----------------------------
(***************************************************************************)
(* What its author makes of a platformer island, and what its visitor      *)
(* makes of it: the stage editor and the platformer.                       *)
(*                                                                         *)
(* The editor, for levels of any size, any palette and any cap.  Its undo  *)
(* history: the two stacks of EditorModel (editorState.ts) implement the   *)
(* one timeline of History.tla, together they never hold more than the     *)
(* cap, and an editor without the unsaved mark shows the stored level.     *)
(* The timeline is the undo stack, the level, and the redo stack backwards *)
(* (Line).  LineAt says what is at each place of it; each handler is then  *)
(* one of the four moves: an undo point is a Commit, whose redo stack is   *)
(* empty, a drag an Amend, Undo and Redo leave the line as it is.  Its     *)
(* document: every level that is drawn, kept on a stack or stored is Good, *)
(* which each operation preserves (the lemmas named ...Good).              *)
(*                                                                         *)
(* The platformer, for stages of any actors in any order, and any number   *)
(* of runs.  A contact Settles: at most one health point, no shell that    *)
(* comes back, every shell paid.  That relation is transitive, so all the  *)
(* contacts of a frame settle together (ContactsSettle), whatever their    *)
(* number and order.  The invariant PlatformerIInv then says which run can *)
(* be live (OneRun) and what the screen shows of it.                       *)
(***************************************************************************)
EXTENDS Editor, Platformer, CommonLemmas, NaturalsInduction

\* The two stacks are sequences (of whatever they hold).
Stacks ==
    /\ undoStack \in Seq(Range(undoStack))
    /\ redoStack \in Seq(Range(redoStack))

IInv == Stacks /\ HistoryBounded

Line(u, l, r) == u \o <<l>> \o Reverse(r)

---------------------------------------------------------------------------
(* Facts about sequences                                                   *)

LEMMA ReverseIs ==
    ASSUME NEW S, NEW r \in Seq(S)
    PROVE  /\ Reverse(r) \in Seq(S) /\ Len(Reverse(r)) = Len(r)
           /\ \A i \in 1 .. Len(r) : Reverse(r)[i] = r[Len(r) - i + 1]
  BY DEF Reverse

\* t is v followed by w.
IsConcat(t, S, v, w) ==
    /\ t \in Seq(S) /\ Len(t) = Len(v) + Len(w)
    /\ \A i \in 1 .. Len(v) : t[i] = v[i]
    /\ \A i \in Len(v) + 1 .. Len(v) + Len(w) : t[i] = w[i - Len(v)]

LEMMA ConcatAt ==
    ASSUME NEW S, NEW v \in Seq(S), NEW w \in Seq(S)
    PROVE  IsConcat(v \o w, S, v, w)
  <1>1. Len(v) \in Nat /\ Len(w) \in Nat
    OBVIOUS
  <1> QED
    BY <1>1, ConcatProperties DEF IsConcat

\* t is the timeline of an undo stack, a level and a redo stack.
IsLine(t, S, u, l, r) ==
    /\ t \in Seq(S) /\ Len(t) = Len(u) + 1 + Len(r)
    /\ \A i \in 1 .. Len(u) : t[i] = u[i]
    /\ t[Len(u) + 1] = l
    /\ \A i \in Len(u) + 2 .. Len(u) + 1 + Len(r) : t[i] = r[Len(u) + Len(r) + 2 - i]

LEMMA LineAt ==
    ASSUME NEW S, NEW u \in Seq(S), NEW l \in S, NEW r \in Seq(S)
    PROVE  IsLine(Line(u, l, r), S, u, l, r)
  <1> DEFINE v == u \o <<l>>
             w == Reverse(r)
             t == v \o w
  <1>1. /\ v \in Seq(S) /\ Len(v) = Len(u) + 1 /\ Len(u) \in Nat /\ Len(r) \in Nat
        /\ \A i \in 1 .. Len(u) : v[i] = u[i]
        /\ v[Len(u) + 1] = l
    OBVIOUS
  <1>2. /\ w \in Seq(S) /\ Len(w) = Len(r)
        /\ \A i \in 1 .. Len(r) : w[i] = r[Len(r) - i + 1]
    BY ReverseIs
  <1> HIDE DEF v, w
  <1>3. IsConcat(t, S, v, w)
    BY <1>1, <1>2, ConcatAt
  <1>4. Line(u, l, r) = t
    BY DEF Line, v, w
  <1> HIDE DEF t
  <1>5. ASSUME NEW i \in Len(u) + 2 .. Len(u) + 1 + Len(r)
        PROVE  t[i] = r[Len(u) + Len(r) + 2 - i]
    <2>1. /\ i \in Len(v) + 1 .. Len(v) + Len(w) /\ i - Len(v) \in 1 .. Len(r)
          /\ Len(r) - (i - Len(v)) + 1 = Len(u) + Len(r) + 2 - i
      BY <1>1, <1>2
    <2> QED
      BY <1>2, <1>3, <2>1 DEF IsConcat
  <1>6. ASSUME NEW i \in 1 .. Len(u) PROVE t[i] = u[i]
    BY <1>1, <1>3 DEF IsConcat
  <1>7. t[Len(u) + 1] = l
    BY <1>1, <1>3 DEF IsConcat
  <1>8. t \in Seq(S) /\ Len(t) = Len(u) + 1 + Len(r)
    BY <1>1, <1>2, <1>3 DEF IsConcat
  <1> QED
    BY <1>4, <1>5, <1>6, <1>7, <1>8 DEF IsLine

LEMMA FrontIs ==
    ASSUME NEW S, NEW s \in Seq(S), s # <<>>
    PROVE  /\ Front(s) \in Seq(S) /\ Len(Front(s)) = Len(s) - 1 /\ Len(s) \in Nat \ {0}
           /\ \A i \in 1 .. Len(s) - 1 : Front(s)[i] = s[i]
           /\ Last(s) = s[Len(s)] /\ Last(s) \in S
  <1>1. Len(s) \in Nat \ {0} /\ \A i \in 1 .. Len(s) : s[i] \in S
    BY EmptySeq, ElementOfSeq
  <1> DEFINE n == Len(s) - 1
             f == SubSeq(s, 1, n)
  <1>2. /\ n \in Nat /\ Len(s) = n + 1 /\ Len(s) - 1 = n
        /\ \A i \in 1 .. n : s[i] \in S
    BY <1>1
  <1> HIDE DEF n
  <1>3. /\ f \in Seq(S) /\ Len(f) = IF 1 <= n THEN n - 1 + 1 ELSE 0
        /\ \A i \in 1 .. n - 1 + 1 : f[i] = s[1 + i - 1]
    BY <1>2, SubSeqProperties
  <1>4. Front(s) = f
    BY DEF Front, n
  <1> HIDE DEF f
  <1>5. Len(f) = n
    BY <1>2, <1>3
  <1>6. ASSUME NEW i \in 1 .. n PROVE f[i] = s[i]
    <2>1. i \in 1 .. n - 1 + 1 /\ 1 + i - 1 = i
      BY <1>2
    <2> QED
      BY <1>3, <2>1
  <1> QED
    BY <1>1, <1>2, <1>3, <1>4, <1>5, <1>6 DEF Last

LEMMA CappedIs ==
    ASSUME NEW S, NEW s \in Seq(S), s # <<>>
    PROVE  /\ Capped(s) \in Seq(S)
           /\ Len(s) <= UndoCap => Capped(s) = s
           /\ Len(s) > UndoCap =>
                  /\ Len(Capped(s)) = Len(s) - 1
                  /\ \A i \in 1 .. Len(s) - 1 : Capped(s)[i] = s[i + 1]
  <1>1. Len(s) \in Nat /\ UndoCap \in Nat
    BY EditorAssumption
  <1> QED
    BY <1>1 DEF Capped

LEMMA StacksOver ==
    ASSUME Stacks, NEW T
    PROVE  \E S : /\ T \subseteq S
                  /\ undoStack \in Seq(S) /\ redoStack \in Seq(S)
  <1> DEFINE S == Range(undoStack) \cup Range(redoStack) \cup T
  <1>1. undoStack \in Seq(S) /\ redoStack \in Seq(S)
    BY SeqMonotonic DEF Stacks
  <1> QED
    BY <1>1

---------------------------------------------------------------------------
(* What the handlers do to the stacks                                      *)

\* The shapes of the handlers, as far as the stacks are concerned.
Undoes ==
    /\ undoStack # <<>> /\ undoStack' = Front(undoStack)
    /\ redoStack' = Append(redoStack, level) /\ level' = Last(undoStack)
Redoes ==
    /\ redoStack # <<>> /\ redoStack' = Front(redoStack)
    /\ undoStack' = Append(undoStack, level) /\ level' = Last(redoStack)
Opens == undoStack' = <<>> /\ redoStack' = <<>>
Keeps == UNCHANGED <<undoStack, redoStack>>

LEMMA HandlerShapes ==
    ASSUME [Next]_vars
    PROVE  BeginStroke \/ Undoes \/ Redoes \/ Opens \/ Keeps
  <1>1. CASE Pointer
    BY <1>1 DEF Pointer, StartStroke, DragStroke, Place, Edit, Keeps
  <1>2. ASSUME NEW by \in {-ResizeStep, ResizeStep}, Resize(by) PROVE BeginStroke
    BY <1>2 DEF Resize, Edit
  <1>3. ASSUME NEW bg \in Backgrounds, SetBackground(bg) PROVE BeginStroke
    BY <1>3 DEF SetBackground, Edit
  <1>4. CASE Undo
    BY <1>4 DEF Undo, Undoes
  <1>5. CASE Redo
    BY <1>5 DEF Redo, Redoes
  <1>6. CASE Load
    BY <1>6 DEF Load, Opens
  <1>7. CASE EndStroke \/ Save \/ UNCHANGED vars
    BY <1>7 DEF EndStroke, Save, vars, Keeps
  <1> QED
    BY <1>1, <1>2, <1>3, <1>4, <1>5, <1>6, <1>7 DEF Next

LEMMA StacksStep ==
    ASSUME Stacks, HistoryBounded, BeginStroke \/ Undoes \/ Redoes \/ Opens \/ Keeps
    PROVE  Stacks' /\ HistoryBounded'
  <1> USE EditorAssumption
  <1> PICK S : /\ {level, level'} \subseteq S
               /\ undoStack \in Seq(S) /\ redoStack \in Seq(S)
    BY StacksOver
  <1>0. Len(undoStack) \in Nat /\ Len(redoStack) \in Nat
    OBVIOUS
  <1>1. CASE BeginStroke
    <2> DEFINE s == Append(undoStack, level)
    <2>1. s \in Seq(S) /\ s # <<>> /\ Len(s) = Len(undoStack) + 1
      BY AppendProperties
    <2>2. undoStack' = Capped(s) /\ redoStack' = <<>>
      BY <1>1 DEF BeginStroke
    <2> HIDE DEF s
    <2>3. undoStack' \in Seq(S) /\ Len(undoStack') <= UndoCap
      <3>1. /\ Capped(s) \in Seq(S)
            /\ Len(s) <= UndoCap => Capped(s) = s
            /\ Len(s) > UndoCap => Len(Capped(s)) = Len(s) - 1
        BY <2>1, CappedIs
      <3> QED
        BY <1>0, <2>1, <2>2, <3>1 DEF HistoryBounded
    <2>4. redoStack' \in Seq(S) /\ Len(redoStack') = 0
      BY <2>2
    <2>5. Stacks'
      BY <2>3, <2>4, SeqOfRange DEF Stacks
    <2> QED
      BY <2>3, <2>4, <2>5 DEF HistoryBounded
  <1>2. CASE Undoes
    <2>1. undoStack' \in Seq(S) /\ Len(undoStack') = Len(undoStack) - 1
      BY <1>2, FrontIs DEF Undoes
    <2>2. redoStack' \in Seq(S) /\ Len(redoStack') = Len(redoStack) + 1
      BY <1>2, AppendProperties DEF Undoes
    <2>3. Stacks'
      BY <2>1, <2>2, SeqOfRange DEF Stacks
    <2> QED
      BY <1>0, <2>1, <2>2, <2>3 DEF HistoryBounded
  <1>3. CASE Redoes
    <2>1. redoStack' \in Seq(S) /\ Len(redoStack') = Len(redoStack) - 1
      BY <1>3, FrontIs DEF Redoes
    <2>2. undoStack' \in Seq(S) /\ Len(undoStack') = Len(undoStack) + 1
      BY <1>3, AppendProperties DEF Redoes
    <2>3. Stacks'
      BY <2>1, <2>2, SeqOfRange DEF Stacks
    <2> QED
      BY <1>0, <2>1, <2>2, <2>3 DEF HistoryBounded
  <1>4. CASE Opens
    BY <1>4, SeqOfRange DEF Opens, Stacks, HistoryBounded
  <1>5. CASE Keeps
    BY <1>5 DEF Keeps, Stacks, HistoryBounded
  <1> QED
    BY <1>1, <1>2, <1>3, <1>4, <1>5
---------------------------------------------------------------------------
(* The refinement                                                          *)

\* Taking the last of the undo stack as the level, and putting the level on
\* the redo stack, leaves the line as it is.
LEMMA LineMoves ==
    ASSUME NEW S, NEW u \in Seq(S), u # <<>>, NEW l \in S, NEW r \in Seq(S)
    PROVE  Line(Front(u), Last(u), Append(r, l)) = Line(u, l, r)
  <1> DEFINE q == Append(r, l)
             f == Front(u)
             m == Last(u)
  <1>1. /\ f \in Seq(S) /\ Len(f) = Len(u) - 1 /\ Len(u) \in Nat \ {0}
        /\ \A i \in 1 .. Len(u) - 1 : f[i] = u[i]
        /\ m = u[Len(u)] /\ m \in S
    BY FrontIs
  <1>2. /\ q \in Seq(S) /\ Len(q) = Len(r) + 1 /\ Len(r) \in Nat
        /\ \A i \in 1 .. Len(r) : q[i] = r[i]
        /\ q[Len(r) + 1] = l
    BY AppendProperties
  <1> HIDE DEF q, f, m
  <1> DEFINE a == Line(u, l, r)
             b == Line(f, m, q)
  <1>4. IsLine(a, S, u, l, r)
    BY LineAt
  <1>5. IsLine(b, S, f, m, q)
    BY <1>1, <1>2, LineAt
  <1> HIDE DEF a, b
  <1>6. ASSUME NEW i \in 1 .. Len(a) PROVE b[i] = a[i]
    <2> USE DEF IsLine
    <2>1. CASE i < Len(u)
      <3>1. i \in 1 .. Len(u) /\ i \in 1 .. Len(u) - 1 /\ i \in 1 .. Len(f)
        BY <1>1, <2>1
      <3> QED
        BY <1>1, <1>4, <1>5, <3>1
    <2>2. CASE i = Len(u)
      <3>1. i \in 1 .. Len(u) /\ i = Len(f) + 1
        BY <1>1, <2>2
      <3> QED
        BY <1>1, <1>4, <1>5, <2>2, <3>1
    <2>3. CASE i = Len(u) + 1
      <3>1. i \in Len(f) + 2 .. Len(f) + 1 + Len(q) /\ Len(f) + Len(q) + 2 - i = Len(r) + 1
        BY <1>1, <1>2, <2>3
      <3> QED
        BY <1>2, <1>4, <1>5, <2>3, <3>1
    <2>4. CASE i > Len(u) + 1
      <3>1. /\ i \in Len(f) + 2 .. Len(f) + 1 + Len(q)
            /\ i \in Len(u) + 2 .. Len(u) + 1 + Len(r)
            /\ Len(f) + Len(q) + 2 - i = Len(u) + Len(r) + 2 - i
            /\ Len(u) + Len(r) + 2 - i \in 1 .. Len(r)
        BY <1>1, <1>2, <1>4, <2>4
      <3> QED
        BY <1>2, <1>4, <1>5, <3>1
    <2> QED
      BY <1>1, <1>4, <2>1, <2>2, <2>3, <2>4
  <1>7. Len(a) = Len(b)
    BY <1>1, <1>2, <1>4, <1>5 DEF IsLine
  <1>8. a = b
    BY <1>4, <1>5, <1>6, <1>7, SeqEqual DEF IsLine
  <1> QED
    BY <1>8 DEF a, b, q, f, m

LEMMA FrontOfAppend ==
    ASSUME NEW S, NEW s \in Seq(S), NEW e \in S
    PROVE  /\ Append(s, e) \in Seq(S) /\ Append(s, e) # <<>>
           /\ Front(Append(s, e)) = s /\ Last(Append(s, e)) = e
  <1> DEFINE a == Append(s, e)
  <1>1. /\ a \in Seq(S) /\ a # <<>> /\ Len(a) = Len(s) + 1 /\ Len(s) \in Nat
        /\ \A i \in 1 .. Len(s) : a[i] = s[i]
        /\ a[Len(s) + 1] = e
    BY AppendProperties
  <1> HIDE DEF a
  <1>2. /\ Front(a) \in Seq(S) /\ Len(Front(a)) = Len(a) - 1
        /\ \A i \in 1 .. Len(a) - 1 : Front(a)[i] = a[i]
        /\ Last(a) = a[Len(a)]
    BY <1>1, FrontIs
  <1>3. Len(a) - 1 = Len(s) /\ Len(Front(a)) = Len(s)
    BY <1>1, <1>2
  <1>4. Front(a) = s
    BY <1>1, <1>2, <1>3, SeqEqual
  <1> QED
    BY <1>1, <1>2, <1>4 DEF a

LEMMA AppendOfFront ==
    ASSUME NEW S, NEW s \in Seq(S), s # <<>>
    PROVE  Append(Front(s), Last(s)) = s
  <1> DEFINE a == Append(Front(s), Last(s))
  <1>1. /\ Front(s) \in Seq(S) /\ Len(Front(s)) = Len(s) - 1 /\ Len(s) \in Nat \ {0}
        /\ \A i \in 1 .. Len(s) - 1 : Front(s)[i] = s[i]
        /\ Last(s) = s[Len(s)] /\ Last(s) \in S
    BY FrontIs
  <1>2. /\ a \in Seq(S) /\ Len(a) = Len(Front(s)) + 1
        /\ \A i \in 1 .. Len(Front(s)) : a[i] = Front(s)[i]
        /\ a[Len(Front(s)) + 1] = Last(s)
    BY <1>1, AppendProperties
  <1> HIDE DEF a
  <1>3. Len(a) = Len(s) /\ Len(Front(s)) + 1 = Len(s)
    BY <1>1, <1>2
  <1>4. ASSUME NEW i \in 1 .. Len(s) PROVE a[i] = s[i]
    <2>1. CASE i = Len(s)
      BY <1>1, <1>2, <1>3, <2>1
    <2>2. CASE i # Len(s)
      <3>1. i \in 1 .. Len(s) - 1 /\ i \in 1 .. Len(Front(s))
        BY <1>1, <2>2
      <3> QED
        BY <1>1, <1>2, <3>1
    <2> QED
      BY <2>1, <2>2
  <1>5. a = s
    BY <1>2, <1>3, <1>4, SeqEqual
  <1> QED
    BY <1>5 DEF a

\* The line, and the position on it.
TimelineIs == Line(undoStack, level, redoStack)
PosIs == Len(undoStack) + 1

LEMMA MoveStep ==
    ASSUME Stacks
    PROVE  /\ Undoes => PosIs > 1 /\ PosIs' = PosIs - 1 /\ TimelineIs' = TimelineIs
           /\ Redoes => PosIs < Len(TimelineIs) /\ PosIs' = PosIs + 1
                           /\ TimelineIs' = TimelineIs
  <1> PICK S : /\ {level, level'} \subseteq S
               /\ undoStack \in Seq(S) /\ redoStack \in Seq(S)
    BY StacksOver
  <1>0. Len(undoStack) \in Nat /\ Len(redoStack) \in Nat /\ level \in S
    OBVIOUS
  <1>1. ASSUME Undoes
        PROVE  PosIs > 1 /\ PosIs' = PosIs - 1 /\ TimelineIs' = TimelineIs
    <2>1. Len(undoStack) > 0 /\ Len(undoStack') = Len(undoStack) - 1
      BY <1>0, <1>1, FrontIs DEF Undoes
    <2>2. Line(Front(undoStack), Last(undoStack), Append(redoStack, level)) = TimelineIs
      BY <1>0, <1>1, LineMoves DEF Undoes, TimelineIs
    <2> QED
      BY <1>0, <1>1, <2>1, <2>2 DEF Undoes, PosIs, TimelineIs
  <1>2. ASSUME Redoes
        PROVE  PosIs < Len(TimelineIs) /\ PosIs' = PosIs + 1 /\ TimelineIs' = TimelineIs
    <2> DEFINE u == Append(undoStack, level)
               r == Front(redoStack)
               m == Last(redoStack)
    <2>1. u \in Seq(S) /\ u # <<>> /\ Front(u) = undoStack /\ Last(u) = level
      BY <1>0, FrontOfAppend
    <2>2. r \in Seq(S) /\ m \in S /\ Append(r, m) = redoStack /\ Len(redoStack) > 0
      BY <1>0, <1>2, FrontIs, AppendOfFront DEF Redoes
    <2>3. undoStack' = u /\ level' = m /\ redoStack' = r /\ Len(u) = Len(undoStack) + 1
      BY <1>0, <1>2, AppendProperties DEF Redoes
    <2> HIDE DEF u, r, m
    <2>4. Line(Front(u), Last(u), Append(r, m)) = Line(u, m, r)
      BY <2>1, <2>2, LineMoves, ZenonT(40)
    <2>5. IsLine(TimelineIs, S, undoStack, level, redoStack)
      BY <1>0, LineAt DEF TimelineIs
    <2>6. TimelineIs' = TimelineIs
      BY <2>1, <2>2, <2>3, <2>4 DEF TimelineIs
    <2>7. Len(TimelineIs) = Len(undoStack) + 1 + Len(redoStack)
      BY <2>5 DEF IsLine
    <2> QED
      BY <1>0, <2>2, <2>3, <2>6, <2>7 DEF PosIs
  <1> QED
    BY <1>1, <1>2
\* What stays of the line before a new version.
KeptIs == SubSeq(TimelineIs, IF PosIs > UndoCap THEN 2 ELSE 1, PosIs)

LEMMA KeptStep ==
    ASSUME NEW S, level \in S, undoStack \in Seq(S), redoStack \in Seq(S),
           BeginStroke
    PROVE  undoStack' = KeptIs /\ undoStack' \in Seq(S)
  <1> DEFINE t == TimelineIs
             u == undoStack
             a == Append(undoStack, level)
             m == IF PosIs > UndoCap THEN 2 ELSE 1
             k == KeptIs
             c == Capped(a)
  <1>0. Len(u) \in Nat /\ Len(redoStack) \in Nat /\ UndoCap \in Nat /\ PosIs = Len(u) + 1
    BY EditorAssumption DEF PosIs
  <1>1. /\ a \in Seq(S) /\ a # <<>> /\ Len(a) = Len(u) + 1
        /\ \A i \in 1 .. Len(u) : a[i] = u[i]
        /\ a[Len(u) + 1] = level
    BY AppendProperties
  <1>2. IsLine(t, S, u, level, redoStack)
    BY LineAt DEF TimelineIs
  <1> HIDE DEF t, a
  <1>3. \A i \in 1 .. PosIs : t[i] = a[i] /\ t[i] \in S
    <2>1. ASSUME NEW i \in 1 .. PosIs PROVE t[i] = a[i]
      <3>1. i \in 1 .. Len(u) \/ i = Len(u) + 1
        BY <1>0
      <3> QED
        BY <1>1, <1>2, <3>1 DEF IsLine
    <2>2. ASSUME NEW i \in 1 .. PosIs PROVE a[i] \in S
      <3>1. i \in 1 .. Len(a)
        BY <1>0, <1>1
      <3> QED
        BY <1>1, <3>1, ElementOfSeq
    <2> QED
      BY <2>1, <2>2
  <1>4. /\ c \in Seq(S)
        /\ Len(a) <= UndoCap => c = a
        /\ Len(a) > UndoCap =>
               Len(c) = Len(a) - 1 /\ \A i \in 1 .. Len(a) - 1 : c[i] = a[i + 1]
    BY <1>1, CappedIs
  <1>5. m \in 1 .. 2 /\ PosIs \in Nat \ {0} /\ m - 1 <= PosIs
    BY <1>0
  <1>6. k = SubSeq(t, m, PosIs)
    BY DEF KeptIs, t
  <1> HIDE DEF c, k
  <1>7. /\ k \in Seq(S) /\ Len(k) = IF m <= PosIs THEN PosIs - m + 1 ELSE 0
        /\ \A i \in 1 .. PosIs - m + 1 : k[i] = t[m + i - 1]
    <2>1. m \in Int /\ PosIs \in Int /\ \A i \in m .. PosIs : t[i] \in S
      BY <1>3, <1>5
    <2> HIDE DEF m
    <2> QED
      BY <1>6, <2>1, SubSeqProperties
  <1>8. CASE PosIs > UndoCap
    <2>1. m = 2 /\ Len(c) = Len(u) /\ Len(k) = Len(u)
      BY <1>0, <1>1, <1>4, <1>7, <1>8
    <2>2. ASSUME NEW i \in 1 .. Len(u) PROVE k[i] = c[i]
      <3>1. /\ i \in 1 .. PosIs - m + 1 /\ m + i - 1 = i + 1 /\ i + 1 \in 1 .. PosIs
            /\ i \in 1 .. Len(a) - 1
        BY <1>0, <1>1, <2>1
      <3> QED
        BY <1>0, <1>1, <1>3, <1>4, <1>7, <1>8, <3>1, ZenonT(40)
    <2> QED
      BY <1>4, <1>7, <2>1, <2>2, SeqEqual DEF BeginStroke, a, c, k
  <1>9. CASE ~(PosIs > UndoCap)
    <2>1. m = 1 /\ c = a /\ Len(k) = Len(a)
      BY <1>0, <1>1, <1>4, <1>7, <1>9
    <2>2. ASSUME NEW i \in 1 .. Len(a) PROVE k[i] = a[i]
      <3>1. i \in 1 .. PosIs - m + 1 /\ m + i - 1 = i /\ i \in 1 .. PosIs
        BY <1>0, <1>1, <2>1
      <3> QED
        BY <1>3, <1>7, <3>1
    <2> QED
      BY <1>1, <1>7, <2>1, <2>2, SeqEqual DEF BeginStroke, a, c, k
  <1> QED
    BY <1>8, <1>9

LEMMA CommitStep ==
    ASSUME Stacks, BeginStroke
    PROVE  /\ PosIs' = Len(KeptIs) + 1
           /\ Len(TimelineIs') = PosIs'
           /\ SubSeq(TimelineIs', 1, Len(KeptIs)) = KeptIs
  <1> PICK S : /\ {level, level'} \subseteq S
               /\ undoStack \in Seq(S) /\ redoStack \in Seq(S)
    BY StacksOver
  <1> DEFINE k == KeptIs
             l == level'
             t == Line(k, l, <<>>)
  <1>1. undoStack' = k /\ redoStack' = <<>> /\ k \in Seq(S) /\ Len(k) \in Nat
    BY KeptStep DEF BeginStroke
  <1>2. TimelineIs' = t
    BY <1>1 DEF TimelineIs
  <1> HIDE DEF k, l
  <1>3. l \in S /\ <<>> \in Seq(S) /\ Len(<<>>) = 0
    BY DEF l
  <1>4. IsLine(t, S, k, l, <<>>)
    BY <1>1, <1>3, LineAt
  <1> HIDE DEF t
  <1>5. Len(t) = Len(k) + 1 /\ t \in Seq(S) /\ \A i \in 1 .. Len(k) : t[i] = k[i]
    BY <1>1, <1>3, <1>4 DEF IsLine
  <1>6. SubSeq(t, 1, Len(k)) = k
    <2> DEFINE n == Len(k)
               f == SubSeq(t, 1, n)
    <2>1. 1 \in Int /\ n \in Int /\ \A i \in 1 .. n : t[i] \in S
      BY <1>1, <1>5, ElementOfSeq
    <2>2. n \in Nat
      BY <1>1
    <2> HIDE DEF n
    <2>3. /\ f \in Seq(S) /\ Len(f) = IF 1 <= n THEN n - 1 + 1 ELSE 0
          /\ \A i \in 1 .. n - 1 + 1 : f[i] = t[1 + i - 1]
      BY <2>1, SubSeqProperties
    <2> HIDE DEF f
    <2>4. Len(f) = n
      BY <2>2, <2>3
    <2>5. ASSUME NEW i \in 1 .. n PROVE f[i] = k[i]
      <3>1. i \in 1 .. n - 1 + 1 /\ 1 + i - 1 = i
        BY <2>2
      <3> QED
        BY <1>5, <2>3, <3>1 DEF n
    <2>6. f = k
      BY <1>1, <2>3, <2>4, <2>5, SeqEqual DEF n
    <2> QED
      BY <2>6 DEF f, n
  <1> QED
    BY <1>1, <1>2, <1>5, <1>6 DEF PosIs, k

LEMMA AmendStep ==
    ASSUME Stacks, Keeps
    PROVE  /\ PosIs' = PosIs
           /\ DOMAIN TimelineIs' = DOMAIN TimelineIs
           /\ \A i \in DOMAIN TimelineIs \ {PosIs} : TimelineIs'[i] = TimelineIs[i]
  <1> PICK S : /\ {level, level'} \subseteq S
               /\ undoStack \in Seq(S) /\ redoStack \in Seq(S)
    BY StacksOver
  <1> DEFINE l == level'
             s == TimelineIs
             t == Line(undoStack, l, redoStack)
  <1>0. Len(undoStack) \in Nat /\ Len(redoStack) \in Nat
    OBVIOUS
  <1>1. IsLine(s, S, undoStack, level, redoStack)
    BY LineAt DEF TimelineIs
  <1>2. TimelineIs' = t
    BY DEF Keeps, TimelineIs
  <1> HIDE DEF l
  <1>3. IsLine(t, S, undoStack, l, redoStack)
    BY LineAt DEF l
  <1> HIDE DEF s, t
  <1>4. DOMAIN s = 1 .. Len(s) /\ DOMAIN t = 1 .. Len(s)
    BY <1>1, <1>3, LenProperties DEF IsLine
  <1>5. ASSUME NEW i \in DOMAIN s, i # PosIs PROVE t[i] = s[i]
    <2>1. \/ i \in 1 .. Len(undoStack)
          \/ i \in Len(undoStack) + 2 .. Len(undoStack) + 1 + Len(redoStack)
      BY <1>0, <1>1, <1>4, <1>5 DEF PosIs, IsLine
    <2> QED
      BY <1>1, <1>3, <2>1 DEF IsLine
  <1>6. PosIs' = PosIs
    BY DEF Keeps, PosIs
  <1> QED
    BY <1>2, <1>4, <1>5, <1>6 DEF s

LEMMA FreshLine ==
    ASSUME NEW l
    PROVE  Len(Line(<<>>, l, <<>>)) = 1
  <1> DEFINE S == {l}
  <1>1. l \in S /\ <<>> \in Seq(S) /\ Len(<<>>) = 0
    OBVIOUS
  <1>2. IsLine(Line(<<>>, l, <<>>), S, <<>>, l, <<>>)
    BY <1>1, LineAt
  <1> QED
    BY <1>1, <1>2 DEF IsLine

---------------------------------------------------------------------------
(* The theorems of the history                                             *)

\* The stacks stay sequences, and together within the cap.
THEOREM InvariantHolds == Spec => []IInv
  <1>1. Init => IInv
    <2> SUFFICES ASSUME Init PROVE IInv
      OBVIOUS
    <2>1. undoStack = <<>> /\ redoStack = <<>> /\ UndoCap \in Nat
      BY EditorAssumption DEF Init
    <2> QED
      BY <2>1 DEF IInv, Stacks, HistoryBounded
  <1>2. IInv /\ [Next]_vars => IInv'
    BY HandlerShapes, StacksStep DEF IInv
  <1> QED
    BY <1>1, <1>2, PTL DEF Spec

\* The two stacks together never hold more than UNDO_CAP snapshots, although
\* redo pushes onto the undo stack without a check (editorState.ts).
THEOREM HistoryBoundedHolds == Spec => []HistoryBounded
  <1>1. IInv => HistoryBounded
    BY DEF IInv
  <1> QED
    BY <1>1, InvariantHolds, PTL

\* An editor without the unsaved mark shows the stored level, whatever was drawn,
\* undone and redone since (the dirty flag of StageEditorView.tsx).
THEOREM CleanMeansStoredHolds == Spec => []CleanMeansStored
  <1>1. Init => CleanMeansStored
    BY DEF Init, CleanMeansStored, Loaded
  <1>2. ASSUME CleanMeansStored, Next PROVE CleanMeansStored'
    <2> USE <1>2 DEF CleanMeansStored, Loaded
    <2>1. CASE Pointer
      BY <2>1 DEF Pointer, StartStroke, DragStroke, Place, Edit
    <2>2. ASSUME NEW by \in {-ResizeStep, ResizeStep}, Resize(by) PROVE CleanMeansStored'
      BY <2>2 DEF Resize, Edit
    <2>3. ASSUME NEW bg \in Backgrounds, SetBackground(bg) PROVE CleanMeansStored'
      BY <2>3 DEF SetBackground, Edit
    <2>4. CASE Undo \/ Redo \/ EndStroke \/ Load
      BY <2>4 DEF Undo, Redo, EndStroke, Load
    <2>5. CASE Save
      <3>1. Errors(level) = {} /\ stored' = level /\ level' = level
        BY <2>5 DEF Save
      <3>2. level.width \in MinWidth .. MaxWidth
        BY <3>1 DEF Errors
      <3>3. level.width # 0 /\ NoLevel.width = 0
        BY <3>2, EditorAssumption DEF NoLevel
      <3> QED
        BY <3>1, <3>3
    <2> QED
      BY <2>1, <2>2, <2>3, <2>4, <2>5 DEF Next
  <1>3. CleanMeansStored /\ UNCHANGED vars => CleanMeansStored'
    BY DEF CleanMeansStored, Loaded, vars
  <1> QED
    BY <1>1, <1>2, <1>3, PTL DEF Spec

\* Whatever is drawn, dragged, undone and redone, the two stacks behave as one
\* timeline: undo and redo only move along it, an undo point cuts off what
\* followed, and a drag amends one version.
THEOREM TimelineHolds == Spec => Timeline
  <1>1. Init => Hist!Init
    <2> SUFFICES ASSUME Init PROVE Hist!Init
      OBVIOUS
    <2>1. undoStack = <<>> /\ redoStack = <<>> /\ Len(undoStack) + 1 = 1
      BY DEF Init
    <2>2. Len(Line(undoStack, level, redoStack)) = 1
      BY <2>1, FreshLine
    <2> QED
      BY <2>1, <2>2 DEF Hist!Init, Hist!Fresh, Line
  <1>2. ASSUME Stacks, [Next]_vars PROVE [Hist!Next]_(Hist!histVars)
    <2>1. CASE BeginStroke
      <3>1. Hist!Commit
        BY <1>2, <2>1, CommitStep DEF Hist!Commit, Hist!Kept, KeptIs, TimelineIs, PosIs, Line
      <3> QED
        BY <3>1 DEF Hist!Next
    <2>2. CASE Undoes
      <3>1. Hist!Back
        BY <1>2, <2>2, MoveStep DEF Hist!Back, TimelineIs, PosIs, Line
      <3> QED
        BY <3>1 DEF Hist!Next
    <2>3. CASE Redoes
      <3>1. Hist!Forward
        BY <1>2, <2>3, MoveStep DEF Hist!Forward, TimelineIs, PosIs, Line
      <3> QED
        BY <3>1 DEF Hist!Next
    <2>4. CASE Opens
      <3>1. Len(TimelineIs') = 1 /\ PosIs' = 1
        <4>1. Len(Line(<<>>, level', <<>>)) = 1
          BY FreshLine
        <4>2. TimelineIs' = Line(<<>>, level', <<>>)
          BY <2>4 DEF Opens, TimelineIs
        <4>3. PosIs' = 1
          BY <2>4 DEF Opens, PosIs
        <4> QED
          BY <4>1, <4>2, <4>3
      <3>2. Hist!Restart
        BY <3>1 DEF Hist!Restart, Hist!Fresh, TimelineIs, PosIs, Line
      <3> QED
        BY <3>2 DEF Hist!Next
    <2>5. CASE Keeps
      <3>1. Hist!Amend
        BY <1>2, <2>5, AmendStep DEF Hist!Amend, TimelineIs, PosIs, Line
      <3> QED
        BY <3>1 DEF Hist!Next
    <2> QED
      BY <1>2, <2>1, <2>2, <2>3, <2>4, <2>5, HandlerShapes
  <1>3. IInv => Stacks
    BY DEF IInv
  <1> QED
    BY <1>1, <1>2, <1>3, InvariantHolds, PTL DEF Spec, Timeline, Hist!Spec

---------------------------------------------------------------------------
(* The document: the levels that the editor can build                      *)

ActorsOf(w) == [id : Nat, type : ActorTypes, at : Cells(w)]
TileMaps == UNION {[Cells(w) -> Tiles] : w \in MinWidth .. MaxWidth}
Levels == [background : Backgrounds, width : MinWidth .. MaxWidth, tiles : TileMaps,
           actors : Seq(ActorsOf(MaxWidth)), spawn : Cells(MaxWidth), goal : Cells(MaxWidth)]

\* The actors of a level of width w can be told apart, and stand in it.
ActorsGood(actors, w) ==
    /\ actors \in Seq(ActorsOf(MaxWidth))
    /\ \A i \in 1 .. Len(actors) : actors[i].at \in Cells(w)
    /\ \A i, j \in 1 .. Len(actors) :
          \/ actors[i].id = actors[j].id
          \/ actors[i].type = actors[j].type /\ actors[i].type \in UniqueTypes
          => i = j

FlagCells(g) == {<<g[1], g[2] - 2>>, <<g[1], g[2] - 1>>, g}
TilesGood(tiles, w, g) ==
    /\ tiles \in [Cells(w) -> Tiles]
    /\ \A c \in Cells(w) : tiles[c] \in Flag => c \in FlagCells(g)

LevelGood(l) ==
    /\ l.spawn \in Cells(l.width) /\ l.goal \in Cells(l.width)
    /\ TilesGood(l.tiles, l.width, l.goal)
    /\ ActorsGood(l.actors, l.width)
Good == {l \in Levels : LevelGood(l)}

DocInv ==
    /\ level \in Good
    /\ undoStack \in Seq(Good) /\ redoStack \in Seq(Good)
    /\ stored \in Good \cup {NoLevel}
    /\ painting \in BOOLEAN /\ dirty \in BOOLEAN
    /\ ops \in 0 .. MaxOps

---------------------------------------------------------------------------
(* Actors                                                                  *)

\* Taking actors away keeps the others apart.
LEMMA WithoutGood ==
    ASSUME NEW s, NEW w, ActorsGood(s, w), NEW gone
    PROVE  /\ ActorsGood(Without(s, gone), w)
           /\ \A j \in 1 .. Len(Without(s, gone)) :
                 /\ Without(s, gone)[j] \notin gone
                 /\ \E i \in 1 .. Len(s) : Without(s, gone)[j] = s[i]
  <1> DEFINE r == Without(s, gone)
  <1>1. s \in Seq(ActorsOf(MaxWidth))
    BY DEF ActorsGood
  <1>2. r \in Seq(ActorsOf(MaxWidth)) /\ \E h : Thins(r, s, Len(s), gone, h)
    BY <1>1, WithoutIs
  <1> HIDE DEF r
  <1>3. PICK h : Thins(r, s, Len(s), gone, h)
    BY <1>2
  <1>4. \A j \in 1 .. Len(r) : h[j] \in 1 .. Len(s) /\ r[j] = s[h[j]] /\ r[j] \notin gone
    BY <1>3 DEF Thins
  <1>5. \A i, j \in 1 .. Len(r) : h[i] = h[j] => i = j
    BY <1>3 DEF Thins
  <1>6. ActorsGood(r, w)
    <2>1. \A j \in 1 .. Len(r) : r[j].at \in Cells(w)
      BY <1>4 DEF ActorsGood
    <2>2. ASSUME NEW i \in 1 .. Len(r), NEW j \in 1 .. Len(r),
                 \/ r[i].id = r[j].id
                 \/ r[i].type = r[j].type /\ r[i].type \in UniqueTypes
          PROVE  i = j
      <3>1. h[i] = h[j]
        BY <1>4, <2>2, SMTT(30) DEF ActorsGood
      <3> QED
        BY <1>5, <3>1
    <2> QED
      BY <1>2, <2>1, <2>2 DEF ActorsGood
  <1> QED
    BY <1>4, <1>6 DEF r

\* The next number is above all that are taken.
LEMMA NextIdIs ==
    ASSUME NEW w, NEW s \in Seq(ActorsOf(w))
    PROVE  /\ NextActorId(s) \in Nat
           /\ \A i \in 1 .. Len(s) : s[i].id < NextActorId(s)
  <1> DEFINE n == Len(s)
             id(i) == s[i].id
             ids == {0} \cup {s[i].id : i \in DOMAIN s}
             Above(m, k) == \A i \in 1 .. k : id(i) <= m
             Bounds == {m \in Nat : Above(m, n)}
             B == {k \in 0 .. n : ~ \E m \in Nat : Above(m, k)}
  <1>1. n \in Nat /\ DOMAIN s = 1 .. n /\ \A i \in 1 .. n : id(i) \in Nat
    <2>1. n \in Nat /\ DOMAIN s = 1 .. n /\ \A i \in 1 .. n : s[i] \in ActorsOf(w)
      OBVIOUS
    <2>2. \A a \in ActorsOf(w) : a.id \in Nat
      BY DEF ActorsOf
    <2> QED
      BY <2>1, <2>2
  <1> HIDE DEF n, id
  <1>2. B = {}
    <2>1. SUFFICES ASSUME B # {} PROVE FALSE
      OBVIOUS
    <2>2. PICK k \in B : \A m \in B : k <= m
      <3>1. B \in SUBSET Nat
        BY <1>1
      <3> HIDE DEF B
      <3> QED BY <2>1, <3>1, LeastNumber
    <2>3. k # 0
      <3>1. Above(0, 0)
        OBVIOUS
      <3> QED BY <2>2, <3>1
    <2>4. k - 1 \in 0 .. n /\ k - 1 \notin B /\ k \in 1 .. n
      <3>1. k \in 0 .. n
        OBVIOUS
      <3>2. k \in 1 .. n /\ k - 1 \in 0 .. n /\ ~(k <= k - 1)
        BY <1>1, <2>3, <3>1
      <3> QED
        BY <2>2, <3>2
    <2>5. PICK m \in Nat : Above(m, k - 1)
      BY <2>4
    <2>6. Above(m + id(k), k)
      <3>1. id(k) \in Nat
        BY <1>1, <2>4
      <3>2. ASSUME NEW i \in 1 .. k PROVE id(i) <= m + id(k)
        <4>1. CASE i = k
          BY <2>5, <3>1, <4>1
        <4>2. CASE i # k
          <5>1. i \in 1 .. k - 1 /\ i \in 1 .. n
            BY <1>1, <2>4, <4>2
          <5>2. id(i) <= m /\ id(i) \in Nat
            BY <1>1, <2>5, <5>1
          <5> QED
            BY <3>1, <5>2, SMTT(30)
        <4> QED
          BY <4>1, <4>2
      <3> QED
        BY <3>2
    <2>7. m + id(k) \in Nat
      <3>1. m \in Nat /\ id(k) \in Nat
        BY <1>1, <2>4
      <3>2. \A x, y \in Nat : x + y \in Nat
        OBVIOUS
      <3> HIDE DEF B, Bounds
      <3> QED BY <3>1, <3>2, Zenon
    <2> QED
      BY <2>2, <2>6, <2>7
  <1>3. Bounds # {}
    <2>1. n \in 0 .. n
      BY <1>1
    <2> QED
      BY <1>2, <2>1
  <1>4. PICK b \in Bounds : \A m \in Bounds : b <= m
    <2>1. Bounds \in SUBSET Nat
      OBVIOUS
    <2> HIDE DEF Bounds
    <2> QED BY <1>3, <2>1, LeastNumber
  <1>5. ids = {0} \cup {id(i) : i \in 1 .. n}
    BY <1>1 DEF id
  <1> HIDE DEF ids
  <1>6. b \in ids
    <2>1. CASE b = 0
      BY <1>5, <2>1
    <2>2. CASE b # 0
      <3>1. b - 1 \in Nat /\ b - 1 \notin Bounds
        BY <1>4, <2>2
      <3>2. PICK i \in 1 .. n : ~(id(i) <= b - 1)
        BY <3>1
      <3>3. id(i) = b
        BY <1>1, <1>4, <3>2
      <3> QED
        BY <1>5, <3>3
    <2> QED BY <2>1, <2>2
  <1>7. \A m \in ids : m <= b /\ m \in Nat
    BY <1>1, <1>4, <1>5
  <1> DEFINE top == CHOOSE m \in ids : \A k \in ids : k <= m
  <1>8. top \in ids /\ \A k \in ids : k <= top
    BY <1>6, <1>7
  <1>9. NextActorId(s) = 1 + top
    BY DEF NextActorId, ids
  <1> HIDE DEF top
  <1>10. \A i \in 1 .. n : id(i) \in ids
    BY <1>5
  <1>11. \A i \in 1 .. n : id(i) < 1 + top
    BY <1>7, <1>8, <1>10
  <1> QED
    BY <1>7, <1>8, <1>9, <1>11 DEF id, n

---------------------------------------------------------------------------
(* Levels                                                                  *)

LEMMA Pairs ==
    ASSUME NEW w
    PROVE  /\ \A p \in Cells(w) : /\ p = <<p[1], p[2]>>
                                 /\ p[1] \in 0 .. w - 1 /\ p[2] \in 0 .. Height - 1
           /\ \A x \in 0 .. w - 1, y \in 0 .. Height - 1 : <<x, y>> \in Cells(w)
  BY DEF Cells

LEMMA Widths ==
    ASSUME NEW w \in MinWidth .. MaxWidth
    PROVE  w \in Nat \ {0} /\ Cells(w) \subseteq Cells(MaxWidth)
  <1>1. w \in Nat \ {0} /\ MaxWidth \in Nat /\ w <= MaxWidth
    BY EditorAssumption
  <1> QED
    BY <1>1 DEF Cells

LEMMA FlagsApart ==
    /\ "empty" \in Tiles /\ "pole" \in Tiles /\ "top" \in Tiles
    /\ Palette \subseteq Tiles /\ Palette \cap Flag = {} /\ "empty" \notin Flag
  BY EditorAssumption DEF Tiles, Flag

\* The parts of a good level.
LEMMA GoodIs ==
    ASSUME NEW l \in Good
    PROVE  /\ l \in Levels /\ l.width \in MinWidth .. MaxWidth
           /\ l.background \in Backgrounds
           /\ l.spawn \in Cells(l.width) /\ l.goal \in Cells(l.width)
           /\ TilesGood(l.tiles, l.width, l.goal)
           /\ ActorsGood(l.actors, l.width)
  BY DEF Good, LevelGood, Levels

\* A level with other tiles, a goal of theirs, a spawn and other actors.
LEMMA OtherParts ==
    ASSUME NEW l \in Good, NEW tiles, NEW g \in Cells(l.width), TilesGood(tiles, l.width, g),
           NEW s \in Cells(l.width), NEW actors, ActorsGood(actors, l.width)
    PROVE  /\ [l EXCEPT !.tiles = tiles, !.goal = g] \in Good
           /\ [l EXCEPT !.spawn = s] \in Good
           /\ [l EXCEPT !.actors = actors] \in Good
           /\ [l EXCEPT !.actors = actors].width = l.width
  <1>1. l \in Levels /\ l.width \in MinWidth .. MaxWidth
    BY GoodIs
  <1>2. tiles \in TileMaps
    BY <1>1 DEF TilesGood, TileMaps
  <1>3. actors \in Seq(ActorsOf(MaxWidth))
    BY DEF ActorsGood
  <1>4. g \in Cells(MaxWidth) /\ s \in Cells(MaxWidth)
    BY <1>1, Widths
  <1> DEFINE a == [l EXCEPT !.tiles = tiles, !.goal = g]
             b == [l EXCEPT !.spawn = s]
             c == [l EXCEPT !.actors = actors]
  <1>5. /\ a \in Levels /\ a.width = l.width /\ a.tiles = tiles /\ a.goal = g
        /\ a.spawn = l.spawn /\ a.actors = l.actors
    BY <1>1, <1>2, <1>4 DEF Levels
  <1>6. /\ b \in Levels /\ b.width = l.width /\ b.tiles = l.tiles /\ b.goal = l.goal
        /\ b.spawn = s /\ b.actors = l.actors
    BY <1>1, <1>4 DEF Levels
  <1>7. /\ c \in Levels /\ c.width = l.width /\ c.tiles = l.tiles /\ c.goal = l.goal
        /\ c.spawn = l.spawn /\ c.actors = actors
    BY <1>1, <1>3 DEF Levels
  <1> HIDE DEF a, b, c
  <1>8. a \in Good /\ b \in Good /\ c \in Good
    BY <1>5, <1>6, <1>7, GoodIs DEF Good, LevelGood
  <1> QED
    BY <1>7, <1>8 DEF a, b, c

LEMMA SetTileGood ==
    ASSUME NEW l \in Good, NEW p \in Cells(l.width), NEW t \in Palette \cup {"empty"}
    PROVE  SetTile(l, p, t) \in Good /\ SetTile(l, p, t).width = l.width
           /\ SetTile(l, p, t).actors = l.actors
  <1> DEFINE tiles == [l.tiles EXCEPT ![p] = t]
             q == [l EXCEPT !.tiles = tiles]
  <1>1. SetTile(l, p, t) = q
    BY DEF SetTile, InLevel
  <1>2. /\ l \in Levels /\ l.width \in MinWidth .. MaxWidth
        /\ l.spawn \in Cells(l.width) /\ l.goal \in Cells(l.width)
        /\ TilesGood(l.tiles, l.width, l.goal)
        /\ ActorsGood(l.actors, l.width)
    BY GoodIs
  <1>3. TilesGood(tiles, l.width, l.goal)
    BY <1>2, FlagsApart DEF TilesGood
  <1> HIDE DEF tiles
  <1>4. tiles \in TileMaps
    BY <1>2, <1>3 DEF TilesGood, TileMaps
  <1>5. /\ q \in Levels /\ q.width = l.width /\ q.tiles = tiles /\ q.goal = l.goal
        /\ q.spawn = l.spawn /\ q.actors = l.actors
    BY <1>2, <1>4 DEF Levels
  <1> HIDE DEF q
  <1>6. q \in Good
    BY <1>2, <1>3, <1>5 DEF Good, LevelGood
  <1> QED
    BY <1>1, <1>5, <1>6

LEMMA StrokeGood ==
    ASSUME NEW l \in Good, NEW p \in Cells(l.width), NEW tool \in StrokeTools
    PROVE  Stroke(l, p, tool) \in Good
  <1>1. CASE tool = "eraser"
    <2> DEFINE q == SetTile(l, p, "empty")
               actors == Without(q.actors, {a \in Range(q.actors) : a.at = p})
    <2>1. q \in Good /\ q.width = l.width
      BY SetTileGood
    <2>2. Stroke(l, p, tool) = [q EXCEPT !.actors = actors]
      BY <1>1 DEF Stroke, EraseAt
    <2> HIDE DEF q
    <2>3. ActorsGood(actors, q.width)
      BY <2>1, GoodIs, WithoutGood
    <2> HIDE DEF actors
    <2>4. [q EXCEPT !.actors = actors] \in Good
      BY <2>1, <2>3, GoodIs, OtherParts
    <2> QED
      BY <2>2, <2>4
  <1>2. CASE tool # "eraser"
    <2>1. tool \in Palette \cup {"empty"}
      BY <1>2 DEF StrokeTools
    <2> QED
      BY <1>2, <2>1, SetTileGood DEF Stroke
  <1> QED
    BY <1>1, <1>2

\* One actor more, whose number is new, and which is the only one of its type if
\* there may be one only.
LEMMA PlaceActorGood ==
    ASSUME NEW l \in Good, NEW p \in Cells(l.width), NEW type \in ActorTypes
    PROVE  PlaceActor(l, p, type) \in Good
  <1> DEFINE w == l.width
             rest == Others(l.actors, type)
             new == [id |-> NextActorId(rest), type |-> type, at |-> p]
             more == Append(rest, new)
  <1>1. w \in MinWidth .. MaxWidth /\ ActorsGood(l.actors, w) /\ p \in Cells(w)
    BY GoodIs
  <1>2. /\ ActorsGood(rest, w)
        /\ type \in UniqueTypes => \A i \in 1 .. Len(rest) : rest[i].type # type
    <2> DEFINE gone == {a \in Range(l.actors) : a.type = type}
    <2>1. CASE type \in UniqueTypes
      <3>1. rest = Without(l.actors, gone)
        BY <2>1 DEF Others
      <3>2. \A i \in 1 .. Len(l.actors) : l.actors[i] \in Range(l.actors)
        BY <1>1 DEF ActorsGood, Range
      <3> HIDE DEF rest, w, gone
      <3>3. ActorsGood(rest, w)
        BY <1>1, <3>1, WithoutGood
      <3>4. ASSUME NEW j \in 1 .. Len(rest)
            PROVE  rest[j] \notin gone /\ \E i \in 1 .. Len(l.actors) : rest[j] = l.actors[i]
        BY <1>1, <3>1, WithoutGood
      <3> QED
        BY <3>2, <3>3, <3>4 DEF gone
    <2>2. CASE type \notin UniqueTypes
      BY <1>1, <2>2 DEF Others
    <2> QED BY <2>1, <2>2
  <1> HIDE DEF rest
  <1>3. rest \in Seq(ActorsOf(MaxWidth))
    BY <1>2 DEF ActorsGood
  <1>4. NextActorId(rest) \in Nat /\ \A i \in 1 .. Len(rest) : rest[i].id < NextActorId(rest)
    BY <1>3, NextIdIs
  <1>5. /\ new \in ActorsOf(MaxWidth) /\ new.at = p /\ new.type = type
        /\ new.id = NextActorId(rest)
    BY <1>1, <1>4, Widths DEF ActorsOf
  <1> HIDE DEF new
  <1>6. /\ more \in Seq(ActorsOf(MaxWidth)) /\ Len(more) = Len(rest) + 1
        /\ more[Len(rest) + 1] = new /\ \A i \in 1 .. Len(rest) : more[i] = rest[i]
        /\ Len(rest) \in Nat
    BY <1>3, <1>5
  <1> HIDE DEF more
  <1>7. \A i \in 1 .. Len(more) : i \in 1 .. Len(rest) \/ i = Len(rest) + 1
    BY <1>6
  <1>8. \A i \in 1 .. Len(rest) : rest[i].id \in Nat /\ rest[i].id # new.id
    <2>1. \A i \in 1 .. Len(rest) : rest[i] \in ActorsOf(MaxWidth)
      BY <1>3
    <2>2. \A i \in 1 .. Len(rest) : rest[i].id \in Nat
      BY <2>1 DEF ActorsOf
    <2> QED
      BY <1>4, <1>5, <2>2
  <1>9. \A i \in 1 .. Len(rest) : rest[i].type = new.type => new.type \notin UniqueTypes
    BY <1>2, <1>5
  <1>10. \A i \in 1 .. Len(more) : more[i].at \in Cells(w)
    BY <1>1, <1>2, <1>5, <1>6, <1>7 DEF ActorsGood
  <1>11. ASSUME NEW i \in 1 .. Len(more), NEW j \in 1 .. Len(more),
                \/ more[i].id = more[j].id
                \/ more[i].type = more[j].type /\ more[i].type \in UniqueTypes
         PROVE  i = j
    <2>1. CASE i \in 1 .. Len(rest) /\ j \in 1 .. Len(rest)
      BY <1>2, <1>6, <1>11, <2>1 DEF ActorsGood
    <2>2. CASE i = Len(rest) + 1 /\ j = Len(rest) + 1
      BY <2>2
    <2>3. CASE i \in 1 .. Len(rest) /\ j = Len(rest) + 1
      BY <1>6, <1>8, <1>9, <1>11, <2>3
    <2>4. CASE i = Len(rest) + 1 /\ j \in 1 .. Len(rest)
      BY <1>6, <1>8, <1>9, <1>11, <2>4
    <2> QED
      BY <1>7, <2>1, <2>2, <2>3, <2>4
  <1>12. ActorsGood(more, w)
    BY <1>6, <1>10, <1>11 DEF ActorsGood
  <1>13. PlaceActor(l, p, type) = [l EXCEPT !.actors = more]
    BY DEF PlaceActor, more, new, rest
  <1>14. [l EXCEPT !.actors = more] \in Good
    BY <1>12, GoodIs, OtherParts
  <1> QED
    BY <1>13, <1>14

\* The flag that is stamped is at the goal, and covers what it stands on only.
LEMMA StampGood ==
    ASSUME NEW w, NEW g \in Cells(w), NEW tiles \in [Cells(w) -> Tiles],
           \A c \in Cells(w) : tiles[c] \notin Flag
    PROVE  TilesGood(Stamp(tiles, g), w, g)
  <1> DEFINE t == Stamp(tiles, g)
             f == FlagOf(g)
  <1>1. f[1] = <<g[1], g[2] - 2>> /\ f[2] = <<g[1], g[2] - 1>>
    BY DEF FlagOf
  <1> HIDE DEF f
  <1>2. t = [c \in Cells(w) |-> CASE c = f[1] -> "top"
                                  [] c \in {f[2], g} -> "pole"
                                  [] OTHER -> tiles[c]]
    BY DEF Stamp, f
  <1> HIDE DEF t
  <1>3. ASSUME NEW c \in Cells(w)
        PROVE  t[c] \in Tiles /\ (t[c] \in Flag => c \in FlagCells(g))
    <2>1. CASE c = f[1] \/ c \in {f[2], g}
      <3>1. t[c] \in {"top", "pole"}
        BY <1>2, <2>1
      <3> QED
        BY <1>1, <2>1, <3>1, FlagsApart DEF FlagCells
    <2>2. CASE ~(c = f[1] \/ c \in {f[2], g})
      <3>1. t[c] = tiles[c]
        BY <1>2, <2>2
      <3> QED
        BY <3>1
    <2> QED
      BY <2>1, <2>2
  <1>4. t \in [Cells(w) -> Tiles]
    BY <1>2, <1>3
  <1> QED
    BY <1>3, <1>4 DEF TilesGood, t

LEMMA PlaceGoalGood ==
    ASSUME NEW l \in Good, NEW p \in Cells(l.width)
    PROVE  PlaceGoal(l, p) \in Good
  <1> DEFINE w == l.width
             y == MaxOf(2, MinOf(p[2], Height - 1))
             g == <<p[1], y>>
             bare == WithoutFlag(l.tiles)
             tiles == Stamp(bare, g)
  <1>1. g \in Cells(w)
    <2>1. p[1] \in 0 .. w - 1 /\ p[2] \in 0 .. Height - 1 /\ Height \in Nat /\ Height >= 3
      BY Pairs, EditorAssumption
    <2>2. y \in 0 .. Height - 1
      BY <2>1 DEF MaxOf, MinOf
    <2> HIDE DEF y
    <2> QED
      BY <2>1, <2>2, Pairs
  <1> HIDE DEF y
  <1>2. l.tiles \in [Cells(w) -> Tiles]
    BY GoodIs DEF TilesGood
  <1>3. bare \in [Cells(w) -> Tiles] /\ \A c \in Cells(w) : bare[c] \notin Flag
    BY <1>2, FlagsApart DEF WithoutFlag
  <1> HIDE DEF bare, g
  <1>4. TilesGood(tiles, w, g)
    BY <1>1, <1>3, StampGood
  <1> HIDE DEF tiles
  <1>5. [l EXCEPT !.tiles = tiles, !.goal = g] \in Good
    BY <1>1, <1>4, GoodIs, OtherParts
  <1>6. PlaceGoal(l, p) = [l EXCEPT !.tiles = tiles, !.goal = g]
    BY DEF PlaceGoal, tiles, bare, g, y
  <1> QED
    BY <1>5, <1>6

LEMMA BackgroundGood ==
    ASSUME NEW l \in Good, NEW bg \in Backgrounds
    PROVE  [l EXCEPT !.background = bg] \in Good
  <1> DEFINE q == [l EXCEPT !.background = bg]
  <1>1. l \in Levels
    BY GoodIs
  <1>2. /\ q \in Levels /\ q.width = l.width /\ q.tiles = l.tiles /\ q.goal = l.goal
        /\ q.spawn = l.spawn /\ q.actors = l.actors
    BY <1>1 DEF Levels
  <1> HIDE DEF q
  <1>3. q \in Good
    BY <1>2, GoodIs DEF Good, LevelGood
  <1> QED
    BY <1>3 DEF q

\* What is left of a cell when the level gets another width.
LEMMA ClampedCell ==
    ASSUME NEW v \in Nat \ {0}, NEW w \in Nat \ {0}, NEW p \in Cells(v)
    PROVE  /\ ClampX(p, w) \in Cells(w)
           /\ p[1] \in 0 .. w - 1 => ClampX(p, w) = p
  <1>1. /\ p = <<p[1], p[2]>> /\ p[1] \in 0 .. v - 1 /\ p[2] \in 0 .. Height - 1
    BY Pairs
  <1> DEFINE x == MinOf(p[1], w - 1)
  <1>2. x \in 0 .. w - 1 /\ (p[1] \in 0 .. w - 1 => x = p[1])
    BY <1>1 DEF MinOf
  <1> HIDE DEF x
  <1>3. ClampX(p, w) = <<x, p[2]>>
    BY DEF ClampX, x
  <1> QED
    BY <1>1, <1>2, <1>3, Pairs

\* A flag is in one column: a resize keeps it whole, where its goal is, or cuts
\* all of it.
LEMMA ResizeTiles ==
    ASSUME NEW v \in Nat \ {0}, NEW w \in Nat \ {0}, NEW tiles, NEW g \in Cells(v),
           TilesGood(tiles, v, g)
    PROVE  TilesGood([c \in Cells(w) |-> IF InLevel(c, v) THEN tiles[c] ELSE "empty"],
                     w, ClampX(g, w))
  <1> DEFINE t == [c \in Cells(w) |-> IF InLevel(c, v) THEN tiles[c] ELSE "empty"]
             h == ClampX(g, w)
  <1>1. t \in [Cells(w) -> Tiles]
    BY FlagsApart DEF TilesGood, InLevel
  <1>2. ASSUME NEW c \in Cells(w), t[c] \in Flag
        PROVE  c \in FlagCells(h)
    <2>1. c \in Cells(v) /\ t[c] = tiles[c]
      BY <1>2, FlagsApart DEF InLevel
    <2>2. c \in FlagCells(g)
      BY <1>2, <2>1 DEF TilesGood
    <2>3. c[1] = g[1] /\ c[1] \in 0 .. w - 1
      BY <2>2, Pairs DEF FlagCells
    <2>4. h = g
      BY <2>3, ClampedCell
    <2> QED
      BY <2>2, <2>4
  <1> QED
    BY <1>1, <1>2 DEF TilesGood

LEMMA ResizeActors ==
    ASSUME NEW v \in MinWidth .. MaxWidth, NEW w \in MinWidth .. MaxWidth,
           NEW actors, ActorsGood(actors, v)
    PROVE  ActorsGood(ClampActors(actors, w), w)
  <1> DEFINE r == ClampActors(actors, w)
             moved(i) == [actors[i] EXCEPT !.at = ClampX(@, w)]
  <1>1. /\ v \in Nat \ {0} /\ w \in Nat \ {0} /\ Cells(w) \subseteq Cells(MaxWidth)
    BY Widths
  <1>2. /\ actors \in Seq(ActorsOf(MaxWidth)) /\ Len(actors) \in Nat
        /\ DOMAIN actors = 1 .. Len(actors)
        /\ \A i \in 1 .. Len(actors) : actors[i] \in ActorsOf(MaxWidth)
    BY DEF ActorsGood
  <1>3. ASSUME NEW i \in 1 .. Len(actors)
        PROVE  /\ moved(i) \in ActorsOf(MaxWidth) /\ moved(i).at \in Cells(w)
               /\ moved(i).id = actors[i].id /\ moved(i).type = actors[i].type
    <2> DEFINE a == actors[i]
    <2>1. a \in ActorsOf(MaxWidth) /\ a.at \in Cells(v)
      BY <1>2 DEF ActorsGood
    <2> HIDE DEF a
    <2>2. ClampX(a.at, w) \in Cells(w) /\ ClampX(a.at, w) \in Cells(MaxWidth)
      BY <1>1, <2>1, ClampedCell
    <2>3. /\ [a EXCEPT !.at = ClampX(@, w)] \in ActorsOf(MaxWidth)
          /\ [a EXCEPT !.at = ClampX(@, w)].at \in Cells(w)
          /\ [a EXCEPT !.at = ClampX(@, w)].id = a.id
          /\ [a EXCEPT !.at = ClampX(@, w)].type = a.type
      BY <2>1, <2>2 DEF ActorsOf
    <2> QED
      BY <2>3 DEF a
  <1>4. r = [i \in 1 .. Len(actors) |-> moved(i)]
    BY <1>2 DEF ClampActors
  <1> HIDE DEF moved
  <1>5. r \in Seq(ActorsOf(MaxWidth)) /\ Len(r) = Len(actors)
    BY <1>2, <1>3, <1>4
  <1>6. \A i \in 1 .. Len(actors) : r[i] = moved(i)
    BY <1>4
  <1>7. \A i \in 1 .. Len(r) : r[i].at \in Cells(w)
    BY <1>3, <1>5, <1>6
  <1>8. ASSUME NEW i \in 1 .. Len(r), NEW j \in 1 .. Len(r),
               \/ r[i].id = r[j].id
               \/ r[i].type = r[j].type /\ r[i].type \in UniqueTypes
        PROVE  i = j
    <2>1. /\ r[i].id = actors[i].id /\ r[i].type = actors[i].type
          /\ r[j].id = actors[j].id /\ r[j].type = actors[j].type
      BY <1>3, <1>5, <1>6
    <2> QED
      BY <1>5, <1>8, <2>1 DEF ActorsGood
  <1> HIDE DEF r
  <1>9. ActorsGood(r, w)
    BY <1>5, <1>7, <1>8 DEF ActorsGood
  <1> QED
    BY <1>9 DEF r

LEMMA ResizeGood ==
    ASSUME NEW l \in Good, NEW w \in MinWidth .. MaxWidth
    PROVE  ResizeWidth(l, w) \in Good
  <1> DEFINE tiles == [c \in Cells(w) |-> IF InLevel(c, l.width) THEN l.tiles[c] ELSE "empty"]
             s == ClampX(l.spawn, w)
             g == ClampX(l.goal, w)
             actors == ClampActors(l.actors, w)
             q == [l EXCEPT !.width = w, !.tiles = tiles, !.spawn = s, !.goal = g,
                            !.actors = actors]
  <1>1. /\ l \in Levels /\ l.width \in MinWidth .. MaxWidth /\ l.width \in Nat \ {0}
        /\ l.spawn \in Cells(l.width) /\ l.goal \in Cells(l.width)
        /\ TilesGood(l.tiles, l.width, l.goal) /\ ActorsGood(l.actors, l.width)
        /\ w \in Nat \ {0} /\ Cells(w) \subseteq Cells(MaxWidth)
    BY GoodIs, Widths
  <1>2. s \in Cells(w) /\ g \in Cells(w) /\ s \in Cells(MaxWidth) /\ g \in Cells(MaxWidth)
    BY <1>1, ClampedCell
  <1>3. TilesGood(tiles, w, g)
    BY <1>1, ResizeTiles
  <1>4. ActorsGood(actors, w)
    BY <1>1, ResizeActors
  <1>5. ResizeWidth(l, w) = q
    BY DEF ResizeWidth
  <1> HIDE DEF tiles, s, g, actors
  <1>6. tiles \in TileMaps /\ actors \in Seq(ActorsOf(MaxWidth))
    BY <1>3, <1>4 DEF TilesGood, TileMaps, ActorsGood
  <1>7. /\ q \in Levels /\ q.width = w /\ q.tiles = tiles /\ q.goal = g
        /\ q.spawn = s /\ q.actors = actors
    BY <1>1, <1>2, <1>6 DEF Levels
  <1> HIDE DEF q
  <1>8. q \in Good
    BY <1>2, <1>3, <1>4, <1>7 DEF Good, LevelGood
  <1> QED
    BY <1>5, <1>8

\* The starter level.
LEMMA DefaultGood == DefaultLevel \in Good
  <1> DEFINE w == DefaultWidth
             g == <<w - 1, Height - 1>>
             s == <<0, Height - 1>>
             none == [c \in Cells(w) |-> "empty"]
             tiles == Stamp(none, g)
             q == [background |-> "beach", width |-> w, tiles |-> tiles, actors |-> <<>>,
                   spawn |-> s, goal |-> g]
  <1>1. /\ w \in MinWidth .. MaxWidth /\ w \in Nat \ {0} /\ Height \in Nat /\ Height >= 3
        /\ "beach" \in Backgrounds
    BY EditorAssumption
  <1>2. g \in Cells(w) /\ s \in Cells(w)
    BY <1>1, Pairs
  <1>3. none \in [Cells(w) -> Tiles] /\ \A c \in Cells(w) : none[c] \notin Flag
    BY FlagsApart
  <1> HIDE DEF none, g, s
  <1>4. TilesGood(tiles, w, g)
    BY <1>2, <1>3, StampGood
  <1>5. DefaultLevel = q
    BY DEF DefaultLevel, none, g, s
  <1> HIDE DEF w, tiles
  <1>6. tiles \in TileMaps /\ g \in Cells(MaxWidth) /\ s \in Cells(MaxWidth)
    BY <1>1, <1>2, <1>4, Widths DEF TilesGood, TileMaps
  <1>7. /\ q \in Levels /\ q.width = w /\ q.tiles = tiles /\ q.goal = g
        /\ q.spawn = s /\ q.actors = <<>>
    BY <1>1, <1>6 DEF Levels
  <1>8. ActorsGood(<<>>, w)
    BY DEF ActorsGood
  <1> HIDE DEF q
  <1>9. q \in Good
    BY <1>2, <1>4, <1>7, <1>8 DEF Good, LevelGood
  <1> QED
    BY <1>5, <1>9

---------------------------------------------------------------------------
(* Every handler builds good levels                                        *)

\* An undo point, and a good level.
LEMMA EditStep ==
    ASSUME DocInv, BeginStroke, level' \in Good, stored' = stored,
           painting' \in BOOLEAN, dirty' \in BOOLEAN, ops' \in 0 .. MaxOps
    PROVE  DocInv'
  <1> DEFINE s == Append(undoStack, level)
  <1>1. s \in Seq(Good) /\ s # <<>>
    BY AppendProperties DEF DocInv
  <1>2. Capped(s) \in Seq(Good)
    BY <1>1, CappedIs
  <1>3. undoStack' \in Seq(Good) /\ redoStack' \in Seq(Good)
    BY <1>2 DEF BeginStroke
  <1> QED
    BY <1>3 DEF DocInv

\* The stacks as undo, redo, a load or nothing leaves them.
LEMMA MoveGood ==
    ASSUME DocInv, Undoes \/ Redoes \/ (Opens /\ level' \in Good) \/ (Keeps /\ level' \in Good),
           stored' \in Good \cup {NoLevel},
           painting' \in BOOLEAN, dirty' \in BOOLEAN, ops' \in 0 .. MaxOps
    PROVE  DocInv'
  <1>1. level \in Good /\ undoStack \in Seq(Good) /\ redoStack \in Seq(Good)
    BY DEF DocInv
  <1>2. CASE Undoes
    <2>1. /\ undoStack' \in Seq(Good) /\ level' \in Good
      BY <1>1, <1>2, FrontIs DEF Undoes
    <2>2. redoStack' \in Seq(Good)
      BY <1>1, <1>2, AppendProperties DEF Undoes
    <2> QED
      BY <2>1, <2>2 DEF DocInv
  <1>3. CASE Redoes
    <2>1. redoStack' \in Seq(Good) /\ level' \in Good
      BY <1>1, <1>3, FrontIs DEF Redoes
    <2>2. undoStack' \in Seq(Good)
      BY <1>1, <1>3, AppendProperties DEF Redoes
    <2> QED
      BY <2>1, <2>2 DEF DocInv
  <1>4. CASE Opens /\ level' \in Good
    BY <1>4 DEF Opens, DocInv
  <1>5. CASE Keeps /\ level' \in Good
    BY <1>1, <1>5 DEF Keeps, DocInv
  <1> QED
    BY <1>2, <1>3, <1>4, <1>5

LEMMA PointerStep ==
    ASSUME DocInv, NEW p,
           \/ \E tool \in StrokeTools : StartStroke(p, tool) \/ DragStroke(p, tool)
           \/ Place(p)
    PROVE  DocInv'
  <1>1. p \in Cells(level.width) /\ level \in Good /\ dirty \in BOOLEAN /\ painting \in BOOLEAN
    BY DEF DocInv, StartStroke, DragStroke, Place, InLevel
  <1>2. ops' \in 0 .. MaxOps
    BY EditorAssumption DEF DocInv, StartStroke, DragStroke, Place, Step
  <1>3. ASSUME NEW tool \in StrokeTools, StartStroke(p, tool)
        PROVE  DocInv'
    <2>1. level' \in Good
      BY <1>1, <1>3, StrokeGood DEF StartStroke
    <2> QED
      BY <1>1, <1>2, <1>3, <2>1, EditStep DEF StartStroke
  <1>4. ASSUME NEW tool \in StrokeTools, DragStroke(p, tool)
        PROVE  DocInv'
    <2>1. level' \in Good
      BY <1>1, <1>4, StrokeGood DEF DragStroke
    <2> QED
      BY <1>1, <1>2, <1>4, <2>1, MoveGood DEF DragStroke, Keeps, DocInv
  <1>5. CASE Place(p)
    <2>1. BeginStroke /\ dirty' = TRUE /\ UNCHANGED <<painting, stored>>
      BY <1>5 DEF Place, Edit
    <2>2. level' \in Good
      <3>1. CASE \E type \in ActorTypes : level' = PlaceActor(level, p, type)
        BY <1>1, <3>1, PlaceActorGood
      <3>2. CASE level' = PlaceSpawn(level, p)
        BY <1>1, <3>2, GoodIs, OtherParts DEF PlaceSpawn
      <3>3. CASE level' = PlaceGoal(level, p)
        BY <1>1, <3>3, PlaceGoalGood
      <3> QED
        BY <1>5, <3>1, <3>2, <3>3 DEF Place, Edit
    <2> QED
      BY <1>1, <1>2, <2>1, <2>2, EditStep
  <1> QED
    BY <1>3, <1>4, <1>5

LEMMA DocStep ==
    ASSUME DocInv, [Next]_vars
    PROVE  DocInv'
  <1>1. level \in Good /\ stored \in Good \cup {NoLevel} /\ dirty \in BOOLEAN /\ painting \in BOOLEAN
    BY DEF DocInv
  <1>2. Step => ops' \in 0 .. MaxOps
    BY EditorAssumption DEF DocInv, Step
  <1>3. CASE Pointer
    BY <1>3, PointerStep DEF Pointer
  <1>4. ASSUME NEW by \in {-ResizeStep, ResizeStep}, Resize(by) PROVE DocInv'
    <2> DEFINE w == WidthFor(level.width + by)
    <2>1. w \in MinWidth .. MaxWidth
      <3>1. level.width + by \in Int
        BY <1>1, GoodIs, EditorAssumption
      <3> QED
        BY <3>1, EditorAssumption DEF WidthFor, MaxOf, MinOf
    <2>2. BeginStroke /\ level' = ResizeWidth(level, w) /\ dirty' = TRUE
          /\ UNCHANGED <<painting, stored>> /\ Step
      BY <1>4 DEF Resize, Edit
    <2> HIDE DEF w
    <2>3. level' \in Good
      BY <1>1, <2>1, <2>2, ResizeGood
    <2> QED
      BY <1>1, <1>2, <2>2, <2>3, EditStep
  <1>5. ASSUME NEW bg \in Backgrounds, SetBackground(bg) PROVE DocInv'
    <2>1. level' \in Good
      BY <1>1, <1>5, BackgroundGood DEF SetBackground, Edit
    <2> QED
      BY <1>1, <1>2, <1>5, <2>1, EditStep DEF SetBackground, Edit
  <1>6. CASE Undo
    BY <1>1, <1>2, <1>6, MoveGood DEF Undo, Undoes
  <1>7. CASE Redo
    BY <1>1, <1>2, <1>7, MoveGood DEF Redo, Redoes
  <1>8. CASE Load
    <2>1. level' \in Good
      BY <1>1, <1>8, DefaultGood DEF Load, Loaded
    <2> QED
      BY <1>1, <1>2, <1>8, <2>1, MoveGood DEF Load, Opens
  <1>9. CASE Save
    BY <1>1, <1>2, <1>9, MoveGood DEF Save, Keeps
  <1>10. CASE EndStroke \/ UNCHANGED vars
    BY <1>1, <1>10, MoveGood DEF EndStroke, vars, Keeps, DocInv
  <1> QED
    BY <1>3, <1>4, <1>5, <1>6, <1>7, <1>8, <1>9, <1>10 DEF Next

\* What the editor builds can be mended, and has its flag at its goal.
LEMMA GoodLevels ==
    ASSUME NEW l \in Good
    PROVE  /\ LevelOK(l)
           /\ Errors(l) \subseteq {"spawnHeadroom", "noFlag", "tooManyActors"}
           /\ \A c \in DOMAIN l.tiles : l.tiles[c] \in Flag => c \in Range(FlagOf(l.goal))
  <1>1. /\ l.width \in MinWidth .. MaxWidth /\ l.background \in Backgrounds
        /\ l.spawn \in Cells(l.width) /\ l.goal \in Cells(l.width)
        /\ TilesGood(l.tiles, l.width, l.goal) /\ ActorsGood(l.actors, l.width)
    BY GoodIs
  <1>2. LevelOK(l)
    BY <1>1 DEF LevelOK, TilesGood, ActorsGood, ActorsOf
  <1>3. DOMAIN l.actors = 1 .. Len(l.actors)
    BY <1>1 DEF ActorsGood
  <1>4. \A type \in UniqueTypes : ~Several(l, type)
    BY <1>1, <1>3 DEF Several, ActorsGood
  <1>5. IsInjective([i \in DOMAIN l.actors |-> l.actors[i].id])
    BY <1>1, <1>3 DEF IsInjective, ActorsGood
  <1>6. \A i \in DOMAIN l.actors : InLevel(l.actors[i].at, l.width)
    BY <1>1, <1>3 DEF InLevel, ActorsGood
  <1>7. Errors(l) \subseteq {"spawnHeadroom", "noFlag", "tooManyActors"}
    <2>1. SUFFICES ASSUME NEW e \in Errors(l)
                   PROVE  e \in {"spawnHeadroom", "noFlag", "tooManyActors"}
      OBVIOUS
    <2> QED
      BY <1>1, <1>4, <1>5, <1>6 DEF Errors, InLevel
  <1>8. ASSUME NEW c \in DOMAIN l.tiles, l.tiles[c] \in Flag
        PROVE  c \in Range(FlagOf(l.goal))
    <2>1. c \in FlagCells(l.goal)
      BY <1>1, <1>8 DEF TilesGood
    <2>2. /\ DOMAIN FlagOf(l.goal) = 1 .. 3
          /\ FlagOf(l.goal)[1] = <<l.goal[1], l.goal[2] - 2>>
          /\ FlagOf(l.goal)[2] = <<l.goal[1], l.goal[2] - 1>>
          /\ FlagOf(l.goal)[3] = l.goal
      BY DEF FlagOf
    <2> QED
      BY <2>1, <2>2 DEF FlagCells, Range
  <1> QED
    BY <1>2, <1>7, <1>8

\* However it is drawn, resized, undone, stored and loaded, the document stays one
\* that its author can mend: nothing is out of bounds, no number is given twice, no
\* unique actor stands twice, and every flag tile is at the goal.
THEOREM EditorInvHolds == Spec => []EditorInv
  <1>1. Init => DocInv
    <2> SUFFICES ASSUME Init PROVE DocInv
      OBVIOUS
    <2>1. 0 \in 0 .. MaxOps /\ <<>> \in Seq(Good)
      BY EditorAssumption
    <2>2. /\ level = DefaultLevel /\ undoStack = <<>> /\ redoStack = <<>>
          /\ painting = FALSE /\ dirty = FALSE /\ stored = NoLevel /\ ops = 0
      BY DEF Init
    <2>3. painting \in BOOLEAN /\ dirty \in BOOLEAN
      BY <2>2
    <2>4. /\ level \in Good /\ undoStack \in Seq(Good) /\ redoStack \in Seq(Good)
          /\ stored \in Good \cup {NoLevel} /\ ops \in 0 .. MaxOps
      BY <2>1, <2>2, DefaultGood
    <2> QED
      BY <2>3, <2>4 DEF DocInv
  <1>2. DocInv /\ [Next]_vars => DocInv'
    BY DocStep
  <1>3. DocInv /\ IInv => EditorInv
    <2> SUFFICES ASSUME DocInv, IInv PROVE EditorInv
      OBVIOUS
    <2>1. /\ \A i \in DOMAIN undoStack : undoStack[i] \in Good
          /\ \A i \in DOMAIN redoStack : redoStack[i] \in Good
      BY DEF DocInv
    <2>2. TypeOK
      BY <2>1, GoodLevels DEF DocInv, TypeOK
    <2>3. OnlyFixableErrors /\ FlagsAtGoal
      BY GoodLevels DEF DocInv, OnlyFixableErrors, FlagsAtGoal
    <2> QED
      BY <2>2, <2>3 DEF EditorInv, IInv
  <1> QED
    BY <1>1, <1>2, <1>3, InvariantHolds, PTL DEF Spec

-----------------------------------------------------------------------------
(* The platformer: actors and worlds *)

\* What an actor can be, and what a shell can.
Conditions ==
    {"alive", "fading", "absent", "sleeping", "groggy", "moving", "cleared",
     "rest", "rising", "spent", "fresh", "bumped"}
Shells == {a \in Actors : Kind[a] = "shell"}
Worlds == {w \in [Actors -> Conditions] : \A a \in Shells : w[a] \in {"alive", "fading", "absent"}}

Games ==
    [hp : 0 .. MaxHp, iframe : BOOLEAN, smash : BOOLEAN, locked : BOOLEAN,
     world : Worlds, shells : 0 .. ShellsPerLife - 1, lives : Nat,
     hud : 0 .. MaxHp, goal : BOOLEAN, checkpoint : BOOLEAN,
     frame : 0 .. MirrorEvery - 1, stage : Stages]

-----------------------------------------------------------------------------
(* A frame *)

\* What a contact leaves alone.
LeavesAlone(b, c) ==
    /\ c.locked = b.locked /\ c.goal = b.goal /\ c.checkpoint = b.checkpoint
    /\ c.frame = b.frame /\ c.stage = b.stage

\* At most one health point, and only of a player who was not protected.
Spares(b, c) ==
    /\ b.iframe => c.iframe
    /\ \/ c.hp >= b.hp
       \/ ~b.iframe /\ c.iframe /\ c.hp >= b.hp - 1

\* The shells of w that are taken in v.
ShellsTaken(w, v) == {a \in Shells : w[a] = "alive" /\ v[a] # "alive"}

\* No shell comes back, and those that go are paid.
Pays(b, c) ==
    /\ \A a \in Shells : c.world[a] = "alive" => b.world[a] = "alive"
    /\ Worth(c) = Worth(b) + Cardinality(ShellsTaken(b.world, c.world))

Settles(b, c) == c \in Games /\ LeavesAlone(b, c) /\ Spares(b, c) /\ Pays(b, c)

LEMMA ShellsFinite ==
    ASSUME NEW w, NEW v
    PROVE  /\ IsFiniteSet(Actors) /\ IsFiniteSet(ShellsTaken(w, v))
           /\ Cardinality(ShellsTaken(w, v)) \in Nat
  <1>1. IsFiniteSet(Actors)
    <2>1. Order \in Seq(Actors) /\ \A a \in Actors : \E i \in 1 .. Len(Order) : Order[i] = a
      BY PlatformerAssumption DEF Actors, Range
    <2> QED
      BY <2>1 DEF IsFiniteSet
  <1>2. ShellsTaken(w, v) \subseteq Actors
    BY DEF ShellsTaken, Shells
  <1> QED
    BY <1>1, <1>2, FS_Subset, FS_CardinalityType

LEMMA WorthIs == ASSUME NEW b \in Games PROVE Worth(b) \in Nat
  <1>1. b.lives \in Nat /\ b.shells \in Nat /\ ShellsPerLife \in Nat
    BY PlatformerAssumption DEF Games
  <1>2. b.lives * ShellsPerLife \in Nat
    BY <1>1
  <1> QED
    BY <1>1, <1>2 DEF Worth

\* A frame may settle one contact after the other.
LEMMA SettlesAll ==
    ASSUME NEW b \in Games, NEW c, NEW d, Settles(b, c), Settles(c, d)
    PROVE  Settles(b, d)
  <1>1. b \in Games /\ c \in Games /\ d \in Games
    BY DEF Settles
  <1>2. /\ b.hp \in Nat /\ c.hp \in Nat /\ d.hp \in Nat
        /\ {b.iframe, c.iframe, d.iframe} \subseteq BOOLEAN
    BY <1>1 DEF Games
  <1>3. Spares(b, d)
    BY <1>2 DEF Settles, Spares
  <1>4. LeavesAlone(b, d)
    BY DEF Settles, LeavesAlone
  <1> DEFINE A == ShellsTaken(b.world, c.world)
             B == ShellsTaken(c.world, d.world)
             C == ShellsTaken(b.world, d.world)
  <1>5. C = A \cup B /\ A \cap B = {}
    BY DEF ShellsTaken, Settles, Pays
  <1>6. Cardinality(C) = Cardinality(A) + Cardinality(B)
    <2>1. IsFiniteSet(A) /\ IsFiniteSet(B)
      BY ShellsFinite
    <2>2. Cardinality(A) \in Nat /\ Cardinality(B) \in Nat
      BY ShellsFinite
    <2>3. Cardinality(A \cup B) = Cardinality(A) + Cardinality(B) - Cardinality(A \cap B)
      BY <2>1, FS_Union
    <2>4. Cardinality(A \cap B) = 0
      BY <1>5, FS_EmptySet
    <2> HIDE DEF A, B, C
    <2> QED
      BY <1>5, <2>2, <2>3, <2>4
  <1>7. Pays(b, d)
    <2>1. Worth(b) \in Int /\ Worth(c) \in Int
      BY <1>1, WorthIs
    <2>2. Cardinality(A) \in Nat /\ Cardinality(B) \in Nat
      BY ShellsFinite
    <2>3. /\ Worth(c) = Worth(b) + Cardinality(A)
          /\ Worth(d) = Worth(c) + Cardinality(B)
          /\ \A a \in Shells : d.world[a] = "alive" => b.world[a] = "alive"
      BY DEF Settles, Pays
    <2> HIDE DEF A, B
    <2>4. Worth(d) = Worth(b) + Cardinality(C)
      BY <1>6, <2>1, <2>2, <2>3
    <2> QED
      BY <2>3, <2>4 DEF Pays
  <1> QED
    BY <1>1, <1>3, <1>4, <1>7 DEF Settles

\* A world in which no shell is taken.
Idle(w, v) == v \in Worlds /\ \A a \in Shells : v[a] = "alive" <=> w[a] = "alive"

LEMMA IdleSettles ==
    ASSUME NEW b \in Games, NEW c \in Games, LeavesAlone(b, c), Spares(b, c),
           c.lives = b.lives, c.shells = b.shells, Idle(b.world, c.world)
    PROVE  Settles(b, c)
  <1>1. ShellsTaken(b.world, c.world) = {}
    BY DEF ShellsTaken, Idle
  <1>2. Cardinality(ShellsTaken(b.world, c.world)) = 0
    BY <1>1, FS_EmptySet
  <1>3. Worth(b) \in Int /\ Worth(c) = Worth(b)
    BY WorthIs DEF Worth
  <1>4. Pays(b, c)
    BY <1>2, <1>3 DEF Pays, Idle
  <1> QED
    BY <1>4 DEF Settles

LEMMA BecomeWorld ==
    ASSUME NEW w \in Worlds, NEW a \in Actors, NEW s \in Conditions,
           a \in Shells => s \in {"alive", "fading", "absent"}
    PROVE  Become(w, a, s) \in Worlds
  <1>1. w \in [Actors -> Conditions]
    BY DEF Worlds
  <1>2. Become(w, a, s) = [x \in Actors |-> IF x = a THEN s ELSE w[x]]
    BY <1>1 DEF Become
  <1>3. Become(w, a, s) \in [Actors -> Conditions]
    BY <1>1, <1>2
  <1> QED
    BY <1>2, <1>3 DEF Worlds, Shells

\* An actor that is no shell becomes what it may.
LEMMA BecomeIdle ==
    ASSUME NEW w \in Worlds, NEW a \in Actors \ Shells, NEW s \in Conditions
    PROVE  Idle(w, Become(w, a, s))
  <1>1. Become(w, a, s) \in Worlds
    BY BecomeWorld DEF Shells
  <1>2. \A x \in Shells : Become(w, a, s)[x] = w[x]
    BY DEF Become, Worlds, Shells
  <1> QED
    BY <1>1, <1>2 DEF Idle

LEMMA IdleTwice ==
    ASSUME NEW w, NEW v, NEW u, Idle(w, v), Idle(v, u)
    PROVE  Idle(w, u)
  BY DEF Idle

LEMMA SpawnIdle ==
    ASSUME NEW w \in Worlds, NEW k \in {"drop", "coconut"}
    PROVE  Idle(w, Spawn(w, k))
  <1> DEFINE room == {a \in Actors : Kind[a] = k /\ w[a] = "absent"}
  <1>1. CASE room = {}
    BY <1>1 DEF Spawn, Idle
  <1>2. CASE room # {}
    <2>1. PICK a \in room : a = CHOOSE x \in room : TRUE
      BY <1>2
    <2>2. Spawn(w, k) = Become(w, a, "alive")
      BY <1>2, <2>1 DEF Spawn
    <2>3. a \in Actors \ Shells /\ "alive" \in Conditions
      BY <2>1 DEF Shells, Conditions
    <2> QED
      BY <2>2, <2>3, BecomeIdle
  <1> QED BY <1>1, <1>2

\* A timer takes no shell; one that fades is cleared away.
LEMMA UpdateIdle ==
    ASSUME NEW w \in Worlds, NEW a \in Actors, NEW hit \in BOOLEAN
    PROVE  Idle(w, Update(w, a, hit))
  <1>1. CASE w[a] = "fading"
    <2> DEFINE v == Become(w, a, "absent")
    <2>1. v \in Worlds
      BY BecomeWorld DEF Conditions
    <2>2. \A x \in Actors : v[x] = IF x = a THEN "absent" ELSE w[x]
      BY DEF Become, Worlds
    <2>3. Update(w, a, hit) = v
      BY <1>1 DEF Update
    <2> HIDE DEF v
    <2> QED
      BY <1>1, <2>1, <2>2, <2>3 DEF Idle, Shells
  <1>2. CASE w[a] # "fading" /\ Kind[a] = "bear"
    <2>1. w[a] \in Conditions /\ {"moving", "cleared"} \subseteq Conditions /\ a \in Actors \ Shells
      BY <1>2 DEF Worlds, Conditions, Shells
    <2>2. Update(w, a, hit) = Bear(w, a)
      BY <1>2 DEF Update
    <2> QED
      BY <2>1, <2>2, BecomeIdle DEF Bear
  <1>3. CASE w[a] # "fading" /\ Kind[a] = "coconut"
    <2>1. a \in Actors \ Shells /\ {"fading", "groggy"} \subseteq Conditions
      BY <1>3 DEF Shells, Conditions
    <2>2. Update(w, a, hit) = Coconut(w, a, hit)
      BY <1>3 DEF Update
    <2>3. CASE hit /\ Sleeping(w) # {}
      <3>1. PICK b \in Sleeping(w) : b = CHOOSE x \in Sleeping(w) : TRUE
        BY <2>3
      <3>2. b \in Actors \ Shells
        BY DEF Sleeping, Worlds
      <3>3. Coconut(w, a, hit) = Become(Become(w, a, "fading"), b, "groggy")
        BY <2>3, <3>1 DEF Coconut, Become
      <3>4. Idle(w, Become(w, a, "fading"))
        BY <2>1, BecomeIdle
      <3>5. Idle(Become(w, a, "fading"), Become(Become(w, a, "fading"), b, "groggy"))
        BY <2>1, <3>2, <3>4, BecomeIdle DEF Idle
      <3> QED
        BY <2>2, <3>3, <3>4, <3>5, IdleTwice
    <2>4. CASE ~(hit /\ Sleeping(w) # {})
      BY <2>1, <2>2, <2>4, BecomeIdle DEF Coconut
    <2> QED BY <2>3, <2>4
  <1>4. CASE w[a] # "fading" /\ Kind[a] = "frog"
    BY <1>4, SpawnIdle DEF Update, Frog
  <1>5. CASE w[a] # "fading" /\ Kind[a] = "drop"
    <2>1. a \in Actors \ Shells /\ "fading" \in Conditions
      BY <1>5 DEF Shells, Conditions
    <2> QED
      BY <1>5, <2>1, BecomeIdle DEF Update, Projectile
  <1>6. CASE w[a] # "fading" /\ Kind[a] = "whale"
    <2>1. a \in Actors \ Shells /\ {"rising", "rest"} \subseteq Conditions
      BY <1>6 DEF Shells, Conditions
    <2> QED
      BY <1>6, <2>1, BecomeIdle DEF Update, Whale
  <1>7. CASE w[a] # "fading" /\ Kind[a] \notin {"bear", "coconut", "frog", "drop", "whale"}
    BY <1>7 DEF Update, Walk, Idle
  <1> QED
    BY <1>1, <1>2, <1>3, <1>4, <1>5, <1>6, <1>7

-----------------------------------------------------------------------------
(* One contact *)

\* A game with another world, in which no shell is taken, or with a protection.
LEMMA WorldSettles ==
    ASSUME NEW b \in Games, NEW w, Idle(b.world, w)
    PROVE  Settles(b, [b EXCEPT !.world = w])
  <1> DEFINE c == [b EXCEPT !.world = w]
  <1>1. w \in Worlds
    BY DEF Idle
  <1>2. c \in Games
    BY <1>1 DEF Games
  <1>3. /\ c.world = w /\ c.lives = b.lives /\ c.shells = b.shells
        /\ LeavesAlone(b, c) /\ c.hp = b.hp /\ c.iframe = b.iframe
    BY DEF Games, LeavesAlone
  <1>4. b.hp \in Int
    BY DEF Games
  <1> HIDE DEF c
  <1>5. Spares(b, c)
    BY <1>3, <1>4 DEF Spares
  <1>6. Settles(b, c)
    BY <1>2, <1>3, <1>5, IdleSettles
  <1> QED
    BY <1>6 DEF c

LEMMA TakeSettles ==
    ASSUME NEW b \in Games, NEW a \in Actors \ Shells
    PROVE  Settles(b, Take(b, a))
  <1>1. Take(b, a) = [b EXCEPT !.world = Become(b.world, a, "fading")]
    BY DEF Take, Become
  <1>2. b.world \in Worlds /\ "fading" \in Conditions
    BY DEF Games, Conditions
  <1> QED
    BY <1>1, <1>2, BecomeIdle, WorldSettles

LEMMA SameSettles == ASSUME NEW b \in Games PROVE Settles(b, b)
  <1>1. LeavesAlone(b, b) /\ Spares(b, b) /\ Idle(b.world, b.world)
    BY DEF LeavesAlone, Spares, Idle, Games
  <1> QED
    BY <1>1, IdleSettles

\* What only touches the player's health and protection.
LEMMA PlayerSettles ==
    ASSUME NEW b \in Games, NEW hp \in 0 .. MaxHp, NEW hud \in 0 .. MaxHp,
           NEW i \in BOOLEAN, NEW s \in BOOLEAN, NEW c,
           c = [b EXCEPT !.hp = hp, !.hud = hud, !.iframe = i, !.smash = s],
           b.iframe => i,
           hp >= b.hp \/ (~b.iframe /\ i /\ hp >= b.hp - 1)
    PROVE  Settles(b, c)
  <1>1. c \in Games
    BY DEF Games
  <1>2. /\ c.world = b.world /\ c.lives = b.lives /\ c.shells = b.shells
        /\ LeavesAlone(b, c) /\ c.hp = hp /\ c.iframe = i
    BY DEF Games, LeavesAlone
  <1>3. Spares(b, c)
    BY <1>2 DEF Spares
  <1>4. Idle(b.world, c.world)
    BY <1>2 DEF Games, Idle
  <1> QED
    BY <1>1, <1>2, <1>3, <1>4, IdleSettles

LEMMA DamageSettles == ASSUME NEW b \in Games PROVE Settles(b, Damage(b))
  <1> DEFINE hp == IF b.hp > 0 THEN b.hp - 1 ELSE 0
  <1>1. b.hp \in 0 .. MaxHp /\ b.iframe \in BOOLEAN /\ b.smash \in BOOLEAN /\ MaxHp \in Nat
    BY PlatformerAssumption DEF Games
  <1>2. CASE b.iframe
    BY <1>2, SameSettles DEF Damage
  <1>3. CASE ~b.iframe
    <2>1. Damage(b) = [b EXCEPT !.hp = hp, !.hud = hp, !.iframe = TRUE, !.smash = b.smash]
      BY <1>3 DEF Damage, NotifyHp, Games
    <2>2. hp \in 0 .. MaxHp /\ hp >= b.hp - 1
      BY <1>1
    <2> HIDE DEF hp
    <2> QED
      BY <1>1, <1>3, <2>1, <2>2, PlayerSettles
  <1> QED BY <1>2, <1>3

LEMMA HealSettles == ASSUME NEW b \in Games PROVE Settles(b, Heal(b))
  <1> DEFINE hp == IF b.hp < MaxHp THEN b.hp + 1 ELSE MaxHp
  <1>1. b.hp \in 0 .. MaxHp /\ b.iframe \in BOOLEAN /\ b.smash \in BOOLEAN /\ MaxHp \in Nat
    BY PlatformerAssumption DEF Games
  <1>2. Heal(b) = [b EXCEPT !.hp = hp, !.hud = hp, !.iframe = b.iframe, !.smash = b.smash]
    BY DEF Heal, NotifyHp, Games
  <1>3. hp \in 0 .. MaxHp /\ hp >= b.hp
    BY <1>1
  <1> HIDE DEF hp
  <1> QED
    BY <1>1, <1>2, <1>3, PlayerSettles

LEMMA SmashSettles == ASSUME NEW b \in Games PROVE Settles(b, Smash(b))
  <1>1. b.hp \in 0 .. MaxHp /\ b.hud \in 0 .. MaxHp /\ b.iframe \in BOOLEAN /\ MaxHp \in Nat
    BY PlatformerAssumption DEF Games
  <1>2. Smash(b) = [b EXCEPT !.hp = b.hp, !.hud = b.hud, !.iframe = b.iframe, !.smash = TRUE]
    BY DEF Smash, Games
  <1>3. b.hp >= b.hp
    BY <1>1
  <1> QED
    BY <1>1, <1>2, <1>3, PlayerSettles

\* A shell is worth one, also when it completes a life.
LEMMA ShellSettles ==
    ASSUME NEW b \in Games, NEW a \in Shells, b.world[a] = "alive"
    PROVE  Settles(b, Take(Shell(b), a))
  <1> DEFINE c == Take(Shell(b), a)
             w == Become(b.world, a, "fading")
  <1>1. /\ b.world \in Worlds /\ b.lives \in Nat /\ b.shells \in 0 .. ShellsPerLife - 1
        /\ b.hp \in Int /\ a \in Actors /\ ShellsPerLife \in Nat \ {0}
    BY PlatformerAssumption DEF Games, Shells
  <1>2. w \in Worlds
    BY <1>1, BecomeWorld DEF Conditions
  <1>3. \A x \in Shells : w[x] = IF x = a THEN "fading" ELSE b.world[x]
    BY <1>1 DEF Become, Worlds, Shells
  <1> HIDE DEF w
  <1>4. PICK s \in 0 .. ShellsPerLife - 1, l \in Nat :
            /\ Shell(b) = [b EXCEPT !.shells = s, !.lives = l]
            /\ l * ShellsPerLife + s = b.lives * ShellsPerLife + b.shells + 1
    <2>1. CASE b.shells + 1 >= ShellsPerLife
      <3> DEFINE s == b.shells + 1 - ShellsPerLife
                 l == b.lives + 1
      <3>1. s \in 0 .. ShellsPerLife - 1 /\ l \in Nat
        BY <1>1, <2>1
      <3>2. Shell(b) = [b EXCEPT !.shells = s, !.lives = l]
        BY <2>1 DEF Shell, Games
      <3>3. l * ShellsPerLife + s = b.lives * ShellsPerLife + b.shells + 1
        <4>1. (b.lives + 1) * ShellsPerLife = b.lives * ShellsPerLife + ShellsPerLife
          BY <1>1
        <4>2. b.lives * ShellsPerLife \in Nat
          BY <1>1
        <4> QED BY <1>1, <4>1, <4>2
      <3> QED BY <3>1, <3>2, <3>3
    <2>2. CASE ~(b.shells + 1 >= ShellsPerLife)
      <3>1. b.shells + 1 \in 0 .. ShellsPerLife - 1
        BY <1>1, <2>2
      <3>2. Shell(b) = [b EXCEPT !.shells = b.shells + 1, !.lives = b.lives]
        BY <2>2 DEF Shell, Games
      <3>3. b.lives * ShellsPerLife + (b.shells + 1) = b.lives * ShellsPerLife + b.shells + 1
        <4>1. b.lives * ShellsPerLife \in Nat
          BY <1>1
        <4> QED BY <1>1, <4>1
      <3> QED BY <1>1, <3>1, <3>2, <3>3
    <2> QED BY <2>1, <2>2
  <1>5. c = [b EXCEPT !.shells = s, !.lives = l, !.world = w]
    BY <1>4 DEF Take, Become, w, Games
  <1> HIDE DEF c
  <1>6. c \in Games
    BY <1>2, <1>4, <1>5 DEF Games
  <1>7. /\ c.world = w /\ c.shells = s /\ c.lives = l
        /\ LeavesAlone(b, c) /\ c.hp = b.hp /\ c.iframe = b.iframe
    BY <1>5 DEF Games, LeavesAlone
  <1>8. Spares(b, c)
    BY <1>1, <1>7 DEF Spares
  <1>9. Pays(b, c)
    <2>1. ShellsTaken(b.world, c.world) = {a}
      BY <1>3, <1>7 DEF ShellsTaken
    <2>2. Cardinality(ShellsTaken(b.world, c.world)) = 1
      BY <2>1, FS_Singleton
    <2>3. Worth(c) = Worth(b) + 1
      BY <1>4, <1>7 DEF Worth
    <2> QED
      BY <1>3, <1>7, <2>2, <2>3 DEF Pays
  <1>10. Settles(b, c)
    BY <1>6, <1>7, <1>8, <1>9 DEF Settles
  <1> QED
    BY <1>10 DEF c

\* Meeting an actor settles, whatever it is.
LEMMA MeetSettles ==
    ASSUME NEW b \in Games, NEW a \in Actors, NEW stomped \in BOOLEAN
    PROVE  Settles(b, Meet(b, a, stomped))
  <1>1. Settles(b, b)
    BY SameSettles
  <1>2. ASSUME NEW c, Settles(b, c), a \notin Shells PROVE Settles(b, Take(c, a))
    <2>1. c \in Games
      BY <1>2 DEF Settles
    <2>2. Settles(c, Take(c, a))
      BY <1>2, <2>1, TakeSettles
    <2> QED
      BY <1>2, <2>2, SettlesAll
  <1>3. CASE b.world[a] \in Gone
    BY <1>1, <1>3 DEF Meet
  <1>4. CASE b.world[a] \notin Gone /\ Kind[a] = "shell"
    <2>1. a \in Shells /\ b.world[a] = "alive"
      BY <1>4 DEF Shells, Games, Worlds, Gone
    <2>2. Meet(b, a, stomped) = Take(Shell(b), a)
      BY <1>4 DEF Meet, Enemies
    <2> QED
      BY <2>1, <2>2, ShellSettles
  <1>5. CASE b.world[a] \notin Gone /\ Kind[a] # "shell"
    <2>1. a \notin Shells
      BY <1>5 DEF Shells
    <2>2. \/ Meet(b, a, stomped) = b
          \/ Meet(b, a, stomped) = Damage(b)
          \/ \E c \in {b, Damage(b), Heal(b), Smash(b)} : Meet(b, a, stomped) = Take(c, a)
      BY <1>5 DEF Meet, MeetEnemy, MeetBear, Enemies
    <2>3. Settles(b, Damage(b)) /\ Settles(b, Heal(b)) /\ Settles(b, Smash(b))
      BY DamageSettles, HealSettles, SmashSettles
    <2> QED
      BY <1>1, <1>2, <2>1, <2>2, <2>3
  <1> QED
    BY <1>3, <1>4, <1>5

LEMMA RideSettles ==
    ASSUME NEW b \in Games, NEW a \in Actors, Kind[a] \in Platforms, NEW sinks \in BOOLEAN
    PROVE  Settles(b, Ride(b, a, sinks))
  <1>1. a \in Actors \ Shells /\ b.world \in Worlds /\ {"spent", "bumped"} \subseteq Conditions
    BY DEF Shells, Platforms, Games, Conditions
  <1>2. CASE Kind[a] = "lily" /\ sinks
    BY <1>1, <1>2, TakeSettles DEF Ride
  <1>3. CASE Kind[a] = "whale" /\ b.world[a] = "rising"
    <2>1. Ride(b, a, sinks) = [b EXCEPT !.world = Become(b.world, a, "spent")]
      BY <1>3 DEF Ride, Become
    <2> QED
      BY <1>1, <2>1, BecomeIdle, WorldSettles
  <1>4. CASE Kind[a] = "block" /\ b.world[a] = "fresh"
    <2> DEFINE v == Become(b.world, a, "bumped")
    <2>1. Ride(b, a, sinks) = [b EXCEPT !.world = Spawn(v, "coconut")]
      BY <1>4 DEF Ride
    <2>2. Idle(b.world, v)
      BY <1>1, BecomeIdle
    <2> HIDE DEF v
    <2>3. Idle(v, Spawn(v, "coconut"))
      BY <2>2, SpawnIdle DEF Idle
    <2>4. Idle(b.world, Spawn(v, "coconut"))
      BY <2>2, <2>3, IdleTwice
    <2> QED
      BY <2>1, <2>4, WorldSettles
  <1>5. CASE /\ ~(Kind[a] = "lily" /\ sinks)
             /\ ~(Kind[a] = "whale" /\ b.world[a] = "rising")
             /\ ~(Kind[a] = "block" /\ b.world[a] = "fresh")
    BY <1>5, SameSettles DEF Ride
  <1> QED
    BY <1>2, <1>3, <1>4, <1>5

\* The recursion of Contacts, step by step.
MetNext(p, a, touched) == IF a \notin touched THEN p ELSE Contact(p, a)
Meets(k, p, touched, n) ==
    /\ k = [i \in 0 .. n |-> k[i]]
    /\ k[0] = p
    /\ \A i \in 1 .. n : k[i] = MetNext(k[i - 1], Order[i], touched)

LEMMA ContactsUnfold ==
    ASSUME NEW b, NEW touched, NEW stomp
    PROVE  \E k : /\ Contacts(b, touched, stomp) = k[Len(Order)].game
                  /\ Meets(k, [game |-> b, stomp |-> stomp], touched, Len(Order))
  <1> DEFINE p == [game |-> b, stomp |-> stomp]
             N == Len(Order)
             Rule(k, i) == IF i = 0 THEN p
                           ELSE IF Order[i] \notin touched THEN k[i - 1]
                           ELSE Contact(k[i - 1], Order[i])
             Is(k) == k = [i \in 0 .. N |-> Rule(k, i)]
             met == CHOOSE k : Is(k)
             B == {n \in 0 .. N : ~ \E k : Meets(k, p, touched, n)}
  <1>0. N \in Nat
    BY PlatformerAssumption
  <1>1. Contacts(b, touched, stomp) = met[N].game
    BY DEF Contacts
  <1> HIDE DEF p, N
  <1>2. B = {}
    <2>1. SUFFICES ASSUME B # {} PROVE FALSE
      OBVIOUS
    <2>2. PICK n \in B : \A m \in B : n <= m
      <3>1. B \in SUBSET Nat
        BY <1>0
      <3> HIDE DEF B
      <3> QED BY <2>1, <3>1, LeastNumber
    <2>3. n # 0
      <3>1. Meets([i \in 0 .. 0 |-> p], p, touched, 0)
        BY DEF Meets
      <3> QED
        BY <3>1
    <2>4. n \in 1 .. N /\ n - 1 \in 0 .. N /\ n - 1 \notin B
      BY <1>0, <2>2, <2>3
    <2>5. PICK k : Meets(k, p, touched, n - 1)
      BY <2>4
    <2> DEFINE x == MetNext(k[n - 1], Order[n], touched)
               q == [i \in 0 .. n |-> IF i = n THEN x ELSE k[i]]
    <2>6. q[n] = x /\ \A i \in 0 .. n - 1 : q[i] = k[i]
      BY <1>0, <2>4
    <2>7. Meets(q, p, touched, n)
      <3>1. q = [i \in 0 .. n |-> q[i]]
        OBVIOUS
      <3> HIDE DEF q
      <3>2. q[0] = p
        <4>1. 0 \in 0 .. n - 1
          BY <1>0, <2>4
        <4>2. k[0] = p
          BY <2>5 DEF Meets
        <4> QED
          BY <2>6, <4>1, <4>2
      <3>3. ASSUME NEW i \in 1 .. n PROVE q[i] = MetNext(q[i - 1], Order[i], touched)
        <4>1. q[i - 1] = k[i - 1]
          BY <1>0, <2>4, <2>6
        <4>2. CASE i = n
          BY <2>6, <4>1, <4>2
        <4>3. CASE i # n
          <5>1. i \in 1 .. n - 1 /\ i \in 0 .. n - 1
            BY <1>0, <2>4, <4>3
          <5> QED
            BY <2>5, <2>6, <4>1, <5>1 DEF Meets
        <4> QED BY <4>2, <4>3
      <3> QED
        BY <3>1, <3>2, <3>3 DEF Meets
    <2> QED
      BY <2>2, <2>7
  <1>3. PICK f : Meets(f, p, touched, N)
    <2>1. N \in 0 .. N
      BY <1>0
    <2> QED BY <1>2, <2>1
  <1>4. Is(f)
    <2>1. ASSUME NEW i \in 0 .. N PROVE f[i] = Rule(f, i)
      <3>1. CASE i = 0
        BY <1>3, <3>1 DEF Meets
      <3>2. CASE i # 0
        <4>1. i \in 1 .. N
          BY <1>0, <3>2
        <4>2. f[i] = MetNext(f[i - 1], Order[i], touched)
          BY <1>3, <4>1 DEF Meets
        <4> QED
          BY <3>2, <4>2 DEF MetNext
      <3> QED BY <3>1, <3>2
    <2> QED
      BY <1>3, <2>1 DEF Meets
  <1> HIDE DEF Is
  <1>5. Is(met)
    BY <1>4
  <1> HIDE DEF met
  <1>6. Meets(met, p, touched, N)
    <2>1. \A i \in 0 .. N : met[i] = Rule(met, i)
      BY <1>5 DEF Is
    <2>2. met = [i \in 0 .. N |-> met[i]]
      BY <1>5 DEF Is
    <2>3. met[0] = p /\ \A i \in 1 .. N : met[i] = MetNext(met[i - 1], Order[i], touched)
      BY <1>0, <2>1 DEF MetNext
    <2> QED
      BY <2>2, <2>3 DEF Meets
  <1> QED
    BY <1>1, <1>6 DEF p, N

\* The contacts of a frame settle.
LEMMA ContactsSettle ==
    ASSUME NEW b \in Games, NEW touched, NEW stomp
    PROVE  Settles(b, Contacts(b, touched, stomp))
  <1> DEFINE p == [game |-> b, stomp |-> stomp]
             N == Len(Order)
  <1>1. PICK k : Contacts(b, touched, stomp) = k[N].game /\ Meets(k, p, touched, N)
    BY ContactsUnfold
  <1>2. N \in Nat /\ \A i \in 1 .. N : Order[i] \in Actors
    BY PlatformerAssumption
  <1> DEFINE B == {n \in 0 .. N : ~Settles(b, k[n].game)}
  <1>3. B = {}
    <2>1. SUFFICES ASSUME B # {} PROVE FALSE
      OBVIOUS
    <2>2. PICK n \in B : \A m \in B : n <= m
      <3>1. B \in SUBSET Nat
        BY <1>2
      <3> HIDE DEF B
      <3> QED BY <2>1, <3>1, LeastNumber
    <2>3. n # 0
      <3>1. k[0].game = b
        BY <1>1 DEF Meets
      <3> QED
        BY <3>1, SameSettles
    <2>4. n \in 1 .. N /\ n - 1 \in 0 .. N /\ n - 1 \notin B
      BY <1>2, <2>2, <2>3
    <2> DEFINE q == k[n - 1]
               a == Order[n]
    <2>5. Settles(b, q.game) /\ a \in Actors
      BY <1>2, <2>4
    <2>6. k[n] = MetNext(q, a, touched)
      BY <1>1, <2>4 DEF Meets
    <2> HIDE DEF q, a
    <2>7. q.game \in Games
      BY <2>5 DEF Settles
    <2>8. /\ (a = q.stomp) \in BOOLEAN
          /\ Kind[a] \in Platforms => Settles(q.game, Ride(q.game, a, a = q.stomp))
          /\ Settles(q.game, Meet(q.game, a, a = q.stomp))
      BY <2>5, <2>7, RideSettles, MeetSettles
    <2>9. CASE a \notin touched
      BY <2>2, <2>5, <2>6, <2>9 DEF MetNext
    <2>10. CASE a \in touched
      <3>1. Settles(q.game, Contact(q, a).game)
        BY <2>8 DEF Contact
      <3>2. Settles(b, Contact(q, a).game)
        BY <2>5, <3>1, SettlesAll
      <3> QED
        BY <2>2, <2>6, <2>10, <3>2 DEF MetNext
    <2> QED BY <2>9, <2>10
  <1>4. Settles(b, k[N].game)
    BY <1>2, <1>3
  <1> QED
    BY <1>1, <1>4

-----------------------------------------------------------------------------
(* A frame, from the timers to the death *)

\* What a frame may do to the game before the player is found dead.
Plays(b, c) ==
    /\ c \in Games /\ c.locked = b.locked /\ c.goal = b.goal /\ c.stage = b.stage
    /\ c.hp >= b.hp - 1
    /\ Worth(c) = Worth(b) + Cardinality(ShellsTaken(b.world, c.world))

\* What is of no account to it.
Same(b, c) ==
    /\ c \in Games /\ c.hp = b.hp /\ c.world = b.world
    /\ c.shells = b.shells /\ c.lives = b.lives
    /\ c.locked = b.locked /\ c.goal = b.goal /\ c.stage = b.stage

LEMMA PlaysOn ==
    ASSUME NEW b \in Games, NEW c, NEW d, NEW e,
           Same(b, c), Settles(c, d) \/ d = c, Same(d, e)
    PROVE  Plays(b, e)
  <1>1. c \in Games /\ d \in Games /\ e \in Games
    BY DEF Same, Settles
  <1>2. Settles(c, d)
    BY <1>1, SameSettles
  <1>3. b.hp \in Int /\ c.hp \in Int /\ d.hp \in Int /\ e.hp \in Int
    BY <1>1 DEF Games
  <1>4. Worth(c) = Worth(b) /\ Worth(e) = Worth(d)
    BY DEF Same, Worth
  <1>5. e.hp >= b.hp - 1
    BY <1>2, <1>3 DEF Settles, Spares, Same
  <1>6. ShellsTaken(b.world, e.world) = ShellsTaken(c.world, d.world)
    BY DEF Same
  <1>7. Worth(d) = Worth(c) + Cardinality(ShellsTaken(c.world, d.world))
    BY <1>2 DEF Settles, Pays
  <1>8. e.locked = b.locked /\ e.goal = b.goal /\ e.stage = b.stage
    BY <1>2 DEF Settles, LeavesAlone, Same
  <1> QED
    BY <1>1, <1>4, <1>5, <1>6, <1>7, <1>8 DEF Plays

LEMMA UpdateSame ==
    ASSUME NEW b \in Games, NEW e PROVE Same(b, PlayerUpdate(b, e))
  <1> DEFINE i == b.iframe /\ e # "iframe"
             s == b.smash /\ e # "smash"
  <1>1. PlayerUpdate(b, e) = [b EXCEPT !.iframe = i, !.smash = s]
    BY DEF PlayerUpdate
  <1>2. i \in BOOLEAN /\ s \in BOOLEAN
    OBVIOUS
  <1> HIDE DEF i, s
  <1>3. [b EXCEPT !.iframe = i, !.smash = s] \in Games
    BY <1>2 DEF Games
  <1> QED
    BY <1>1, <1>3 DEF Same, Games

LEMMA MirrorSame == ASSUME NEW b \in Games PROVE Same(b, MirrorHp(b))
  <1> DEFINE f == (b.frame + 1) % MirrorEvery
             c == [b EXCEPT !.frame = f]
  <1>1. f \in 0 .. MirrorEvery - 1
    <2>1. b.frame + 1 \in Nat /\ MirrorEvery \in Nat \ {0}
      BY PlatformerAssumption DEF Games
    <2> QED
      BY <2>1
  <1> HIDE DEF f
  <1>2. Same(b, c) /\ c.frame = f
    BY <1>1 DEF Same, Games
  <1>3. MirrorHp(b) = IF f = 0 THEN [c EXCEPT !.hud = c.hp] ELSE c
    BY DEF MirrorHp, NotifyHp, f, Games
  <1> HIDE DEF c
  <1>4. c \in Games
    BY <1>2 DEF Same
  <1>5. Same(c, [c EXCEPT !.hud = c.hp])
    BY <1>4 DEF Same, Games
  <1> QED
    BY <1>2, <1>3, <1>5 DEF Same

LEMMA CheckpointSame ==
    ASSUME NEW b \in Games, NEW place PROVE Same(b, Checkpoint(b, place))
  <1> DEFINE x == b.checkpoint \/ (place = "checkpoint" /\ b.stage \in Checkpoints)
  <1>1. Checkpoint(b, place) = [b EXCEPT !.checkpoint = x]
    BY DEF Checkpoint
  <1>2. x \in BOOLEAN
    OBVIOUS
  <1> HIDE DEF x
  <1> QED
    BY <1>1, <1>2 DEF Same, Games

LEMMA ManagerSettles ==
    ASSUME NEW b \in Games, NEW due \in {"none"} \cup Actors, NEW hit \in BOOLEAN,
           NEW touched, NEW stomp
    PROVE  Settles(b, ManagerUpdate(b, due, hit, touched, stomp))
  <1> DEFINE w == IF due = "none" THEN b.world ELSE Update(b.world, due, hit)
             c == [b EXCEPT !.world = w]
  <1>1. b.world \in Worlds
    BY DEF Games
  <1>2. Idle(b.world, w)
    BY <1>1, UpdateIdle DEF Idle
  <1>3. ManagerUpdate(b, due, hit, touched, stomp) = Contacts(c, touched, stomp)
    BY DEF ManagerUpdate
  <1> HIDE DEF w
  <1>4. Settles(b, c)
    BY <1>2, WorldSettles
  <1> HIDE DEF c
  <1>5. Settles(c, Contacts(c, touched, stomp))
    BY <1>4, ContactsSettle DEF Settles
  <1> QED
    BY <1>3, <1>4, <1>5, SettlesAll

\* The end of a frame: nobody died, the last life is lost, or a life is.
Ends(b, c) ==
    \/ c = b
    \/ /\ ~b.goal /\ ~b.locked
       /\ c \in Games /\ c.goal = b.goal /\ c.world = b.world /\ c.shells = b.shells
       /\ \/ c.locked /\ c.lives = 0 /\ b.lives <= 1
          \/ ~c.locked /\ c.hp = MaxHp /\ c.lives = b.lives - 1

LEMMA DeathEnds ==
    ASSUME NEW b \in Games, NEW place
    PROVE  Ends(b, AfterDeath(Hazard(b, place), place))
  <1> DEFINE h == Hazard(b, place)
             c == AfterDeath(h, place)
  <1>0. Kill(b) = [b EXCEPT !.hp = 0, !.iframe = FALSE] /\ (h = b \/ (h = Kill(b) /\ ~b.goal /\ ~b.locked))
    BY DEF Hazard, Kill
  <1> HIDE DEF h
  <1>1. h \in Games /\ MaxHp \in Nat /\ b.lives \in Nat
    <2>1. MaxHp \in Nat /\ 0 \in 0 .. MaxHp
      BY PlatformerAssumption
    <2>2. Kill(b) \in Games
      BY <1>0, <2>1 DEF Games
    <2> QED
      BY <1>0, <2>1, <2>2 DEF Games
  <1>2. /\ h.goal = b.goal /\ h.locked = b.locked /\ h.world = b.world
        /\ h.shells = b.shells /\ h.lives = b.lives
    BY <1>0 DEF Games
  <1>3. h = b \/ (h.hp = 0 /\ ~b.goal /\ ~b.locked)
    BY <1>0 DEF Games
  <1>4. c = IF Dies(h, place) THEN HandleDeath(h) ELSE h
    BY DEF AfterDeath
  <1> HIDE DEF c
  <1> SUFFICES Ends(b, c)
    BY DEF h, c
  <1>5. CASE ~Dies(h, place)
    BY <1>2, <1>3, <1>4, <1>5 DEF Dies, Ends
  <1>6. CASE Dies(h, place) /\ h.lives <= 1
    <2>1. c = [h EXCEPT !.locked = TRUE, !.lives = 0]
      BY <1>4, <1>6 DEF HandleDeath
    <2>2. c \in Games
      BY <1>1, <2>1 DEF Games
    <2>3. c.locked = TRUE /\ c.lives = 0 /\ c.goal = h.goal /\ c.world = h.world /\ c.shells = h.shells
      BY <1>1, <2>1 DEF Games
    <2> QED
      BY <1>2, <1>6, <2>2, <2>3 DEF Ends, Dies
  <1>7. CASE Dies(h, place) /\ ~(h.lives <= 1)
    <2>1. c = [h EXCEPT !.iframe = TRUE, !.locked = FALSE, !.hp = MaxHp, !.hud = MaxHp,
                        !.lives = h.lives - 1]
      BY <1>1, <1>4, <1>7 DEF HandleDeath, Respawn, NotifyHp, Games
    <2>2. h.lives - 1 \in Nat /\ MaxHp \in 0 .. MaxHp
      BY <1>1, <1>2, <1>7
    <2>3. c \in Games
      BY <1>1, <2>1, <2>2 DEF Games
    <2>4. /\ c.locked = FALSE /\ c.lives = h.lives - 1 /\ c.hp = MaxHp
          /\ c.goal = h.goal /\ c.world = h.world /\ c.shells = h.shells
      BY <1>1, <2>1 DEF Games
    <2> QED
      BY <1>2, <1>7, <2>3, <2>4 DEF Ends, Dies
  <1> QED
    BY <1>5, <1>6, <1>7

\* A frame: the game before the flag, after it, and after a death.
Framed(seen, after, end) ==
    /\ Plays(game, seen) /\ after \in Games /\ Ends(after, end)
    /\ game.locked => seen.lives = game.lives
    /\ \/ after = seen
       \/ after = [seen EXCEPT !.goal = TRUE, !.locked = TRUE] /\ ~seen.goal
    /\ Shown(after, end)

LEMMA FrameShape ==
    ASSUME game \in Games, NEW due \in {"none"} \cup Actors, NEW hit \in BOOLEAN,
           NEW touched, NEW stomp, NEW expired, NEW place,
           Frame(due, hit, touched, stomp, expired, place)
    PROVE  \E seen, after, end : Framed(seen, after, end)
  <1> DEFINE moved == PlayerUpdate(game, expired)
             played == IF game.locked THEN moved ELSE ManagerUpdate(moved, due, hit, touched, stomp)
             seen == Checkpoint(MirrorHp(played), place)
             after == IF ReachesGoal(seen, place) THEN TriggerGoal(seen) ELSE seen
             end == AfterDeath(Hazard(after, place), place)
  <1>1. Same(game, moved)
    BY UpdateSame
  <1>2. moved \in Games
    BY <1>1 DEF Same
  <1>3. Settles(moved, played) \/ played = moved
    BY <1>2, ManagerSettles
  <1>4. played \in Games
    BY <1>2, <1>3 DEF Settles
  <1>5. Shown(after, end)
    BY DEF Frame
  <1>10. game.locked => played = moved
    OBVIOUS
  <1> HIDE DEF moved, played
  <1>6. Same(played, seen)
    <2>1. Same(played, MirrorHp(played))
      BY <1>4, MirrorSame
    <2>2. Same(MirrorHp(played), seen)
      BY <2>1, CheckpointSame DEF Same
    <2> QED
      BY <2>1, <2>2 DEF Same
  <1>7. Plays(game, seen) /\ seen \in Games
    BY <1>1, <1>3, <1>6, PlaysOn DEF Same
  <1>11. game.locked => seen.lives = game.lives
    BY <1>1, <1>6, <1>10 DEF Same
  <1> HIDE DEF seen
  <1>8. /\ after \in Games
        /\ \/ after = seen
           \/ after = [seen EXCEPT !.goal = TRUE, !.locked = TRUE] /\ ~seen.goal /\ after.locked
    BY <1>7 DEF ReachesGoal, TriggerGoal, Games
  <1> HIDE DEF after
  <1>9. Ends(after, end)
    BY <1>8, DeathEnds
  <1> HIDE DEF end
  <1> QED
    BY <1>5, <1>7, <1>8, <1>9, <1>11 DEF Framed

-----------------------------------------------------------------------------
(* The inductive invariant *)

\* The view and the engine are of their types.
HostOK ==
    /\ mounted \in BOOLEAN /\ failed \in BOOLEAN /\ arrived \in BOOLEAN
    /\ list \in {0} \cup Stages /\ stageIndex \in Stages
    /\ status \in {"loading", "playing", "cleared", "gameover"}

EngineOK ==
    /\ cur \in 0 .. MaxRuns /\ bgm \in 0 .. MaxRuns
    /\ phase \in [Runs -> {"unborn", "init", "textures", "live", "gone", "failed"}]
    /\ apps \subseteq Runs /\ listening \subseteq Runs

\* A run is on screen while its view is.  Only it can be live; the view
\* shows an error only if it has failed; and until it is live, its game is new.
OneRun ==
    /\ cur # 0 => mounted
    /\ \A r \in Runs : phase[r] = "live" => r = cur
    /\ (failed /\ cur # 0) => phase[cur] = "failed"
    /\ (cur # 0 /\ ~Live) => ~game.locked /\ ~game.goal

PlatformerIInv ==
    /\ HostOK /\ EngineOK /\ game \in Games /\ OneRun
    /\ ScreenMatchesRun /\ ChatMeansArrived /\ StaleRunsAreSilent

LEMMA StagesAre ==
    /\ Stages \subseteq Nat \ {0} /\ 1 \in Stages
    /\ \A i, n \in Stages : StageAt(i, n) \in Stages /\ (i < n => i + 1 \in Stages)
  <1>1. Stage \in Seq(SUBSET Actors) /\ Stage # <<>>
    BY PlatformerAssumption
  <1>2. Stages = 1 .. Len(Stage) /\ Len(Stage) \in Nat \ {0}
    BY <1>1 DEF Stages
  <1> QED
    BY <1>2 DEF StageAt

LEMMA NewGameIs ==
    ASSUME NEW s \in Stages, NEW shells \in 0 .. ShellsPerLife - 1, NEW lives \in Nat
    PROVE  /\ NewGame(s, shells, lives) \in Games
           /\ ~NewGame(s, shells, lives).locked /\ ~NewGame(s, shells, lives).goal
  <1>1. World(s) \in Worlds
    <2>1. \A a \in Actors : Fresh(a) \in Conditions \ Gone
      BY DEF Fresh, Conditions, Gone
    <2>2. \A a \in Shells : Fresh(a) = "alive"
      BY DEF Fresh, Shells
    <2>3. World(s) \in [Actors -> Conditions]
      BY <2>1 DEF World, Conditions
    <2>4. \A a \in Shells : World(s)[a] \in {"alive", "fading", "absent"}
      BY <2>2 DEF World, Shells
    <2> QED
      BY <2>3, <2>4 DEF Worlds
  <1>2. MaxHp \in 0 .. MaxHp /\ 0 \in 0 .. MirrorEvery - 1
    BY PlatformerAssumption
  <1> QED
    BY <1>1, <1>2 DEF NewGame, Games

-----------------------------------------------------------------------------
(* The steps *)

\* After a frame the screen still belongs to the run.
LEMMA TickStep == ASSUME PlatformerIInv, Tick PROVE PlatformerIInv'
  <1> USE DEF PlatformerIInv
  <1>1. PICK seen, after, end : Framed(seen, after, end)
    <2>1. PICK due, hit, touched, stomp, expired, place :
              /\ due \in {"none"} \cup Actors /\ hit \in BOOLEAN
              /\ Frame(due, hit, touched, stomp, expired, place)
      BY DEF Tick, Timed
    <2> QED
      BY <2>1, FrameShape
  <1>2. /\ Live /\ game' = end /\ game \in Games
        /\ UNCHANGED <<mounted, list, stageIndex, failed, cur, phase, apps, listening>>
        /\ bgm' = IF end.goal /\ ~game.goal THEN 0 ELSE bgm
        /\ arrived' = (arrived \/ Announces(end.goal /\ ~game.goal))
    BY <1>1 DEF Framed, Shown, Tick
  <1>3. /\ seen \in Games /\ after \in Games /\ end \in Games
        /\ seen.goal = game.goal /\ seen.locked = game.locked
    BY <1>1 DEF Framed, Plays, Ends
  <1>4. \/ after = seen
        \/ after.goal /\ after.locked /\ ~game.goal
    BY <1>1, <1>3 DEF Framed, Games
  <1>5. \/ end = after
        \/ ~after.goal /\ ~after.locked /\ ~end.goal /\ end.locked /\ end.lives = 0
        \/ ~after.goal /\ ~after.locked /\ ~end.goal /\ ~end.locked
    <2>1. after.lives \in Nat
      BY <1>3 DEF Games
    <2> QED
      BY <1>1, <2>1 DEF Framed, Ends
  <1>6. status' = CASE end.goal /\ ~game.goal -> "cleared"
                    [] end.locked /\ ~after.locked -> "gameover"
                    [] OTHER -> status
    BY <1>1 DEF Framed, Shown
  <1>7. {game.goal, game.locked, seen.goal, seen.locked, after.goal, after.locked,
         end.goal, end.locked} \subseteq BOOLEAN
    BY <1>2, <1>3 DEF Games
  <1>8. \/ /\ end.goal /\ ~game.goal /\ end.locked /\ status' = "cleared"
        \/ /\ ~end.goal /\ ~game.goal /\ ~game.locked /\ end.locked /\ end.lives = 0 /\ status' = "gameover"
        \/ /\ end.goal = game.goal /\ status' = status /\ ~end.locked /\ ~game.locked
        \/ /\ end.goal = game.goal /\ status' = status /\ end.locked /\ game.locked
           /\ end.lives = game.lives
    <2>1. game.locked => seen.lives = game.lives
      BY <1>1 DEF Framed
    <2> QED
      BY <1>3, <1>4, <1>5, <1>6, <1>7, <2>1
  <1>9. Live' /\ (IsFinalStage' <=> IsFinalStage)
    BY <1>2 DEF Live, IsFinalStage
  <1>10. HostOK'
    BY <1>2, <1>8, <1>7 DEF HostOK
  <1>11. EngineOK' /\ game' \in Games
    <2>1. 0 \in 0 .. MaxRuns
      BY PlatformerAssumption
    <2> QED
      BY <1>2, <1>3, <2>1 DEF EngineOK
  <1>12. OneRun'
    BY <1>2, <1>9 DEF OneRun
  <1>13. ScreenMatchesRun'
    BY <1>2, <1>7, <1>8, <1>9 DEF ScreenMatchesRun
  <1>14. ChatMeansArrived'
    BY <1>2, <1>8, <1>9 DEF ChatMeansArrived, Announces
  <1>15. StaleRunsAreSilent'
    BY <1>2, <1>8, <1>9 DEF StaleRunsAreSilent
  <1> QED
    BY <1>10, <1>11, <1>12, <1>13, <1>14, <1>15

\* The run on screen goes, and another is on its way or there is none.
LEMMA RerunStep ==
    ASSUME PlatformerIInv, NEW i \in Stages, NEW n \in Stages, Rerun(i, n),
           mounted, mounted' = mounted, failed' = failed
    PROVE  /\ EngineOK' /\ game' \in Games /\ OneRun' /\ ~Live'
           /\ ScreenMatchesRun' /\ ChatMeansArrived' /\ StaleRunsAreSilent'
  <1> USE DEF PlatformerIInv
  <1>1. /\ phase \in [Runs -> {"unborn", "init", "textures", "live", "gone", "failed"}]
        /\ MaxRuns \in Nat /\ Runs = 1 .. MaxRuns /\ cur \in {0} \cup Runs
    BY PlatformerAssumption DEF EngineOK, Runs
  <1>2. /\ Ended(phase) \in [Runs -> {"unborn", "init", "textures", "live", "gone", "failed"}]
        /\ \A r \in Runs : Ended(phase)[r] # "live"
    <2>1. CASE cur # 0 /\ phase[cur] = "live"
      <3>1. Ended(phase) = [phase EXCEPT ![cur] = "gone"] /\ cur \in Runs
        BY <1>1, <2>1 DEF Ended
      <3>2. \A r \in Runs : Ended(phase)[r] = IF r = cur THEN "gone" ELSE phase[r]
        BY <1>1, <3>1
      <3> QED
        BY <1>1, <3>1, <3>2 DEF OneRun
    <2>2. CASE ~(cur # 0 /\ phase[cur] = "live")
      BY <1>1, <2>2 DEF Ended, OneRun
    <2> QED BY <2>1, <2>2
  <1>3. Freed \subseteq Runs
    BY DEF Freed, EngineOK
  <1>4. listening' = {} /\ bgm' = 0
    BY DEF Rerun, StaleRunsAreSilent
  <1>5. CASE failed
    <2>1. cur' = 0 /\ phase' = Ended(phase) /\ apps' = Freed /\ game' = game
      BY <1>5 DEF Rerun
    <2>2. ~Live'
      BY <2>1 DEF Live
    <2>3. EngineOK' /\ OneRun'
      BY <1>1, <1>2, <1>3, <1>4, <2>1, <2>2 DEF EngineOK, OneRun
    <2> QED
      BY <1>4, <2>1, <2>2, <2>3 DEF ScreenMatchesRun, ChatMeansArrived, StaleRunsAreSilent
  <1>6. CASE ~failed
    <2> DEFINE r == NextRun
    <2>1. /\ r \in Runs /\ cur' = r /\ phase' = [Ended(phase) EXCEPT ![r] = "init"]
          /\ apps' = Freed \cup {r} /\ game' = NewGame(StageAt(i, n), game.shells, game.lives)
      BY <1>6 DEF Rerun
    <2> HIDE DEF r
    <2>2. phase' \in [Runs -> {"unborn", "init", "textures", "live", "gone", "failed"}]
          /\ \A x \in Runs : phase'[x] # "live"
      BY <1>2, <2>1
    <2>3. ~Live'
      BY <2>1, <2>2 DEF Live
    <2>4. game' \in Games /\ ~game'.locked /\ ~game'.goal
      <3>1. game.shells \in 0 .. ShellsPerLife - 1 /\ game.lives \in Nat /\ StageAt(i, n) \in Stages
        BY StagesAre DEF Games
      <3> QED
        BY <2>1, <3>1, NewGameIs
    <2>5. EngineOK' /\ OneRun'
      BY <1>1, <1>3, <1>4, <1>6, <2>1, <2>2, <2>3, <2>4 DEF EngineOK, OneRun
    <2> QED
      BY <1>4, <2>3, <2>4, <2>5 DEF ScreenMatchesRun, ChatMeansArrived, StaleRunsAreSilent
  <1> QED BY <1>5, <1>6

\* An init that goes on, ends or fails.
LEMMA InitStep ==
    ASSUME PlatformerIInv, NEW r \in Runs, AppReady(r) \/ TexturesReady(r) \/ InitFails(r)
    PROVE  PlatformerIInv'
  <1> USE DEF PlatformerIInv
  <1>1. /\ phase \in [Runs -> {"unborn", "init", "textures", "live", "gone", "failed"}]
        /\ r # 0 /\ r \in 0 .. MaxRuns /\ apps \subseteq Runs /\ listening \subseteq Runs
        /\ cur \in 0 .. MaxRuns /\ bgm \in 0 .. MaxRuns /\ 0 \in 0 .. MaxRuns
        /\ cur # 0 => cur \in Runs
    BY PlatformerAssumption DEF EngineOK, Runs
  <1>2. CASE AppReady(r)
    <2>1. PICK ph \in {"gone", "textures"} : phase' = [phase EXCEPT ![r] = ph]
      BY <1>2 DEF AppReady
    <2>2. /\ phase[r] = "init" /\ apps' \subseteq apps
          /\ UNCHANGED <<mounted, list, stageIndex, status, failed, arrived, cur, listening, bgm, game>>
      BY <1>2 DEF AppReady, host
    <2>3. /\ phase' \in [Runs -> {"unborn", "init", "textures", "live", "gone", "failed"}]
          /\ \A x \in Runs : phase'[x] = IF x = r THEN ph ELSE phase[x]
      BY <1>1, <2>1
    <2>4. Live' <=> Live
      BY <1>1, <2>2, <2>3 DEF Live, EngineOK, Runs
    <2>5. HostOK' /\ EngineOK'
      BY <1>1, <2>2, <2>3 DEF HostOK, EngineOK
    <2>6. OneRun'
      BY <1>1, <2>2, <2>3, <2>4 DEF OneRun
    <2> QED
      BY <2>2, <2>4, <2>5, <2>6
      DEF ScreenMatchesRun, ChatMeansArrived, StaleRunsAreSilent, IsFinalStage
  <1>3. CASE TexturesReady(r) /\ Cancelled(r)
    <2>1. /\ phase[r] = "textures" /\ phase' = [phase EXCEPT ![r] = "gone"] /\ r # cur
          /\ UNCHANGED <<mounted, list, stageIndex, status, failed, arrived, cur, apps, listening, bgm, game>>
      BY <1>3 DEF TexturesReady, Cancelled
    <2>2. /\ phase' \in [Runs -> {"unborn", "init", "textures", "live", "gone", "failed"}]
          /\ \A x \in Runs : phase'[x] = IF x = r THEN "gone" ELSE phase[x]
      BY <1>1, <2>1
    <2>3. Live' <=> Live
      BY <1>1, <2>1, <2>2 DEF Live, Runs
    <2>4. HostOK' /\ EngineOK'
      BY <1>1, <2>1, <2>2 DEF HostOK, EngineOK
    <2>5. OneRun'
      BY <1>1, <2>1, <2>2, <2>3 DEF OneRun, Runs
    <2> QED
      BY <2>1, <2>3, <2>4, <2>5
      DEF ScreenMatchesRun, ChatMeansArrived, StaleRunsAreSilent, IsFinalStage
  <1>4. CASE TexturesReady(r) /\ ~Cancelled(r)
    <2>1. /\ phase[r] = "textures" /\ phase' = [phase EXCEPT ![r] = "live"] /\ r = cur
          /\ listening' = listening \cup {r} /\ bgm' \in {0, r} /\ status' = "playing"
          /\ UNCHANGED <<mounted, list, stageIndex, failed, arrived, cur, apps, game>>
      BY <1>4 DEF TexturesReady, Cancelled
    <2>2. /\ phase' \in [Runs -> {"unborn", "init", "textures", "live", "gone", "failed"}]
          /\ \A x \in Runs : phase'[x] = IF x = r THEN "live" ELSE phase[x]
      BY <1>1, <2>1
    <2>3. ~Live /\ Live' /\ listening = {}
      BY <1>1, <2>1, <2>2 DEF Live, StaleRunsAreSilent
    <2>4. ~game.locked /\ ~game.goal /\ ~failed
      BY <1>1, <2>1, <2>3 DEF OneRun
    <2>5. HostOK' /\ EngineOK'
      BY <1>1, <2>1, <2>2 DEF HostOK, EngineOK
    <2>6. OneRun'
      BY <1>1, <2>1, <2>2, <2>3, <2>4 DEF OneRun
    <2> QED
      BY <1>1, <2>1, <2>3, <2>4, <2>5, <2>6
      DEF ScreenMatchesRun, ChatMeansArrived, StaleRunsAreSilent
  <1>5. CASE InitFails(r)
    <2>1. /\ phase[r] \in {"init", "textures"} /\ phase' = [phase EXCEPT ![r] = "failed"]
          /\ failed' = (failed \/ r = cur) /\ apps' \subseteq apps
          /\ UNCHANGED <<mounted, list, stageIndex, status, arrived, cur, listening, bgm, game>>
      BY <1>5 DEF InitFails, Cancelled
    <2>2. /\ phase' \in [Runs -> {"unborn", "init", "textures", "live", "gone", "failed"}]
          /\ \A x \in Runs : phase'[x] = IF x = r THEN "failed" ELSE phase[x]
      BY <1>1, <2>1
    <2>3. (Live' <=> Live) /\ (r = cur => ~Live)
      BY <1>1, <2>1, <2>2 DEF Live, Runs
    <2>4. HostOK' /\ EngineOK'
      BY <1>1, <2>1, <2>2 DEF HostOK, EngineOK
    <2>5. OneRun'
      BY <1>1, <2>1, <2>2, <2>3 DEF OneRun
    <2> QED
      BY <2>1, <2>3, <2>4, <2>5
      DEF ScreenMatchesRun, ChatMeansArrived, StaleRunsAreSilent, IsFinalStage
  <1> QED
    BY <1>2, <1>3, <1>4, <1>5

\* What the view does: the list, the dialogs, leaving and coming back.
LEMMA ViewStep ==
    ASSUME PlatformerIInv,
           \/ \E n \in Stages : ListArrives(n)
           \/ HandleNextStage \/ HandleStartChat \/ HandleRetry \/ Leave \/ Visit
    PROVE  PlatformerIInv'
  <1> USE DEF PlatformerIInv
  <1>1. ASSUME NEW n \in Stages, ListArrives(n) PROVE PlatformerIInv'
    <2>1. /\ mounted /\ list' = n /\ Rerun(stageIndex, n)
          /\ UNCHANGED <<mounted, stageIndex, status, failed, arrived>>
      BY <1>1 DEF ListArrives
    <2>2. HostOK'
      BY <2>1 DEF HostOK
    <2>3. stageIndex \in Stages
      BY DEF HostOK
    <2> QED
      BY <2>1, <2>2, <2>3, RerunStep
  <1>2. CASE HandleNextStage
    <2>1. /\ mounted /\ stageIndex < list /\ stageIndex' = stageIndex + 1
          /\ Rerun(stageIndex + 1, list) /\ status' = "loading"
          /\ UNCHANGED <<mounted, list, failed, arrived>>
      <3>1. stageIndex \in Nat /\ list \in Nat
        BY StagesAre DEF HostOK
      <3> QED
        BY <1>2, <3>1 DEF HandleNextStage, IsFinalStage
    <2>2. stageIndex + 1 \in Stages /\ list \in Stages
      BY <2>1, StagesAre DEF HostOK
    <2>3. HostOK'
      BY <2>1, <2>2 DEF HostOK
    <2> QED
      BY <2>1, <2>2, <2>3, RerunStep
  <1>3. CASE HandleStartChat
    <2>1. /\ status = "cleared" /\ ~failed /\ IsFinalStage /\ status' = "playing"
          /\ UNCHANGED <<mounted, list, stageIndex, failed, arrived, cur, phase, apps, listening, bgm, game>>
      BY <1>3 DEF HandleStartChat, engine
    <2>2. (Live' <=> Live) /\ (IsFinalStage' <=> IsFinalStage)
      BY <2>1 DEF Live, IsFinalStage
    <2>3. HostOK' /\ EngineOK' /\ OneRun'
      BY <2>1, <2>2 DEF HostOK, EngineOK, OneRun
    <2> QED
      BY <2>1, <2>2, <2>3 DEF ScreenMatchesRun, ChatMeansArrived, StaleRunsAreSilent
  <1>4. CASE HandleRetry
    <2>1. /\ Live /\ status' = "playing"
          /\ game' = [Respawn(game) EXCEPT !.lives = StartLives, !.shells = 0,
                                     !.goal = FALSE, !.checkpoint = FALSE]
          /\ UNCHANGED <<mounted, list, stageIndex, failed, arrived, cur, phase, apps, listening, bgm>>
      BY <1>4 DEF HandleRetry, engine
    <2>2. game' \in Games /\ ~game'.locked /\ ~game'.goal
      <3>1. StartLives \in Nat /\ 0 \in 0 .. ShellsPerLife - 1 /\ MaxHp \in 0 .. MaxHp
        BY PlatformerAssumption
      <3>2. game' = [game EXCEPT !.iframe = TRUE, !.locked = FALSE, !.hp = MaxHp, !.hud = MaxHp,
                           !.lives = StartLives, !.shells = 0, !.goal = FALSE, !.checkpoint = FALSE]
        BY <2>1 DEF Respawn, NotifyHp, Games
      <3> QED
        BY <3>1, <3>2 DEF Games
    <2>3. Live' /\ HostOK' /\ EngineOK'
      BY <2>1 DEF HostOK, EngineOK, Live
    <2>4. OneRun'
      BY <2>1, <2>3 DEF OneRun
    <2> QED
      BY <2>1, <2>2, <2>3, <2>4 DEF ScreenMatchesRun, ChatMeansArrived, StaleRunsAreSilent
  <1>5. CASE Leave
    <2>1. /\ cur' = 0 /\ mounted' = FALSE /\ list' = 0 /\ stageIndex' = 1 /\ status' = "loading"
          /\ failed' = FALSE /\ arrived' = FALSE /\ game' = NewGame(1, 0, StartLives)
          /\ phase' = Ended(phase) /\ apps' = Freed /\ listening' = listening \ {cur} /\ bgm' = 0
      BY <1>5 DEF Leave, Destroy
    <2>2. game' \in Games
      <3>1. StartLives \in Nat /\ 0 \in 0 .. ShellsPerLife - 1
        BY PlatformerAssumption
      <3> QED
        BY <2>1, <3>1, StagesAre, NewGameIs
    <2>3. ~Live' /\ HostOK'
      BY <2>1, StagesAre DEF Live, HostOK
    <2>4. /\ phase' \in [Runs -> {"unborn", "init", "textures", "live", "gone", "failed"}]
          /\ \A r \in Runs : phase'[r] # "live"
      <3>1. phase \in [Runs -> {"unborn", "init", "textures", "live", "gone", "failed"}]
        BY DEF EngineOK
      <3>2. \A r \in Runs : r # cur => phase[r] # "live"
        BY DEF OneRun
      <3>3. \A r \in Runs : r # 0
        BY PlatformerAssumption DEF Runs
      <3> QED
        BY <2>1, <3>1, <3>2, <3>3 DEF Ended
    <2>5. EngineOK' /\ OneRun'
      <3>1. 0 \in 0 .. MaxRuns
        BY PlatformerAssumption
      <3> QED
        BY <2>1, <2>3, <2>4, <3>1 DEF EngineOK, OneRun, Freed
    <2>6. listening' = {}
      BY <2>1 DEF StaleRunsAreSilent
    <2> QED
      BY <2>1, <2>2, <2>3, <2>5, <2>6 DEF ScreenMatchesRun, ChatMeansArrived, StaleRunsAreSilent
  <1>6. CASE Visit
    <2>1. /\ mounted' = TRUE
          /\ UNCHANGED <<list, stageIndex, status, failed, arrived, cur, phase, apps, listening, bgm, game>>
      BY <1>6 DEF Visit, engine
    <2>2. (Live' <=> Live) /\ (IsFinalStage' <=> IsFinalStage)
      BY <2>1 DEF Live, IsFinalStage
    <2>3. HostOK' /\ EngineOK' /\ OneRun'
      BY <2>1, <2>2 DEF HostOK, EngineOK, OneRun
    <2> QED
      BY <2>1, <2>2, <2>3 DEF ScreenMatchesRun, ChatMeansArrived, StaleRunsAreSilent
  <1> QED
    BY <1>1, <1>2, <1>3, <1>4, <1>5, <1>6

-----------------------------------------------------------------------------
(* The theorems *)

LEMMA PlatformerStep ==
    ASSUME PlatformerIInv, [PlatformerNext]_platformerVars PROVE PlatformerIInv'
  <1>1. CASE UNCHANGED platformerVars
    <2>1. UNCHANGED <<mounted, list, stageIndex, status, failed, arrived,
                      cur, phase, apps, listening, bgm, game>>
      BY <1>1 DEF platformerVars, host, engine
    <2> QED
      BY <2>1
      DEF PlatformerIInv, HostOK, EngineOK, OneRun, Live, IsFinalStage,
          ScreenMatchesRun, ChatMeansArrived, StaleRunsAreSilent
  <1>2. CASE PlatformerNext
    BY <1>2, TickStep, InitStep, ViewStep DEF PlatformerNext
  <1> QED BY <1>1, <1>2

LEMMA PlatformerStart == PlatformerInit => PlatformerIInv
  <1> SUFFICES ASSUME PlatformerInit PROVE PlatformerIInv
    OBVIOUS
  <1>1. /\ StartLives \in Nat /\ 0 \in 0 .. ShellsPerLife - 1 /\ 0 \in 0 .. MaxRuns
        /\ \A r \in Runs : r # 0
    BY PlatformerAssumption DEF Runs
  <1>2. game \in Games
    BY <1>1, StagesAre, NewGameIs DEF PlatformerInit
  <1> QED
    BY <1>1, <1>2, StagesAre
    DEF PlatformerInit, PlatformerIInv, HostOK, EngineOK, OneRun, Live,
        ScreenMatchesRun, ChatMeansArrived, StaleRunsAreSilent

\* The player is never left pinned without the dialog that frees it, the chat is
\* offered only after the arrival was announced, and a run that was left, however
\* late its init ends, neither plays music nor listens to the keys.
THEOREM PlatformerInvHolds == PlatformerSpec => []PlatformerInv
  <1>1. PlatformerIInv => PlatformerInv
    <2> SUFFICES ASSUME PlatformerIInv PROVE PlatformerInv
      OBVIOUS
    <2>1. game.hp \in 0 .. MaxHp /\ game.hud \in 0 .. MaxHp /\ game.lives \in Nat /\ game.shells \in 0 .. ShellsPerLife - 1
      BY DEF PlatformerIInv, Games
    <2> QED
      BY <2>1 DEF PlatformerIInv, PlatformerInv, PlatformerTypeOK, HostOK, EngineOK
  <1> QED
    BY <1>1, PlatformerStart, PlatformerStep, PTL DEF PlatformerSpec

\* Only Tick is a frame: the view's steps leave the run or the frame as it is.
LEMMA OnlyTickTicks ==
    ASSUME PlatformerIInv, PlatformerNext, Ticked PROVE Tick
  <1> USE DEF PlatformerIInv
  <1>1. /\ Live /\ cur' = cur /\ phase' = phase /\ game'.frame # game.frame /\ cur \in Runs
        /\ phase \in [Runs -> {"unborn", "init", "textures", "live", "gone", "failed"}]
    <2>1. cur \in 0 .. MaxRuns /\ MaxRuns \in Nat /\ cur # 0
      BY PlatformerAssumption DEF EngineOK, Ticked, Live
    <2> QED
      BY <2>1 DEF EngineOK, Ticked, Runs
  <1>2. ASSUME NEW i, NEW n, Rerun(i, n) PROVE FALSE
    <2>1. CASE failed
      BY <1>1, <1>2, <2>1 DEF Rerun, Live
    <2>2. CASE ~failed
      <3>1. /\ cur = NextRun
            /\ phase' = [Ended(phase) EXCEPT ![cur] = "init"]
        BY <1>1, <1>2, <2>2 DEF Rerun
      <3>2. Ended(phase) = [phase EXCEPT ![cur] = "gone"]
        BY <1>1 DEF Ended, Live
      <3>3. phase'[cur] = "init"
        BY <1>1, <3>1, <3>2
      <3> QED
        BY <1>1, <3>3 DEF Live
    <2> QED BY <2>1, <2>2
  <1>3. ASSUME NEW r \in Runs, AppReady(r) \/ TexturesReady(r) \/ InitFails(r) PROVE FALSE
    BY <1>1, <1>3 DEF AppReady, TexturesReady, InitFails
  <1>4. ASSUME NEW n \in Stages, ListArrives(n) PROVE FALSE
    BY <1>2, <1>4 DEF ListArrives
  <1>5. ~HandleNextStage
    BY <1>2 DEF HandleNextStage
  <1>6. ~HandleStartChat /\ ~Visit
    BY <1>1 DEF HandleStartChat, Visit
  <1>7. ~HandleRetry
    BY <1>1 DEF HandleRetry, Respawn, NotifyHp, Games
  <1>8. ~Leave
    BY <1>1 DEF Leave, Live
  <1> QED
    BY <1>3, <1>4, <1>5, <1>6, <1>7, <1>8 DEF PlatformerNext

\* Whatever the player meets in one frame, it costs at most one health point and
\* every shell is paid once; a death costs one life.
THEOREM FrameSettlesHolds == PlatformerSpec => FrameSettles
  <1>1. ASSUME PlatformerIInv, [PlatformerNext]_platformerVars, Ticked
        PROVE  OneHit /\ ShellsPay
    <2>1. Tick
      <3>1. ~UNCHANGED platformerVars
        BY <1>1 DEF Ticked, platformerVars
      <3> QED
        BY <1>1, <3>1, OnlyTickTicks
    <2>2. game \in Games
      BY <1>1 DEF PlatformerIInv
    <2>3. PICK seen, after, end : Framed(seen, after, end)
      <3>1. PICK due, hit, touched, stomp, expired, place :
                /\ due \in {"none"} \cup Actors /\ hit \in BOOLEAN
                /\ Frame(due, hit, touched, stomp, expired, place)
        BY <2>1 DEF Tick, Timed
      <3> QED
        BY <2>2, <3>1, FrameShape
    <2>4. /\ seen \in Games /\ after \in Games /\ end \in Games /\ game' = end
          /\ seen.hp >= game.hp - 1
          /\ Worth(seen) = Worth(game) + Cardinality(ShellsTaken(game.world, seen.world))
      BY <2>3 DEF Framed, Plays, Ends, Shown
    <2>5. after.hp = seen.hp /\ after.world = seen.world /\ after.shells = seen.shells /\ after.lives = seen.lives
      BY <2>3, <2>4 DEF Framed, Games
    <2>6. end.world = after.world /\ end.shells = after.shells
      BY <2>3 DEF Framed, Ends
    <2>7. {a \in Actors : Taken(a)} = ShellsTaken(game.world, seen.world)
      BY <2>4, <2>5, <2>6 DEF Taken, ShellsTaken, Shells
    <2> DEFINE earned == Worth(game) + Cardinality({a \in Actors : Taken(a)})
    <2>8. Worth(after) = earned
      BY <2>4, <2>5, <2>7 DEF Worth
    <2>9. /\ after.lives \in Nat /\ after.shells \in Nat /\ ShellsPerLife \in Nat
          /\ game.hp \in Nat /\ seen.hp \in Nat /\ end.lives \in Nat
      BY <2>2, <2>4, PlatformerAssumption DEF Games
    <2>10. \/ end = after
           \/ end.locked /\ end.lives = 0 /\ after.lives \in {0, 1}
           \/ end.hp = MaxHp /\ end.lives = after.lives - 1
      BY <2>3, <2>9 DEF Framed, Ends
    <2>11. OneHit
      BY <2>4, <2>5, <2>9, <2>10 DEF OneHit, Died
    <2>12. \/ Worth(end) = Worth(after)
           \/ Died /\ Worth(end) = Worth(after) - ShellsPerLife
      <3>1. CASE end.lives = after.lives
        BY <2>6, <3>1 DEF Worth
      <3>2. CASE end.lives = after.lives - 1 /\ Died
        <4>1. (after.lives - 1) * ShellsPerLife = after.lives * ShellsPerLife - ShellsPerLife
          BY <2>9
        <4>2. after.lives * ShellsPerLife \in Nat
          BY <2>9
        <4> QED
          BY <2>6, <2>9, <3>2, <4>1, <4>2 DEF Worth
      <3> QED
        BY <2>4, <2>9, <2>10, <3>1, <3>2 DEF Died
    <2>13. ShellsPay
      BY <2>4, <2>8, <2>12 DEF ShellsPay
    <2> QED
      BY <2>11, <2>13
  <1>2. /\ PlatformerIInv /\ [PlatformerNext]_platformerVars
        => [Ticked => OneHit /\ ShellsPay]_platformerVars
    BY <1>1
  <1> QED
    BY <1>2, PlatformerStart, PlatformerStep, PTL DEF PlatformerSpec, FrameSettles
=============================================================================
