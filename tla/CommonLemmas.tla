----------------------------- MODULE CommonLemmas -----------------------------
(***************************************************************************)
(* Lemmas about numbers, finite sets and lists that the proofs of several  *)
(* components need.  A recursive function is reasoned about by taking the  *)
(* least argument, or a smallest set, for which a claim fails.             *)
(***************************************************************************)
EXTENDS Lists, FiniteSetTheorems, SequenceTheorems, WellFoundedInduction, TLAPS

\* A set of natural numbers has a least one.
LEMMA LeastNumber ==
    ASSUME NEW B \in SUBSET Nat, B # {}
    PROVE  \E n \in B : \A m \in B : n <= m
  <1>1. PICK n \in B : \A m \in B : <<m, n>> \notin OpToRel(<, Nat)
    BY NatLessThanWellFounded, WFMin
  <1>2. OpToRel(<, Nat) = {ss \in Nat \X Nat : ss[1] < ss[2]}
    BY DEF OpToRel
  <1>3. \A m \in B : m \in Nat /\ n \in Nat /\ ~(m < n)
    BY <1>1, <1>2
  <1> QED
    BY <1>3

-----------------------------------------------------------------------------
(* Lists: what Without leaves *)

\* r holds members of the first n of s, in places of their own, that do not go.
Thins(r, s, n, gone, h) ==
    /\ h \in [1 .. Len(r) -> 1 .. n]
    /\ \A i, j \in 1 .. Len(r) : h[i] = h[j] => i = j
    /\ \A j \in 1 .. Len(r) : r[j] = s[h[j]] /\ r[j] \notin gone

LEMMA ThinsMore ==
    ASSUME NEW S, NEW s \in Seq(S), NEW n \in Nat, n + 1 \in 1 .. Len(s), NEW gone,
           NEW r \in Seq(S), NEW h, Thins(r, s, n, gone, h)
    PROVE  /\ Thins(r, s, n + 1, gone, h)
           /\ s[n + 1] \notin gone =>
                \E k : Thins(Append(r, s[n + 1]), s, n + 1, gone, k)
  <1>1. Len(r) \in Nat /\ \A j \in 1 .. Len(r) : h[j] \in 1 .. n
    BY DEF Thins
  <1>2. Thins(r, s, n + 1, gone, h)
    BY <1>1 DEF Thins
  <1>3. ASSUME s[n + 1] \notin gone
        PROVE  \E k : Thins(Append(r, s[n + 1]), s, n + 1, gone, k)
    <2> DEFINE a == Append(r, s[n + 1])
               k == [j \in 1 .. Len(r) + 1 |-> IF j = Len(r) + 1 THEN n + 1 ELSE h[j]]
    <2>1. /\ Len(a) = Len(r) + 1 /\ a[Len(r) + 1] = s[n + 1]
          /\ \A j \in 1 .. Len(r) : a[j] = r[j]
      OBVIOUS
    <2> HIDE DEF a
    <2>2. \A j \in 1 .. Len(r) + 1 : j \in 1 .. Len(r) \/ j = Len(r) + 1
      BY <1>1
    <2>3. /\ \A j \in 1 .. Len(r) : k[j] = h[j] /\ k[j] \in 1 .. n
          /\ k[Len(r) + 1] = n + 1
      BY <1>1
    <2>4. k \in [1 .. Len(a) -> 1 .. n + 1]
      BY <1>1, <2>1
    <2> HIDE DEF k
    <2>5. \A i, j \in 1 .. Len(a) : k[i] = k[j] => i = j
      BY <1>1, <2>1, <2>2, <2>3, SMTT(30) DEF Thins
    <2>6. \A j \in 1 .. Len(a) : a[j] = s[k[j]] /\ a[j] \notin gone
      BY <1>1, <1>3, <2>1, <2>2, <2>3 DEF Thins
    <2>7. Thins(a, s, n + 1, gone, k)
      BY <2>4, <2>5, <2>6 DEF Thins
    <2> QED
      BY <2>7 DEF a
  <1> QED
    BY <1>2, <1>3

\* The recursion of Without, step by step.
WithoutNext(r, a, gone) == IF a \in gone THEN r ELSE Append(r, a)
Unfolds(k, s, gone, n) ==
    /\ k = [i \in 0 .. n |-> k[i]]
    /\ k[0] = <<>>
    /\ \A i \in 1 .. n : k[i] = WithoutNext(k[i - 1], s[i], gone)

LEMMA WithoutUnfolds ==
    ASSUME NEW S, NEW s \in Seq(S), NEW gone
    PROVE  \E k : Without(s, gone) = k[Len(s)] /\ Unfolds(k, s, gone, Len(s))
  <1> DEFINE Body(k, i) == IF i = 0 THEN <<>>
                           ELSE IF s[i] \in gone THEN k[i - 1]
                           ELSE Append(k[i - 1], s[i])
             Is(k) == k = [i \in 0 .. Len(s) |-> Body(k, i)]
             kept == CHOOSE k : Is(k)
             B == {n \in 0 .. Len(s) : ~ \E k : Unfolds(k, s, gone, n)}
  <1>1. B = {}
    <2>1. SUFFICES ASSUME B # {} PROVE FALSE
      OBVIOUS
    <2>2. PICK n \in B : \A m \in B : n <= m
      <3>1. B \in SUBSET Nat
        OBVIOUS
      <3> HIDE DEF B
      <3> QED BY <2>1, <3>1, LeastNumber
    <2>3. n # 0
      <3>1. Unfolds([i \in 0 .. 0 |-> <<>>], s, gone, 0)
        BY DEF Unfolds
      <3> QED
        BY <3>1
    <2>4. n - 1 \in 0 .. Len(s) /\ n - 1 \notin B
      BY <2>2, <2>3
    <2>5. PICK k : Unfolds(k, s, gone, n - 1)
      BY <2>4
    <2> DEFINE x == WithoutNext(k[n - 1], s[n], gone)
               q == [i \in 0 .. n |-> IF i = n THEN x ELSE k[i]]
    <2>6. q[n] = x /\ \A i \in 0 .. n - 1 : q[i] = k[i]
      BY <2>3, <2>4
    <2>7. Unfolds(q, s, gone, n)
      <3>1. q = [i \in 0 .. n |-> q[i]]
        OBVIOUS
      <3> HIDE DEF q
      <3>2. q[0] = <<>>
        <4>1. 0 \in 0 .. n - 1
          BY <2>3, <2>4
        <4>2. k[0] = <<>>
          BY <2>5 DEF Unfolds
        <4> QED
          BY <2>6, <4>1, <4>2
      <3>3. ASSUME NEW i \in 1 .. n PROVE q[i] = WithoutNext(q[i - 1], s[i], gone)
        <4>1. q[i - 1] = k[i - 1]
          BY <2>4, <2>6
        <4>2. CASE i = n
          BY <2>6, <4>1, <4>2
        <4>3. CASE i # n
          <5>1. i \in 1 .. n - 1 /\ i \in 0 .. n - 1
            BY <2>4, <4>3
          <5> QED
            BY <2>5, <2>6, <4>1, <5>1 DEF Unfolds
        <4> QED BY <4>2, <4>3
      <3> QED
        BY <3>1, <3>2, <3>3 DEF Unfolds
    <2> QED
      BY <2>2, <2>7
  <1>2. PICK f : Unfolds(f, s, gone, Len(s))
    <2>1. Len(s) \in 0 .. Len(s)
      OBVIOUS
    <2> QED BY <1>1, <2>1
  <1>3. Is(f)
    <2>1. \A i \in 0 .. Len(s) : f[i] = Body(f, i)
      BY <1>2 DEF Unfolds, WithoutNext
    <2> QED
      BY <1>2, <2>1 DEF Unfolds
  <1> HIDE DEF Is
  <1>4. Is(kept)
    BY <1>3
  <1>5. Without(s, gone) = kept[Len(s)]
    BY DEF Without, Is
  <1> HIDE DEF kept
  <1>6. Unfolds(kept, s, gone, Len(s))
    <2>1. \A i \in 0 .. Len(s) : kept[i] = Body(kept, i)
      BY <1>4 DEF Is
    <2>2. kept = [i \in 0 .. Len(s) |-> kept[i]]
      BY <1>4 DEF Is
    <2> QED
      BY <2>1, <2>2 DEF Unfolds, WithoutNext
  <1> QED
    BY <1>5, <1>6

\* What Without leaves.
LEMMA WithoutIs ==
    ASSUME NEW S, NEW s \in Seq(S), NEW gone
    PROVE  /\ Without(s, gone) \in Seq(S)
           /\ \E h : Thins(Without(s, gone), s, Len(s), gone, h)
  <1>1. PICK k : Without(s, gone) = k[Len(s)] /\ Unfolds(k, s, gone, Len(s))
    BY WithoutUnfolds
  <1> DEFINE P(n) == k[n] \in Seq(S) /\ \E h : Thins(k[n], s, n, gone, h)
             B == {n \in 0 .. Len(s) : ~P(n)}
  <1>2. Len(s) \in Nat /\ \A i \in 1 .. Len(s) : s[i] \in S
    OBVIOUS
  <1>3. B = {}
    <2>1. SUFFICES ASSUME B # {} PROVE FALSE
      OBVIOUS
    <2>2. PICK n \in B : \A m \in B : n <= m
      <3>1. B \in SUBSET Nat
        OBVIOUS
      <3> HIDE DEF B
      <3> QED BY <2>1, <3>1, LeastNumber
    <2>3. n # 0
      <3>1. k[0] = <<>>
        BY <1>1 DEF Unfolds
      <3>2. Thins(<<>>, s, 0, gone, <<>>)
        BY DEF Thins
      <3>3. P(0)
        BY <3>1, <3>2
      <3> QED
        BY <2>2, <3>3
    <2>4. /\ n - 1 \in 0 .. Len(s) /\ n - 1 \notin B /\ n \in 1 .. Len(s)
          /\ n - 1 \in Nat /\ n - 1 + 1 = n
      <3>1. n \in 0 .. Len(s)
        OBVIOUS
      <3>2. /\ n \in 1 .. Len(s) /\ n - 1 \in 0 .. Len(s) /\ ~(n <= n - 1)
            /\ n - 1 \in Nat /\ n - 1 + 1 = n
        BY <1>2, <2>3, <3>1
      <3> QED
        BY <2>2, <3>2
    <2>5. k[n - 1] \in Seq(S)
      BY <2>4
    <2>6. PICK h : Thins(k[n - 1], s, n - 1, gone, h)
      BY <2>4
    <2>7. /\ Thins(k[n - 1], s, n, gone, h)
          /\ s[n] \notin gone => \E g : Thins(Append(k[n - 1], s[n]), s, n, gone, g)
      <3> DEFINE m == n - 1
                 r == k[m]
      <3>1. m \in Nat /\ m + 1 = n /\ m + 1 \in 1 .. Len(s) /\ r \in Seq(S)
            /\ Thins(r, s, m, gone, h)
        BY <2>4, <2>5, <2>6
      <3> HIDE DEF m, r
      <3>2. /\ Thins(r, s, m + 1, gone, h)
            /\ s[m + 1] \notin gone => \E g : Thins(Append(r, s[m + 1]), s, m + 1, gone, g)
        BY <3>1, ThinsMore
      <3> QED
        BY <3>1, <3>2 DEF m, r
    <2>8. k[n] = WithoutNext(k[n - 1], s[n], gone)
      BY <1>1, <2>4 DEF Unfolds
    <2>9. P(n)
      BY <1>2, <2>4, <2>5, <2>7, <2>8 DEF WithoutNext
    <2> QED
      BY <2>2, <2>9
  <1>4. P(Len(s))
    BY <1>2, <1>3
  <1> QED
    BY <1>1, <1>4

\* Nothing stays of a sequence all of which goes.
LEMMA WithoutAll ==
    ASSUME NEW S, NEW s \in Seq(S), NEW gone, \A i \in 1 .. Len(s) : s[i] \in gone
    PROVE  Without(s, gone) = <<>>
  <1> DEFINE r == Without(s, gone)
  <1>1. r \in Seq(S) /\ \E h : Thins(r, s, Len(s), gone, h)
    BY WithoutIs
  <1> HIDE DEF r
  <1>2. PICK h : Thins(r, s, Len(s), gone, h)
    BY <1>1
  <1>3. ~(1 \in 1 .. Len(r))
    <2>1. SUFFICES ASSUME 1 \in 1 .. Len(r) PROVE FALSE
      OBVIOUS
    <2>2. h[1] \in 1 .. Len(s) /\ r[1] = s[h[1]] /\ r[1] \notin gone
      BY <2>1, <1>2 DEF Thins
    <2> QED
      BY <2>2
  <1>4. Len(r) = 0
    BY <1>1, <1>3
  <1> QED
    BY <1>1, <1>4 DEF r

-----------------------------------------------------------------------------
(* Sums over finite sets *)

\* The element the fold takes next out of a set.
FirstOut(s) == CHOOSE x \in s : TRUE

\* What the fold says of a set of elements with weights w, when g is its value
\* on the smaller sets; and that g is so on every subset of S.
Body(w, g, U) == IF U = {} THEN 0 ELSE w[FirstOut(U)] + g[U \ {FirstOut(U)}]
Sums(g, w, S) == \A U \in SUBSET S : g[U] = Body(w, g, U)

Ints(w, S) == \A x \in S : w[x] \in Int
Agree(w, v, S) == \A x \in S : w[x] = v[x]

\* Whichever element is taken out, its weight is what the rest lacks.
Removes(g, w, S) ==
    \A U \in SUBSET S : g[U] \in Int /\ \A x \in U : g[U] = w[x] + g[U \ {x}]

\* A family of subsets of a finite set has a smallest member.
LEMMA SmallestSet ==
    ASSUME NEW S, IsFiniteSet(S), NEW B \in SUBSET (SUBSET S), B # {}
    PROVE  \E T \in B : \A U \in B : U \subseteq T => U = T
  <1>1. IsWellFoundedOn(StrictSubsetOrdering(S), SUBSET S)
    BY FS_FiniteSubsetsOfFinite, FS_StrictSubsetOrderingWellFounded
  <1>2. PICK T \in B : \A U \in B : <<U, T>> \notin StrictSubsetOrdering(S)
    BY <1>1, WFMin
  <1> QED
    BY <1>2 DEF StrictSubsetOrdering

\* A set that is not empty has an element to take.
LEMMA FirstOutIn == ASSUME NEW U, U # {} PROVE FirstOut(U) \in U
  BY DEF FirstOut

\* Two sums with the same weights have the same values.
LEMMA SumsAgree ==
    ASSUME NEW S, IsFiniteSet(S), NEW T, T \subseteq S, NEW w, NEW v, NEW g, NEW h,
           Sums(g, w, S), Sums(h, v, T), Agree(w, v, T)
    PROVE  Agree(g, h, SUBSET T)
  <1> DEFINE B == {U \in SUBSET T : g[U] # h[U]}
  <1>1. SUFFICES ASSUME B # {} PROVE FALSE
    BY DEF Agree
  <1>2. PICK U \in B : \A V \in B : V \subseteq U => V = U
    <2>1. B \in SUBSET (SUBSET S)
      OBVIOUS
    <2> HIDE DEF B
    <2> QED BY <1>1, <2>1, SmallestSet
  <1>3. U # {}
    BY <1>2 DEF Sums, Body
  <1> DEFINE x == FirstOut(U)
             V == U \ {x}
  <1>4. x \in U
    BY <1>3, FirstOutIn
  <1>5. g[V] = h[V]
    BY <1>2, <1>4
  <1>6. g[U] = w[x] + g[V] /\ h[U] = v[x] + h[V]
    BY <1>3 DEF Sums, Body
  <1> QED
    BY <1>4, <1>5, <1>6 DEF Agree

\* There is a function that is the sum of every subset of a finite set.
LEMMA SumsExist ==
    ASSUME NEW S, IsFiniteSet(S), NEW w
    PROVE  \E g : g = [U \in SUBSET S |-> Body(w, g, U)]
  <1> DEFINE Good(T, g) == g = [U \in SUBSET T |-> Body(w, g, U)]
             B == {T \in SUBSET S : ~\E g : Good(T, g)}
  <1>1. SUFFICES ASSUME B # {} PROVE FALSE
    OBVIOUS
  <1>2. PICK T \in B : \A V \in B : V \subseteq T => V = T
    <2>1. B \in SUBSET (SUBSET S)
      OBVIOUS
    <2> HIDE DEF B
    <2> QED BY <1>1, <2>1, SmallestSet
  <1>a. \A V \in SUBSET T : V # T => \E g : Good(V, g)
    BY <1>2
  <1> DEFINE F(V) == CHOOSE g : Good(V, g)
             \* the value at a proper subset
             val(V) == F(V)[V]
  <1>3. \A V \in SUBSET T : V # T => Good(V, F(V))
    BY <1>a
  <1> HIDE DEF F
  <1>b. ASSUME NEW V \in SUBSET T, V # T, NEW U \in SUBSET V
        PROVE  val(U) = F(V)[U]
    <2>1. Good(V, F(V)) /\ Good(U, F(U))
      BY <1>3, <1>b
    <2>2. Sums(F(V), w, V) /\ Sums(F(U), w, U)
      BY <2>1 DEF Sums
    <2>3. IsFiniteSet(V)
      BY FS_Subset
    <2>4. \A W \in SUBSET U : F(V)[W] = F(U)[W]
      BY <2>2, <2>3, SumsAgree DEF Agree
    <2> QED BY <2>4
  <1> DEFINE f == [V \in SUBSET T |-> IF V # T THEN val(V)
                      ELSE IF T = {} THEN 0 ELSE w[FirstOut(T)] + val(T \ {FirstOut(T)})]
  <1>4. ASSUME NEW V \in SUBSET T
        PROVE  f[V] = Body(w, f, V)
    <2>1. CASE V = {}
      <3>1. CASE V = T
        BY <2>1, <3>1 DEF Body
      <3>2. CASE V # T
        <4>1. Good(V, F(V))
          BY <1>3, <3>2
        <4>2. F(V)[V] = Body(w, F(V), V)
          BY <4>1
        <4> QED BY <2>1, <3>2, <4>2 DEF Body
      <3> QED BY <3>1, <3>2
    <2>2. CASE V # {}
      <3> DEFINE W == V \ {FirstOut(V)}
      <3>0. FirstOut(V) \in V
        BY <2>2, FirstOutIn
      <3>1. W \in SUBSET T /\ W # T /\ W \in SUBSET V
        BY <3>0
      <3>2. f[W] = val(W)
        BY <3>1
      <3>3. CASE V = T
        BY <2>2, <3>2, <3>3 DEF Body
      <3>4. CASE V # T
        <4>1. f[V] = F(V)[V]
          BY <3>4
        <4>2. Good(V, F(V))
          BY <1>3, <3>4
        <4>3. F(V)[V] = Body(w, F(V), V)
          BY <4>2
        <4>4. F(V)[V] = w[FirstOut(V)] + F(V)[W]
          BY <4>3, <2>2 DEF Body
        <4>5. val(W) = F(V)[W]
          BY <1>b, <3>1, <3>4
        <4> QED
          BY <2>2, <3>2, <4>1, <4>4, <4>5 DEF Body
      <3> QED BY <3>3, <3>4
    <2> QED BY <2>1, <2>2
  <1>5. f = [U \in SUBSET T |-> Body(w, f, U)]
    <2> HIDE DEF val
    <2> QED BY <1>4
  <1>6. Good(T, f)
    BY <1>5
  <1> QED
    BY <1>2, <1>6

\* The order in which the fold takes the elements does not matter.
LEMMA SumsRemove ==
    ASSUME NEW S, IsFiniteSet(S), NEW w, NEW g, Sums(g, w, S), Ints(w, S)
    PROVE  Removes(g, w, S)
  <1> USE DEF Ints
  <1>0. \A U \in SUBSET S : g[U] \in Int
    <2> DEFINE B == {U \in SUBSET S : g[U] \notin Int}
    <2>1. SUFFICES ASSUME B # {} PROVE FALSE
      OBVIOUS
    <2>2. PICK U \in B : \A V \in B : V \subseteq U => V = U
      <3>1. B \in SUBSET (SUBSET S)
        OBVIOUS
      <3> HIDE DEF B
      <3> QED BY <2>1, <3>1, SmallestSet
    <2>3. U # {}
      <3>1. g[{}] = 0
        BY DEF Sums, Body
      <3>2. g[U] \notin Int
        BY <2>2
      <3> QED BY <3>1, <3>2
    <2>4. FirstOut(U) \in U /\ U \ {FirstOut(U)} # U
      BY <2>3, FirstOutIn
    <2>5. g[U \ {FirstOut(U)}] \in Int
      BY <2>2, <2>4
    <2>6. g[U] = w[FirstOut(U)] + g[U \ {FirstOut(U)}]
      BY <2>3 DEF Sums, Body
    <2> QED BY <2>2, <2>4, <2>5, <2>6
  <1> DEFINE B == {U \in SUBSET S : \E x \in U : g[U] # w[x] + g[U \ {x}]}
  <1>1. SUFFICES ASSUME B # {} PROVE FALSE
    BY <1>0 DEF Removes
  <1>2. PICK U \in B : \A V \in B : V \subseteq U => V = U
    <2>1. B \in SUBSET (SUBSET S)
      OBVIOUS
    <2> HIDE DEF B
    <2> QED BY <1>1, <2>1, SmallestSet
  <1>3. PICK x \in U : g[U] # w[x] + g[U \ {x}]
    BY <1>2
  <1> DEFINE y == FirstOut(U)
  <1>4. y \in U /\ g[U] = w[y] + g[U \ {y}]
    BY <1>3, FirstOutIn DEF Sums, Body
  <1>5. x # y
    BY <1>3, <1>4
  <1>6. U \ {y} \in SUBSET S /\ U \ {y} \notin B /\ x \in U \ {y}
    BY <1>2, <1>4, <1>5
  <1>7. U \ {x} \in SUBSET S /\ U \ {x} \notin B /\ y \in U \ {x}
    BY <1>2, <1>4, <1>5
  <1>8. (U \ {y}) \ {x} = (U \ {x}) \ {y}
    OBVIOUS
  <1> DEFINE W == (U \ {x}) \ {y}
  <1>9. g[U \ {y}] = w[x] + g[W] /\ g[U \ {x}] = w[y] + g[W]
    BY <1>6, <1>7, <1>8
  <1>10. W \in SUBSET S /\ g[W] \in Int /\ w[x] \in Int /\ w[y] \in Int
    BY <1>0, <1>4
  <1> HIDE DEF W, y
  <1> QED
    BY <1>3, <1>4, <1>9, <1>10


\* One element more adds its weight.
LEMMA SumsAdd ==
    ASSUME NEW S, IsFiniteSet(S), NEW e, e \notin S, NEW w, NEW v, NEW g, NEW h,
           Sums(g, w, S \cup {e}), Sums(h, v, S),
           Agree(w, v, S), Ints(w, S \cup {e})
    PROVE  g[S \cup {e}] = w[e] + h[S] /\ h[S] \in Int
  <1>1. IsFiniteSet(S \cup {e})
    BY FS_AddElement
  <1>2. Removes(g, w, S \cup {e})
    BY <1>1, SumsRemove, Zenon
  <1>3. (S \cup {e}) \ {e} = S
    OBVIOUS
  <1>4. g[S] = h[S]
    <2>1. S \subseteq S \cup {e}
      OBVIOUS
    <2>2. Agree(g, h, SUBSET S)
      BY <1>1, <2>1, SumsAgree, Zenon
    <2> QED BY <2>2 DEF Agree
  <1>5. g[S \cup {e}] = w[e] + g[S] /\ g[S] \in Int
    BY <1>2, <1>3 DEF Removes
  <1> QED
    BY <1>4, <1>5

\* The sum of the weights w over S, as the community modules' fold computes it.
SumOf(w, S) == LET g == CHOOSE f : f = [U \in SUBSET S |-> Body(w, f, U)] IN g[S]

\* The fold is a sum in the sense above.
LEMMA SumOfSums ==
    ASSUME NEW S, IsFiniteSet(S), NEW w
    PROVE  \E g : Sums(g, w, S) /\ SumOf(w, S) = g[S]
  <1> DEFINE g == CHOOSE f : f = [U \in SUBSET S |-> Body(w, f, U)]
  <1>1. g = [U \in SUBSET S |-> Body(w, g, U)]
    BY SumsExist
  <1>2. Sums(g, w, S)
    <2> HIDE DEF g
    <2> QED BY <1>1 DEF Sums
  <1> QED
    BY <1>2 DEF SumOf

\* The sum of a set with one element more.
LEMMA SumOfAdd ==
    ASSUME NEW S, IsFiniteSet(S), NEW e, e \notin S, NEW w, NEW v,
           Agree(w, v, S), Ints(w, S \cup {e})
    PROVE  SumOf(w, S \cup {e}) = w[e] + SumOf(v, S) /\ SumOf(v, S) \in Int
  <1>1. PICK h : Sums(h, v, S) /\ SumOf(v, S) = h[S]
    BY SumOfSums
  <1>2. IsFiniteSet(S \cup {e})
    BY FS_AddElement
  <1>3. PICK g : Sums(g, w, S \cup {e}) /\ SumOf(w, S \cup {e}) = g[S \cup {e}]
    BY <1>2, SumOfSums
  <1>4. g[S \cup {e}] = w[e] + h[S] /\ h[S] \in Int
    BY <1>1, <1>3, SumsAdd, Zenon
  <1> QED
    BY <1>1, <1>3, <1>4

\* The sum of nothing.
LEMMA SumOfEmpty == ASSUME NEW w PROVE SumOf(w, {}) = 0
  <1>1. PICK g : Sums(g, w, {}) /\ SumOf(w, {}) = g[{}]
    BY SumOfSums, FS_EmptySet
  <1> QED
    BY <1>1 DEF Sums, Body

\* A sum of natural numbers is one, and none of them exceeds it.
LEMMA SumOfNat ==
    ASSUME NEW S, IsFiniteSet(S), NEW w, \A x \in S : w[x] \in Nat
    PROVE  SumOf(w, S) \in Nat /\ \A x \in S : w[x] <= SumOf(w, S)
  <1>1. PICK g : Sums(g, w, S) /\ SumOf(w, S) = g[S]
    BY SumOfSums
  <1>2. Removes(g, w, S)
    <2>1. Ints(w, S)
      BY DEF Ints
    <2> QED BY <1>1, <2>1, SumsRemove, Zenon
  <1> DEFINE B == {U \in SUBSET S : g[U] \notin Nat}
  <1>3. B = {}
    <2>1. SUFFICES ASSUME B # {} PROVE FALSE
      OBVIOUS
    <2>2. PICK U \in B : \A V \in B : V \subseteq U => V = U
      <3>1. B \in SUBSET (SUBSET S)
        OBVIOUS
      <3> HIDE DEF B
      <3> QED BY <2>1, <3>1, SmallestSet
    <2>3. U # {}
      <3>1. g[{}] = 0
        BY <1>1 DEF Sums, Body
      <3>2. g[U] \notin Nat
        BY <2>2
      <3> QED BY <3>1, <3>2
    <2>4. PICK x \in U : g[U] = w[x] + g[U \ {x}]
      BY <1>2, <2>3 DEF Removes
    <2>5. U \ {x} \in SUBSET S /\ U \ {x} \notin B /\ w[x] \in Nat
      BY <2>2
    <2>6. g[U \ {x}] \in Nat
      BY <2>5
    <2>7. g[U] \notin Nat
      BY <2>2
    <2> HIDE DEF B
    <2> QED BY <2>4, <2>5, <2>6, <2>7
  <1>4. ASSUME NEW x \in S PROVE w[x] <= g[S]
    <2>1. g[S] = w[x] + g[S \ {x}]
      BY <1>2 DEF Removes
    <2>2. g[S \ {x}] \in Nat
      <3>1. S \ {x} \in SUBSET S
        OBVIOUS
      <3> QED BY <1>3, <3>1
    <2> QED BY <2>1, <2>2
  <1> QED
    BY <1>1, <1>3, <1>4

-----------------------------------------------------------------------------
(* Numbers: quotient and remainder *)

LEMMA DivMod ==
    ASSUME NEW H \in Nat \ {0}, NEW a \in Nat
    PROVE  a = H * (a \div H) + (a % H) /\ a % H \in 0 .. H - 1 /\ a \div H \in Nat
  OBVIOUS

\* Below W rows of H there are W quotients.
LEMMA DivBound ==
    ASSUME NEW H \in Nat \ {0}, NEW W \in Nat, NEW a \in Nat, a < W * H
    PROVE  a \div H \in 0 .. W - 1
  <1> DEFINE q == a \div H
  <1>1. a = H * q + (a % H) /\ a % H \in 0 .. H - 1 /\ q \in Nat
    BY DivMod
  <1> HIDE DEF q
  <1>2. CASE q >= W
    <2>1. H * q >= H * W
      BY <1>1, <1>2
    <2> QED BY <2>1, <1>1
  <1> QED BY <1>1, <1>2 DEF q

\* Quotient and remainder are the only ones.
LEMMA DivUnique ==
    ASSUME NEW H \in Nat \ {0}, NEW x \in Nat, NEW r \in 0 .. H - 1
    PROVE  (H * x + r) \div H = x /\ (H * x + r) % H = r
  <1> DEFINE a == H * x + r
             q == a \div H
             m == a % H
  <1>1. a \in Nat
    OBVIOUS
  <1>2. a = H * q + m /\ m \in 0 .. H - 1 /\ q \in Nat
    BY <1>1, DivMod
  <1>3. H * q + m = H * x + r
    BY <1>2
  <1> HIDE DEF a, q, m
  <1>4. CASE q > x
    <2>1. H * q >= H * (x + 1)
      BY <1>2, <1>4
    <2> QED BY <1>2, <1>3, <2>1
  <1>5. CASE q < x
    <2>1. H * x >= H * (q + 1)
      BY <1>2, <1>5
    <2> QED BY <1>2, <1>3, <2>1
  <1> QED BY <1>2, <1>3, <1>4, <1>5 DEF a, q, m
=============================================================================
