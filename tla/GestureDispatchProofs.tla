----------------------- MODULE GestureDispatchProofs -----------------------
(***************************************************************************)
(* The safety properties of GestureDispatch, and that a window implements  *)
(* GestureArena, for any widgets, recognizers, hit paths, filters and      *)
(* settings.                                                               *)
(*                                                                         *)
(* From the bottom up: what the fold over the events of one input does;    *)
(* what every built-in recognizer may answer (Sane); what the dispatcher   *)
(* makes of those answers (WonBy, KeptAt, WinnerLeft); what one event      *)
(* leaves (Good, Rested, Owned); and the steps.                            *)
(*                                                                         *)
(* WindowInv is inductive by itself: a kept arena is open, has a captain   *)
(* and its winner is one of its entries, a DoubleTap in an undecided arena *)
(* has a hold, and between presses nobody has won and no drag or long      *)
(* press is under way.  Owned says who could still report a success: one   *)
(* that is started has the arena, and while nobody has won the indices     *)
(* that the long presses were told do not point in front of them.  It is   *)
(* kept where no press brings three long presses (FewLongPresses).         *)
(***************************************************************************)
EXTENDS GestureDispatch, FiniteSetTheorems, TLAPS

-----------------------------------------------------------------------------
(* Sequences.                                                              *)

\* A function on the first n numbers is a sequence of length n.
LEMMA IndexedIsSeq ==
  ASSUME NEW S, NEW n \in Nat, NEW f, DOMAIN f = 1 .. n, f = [i \in 1 .. n |-> f[i]],
         \A i \in 1 .. n : f[i] \in S
  PROVE  f \in Seq(S) /\ Len(f) = n
  OBVIOUS

\* Indices are finitely many, and no more than the bound.
LEMMA Indices ==
  ASSUME NEW n \in Nat, NEW K \in SUBSET (1 .. n)
  PROVE  /\ IsFiniteSet(K)
         /\ Cardinality(K) \in 0 .. n
         /\ K = {} <=> Cardinality(K) = 0
<1>1. IsFiniteSet(1 .. n) /\ Cardinality(1 .. n) = n
  BY FS_Interval
<1>2. IsFiniteSet(K) /\ Cardinality(K) <= n
  BY <1>1, FS_Subset
<1>3. Cardinality(K) \in Nat
  BY <1>2, FS_CardinalityType
<1>4. K = {} <=> Cardinality(K) = 0
  BY <1>2, FS_EmptySet
<1> QED BY <1>2, <1>3, <1>4

\* The indices up to k are counted by those below it and by k itself.
LEMMA CountUpTo ==
  ASSUME NEW n \in Nat, NEW K \in SUBSET (1 .. n), NEW m \in Nat
  PROVE  /\ IsFiniteSet(K \cap 1 .. m)
         /\ Cardinality(K \cap 1 .. m) \in Nat
         /\ Cardinality(K \cap 1 .. (m + 1)) =
              Cardinality(K \cap 1 .. m) + IF m + 1 \in K THEN 1 ELSE 0
<1>1. IsFiniteSet(K \cap 1 .. m) /\ Cardinality(K \cap 1 .. m) \in Nat
  <2>1. K \cap 1 .. m \in SUBSET (1 .. m)
    OBVIOUS
  <2> QED BY <2>1, Indices
<1>2. CASE m + 1 \in K
  <2>1. /\ K \cap 1 .. (m + 1) = (K \cap 1 .. m) \cup {m + 1}
        /\ m + 1 \notin K \cap 1 .. m
    BY <1>2
  <2> QED BY <1>1, <1>2, <2>1, FS_AddElement
<1>3. CASE m + 1 \notin K
  <2>1. K \cap 1 .. (m + 1) = K \cap 1 .. m
    BY <1>3
  <2> QED BY <1>1, <1>3, <2>1
<1> QED BY <1>1, <1>2, <1>3

\* Every set of numbers that is not empty has a smallest member.
LEMMA SmallestNat ==
  ASSUME NEW B \in SUBSET Nat, B # {}
  PROVE  \E m \in B : \A l \in B : m <= l
<1> DEFINE R == OpToRel(<, Nat)
<1>1. IsWellFoundedOn(R, Nat)
  BY NatLessThanWellFounded
<1>2. \A x, y \in Nat : <<x, y>> \in R <=> x < y
  BY DEF OpToRel
<1> HIDE DEF R
<1>3. PICK m \in B : \A l \in B : ~ (<<l, m>> \in R)
  BY <1>1, WFMin, Zenon
<1>4. \A l \in B : m \in Nat /\ l \in Nat /\ ~ (l < m)
  BY <1>2, <1>3
<1> QED BY <1>4

\* Every rank up to the size of the set belongs to one of its members.
LEMMA NthMember ==
  ASSUME NEW n \in Nat, NEW K \in SUBSET (1 .. n), NEW j \in 1 .. Cardinality(K)
  PROVE  Nth(K, j) \in K /\ Cardinality(K \cap 1 .. Nth(K, j)) = j
<1> DEFINE C(m) == Cardinality(K \cap 1 .. m)
           B == {m \in Nat : C(m) >= j}
<1>1. IsFiniteSet(K) /\ Cardinality(K) \in Nat
  BY Indices
<1>2. n \in B
  <2>1. K \cap 1 .. n = K
    OBVIOUS
  <2> QED BY <1>1, <2>1
<1>3. PICK m \in B : \A l \in B : m <= l
  BY <1>2, SmallestNat
<1>4. m # 0
  <2>1. K \cap 1 .. 0 = {}
    OBVIOUS
  <2>2. C(0) = 0
    BY <2>1, FS_EmptySet
  <2>3. 0 \notin B
    BY <2>2
  <2> QED BY <1>3, <2>3
<1>5. m - 1 \in Nat /\ (m - 1) + 1 = m /\ m - 1 \notin B
  BY <1>3, <1>4
<1>6. C(m - 1) \in Nat /\ C(m) = C(m - 1) + IF m \in K THEN 1 ELSE 0
  <2> DEFINE l == m - 1
  <2>1. l \in Nat /\ l + 1 = m
    BY <1>5
  <2> HIDE DEF l
  <2>2. C(l) \in Nat /\ C(l + 1) = C(l) + IF l + 1 \in K THEN 1 ELSE 0
    BY <2>1, CountUpTo
  <2> QED BY <2>1, <2>2 DEF l
<1>7. m \in K /\ C(m) = j
  BY <1>1, <1>3, <1>5, <1>6
<1> QED BY <1>7 DEF Nth

\* The members come in their order, so nothing moves further from what is
\* in front of it.
LEMMA NthOrder ==
  ASSUME NEW n \in Nat, NEW K \in SUBSET (1 .. n),
         NEW i \in 1 .. Cardinality(K), NEW j \in 1 .. Cardinality(K), i < j
  PROVE  Nth(K, i) < Nth(K, j) /\ Nth(K, j) - Nth(K, i) >= j - i
<1> DEFINE a == Nth(K, i)
           b == Nth(K, j)
<1>1. /\ a \in K /\ Cardinality(K \cap 1 .. a) = i
      /\ b \in K /\ Cardinality(K \cap 1 .. b) = j
  BY NthMember
<1> HIDE DEF a, b
<1>2. /\ IsFiniteSet(K \cap 1 .. a) /\ IsFiniteSet(K \cap 1 .. b)
      /\ Cardinality(K) \in Nat /\ a \in Nat /\ b \in Nat
  <2>1. a \in Nat /\ b \in Nat
    BY <1>1
  <2> QED BY <2>1, CountUpTo, Indices
<1>3. a < b
  <2>1. SUFFICES ASSUME b <= a PROVE FALSE
    BY <1>1
  <2>2. K \cap 1 .. b \subseteq K \cap 1 .. a
    BY <1>1, <2>1
  <2>3. j <= i
    BY <1>1, <1>2, <2>2, FS_Subset
  <2> QED BY <1>2, <2>3
<1>4. Cardinality((a + 1) .. b) = b - a /\ IsFiniteSet((a + 1) .. b)
  BY <1>1, <1>3, FS_Interval
<1>5. Cardinality((K \cap 1 .. a) \cup ((a + 1) .. b)) <= i + (b - a)
  <2>1. (K \cap 1 .. a) \cap ((a + 1) .. b) = {}
    BY <1>2
  <2>2. Cardinality((K \cap 1 .. a) \cap ((a + 1) .. b)) = 0
    BY <2>1, FS_EmptySet
  <2>3. Cardinality((K \cap 1 .. a) \cup ((a + 1) .. b)) =
          Cardinality(K \cap 1 .. a) + Cardinality((a + 1) .. b)
            - Cardinality((K \cap 1 .. a) \cap ((a + 1) .. b))
    BY <1>2, <1>4, FS_Union
  <2> QED BY <1>1, <1>2, <1>3, <1>4, <2>2, <2>3
<1>6. K \cap 1 .. b \subseteq (K \cap 1 .. a) \cup ((a + 1) .. b)
  BY <1>2
<1>7. IsFiniteSet((K \cap 1 .. a) \cup ((a + 1) .. b))
  BY <1>2, <1>4, FS_Union
<1>8. j <= Cardinality((K \cap 1 .. a) \cup ((a + 1) .. b))
  BY <1>1, <1>6, <1>7, FS_Subset
<1>9. j <= i + (b - a)
  BY <1>2, <1>5, <1>7, <1>8, FS_CardinalityType
<1> QED BY <1>2, <1>3, <1>9 DEF a, b

\* A member's rank is no larger than itself.
LEMMA NthBehind ==
  ASSUME NEW n \in Nat, NEW K \in SUBSET (1 .. n), NEW j \in 1 .. Cardinality(K)
  PROVE  j <= Nth(K, j)
<1>1. Nth(K, j) \in K /\ Cardinality(K \cap 1 .. Nth(K, j)) = j
  BY NthMember
<1>2. \A k \in K : k \in Nat
  OBVIOUS
<1>3. K \cap 1 .. Nth(K, j) \in SUBSET (1 .. Nth(K, j))
  OBVIOUS
<1>4. Nth(K, j) \in Nat
  BY <1>1, <1>2
<1> QED BY <1>1, <1>3, <1>4, Indices

\* Selecting keeps the type and never lengthens.
LEMMA SelectedType ==
  ASSUME NEW S, NEW s \in Seq(S), NEW K \in SUBSET DOMAIN s
  PROVE  /\ Selected(s, K) \in Seq(S)
         /\ Len(Selected(s, K)) = Cardinality(K)
         /\ Cardinality(K) \in 0 .. Len(s)
         /\ K # {} => Cardinality(K) > 0
         /\ K = {} => Selected(s, K) = <<>>
         /\ \A j \in 1 .. Cardinality(K) :
              Nth(K, j) \in K /\ Selected(s, K)[j] = s[Nth(K, j)]
<1>1. K \in SUBSET (1 .. Len(s)) /\ Len(s) \in Nat
  OBVIOUS
<1>2. /\ IsFiniteSet(K) /\ Cardinality(K) \in 0 .. Len(s)
      /\ K # {} <=> Cardinality(K) # 0
  BY <1>1, Indices
<1>3. \A j \in 1 .. Cardinality(K) : Nth(K, j) \in K
  BY <1>1, NthMember
<1>4. Selected(s, K) \in [1 .. Cardinality(K) -> S]
  BY <1>1, <1>3 DEF Selected
<1>5. Selected(s, K) \in Seq(S) /\ Len(Selected(s, K)) = Cardinality(K)
  BY <1>2, <1>4
<1>6. K = {} => Selected(s, K) = <<>>
  BY <1>2, <1>5
<1> QED BY <1>2, <1>3, <1>5, <1>6 DEF Selected

\* To keep everything is to change nothing.
LEMMA SelectedAll ==
  ASSUME NEW S, NEW s \in Seq(S)
  PROVE  Selected(s, DOMAIN s) = s
<1> DEFINE n == Len(s)
<1>1. n \in Nat /\ DOMAIN s = 1 .. n /\ s = [j \in 1 .. n |-> s[j]]
  OBVIOUS
<1> HIDE DEF n
<1>2. Cardinality(1 .. n) = n
  <2>1. n \in Nat
    BY <1>1
  <2> QED BY <2>1, FS_Interval
<1>3. ASSUME NEW j \in 1 .. n PROVE Nth(1 .. n, j) = j
  <2> DEFINE K == 1 .. n
             m == Nth(K, j)
  <2>1. j \in 1 .. Cardinality(K) /\ K \in SUBSET (1 .. n)
    BY <1>2
  <2>2. m \in K /\ Cardinality(K \cap 1 .. m) = j
    BY <1>1, <2>1, NthMember
  <2> HIDE DEF m
  <2>3. K \cap 1 .. m = 1 .. m /\ m \in Nat
    BY <1>1, <2>2
  <2>4. Cardinality(1 .. m) = m
    BY <2>3, FS_Interval
  <2> QED BY <2>2, <2>3, <2>4 DEF m
<1>4. Selected(s, 1 .. n) = [j \in 1 .. n |-> s[j]]
  BY <1>2, <1>3 DEF Selected
<1> QED BY <1>1, <1>4

\* The equation of FlattenSeq's local function, for the first n sequences.
Flattens(f, ss, n) ==
  f = [i \in 1 .. n |-> IF i = 1 THEN ss[i] ELSE f[i - 1] \o ss[i]]

LEMMA FlattenExists ==
  ASSUME NEW S, NEW ss \in Seq(Seq(S)), NEW n \in 1 .. Len(ss)
  PROVE  \E f : Flattens(f, ss, n)
<1> DEFINE B == {m \in 1 .. Len(ss) : ~ \E f : Flattens(f, ss, m)}
<1>1. SUFFICES ASSUME B # {} PROVE FALSE
  OBVIOUS
<1>2. B \in SUBSET Nat
  OBVIOUS
<1>3. PICK m \in B : \A l \in B : m <= l
  BY <1>1, <1>2, SmallestNat
<1>4. m # 1
  <2>1. Flattens([i \in 1 .. 1 |-> ss[i]], ss, 1)
    BY DEF Flattens
  <2>2. 1 \notin B
    BY <2>1
  <2> QED BY <1>3, <2>2
<1>5. m \in 1 .. Len(ss) /\ m - 1 \in 1 .. Len(ss) /\ m - 1 \notin B
  <2>1. m \in 1 .. Len(ss) /\ Len(ss) \in Nat
    BY <1>3
  <2>2. m - 1 \in 1 .. Len(ss) /\ ~(m <= m - 1)
    BY <1>4, <2>1
  <2> QED BY <1>3, <2>1, <2>2
<1>6. PICK g : Flattens(g, ss, m - 1)
  BY <1>5
<1> DEFINE f == [i \in 1 .. m |-> IF i = m
                                  THEN g[m - 1] \o ss[m]
                                  ELSE g[i]]
<1>7. ASSUME NEW i \in 1 .. m
      PROVE  f[i] = IF i = 1 THEN ss[i] ELSE f[i - 1] \o ss[i]
  <2>1. CASE i = m
    <3>1. i # 1 /\ i - 1 \in 1 .. m /\ i - 1 # m
      BY <1>5, <2>1
    <3> QED BY <2>1, <3>1
  <2>2. CASE i # m
    <3>1. i \in 1 .. (m - 1)
      BY <1>5, <2>2
    <3>2. g[i] = IF i = 1 THEN ss[i] ELSE g[i - 1] \o ss[i]
      BY <1>6, <3>1 DEF Flattens
    <3>3. i # 1 => i - 1 \in 1 .. m /\ i - 1 # m
      BY <1>5, <3>1
    <3> QED BY <2>2, <3>2, <3>3
  <2> QED BY <2>1, <2>2
<1>8. Flattens(f, ss, m)
  BY <1>7 DEF Flattens
<1> QED BY <1>3, <1>8

LEMMA FlattenedType ==
  ASSUME NEW S, NEW ss \in Seq(Seq(S)), NEW f, Flattens(f, ss, Len(ss)), NEW n \in 1 .. Len(ss)
  PROVE  f[n] \in Seq(S)
<1> DEFINE B == {m \in 1 .. Len(ss) : f[m] \notin Seq(S)}
<1>1. SUFFICES ASSUME B # {} PROVE FALSE
  OBVIOUS
<1>2. B \in SUBSET Nat
  OBVIOUS
<1>3. PICK m \in B : \A l \in B : m <= l
  BY <1>1, <1>2, SmallestNat
<1>4. m \in 1 .. Len(ss) /\ ss[m] \in Seq(S) /\ f[m] \notin Seq(S)
  BY <1>3
<1>5. f[m] = IF m = 1 THEN ss[m] ELSE f[m - 1] \o ss[m]
  BY <1>4 DEF Flattens
<1>6. m # 1
  BY <1>4, <1>5
<1>7. m - 1 \in 1 .. Len(ss) /\ m - 1 \notin B
  BY <1>3, <1>4, <1>6
<1>8. f[m - 1] \in Seq(S)
  BY <1>7
<1> QED BY <1>4, <1>5, <1>6, <1>8

\* A flattened sequence has the members of the parts.
LEMMA FlattenType ==
  ASSUME NEW S, NEW ss \in Seq(Seq(S))
  PROVE  FlattenSeq(ss) \in Seq(S)
<1>1. CASE Len(ss) = 0
  <2>1. ss = <<>>
    BY <1>1
  <2> QED BY <1>1, <2>1 DEF FlattenSeq
<1>2. CASE Len(ss) # 0
  <2> DEFINE F == CHOOSE f : Flattens(f, ss, Len(ss))
  <2>1. Len(ss) \in 0 .. Len(ss) /\ Len(ss) \in 1 .. Len(ss)
    BY <1>2
  <2>2. Flattens(F, ss, Len(ss))
    BY <2>1, FlattenExists
  <2>3. F[Len(ss)] \in Seq(S)
    BY <2>1, <2>2, FlattenedType
  <2>4. FlattenSeq(ss) = F[Len(ss)]
    BY <1>2 DEF FlattenSeq, Flattens
  <2> QED BY <2>3, <2>4
<1> QED BY <1>1, <1>2

\* The equation of the local function of a fold over the indices I.
Folds(f, g, ss, I) ==
  f = [s \in SUBSET I |->
         IF s = {} THEN g
         ELSE OnPointerEvent(f[s \ {Max(s)}], ss[Max(s)])]

LEMMA FoldEventsStep ==
  ASSUME NEW g, NEW ss, NEW I, DOMAIN ss = I, \E f : Folds(f, g, ss, I)
  PROVE  \E f : Folds(f, g, ss, I) /\ FoldLeft(OnPointerEvent, g, ss) = f[I]
<1> DEFINE F == CHOOSE f : Folds(f, g, ss, I)
<1>1. Folds(F, g, ss, I)
  OBVIOUS
<1>2. FoldLeft(OnPointerEvent, g, ss) = F[I]
  BY DEF FoldLeft, MapThenFoldSet, Folds
<1> QED BY <1>1, <1>2

\* The two events a Down during a press becomes are handled one after the
\* other, and so are one and none.
Handled(g, ss) == FoldLeft(OnPointerEvent, g, ss)

LEMMA FoldNone == ASSUME NEW g PROVE Handled(g, <<>>) = g
<1> DEFINE f == [s \in SUBSET {} |-> g]
<1>1. \A s \in SUBSET {} : s = {}
  OBVIOUS
<1>2. Folds(f, g, <<>>, {})
  <2>1. \A s \in SUBSET {} :
          f[s] = IF s = {} THEN g ELSE OnPointerEvent(f[s \ {Max(s)}], <<>>[Max(s)])
    BY <1>1
  <2> QED BY <2>1 DEF Folds
<1>3. PICK h : Folds(h, g, <<>>, {}) /\ FoldLeft(OnPointerEvent, g, <<>>) = h[{}]
  BY <1>2, FoldEventsStep
<1>4. h[{}] = g
  BY <1>3 DEF Folds
<1> QED BY <1>3, <1>4 DEF Handled

LEMMA FoldOne ==
  ASSUME NEW g, NEW e
  PROVE  Handled(g, <<e>>) = OnPointerEvent(g, e)
<1> DEFINE f == [s \in SUBSET {1} |-> IF s = {} THEN g ELSE OnPointerEvent(g, e)]
<1>1. /\ SUBSET {1} = {{}, {1}} /\ {1} # {}
      /\ Max({1}) = 1 /\ {1} \ {1} = {} /\ <<e>>[1] = e
  BY DEF Max
<1>2. Folds(f, g, <<e>>, {1})
  <2>1. f[{}] = g /\ f[{1}] = OnPointerEvent(g, e)
    BY <1>1
  <2> HIDE DEF f
  <2>2. f[{1}] = OnPointerEvent(f[{1} \ {Max({1})}], <<e>>[Max({1})])
    BY <1>1, <2>1
  <2>3. \A s \in SUBSET {1} :
          f[s] = IF s = {} THEN g ELSE OnPointerEvent(f[s \ {Max(s)}], <<e>>[Max(s)])
    BY <1>1, <2>1, <2>2
  <2> QED BY <2>3 DEF Folds, f
<1>3. DOMAIN <<e>> = {1}
  OBVIOUS
<1>4. PICK h : Folds(h, g, <<e>>, {1}) /\ FoldLeft(OnPointerEvent, g, <<e>>) = h[{1}]
  BY <1>2, <1>3, FoldEventsStep
<1>5. \A s \in SUBSET {1} :
        h[s] = IF s = {} THEN g ELSE OnPointerEvent(h[s \ {Max(s)}], <<e>>[Max(s)])
  BY <1>4 DEF Folds
<1>6. h[{}] = g /\ h[{1}] = OnPointerEvent(h[{1} \ {Max({1})}], <<e>>[Max({1})])
  BY <1>1, <1>5
<1> QED BY <1>1, <1>4, <1>6 DEF Handled

LEMMA FoldTwo ==
  ASSUME NEW g, NEW d, NEW e, NEW ss, ss = <<d, e>>
  PROVE  Handled(g, ss) = OnPointerEvent(OnPointerEvent(g, d), e)
<1> DEFINE I == {1, 2}
           f == [s \in SUBSET I |->
                   CASE s = {} -> g
                     [] s = {1} -> OnPointerEvent(g, d)
                     [] s = {2} -> OnPointerEvent(g, e)
                     [] OTHER -> OnPointerEvent(OnPointerEvent(g, d), e)]
<1>1. /\ SUBSET I = {{}, {1}, {2}, I} /\ {1} # {} /\ {2} # {} /\ I # {}
      /\ {1} # {2} /\ {1} # I /\ {2} # I
      /\ {1} \ {1} = {} /\ {2} \ {2} = {} /\ I \ {2} = {1}
      /\ ss[1] = d /\ ss[2] = e
  OBVIOUS
<1>2. Max({1}) = 1 /\ Max({2}) = 2 /\ Max(I) = 2
  BY DEF Max
<1>3. /\ {1} \ {Max({1})} = {} /\ {2} \ {Max({2})} = {} /\ I \ {Max(I)} = {1}
      /\ ss[Max({1})] = d /\ ss[Max({2})] = e /\ ss[Max(I)] = e
  <2>1. ss[1] = d /\ ss[2] = e
    OBVIOUS
  <2> QED BY <1>2, <2>1
<1>4. Folds(f, g, ss, I)
  <2>1. /\ f[{}] = g /\ f[{1}] = OnPointerEvent(g, d) /\ f[{2}] = OnPointerEvent(g, e)
        /\ f[I] = OnPointerEvent(OnPointerEvent(g, d), e)
    BY <1>1
  <2> HIDE DEF f, I
  <2>2. /\ f[{1} \ {Max({1})}] = g /\ f[{2} \ {Max({2})}] = g
        /\ f[I \ {Max(I)}] = OnPointerEvent(g, d)
    BY <1>3, <2>1
  <2> DEFINE Eq(s) ==
        f[s] = IF s = {} THEN g ELSE OnPointerEvent(f[s \ {Max(s)}], ss[Max(s)])
  <2>3. Eq({}) /\ Eq({1}) /\ Eq({2}) /\ Eq(I)
    BY <1>1, <1>3, <2>1, <2>2
  <2> HIDE DEF Eq
  <2>4. \A s \in SUBSET I : Eq(s)
    <3>1. \A s \in SUBSET I : s \in {{}, {1}, {2}, I}
      BY <1>1
    <3> QED BY <2>3, <3>1
  <2>5. Folds(f, g, ss, I) <=>
          f = [s \in SUBSET I |->
                 IF s = {} THEN g ELSE OnPointerEvent(f[s \ {Max(s)}], ss[Max(s)])]
    BY DEF Folds
  <2>6. f = [s \in SUBSET I |-> f[s]]
    BY DEF f
  <2>7. f = [s \in SUBSET I |->
               IF s = {} THEN g ELSE OnPointerEvent(f[s \ {Max(s)}], ss[Max(s)])]
    BY <2>4, <2>6 DEF Eq
  <2> QED BY <2>5, <2>7
<1>5. DOMAIN ss = I
  OBVIOUS
<1> HIDE DEF f, I
<1>6. PICK h : Folds(h, g, ss, I) /\ FoldLeft(OnPointerEvent, g, ss) = h[I]
  BY <1>4, <1>5, FoldEventsStep
<1>7. \A s \in SUBSET I :
        h[s] = IF s = {} THEN g ELSE OnPointerEvent(h[s \ {Max(s)}], ss[Max(s)])
  BY <1>6 DEF Folds
<1>8. /\ h[{}] = g /\ h[{1}] = OnPointerEvent(h[{1} \ {Max({1})}], ss[Max({1})])
      /\ h[I] = OnPointerEvent(h[I \ {Max(I)}], ss[Max(I)])
  BY <1>1, <1>7
<1>9. h[{1}] = OnPointerEvent(g, d) /\ h[I] = OnPointerEvent(h[{1}], e)
  BY <1>1, <1>2, <1>8
<1> QED BY <1>6, <1>9 DEF Handled

-----------------------------------------------------------------------------
(* One recognizer.                                                         *)

Entry == States(Places, Nat)

Phases == {"Down", "Up", "Move", "Hover", "Cancel", "Removed"}

IsEvent(ev) == ev.phase \in Phases /\ ev.pos \in Places

\* What a recognizer is whatever it was told.
WellKept(e) ==
  /\ e \in Entry
  /\ e.timer > 0 => e.kind = "LongPress" /\ e.st # "Idle"
  /\ e.accepted => e.kind = "LongPress"
  /\ e.st = "Accepted" => e.kind \in DragKinds
  /\ e.st \in {"AwaitSecond", "SecondDown"} => e.kind = "DoubleTap"

\* A long press that may still be started by its timer.
Live(e) == e.kind = "LongPress" /\ e.st # "Idle"

\* Nothing that only lasts as long as a press.
Quiet(e) == e.kind \in DragKinds \cup {"LongPress"} => e.st = "Idle"

\* What h, the answer of r to ev, may be.
Sane(r, ev, h) ==
  /\ WellKept(h.r) /\ h.r.kind = r.kind
  /\ h.verdict \in {"Possible", "Rejected", "Accepted"}
  /\ h.verdict = "Accepted" =>
       ev.phase = "Up" \/ (r.kind \in DragKinds /\ r.st # "Idle" /\ h.r.st = "Accepted")
  /\ h.calls \in Successes =>
       /\ h.verdict = "Accepted" /\ r.kind # "LongPress" /\ r.st # "Accepted"
       /\ Final(ev) \/ (r.kind \in DragKinds /\ h.r.st = "Accepted")
  /\ h.verdict # "Accepted" /\ h.r.st = "Accepted" => r.st = "Accepted"
  /\ r.st = "Accepted" => h.r.st = "Accepted" \/ h.verdict = "Rejected" \/ Final(ev)
  /\ h.r.accepted => r.accepted
  /\ h.r.st # "Idle" => r.st # "Idle" /\ h.r.slot = r.slot
  /\ h.r.timer > 0 /\ ev.phase # "Down" => r.timer > 0
  /\ Live(r) /\ h.verdict = "Possible" => Live(h.r)
  /\ ev.phase = "Up" => Quiet(h.r)
  /\ ev.phase = "Hover" => h = Possible(r)

\* A recognizer that is reset, or fresh, has nothing left.
LEMMA FreshIsWellKept ==
  ASSUME NEW kind \in Kinds
  PROVE  /\ WellKept(Fresh(kind)) /\ Fresh(kind).kind = kind /\ Fresh(kind).st = "Idle"
         /\ Fresh(kind).timer = 0 /\ ~Fresh(kind).accepted /\ Fresh(kind).slot = 0
  BY SettingsAssumption DEF WellKept, Entry, States, Fresh, Places

LEMMA PossibleIsSane ==
  ASSUME NEW r, WellKept(r), NEW ev, IsEvent(ev), ev.phase = "Up" => Quiet(r)
  PROVE  Sane(r, ev, Possible(r))
  BY DEF Sane, Possible, Answer, Successes, WellKept, Entry, States, Live, Quiet

\* To quit, or to say goodbye, is sane.
LEMMA ResetIsSane ==
  ASSUME NEW r, WellKept(r), NEW ev, IsEvent(ev), ev.phase # "Hover", NEW calls,
         calls \notin Successes
  PROVE  Sane(r, ev, Answer(Reset(r), "Rejected", calls))
<1>1. r.kind \in Kinds
  BY DEF WellKept, Entry, States
<1>2. /\ WellKept(Reset(r)) /\ Reset(r).kind = r.kind /\ Reset(r).st = "Idle"
      /\ Reset(r).timer = 0 /\ ~Reset(r).accepted
  BY <1>1, FreshIsWellKept DEF Reset
<1> QED BY <1>2 DEF Sane, Answer, Live, Quiet

\* A changed state of the same kind, with the verdict Possible.
LEMMA StaysIsSane ==
  ASSUME NEW r, WellKept(r), NEW q, NEW ev, IsEvent(ev), ev.phase # "Hover",
         WellKept(q), q.kind = r.kind, q.slot = r.slot, q.accepted = r.accepted,
         r.st # "Idle", q.st # "Idle", q.st # "Accepted", r.st # "Accepted",
         q.timer = r.timer \/ ev.phase = "Down",
         ev.phase = "Up" => Quiet(q)
  PROVE  Sane(r, ev, Possible(q))
  BY DEF Sane, Possible, Answer, Successes, Live

LEMMA TapIsSane ==
  ASSUME NEW r, WellKept(r), r.kind = "Tap", r.st # "Idle", NEW ev, IsEvent(ev)
  PROVE  Sane(r, ev, Tap(r, ev))
<1>0. Quiet(r) /\ r.st # "Accepted" /\ ~Live(r)
  BY DEF Quiet, DragKinds, WellKept, Live
<1>1. CASE ev.phase = "Down"
  <2>1. Tap(r, ev) = Answer(r, "Possible", "tap_down")
    BY <1>1 DEF Tap
  <2> QED BY <1>0, <1>1, <2>1 DEF Sane, Answer, Successes, WellKept, Quiet, Live
<1>2. CASE ev.phase = "Move"
  BY <1>0, <1>2, PossibleIsSane, ResetIsSane DEF Tap, Quit, Successes
<1>3. CASE ev.phase = "Up"
  <2> DEFINE q == [r EXCEPT !.pending = TRUE]
  <2>1. Tap(r, ev) = Possible(q)
    BY <1>3 DEF Tap
  <2>2. /\ q \in Entry /\ q.kind = r.kind /\ q.st = r.st /\ q.slot = r.slot
        /\ q.timer = r.timer /\ q.accepted = r.accepted
    BY DEF WellKept, Entry, States
  <2>3. WellKept(q) /\ Quiet(q)
    BY <1>0, <2>2 DEF WellKept, Quiet, DragKinds
  <2> HIDE DEF q
  <2> QED BY <1>0, <1>3, <2>1, <2>2, <2>3, StaysIsSane
<1>4. CASE ev.phase \in {"Cancel", "Removed"}
  <2>1. Tap(r, ev) = Answer(Reset(r), "Rejected", "tap_cancel")
    BY <1>4 DEF Tap
  <2> QED BY <1>4, <2>1, ResetIsSane DEF Successes
<1>5. CASE ev.phase = "Hover"
  <2>1. Tap(r, ev) = Possible(r)
    BY <1>5 DEF Tap
  <2> QED BY <1>5, <2>1, PossibleIsSane
<1> QED BY <1>1, <1>2, <1>3, <1>4, <1>5 DEF IsEvent, Phases

LEMMA DoubleTapIsSane ==
  ASSUME NEW r, WellKept(r), r.kind = "DoubleTap", r.st # "Idle", NEW ev, IsEvent(ev)
  PROVE  Sane(r, ev, DoubleTap(r, ev))
<1>0. Quiet(r) /\ r.st # "Accepted" /\ ~Live(r) /\ r.timer = 0 /\ ~r.accepted
  BY DEF Quiet, DragKinds, WellKept, Live, Entry, States
<1>1. CASE ev.phase = "Cancel"
  <2>1. DoubleTap(r, ev) = Quit(r)
    BY <1>1 DEF DoubleTap
  <2> QED BY <1>1, <2>1, ResetIsSane DEF Quit, Successes
<1>2. CASE ev.phase = "Move" /\ r.st \in {"Down", "SecondDown"}
  <2>1. DoubleTap(r, ev) \in {Quit(r), Possible(r)}
    BY <1>2 DEF DoubleTap
  <2> QED BY <1>2, <2>1, ResetIsSane, PossibleIsSane DEF Quit, Successes
<1>3. CASE ev.phase = "Up" /\ r.st = "Down"
  <2> DEFINE q == [r EXCEPT !.st = "AwaitSecond", !.firstUp = 1]
  <2>1. DoubleTap(r, ev) = Possible(q)
    BY <1>3 DEF DoubleTap
  <2>2. /\ q \in Entry /\ q.kind = r.kind /\ q.st = "AwaitSecond" /\ q.slot = r.slot
        /\ q.timer = r.timer /\ q.accepted = r.accepted
    <3>1. 1 \in 0 .. DoubleTapMax + 2
      BY SettingsAssumption
    <3>2. r \in Entry
      BY DEF WellKept
    <3> QED BY <3>1, <3>2 DEF Entry, States
  <2> HIDE DEF q
  <2>3. WellKept(q) /\ Quiet(q)
    BY <1>0, <2>2 DEF WellKept, Quiet, DragKinds
  <2> QED BY <1>0, <1>3, <2>1, <2>2, <2>3, StaysIsSane
<1>4. CASE ev.phase = "Down" /\ r.st = "AwaitSecond"
  <2> DEFINE q == [r EXCEPT !.st = "SecondDown"]
  <2>1. DoubleTap(r, ev) \in {Possible(q), Quit(r)}
    BY <1>4 DEF DoubleTap
  <2>2. /\ q \in Entry /\ q.kind = r.kind /\ q.st = "SecondDown" /\ q.slot = r.slot
        /\ q.timer = r.timer /\ q.accepted = r.accepted
    BY DEF WellKept, Entry, States
  <2> HIDE DEF q
  <2>3. WellKept(q)
    BY <1>0, <2>2 DEF WellKept
  <2> QED BY <1>0, <1>4, <2>1, <2>2, <2>3, StaysIsSane, ResetIsSane DEF Quit, Successes
<1>5. CASE ev.phase = "Up" /\ r.st = "SecondDown"
  <2>1. DoubleTap(r, ev) = Answer(Reset(r), "Accepted", "double_tap")
    BY <1>5 DEF DoubleTap
  <2>2. r.kind \in Kinds
    BY DEF Kinds
  <2>3. /\ WellKept(Reset(r)) /\ Reset(r).kind = r.kind /\ Reset(r).st = "Idle"
        /\ Reset(r).timer = 0 /\ ~Reset(r).accepted
    BY <2>2, FreshIsWellKept DEF Reset
  <2> QED BY <1>0, <1>5, <2>1, <2>3 DEF Sane, Answer, Live, Quiet, Final
<1>6. CASE \/ ev.phase \in {"Hover", "Removed"}
           \/ ev.phase = "Move" /\ r.st \notin {"Down", "SecondDown"}
           \/ ev.phase = "Up" /\ r.st \notin {"Down", "SecondDown"}
           \/ ev.phase = "Down" /\ r.st # "AwaitSecond"
  <2>1. DoubleTap(r, ev) = Possible(r)
    BY <1>6 DEF DoubleTap
  <2> QED BY <1>0, <2>1, PossibleIsSane
<1> QED BY <1>1, <1>2, <1>3, <1>4, <1>5, <1>6 DEF IsEvent, Phases

LEMMA LongPressIsSane ==
  ASSUME NEW r, WellKept(r), r.kind = "LongPress", r.st # "Idle", NEW ev, IsEvent(ev)
  PROVE  Sane(r, ev, LongPress(r, ev))
<1>0. r.st # "Accepted"
  BY DEF WellKept, DragKinds
<1>1. CASE ev.phase = "Down"
  <2> DEFINE q == [r EXCEPT !.timer = LongPressTime + 1]
  <2>1. LongPress(r, ev) = Possible(q)
    BY <1>1 DEF LongPress
  <2>2. /\ q \in Entry /\ q.kind = r.kind /\ q.st = r.st /\ q.slot = r.slot
        /\ q.accepted = r.accepted
    BY SettingsAssumption DEF WellKept, Entry, States
  <2> HIDE DEF q
  <2>3. WellKept(q)
    BY <2>2 DEF WellKept
  <2> QED BY <1>0, <1>1, <2>1, <2>2, <2>3, StaysIsSane
<1>2. CASE ev.phase = "Move"
  <2>1. \/ LongPress(r, ev) = Quit(r)
        \/ LongPress(r, ev) = Answer(r, "Possible", "long_press_move")
        \/ LongPress(r, ev) = Possible(r)
    BY <1>2 DEF LongPress, Possible
  <2>2. Sane(r, ev, Answer(r, "Possible", "long_press_move"))
    BY <1>0, <1>2 DEF Sane, Answer, Successes, Live
  <2> QED BY <1>2, <2>1, <2>2, PossibleIsSane, ResetIsSane DEF Quit, Successes
<1>3. CASE ev.phase = "Up"
  <2>1. LongPress(r, ev) \in {Quit(r), Answer(Reset(r), "Accepted", "long_press_end")}
    BY <1>3 DEF LongPress
  <2>2. r.kind \in Kinds
    BY DEF Kinds
  <2>3. /\ WellKept(Reset(r)) /\ Reset(r).kind = r.kind /\ Reset(r).st = "Idle"
        /\ Reset(r).timer = 0 /\ ~Reset(r).accepted
    BY <2>2, FreshIsWellKept DEF Reset
  <2>4. Sane(r, ev, Answer(Reset(r), "Accepted", "long_press_end"))
    BY <1>0, <1>3, <2>3 DEF Sane, Answer, Live, Quiet, Successes
  <2> QED BY <1>3, <2>1, <2>4, ResetIsSane DEF Quit, Successes
<1>4. CASE ev.phase \in {"Cancel", "Removed"}
  <2>1. LongPress(r, ev) = Quit(r)
    BY <1>4 DEF LongPress
  <2> QED BY <1>4, <2>1, ResetIsSane DEF Quit, Successes
<1>5. CASE ev.phase = "Hover"
  <2>1. LongPress(r, ev) = Possible(r)
    BY <1>5 DEF LongPress
  <2> QED BY <1>5, <2>1, PossibleIsSane
<1> QED BY <1>1, <1>2, <1>3, <1>4, <1>5 DEF IsEvent, Phases

LEMMA DragIsSane ==
  ASSUME NEW r, WellKept(r), r.kind \in DragKinds, r.st # "Idle", NEW ev, IsEvent(ev)
  PROVE  Sane(r, ev, Drag(r, ev))
<1>0. r.kind # "LongPress" /\ ~Live(r) /\ r.timer = 0 /\ ~r.accepted
  BY DEF DragKinds, Live, WellKept, Entry, States
<1>1. CASE ev.phase = "Move" /\ r.st = "Accepted"
  <2>1. Drag(r, ev) = Answer(r, "Possible", "drag_update")
    BY <1>1 DEF Drag
  <2> QED BY <1>0, <1>1, <2>1 DEF Sane, Answer, Successes
<1>2. CASE ev.phase = "Move" /\ r.st = "Down"
  <2> DEFINE q == [r EXCEPT !.st = "Accepted"]
  <2>1. Drag(r, ev) \in {Quit(r), Possible(r), Answer(q, "Accepted", "drag_start")}
    BY <1>2 DEF Drag
  <2>2. /\ q \in Entry /\ q.kind = r.kind /\ q.st = "Accepted" /\ q.slot = r.slot
        /\ q.timer = r.timer /\ q.accepted = r.accepted
    BY DEF WellKept, Entry, States
  <2>3. WellKept(q)
    BY <1>0, <2>2 DEF WellKept
  <2> HIDE DEF q
  <2>4. Sane(r, ev, Answer(q, "Accepted", "drag_start"))
    BY <1>0, <1>2, <2>2, <2>3 DEF Sane, Answer, Successes
  <2> QED BY <1>2, <2>1, <2>4, PossibleIsSane, ResetIsSane DEF Quit, Successes
<1>3. CASE ev.phase = "Up"
  <2>1. Drag(r, ev) \in {Quit(r), Answer(Reset(r), "Accepted", "drag_end")}
    BY <1>3 DEF Drag
  <2>2. r.kind \in Kinds
    BY DEF Kinds, DragKinds
  <2>3. /\ WellKept(Reset(r)) /\ Reset(r).kind = r.kind /\ Reset(r).st = "Idle"
        /\ Reset(r).timer = 0 /\ ~Reset(r).accepted
    BY <2>2, FreshIsWellKept DEF Reset
  <2>4. Sane(r, ev, Answer(Reset(r), "Accepted", "drag_end"))
    BY <1>0, <1>3, <2>3 DEF Sane, Answer, Live, Quiet, Successes, Final
  <2> QED BY <1>3, <2>1, <2>4, ResetIsSane DEF Quit, Successes
<1>4. CASE ev.phase \in {"Cancel", "Removed"}
  <2>1. Drag(r, ev) = Quit(r)
    BY <1>4 DEF Drag
  <2> QED BY <1>4, <2>1, ResetIsSane DEF Quit, Successes
<1>5. CASE \/ ev.phase \in {"Hover", "Down"}
           \/ ev.phase = "Move" /\ r.st \notin {"Accepted", "Down"}
  <2>1. Drag(r, ev) = Possible(r)
    BY <1>5 DEF Drag
  <2> QED BY <1>5, <2>1, PossibleIsSane
<1> QED BY <1>1, <1>2, <1>3, <1>4, <1>5 DEF IsEvent, Phases

LEMMA ScaleIsSane ==
  ASSUME NEW r, WellKept(r), r.kind = "Scale", r.st # "Idle", NEW ev, IsEvent(ev)
  PROVE  Sane(r, ev, Scale(r, ev))
<1>0. Quiet(r) /\ r.st # "Accepted" /\ ~Live(r)
  BY DEF Quiet, DragKinds, WellKept, Live
<1>1. CASE ev.phase \in {"Up", "Cancel", "Removed"}
  <2>1. Scale(r, ev) = Possible(Reset(r))
    BY <1>1 DEF Scale
  <2>2. r.kind \in Kinds
    BY DEF Kinds
  <2>3. /\ WellKept(Reset(r)) /\ Reset(r).kind = r.kind /\ Reset(r).st = "Idle"
        /\ Reset(r).timer = 0 /\ ~Reset(r).accepted
    BY <2>2, FreshIsWellKept DEF Reset
  <2> QED BY <1>0, <1>1, <2>1, <2>3
          DEF Sane, Possible, Answer, Live, Quiet, Successes
<1>2. CASE ev.phase \notin {"Up", "Cancel", "Removed"}
  <2>1. Scale(r, ev) = Possible(r)
    BY <1>2 DEF Scale
  <2> QED BY <1>2, <2>1, PossibleIsSane
<1> QED BY <1>1, <1>2

\* Every recognizer answers sanely, and an idle one changes nothing.
LEMMA HandleIsSane ==
  ASSUME NEW r, WellKept(r), NEW ev, IsEvent(ev)
  PROVE  Sane(r, ev, Handle(r, ev)) /\ (r.st = "Idle" => Handle(r, ev) = Possible(r))
<1>1. CASE r.st = "Idle"
  <2>1. Handle(r, ev) = Possible(r) /\ Quiet(r)
    BY <1>1 DEF Handle, Quiet
  <2> QED BY <2>1, PossibleIsSane
<1>2. CASE r.st # "Idle"
  <2>1. r.kind \in Kinds
    BY DEF WellKept, Entry, States
  <2>2. /\ r.kind = "Tap" => Handle(r, ev) = Tap(r, ev)
        /\ r.kind = "DoubleTap" => Handle(r, ev) = DoubleTap(r, ev)
        /\ r.kind = "LongPress" => Handle(r, ev) = LongPress(r, ev)
        /\ r.kind \in DragKinds => Handle(r, ev) = Drag(r, ev)
        /\ r.kind = "Scale" => Handle(r, ev) = Scale(r, ev)
    <3> DEFINE k == r.kind
    <3>1. k \in DragKinds => k \notin {"Tap", "DoubleTap", "LongPress", "Scale"}
      BY DEF DragKinds
    <3>2. "Tap" \notin DragKinds /\ "DoubleTap" \notin DragKinds
          /\ "LongPress" \notin DragKinds /\ "Scale" \notin DragKinds
      BY DEF DragKinds
    <3>3. Handle(r, ev) =
            CASE k = "Tap" -> Tap(r, ev)
              [] k = "DoubleTap" -> DoubleTap(r, ev)
              [] k = "LongPress" -> LongPress(r, ev)
              [] k \in DragKinds -> Drag(r, ev)
              [] k = "Scale" -> Scale(r, ev)
      BY <1>2 DEF Handle
    <3> HIDE DEF k
    <3>4. k = "Tap" => Handle(r, ev) = Tap(r, ev)
      BY <3>2, <3>3
    <3>5. k = "DoubleTap" => Handle(r, ev) = DoubleTap(r, ev)
      BY <3>2, <3>3
    <3>6. k = "LongPress" => Handle(r, ev) = LongPress(r, ev)
      BY <3>2, <3>3
    <3>7. k \in DragKinds => Handle(r, ev) = Drag(r, ev)
      BY <3>1, <3>3
    <3>8. k = "Scale" => Handle(r, ev) = Scale(r, ev)
      BY <3>2, <3>3
    <3> QED BY <3>4, <3>5, <3>6, <3>7, <3>8 DEF k
  <2>3. \/ r.kind \in {"Tap", "DoubleTap", "LongPress"}
        \/ r.kind \in DragKinds \/ r.kind = "Scale"
    BY <2>1 DEF Kinds, DragKinds
  <2>4. r.kind \in {"Tap", "DoubleTap", "LongPress"} => Sane(r, ev, Handle(r, ev))
    BY <1>2, <2>2, TapIsSane, DoubleTapIsSane, LongPressIsSane
  <2>5. r.kind \in DragKinds \/ r.kind = "Scale" => Sane(r, ev, Handle(r, ev))
    BY <1>2, <2>2, DragIsSane, ScaleIsSane
  <2> QED BY <1>2, <2>3, <2>4, <2>5
<1> QED BY <1>1, <1>2

-----------------------------------------------------------------------------
(* The arena, and the record g of all that an event may change.            *)

Arenas ==
  [entries : Seq(Entry), winner : Nat, is_open : BOOLEAN, hold_count : 0 .. HoldMax]

\* An arena that is kept is open, has competitors, and its winner is one;
\* an undecided one with a DoubleTap in it has a hold.
Sound(a) ==
  /\ a \in Arenas
  /\ a = NoArena \/ (a.is_open /\ Len(a.entries) > 0 /\ a.winner <= Len(a.entries))
  /\ \A i \in DOMAIN a.entries : WellKept(a.entries[i])
  /\ a.winner = 0 =>
       \A i \in DOMAIN a.entries : a.entries[i].kind = "DoubleTap" => a.hold_count > 0

\* What an arena is between presses.
Rested(a) ==
  a.winner = 0 /\ \A i \in DOMAIN a.entries : Quiet(a.entries[i])

\* Nobody has won.  A long press that may be started is in front of the slot
\* it was told, and the long presses behind it are as far behind in their
\* slots; there are at most two of them.
Undecided(a) ==
  \A i \in DOMAIN a.entries :
    LET e == a.entries[i]
    IN  /\ ~e.accepted /\ e.st # "Accepted"
        /\ Live(e) => i <= e.slot
        /\ \A j \in DOMAIN a.entries :
             LET f == a.entries[j]
             IN  Live(e) /\ i < j /\ f.kind = "LongPress" =>
                   /\ Live(f)
                   /\ f.slot - e.slot >= j - i
                   /\ \A m \in DOMAIN a.entries : j < m => ~Live(a.entries[m])

\* Somebody has won.  The others are out; if a success was reported, its
\* recognizer has the arena, and the winner's own timer finds no long press.
Decided(a, b) ==
  /\ \A i \in DOMAIN a.entries \ {a.winner} :
       a.entries[i].st = "Idle" /\ a.entries[i].timer = 0 /\ ~a.entries[i].accepted
  /\ LET w == a.entries[a.winner]
     IN  /\ b = 1 => w.kind = "LongPress" \/ (w.kind \in DragKinds /\ w.st = "Accepted")
         /\ w.timer > 0 => ~ (w.slot \in DOMAIN a.entries /\ a.entries[w.slot].kind = "LongPress")

\* At most one success, and nobody left who could report a second one.
Owned(a, b) ==
  /\ b \in 0 .. 1
  /\ Present(a) => IF a.winner = 0 THEN b = 0 /\ Undecided(a) ELSE Decided(a, b)

Bundles ==
  [arena : Arenas, release : 0 .. DoubleTapMax + 1, parked : SUBSET Widgets, begun : 0 .. 2]

Good(g) == g \in Bundles /\ Sound(g.arena)

LEMMA NoArenaIsSound ==
  Sound(NoArena) /\ Rested(NoArena) /\ ~Present(NoArena)
<1>1. <<>> \in Seq(Entry) /\ DOMAIN <<>> = {}
  OBVIOUS
<1>2. 0 \in 0 .. HoldMax
  BY ElementsAssumption
<1> QED BY <1>1, <1>2 DEF Sound, Rested, Arenas, NoArena, Present

\* A kept arena is one of its record's fields.
LEMMA KeptArena ==
  ASSUME NEW a, Sound(a), Present(a)
  PROVE  /\ a.is_open /\ Len(a.entries) \in Nat \ {0} /\ DOMAIN a.entries = 1 .. Len(a.entries)
         /\ a.entries \in Seq(Entry) /\ a.winner \in 0 .. Len(a.entries)
         /\ a.hold_count \in 0 .. HoldMax
         /\ a = [entries |-> a.entries, winner |-> a.winner, is_open |-> TRUE,
                 hold_count |-> a.hold_count]
  BY DEF Sound, Present, Arenas

LEMMA GoodType ==
  ASSUME NEW g, Good(g)
  PROVE  /\ g.arena \in Arenas /\ Sound(g.arena) /\ g.release \in 0 .. DoubleTapMax + 1
         /\ g.parked \subseteq Widgets /\ g.begun \in 0 .. 2
         /\ Len(g.arena.entries) \in Nat /\ g.arena.entries \in Seq(Entry)
         /\ DOMAIN g.arena.entries = 1 .. Len(g.arena.entries)
<1>1. /\ g.arena \in Arenas /\ Sound(g.arena) /\ g.release \in 0 .. DoubleTapMax + 1
      /\ g.parked \subseteq Widgets /\ g.begun \in 0 .. 2
  BY DEF Good, Bundles
<1>2. g.arena.entries \in Seq(Entry)
  BY <1>1 DEF Arenas
<1> QED BY <1>1, <1>2

\* A closed arena goes, whoever held it.
LEMMA ClosedGoes ==
  ASSUME NEW a \in Arenas
  PROVE  Gc(Close(a)) = NoArena
<1>1. 0 \in 0 .. HoldMax
  BY ElementsAssumption
<1>2. Close(a) \in Arenas /\ ~Close(a).is_open /\ Close(a).hold_count = 0
  BY <1>1 DEF Close, Arenas
<1> QED BY <1>2 DEF Gc, Present

\* An open one stays.
LEMMA OpenStays ==
  ASSUME NEW a \in Arenas, a.is_open
  PROVE  Gc(a) = a /\ Present(a)
  BY DEF Gc, Present, NoArena, Arenas

\* At most one answer of a list where only one may be a success.
LEMMA OneSuccess ==
  ASSUME NEW n \in Nat, NEW answers, DOMAIN answers = 1 .. n,
         NEW w, \A i \in 1 .. n : i # w => answers[i].calls \notin Successes,
         NEW b \in 0 .. 2
  PROVE  /\ Count(b, answers) \in 0 .. 2
         /\ ~(w \in 1 .. n /\ answers[w].calls \in Successes) => Count(b, answers) = b
         /\ b = 0 => Count(b, answers) \in 0 .. 1
         /\ w \in 1 .. n /\ answers[w].calls \in Successes /\ b = 0 => Count(b, answers) = 1
<1> DEFINE K == {i \in DOMAIN answers : answers[i].calls \in Successes}
<1>1. K \subseteq {w} /\ (w \in K <=> w \in 1 .. n /\ answers[w].calls \in Successes)
  OBVIOUS
<1>2. CASE w \in K
  <2>1. K = {w}
    BY <1>1, <1>2
  <2>2. Successful(answers) = 1
    BY <2>1, FS_Singleton DEF Successful
  <2> QED BY <1>1, <1>2, <2>2 DEF Count
<1>3. CASE w \notin K
  <2>1. K = {}
    BY <1>1, <1>3
  <2>2. Successful(answers) = 0
    BY <2>1, FS_EmptySet DEF Successful
  <2> QED BY <1>1, <1>3, <2>2 DEF Count
<1> QED BY <1>2, <1>3

-----------------------------------------------------------------------------
(* The shape of what dispatch leaves.                                      *)

\* Neither the task nor what is parked.
OnlyArena(g, h) == h = [g EXCEPT !.arena = h.arena, !.begun = h.begun]

\* The winner's arena keeps the winner's new state or goes.
WinnerLeft(g, ev, h, ans) ==
  LET kept == [g.arena.entries EXCEPT ![g.arena.winner] = ans.r]
  IN  /\ kept \in Seq(Entry) /\ Len(kept) = Len(g.arena.entries)
      /\ h.begun \in 0 .. 2
      /\ ans.calls \notin Successes => h.begun = g.begun
      /\ g.begun = 0 => h.begun \in 0 .. 1
      /\ h.arena = IF Final(ev) \/ ans.verdict = "Rejected" THEN NoArena
                   ELSE [g.arena EXCEPT !.entries = kept]

LEMMA WinnerShape ==
  ASSUME NEW g, Good(g), Present(g.arena), g.arena.winner # 0, NEW ev, IsEvent(ev),
         NEW ans, ans = Handle(g.arena.entries[g.arena.winner], ev),
         NEW h, h = DispatchToWinner(g, ev)
  PROVE  /\ Sane(g.arena.entries[g.arena.winner], ev, ans)
         /\ WinnerLeft(g, ev, h, ans)
         /\ OnlyArena(g, h)
<1> DEFINE w == g.arena.winner
           kept == [g.arena.entries EXCEPT ![w] = ans.r]
           left == [g.arena EXCEPT !.entries = kept]
<1>1. /\ g \in Bundles /\ g.arena \in Arenas /\ g.arena.is_open
      /\ g.arena.entries \in Seq(Entry) /\ w \in 1 .. Len(g.arena.entries)
      /\ Len(g.arena.entries) \in Nat /\ WellKept(g.arena.entries[w]) /\ g.begun \in 0 .. 2
  BY KeptArena DEF Good, Sound, Bundles
<1>2. Sane(g.arena.entries[w], ev, ans)
  BY <1>1, HandleIsSane
<1>3. ans.r \in Entry
  BY <1>2 DEF Sane, WellKept
<1>4. kept \in Seq(Entry) /\ Len(kept) = Len(g.arena.entries)
  BY <1>1, <1>3
<1>5. left = [g.arena EXCEPT !.entries[w] = ans.r]
  BY <1>1 DEF Arenas
<1>6. left \in Arenas /\ left.is_open
  BY <1>1, <1>4 DEF Arenas
<1>7. Gc(left) = left /\ Gc(Close(left)) = NoArena
  BY <1>6, OpenStays, ClosedGoes
<1>8. h = [g EXCEPT !.arena = Gc(IF Final(ev) \/ ans.verdict = "Rejected"
                                 THEN Close(left) ELSE left),
                    !.begun = Count(g.begun, <<ans>>)]
  BY <1>5 DEF DispatchToWinner, WinnerAnswered
<1>9. /\ Count(g.begun, <<ans>>) \in 0 .. 2
      /\ ans.calls \notin Successes => Count(g.begun, <<ans>>) = g.begun
      /\ g.begun = 0 => Count(g.begun, <<ans>>) \in 0 .. 1
  <2> DEFINE one == <<ans>>
  <2>1. DOMAIN one = 1 .. 1 /\ one[1] = ans /\ \A i \in 1 .. 1 : i = 1
    OBVIOUS
  <2>2. g.begun \in 0 .. 2
    BY <1>1
  <2> HIDE DEF one
  <2>3. /\ Count(g.begun, one) \in 0 .. 2
        /\ one[1].calls \notin Successes => Count(g.begun, one) = g.begun
        /\ g.begun = 0 => Count(g.begun, one) \in 0 .. 1
    BY <2>1, <2>2, OneSuccess
  <2> QED BY <2>1, <2>3 DEF one
<1> HIDE DEF left, kept
<1>10. /\ h.begun = Count(g.begun, <<ans>>)
       /\ h.arena = IF Final(ev) \/ ans.verdict = "Rejected" THEN NoArena ELSE left
  BY <1>1, <1>7, <1>8 DEF Bundles
<1>11. OnlyArena(g, h)
  BY <1>7, <1>8, <1>10 DEF OnlyArena
<1> QED BY <1>2, <1>4, <1>9, <1>10, <1>11 DEF left, kept, WinnerLeft

\* Everybody's answer, or everybody's up to the first that accepts.
AskedAs(g, ev, asked) ==
  LET es == g.arena.entries
      n == Len(es)
  IN  /\ DOMAIN asked.answers = 1 .. n
      /\ \A i \in 1 .. n : asked.answers[i].r.kind = es[i].kind
      /\ \/ /\ asked.first = 0
            /\ \A i \in 1 .. n : /\ asked.answers[i] = Handle(es[i], ev)
                                 /\ Handle(es[i], ev).verdict \in {"Possible", "Rejected"}
         \/ /\ asked.first \in 1 .. n
            /\ asked.answers[asked.first] = Handle(es[asked.first], ev)
            /\ Handle(es[asked.first], ev).verdict = "Accepted"

LEMMA AskedShape ==
  ASSUME NEW g, Good(g), Present(g.arena), NEW ev, IsEvent(ev),
         NEW all, all = [i \in DOMAIN g.arena.entries |-> Handle(g.arena.entries[i], ev)],
         NEW asked, asked = UpToFirstAccepted(g.arena.entries, all)
  PROVE  AskedAs(g, ev, asked)
<1> DEFINE a == g.arena
           n == Len(a.entries)
           accepting == {i \in DOMAIN all : all[i].verdict = "Accepted"}
           first == IF accepting = {} THEN 0 ELSE Min(accepting)
<1>1. n \in Nat \ {0} /\ DOMAIN a.entries = 1 .. n /\ DOMAIN all = 1 .. n
  BY KeptArena DEF Good
<1>2. ASSUME NEW i \in 1 .. n
      PROVE  /\ all[i] = Handle(a.entries[i], ev) /\ WellKept(a.entries[i])
             /\ Sane(a.entries[i], ev, all[i])
  <2>1. all[i] = Handle(a.entries[i], ev)
    BY <1>1
  <2>2. WellKept(a.entries[i])
    BY <1>1 DEF Good, Sound
  <2> QED BY <2>1, <2>2, HandleIsSane
<1>3. \A i \in 1 .. n : all[i].r.kind = a.entries[i].kind
                        /\ all[i].verdict \in {"Possible", "Rejected", "Accepted"}
  BY <1>2 DEF Sane
<1>4. /\ asked.first = first
      /\ asked.answers = [i \in DOMAIN all |->
           IF first = 0 \/ i <= first THEN all[i] ELSE Possible(a.entries[i])]
  BY DEF UpToFirstAccepted
<1>5. (first = 0 /\ accepting = {}) \/ first \in accepting
  <2>1. CASE accepting # {}
    <3>1. accepting \in SUBSET Nat
      BY <1>1
    <3>2. \E m \in accepting : \A l \in accepting : m <= l
      BY <2>1, <3>1, SmallestNat
    <3> QED BY <2>1, <3>2 DEF Min
  <2> QED BY <2>1
<1>6. /\ first = 0 => \A i \in 1 .. n : all[i].verdict # "Accepted"
      /\ first # 0 => first \in 1 .. n /\ all[first].verdict = "Accepted"
  <2>1. \A i \in accepting : i \in 1 .. n /\ i # 0 /\ all[i].verdict = "Accepted"
    BY <1>1
  <2>2. \A i \in 1 .. n : all[i].verdict = "Accepted" => i \in accepting
    BY <1>1
  <2> HIDE DEF first, accepting
  <2> QED BY <1>5, <2>1, <2>2
<1> HIDE DEF first
<1>7. /\ DOMAIN asked.answers = 1 .. n
      /\ asked.answers = [i \in 1 .. n |-> asked.answers[i]]
      /\ \A i \in 1 .. n : asked.answers[i] =
           IF first = 0 \/ i <= first THEN all[i] ELSE Possible(a.entries[i])
  <2> DEFINE answer(i) == IF first = 0 \/ i <= first THEN all[i] ELSE Possible(a.entries[i])
  <2>1. asked.answers = [i \in DOMAIN all |-> answer(i)] /\ DOMAIN all = 1 .. n
    BY <1>1, <1>4, Zenon
  <2> HIDE DEF answer
  <2>2. asked.answers = [i \in 1 .. n |-> answer(i)]
    BY <2>1, Zenon
  <2> QED BY <2>2 DEF answer
<1>8. ASSUME NEW i \in 1 .. n PROVE asked.answers[i].r.kind = a.entries[i].kind
  <2>1. asked.answers[i] = all[i] \/ asked.answers[i] = Possible(a.entries[i])
    BY <1>7
  <2>2. Possible(a.entries[i]).r = a.entries[i]
    BY DEF Possible, Answer
  <2> QED BY <1>3, <2>1, <2>2
<1>10. CASE first = 0
  <2>1. asked.answers = [i \in 1 .. n |-> all[i]]
    BY <1>7, <1>10
  <2>2. all = [i \in 1 .. n |-> all[i]]
    BY <1>1
  <2>3. ASSUME NEW i \in 1 .. n PROVE all[i].verdict \in {"Possible", "Rejected"}
    <3>1. all[i].verdict # "Accepted"
      BY <1>6, <1>10, Zenon
    <3>2. all[i].verdict \in {"Possible", "Rejected", "Accepted"}
      BY <1>3, Zenon
    <3> QED BY <3>1, <3>2
  <2>4. asked.first = 0 /\ asked.answers = all
    BY <1>4, <1>10, <2>1, <2>2, Zenon
  <2>5. \A i \in 1 .. n : asked.answers[i] = Handle(a.entries[i], ev)
    BY <1>2, <2>4
  <2> QED BY <1>1, <1>2, <1>7, <1>8, <2>3, <2>4, <2>5 DEF AskedAs
<1>11. CASE first # 0
  <2>1. asked.first = first /\ first \in 1 .. n /\ all[first].verdict = "Accepted"
    BY <1>4, <1>6, <1>11, Zenon
  <2>2. first <= first
    BY <1>1, <2>1
  <2>3. asked.answers[first] = all[first]
    BY <1>7, <2>1, <2>2, Zenon
  <2>4. all[first] = Handle(a.entries[first], ev)
    BY <1>2, <2>1
  <2> QED BY <1>1, <1>2, <1>7, <1>8, <2>1, <2>3, <2>4 DEF AskedAs
<1> QED BY <1>10, <1>11

\* What a pass over an undecided arena may leave: nothing; or the one that
\* accepted as the winner, the others reset; or those that did not reject.
WonBy(g, ev, h, w) ==
  /\ w \in DOMAIN g.arena.entries
  /\ Handle(g.arena.entries[w], ev).verdict = "Accepted"
  /\ h.begun \in 0 .. 2
  /\ Handle(g.arena.entries[w], ev).calls \notin Successes => h.begun = g.begun
  /\ g.begun = 0 => h.begun \in 0 .. 1
  /\ h.arena = IF Final(ev) THEN NoArena
               ELSE [g.arena EXCEPT
                       !.entries = [i \in DOMAIN g.arena.entries |->
                                      IF i = w THEN Handle(g.arena.entries[i], ev).r
                                      ELSE Fresh(g.arena.entries[i].kind)],
                       !.winner = w]

KeptAt(g, ev, h, stay) ==
  LET all == [i \in DOMAIN g.arena.entries |-> Handle(g.arena.entries[i], ev).r]
  IN  /\ stay \in SUBSET DOMAIN g.arena.entries
      /\ \A i \in DOMAIN g.arena.entries :
           Handle(g.arena.entries[i], ev).verdict = IF i \in stay THEN "Possible" ELSE "Rejected"
      /\ h.begun = g.begun
      /\ h.arena = IF stay = {} THEN NoArena
                   ELSE [g.arena EXCEPT !.entries = Selected(all, stay)]

\* Nobody but the winner reports a success.
LEMMA ChosenShape ==
  ASSUME NEW g, Good(g), Present(g.arena), NEW ev, IsEvent(ev),
         NEW asked, AskedAs(g, ev, asked), asked.first # 0,
         NEW h, h = Chosen(g, ev, asked.first, OthersRejected(asked.answers, asked.first))
  PROVE  /\ WonBy(g, ev, h, asked.first)
         /\ OnlyArena(g, h)
<1> DEFINE a == g.arena
           n == Len(a.entries)
           w == asked.first
           told == OthersRejected(asked.answers, w)
           E == [i \in DOMAIN a.entries |-> IF i = w THEN Handle(a.entries[i], ev).r
                                            ELSE Fresh(a.entries[i].kind)]
           won == [a EXCEPT !.entries = E, !.winner = w]
<1>1. /\ g \in Bundles /\ a \in Arenas /\ a.is_open /\ n \in Nat \ {0}
      /\ DOMAIN a.entries = 1 .. n /\ g.begun \in 0 .. 2
  BY KeptArena DEF Good, Sound, Bundles
<1>2. /\ DOMAIN asked.answers = 1 .. n /\ w \in 1 .. n
      /\ Handle(a.entries[w], ev).verdict = "Accepted"
      /\ asked.answers[w] = Handle(a.entries[w], ev)
      /\ \A i \in 1 .. n : asked.answers[i].r.kind = a.entries[i].kind
  BY DEF AskedAs
<1>3. /\ DOMAIN told = 1 .. n
      /\ \A i \in 1 .. n : told[i] = IF i = w THEN asked.answers[i] ELSE Reject(asked.answers[i].r)
  BY <1>2 DEF OthersRejected
<1>4. told[w] = Handle(a.entries[w], ev)
  BY <1>2, <1>3
<1>5. ASSUME NEW i \in 1 .. n, i # w
      PROVE  told[i].r = Fresh(a.entries[i].kind) /\ told[i].calls \notin Successes
  <2>1. told[i] = Reject(asked.answers[i].r) /\ asked.answers[i].r.kind = a.entries[i].kind
    BY <1>2, <1>3, <1>5
  <2> HIDE DEF told
  <2> QED BY <2>1 DEF Reject, Answer, Reset, Successes
<1> HIDE DEF told
<1>6. After(told) = E
  <2>1. \A i \in 1 .. n : told[i].r = IF i = w THEN Handle(a.entries[i], ev).r
                                      ELSE Fresh(a.entries[i].kind)
    BY <1>4, <1>5
  <2> QED BY <1>1, <1>3, <2>1 DEF After
<1>7. E \in Seq(Entry)
  <2>1. ASSUME NEW i \in 1 .. n PROVE E[i] \in Entry
    <3>1. WellKept(a.entries[i]) /\ Sane(a.entries[i], ev, Handle(a.entries[i], ev))
      BY <1>1, HandleIsSane DEF Good, Sound
    <3>2. a.entries[i].kind \in Kinds
      BY <3>1 DEF WellKept, Entry, States
    <3>3. Handle(a.entries[i], ev).r \in Entry /\ Fresh(a.entries[i].kind) \in Entry
      BY <3>1, <3>2, FreshIsWellKept DEF Sane, WellKept
    <3> QED BY <1>1, <3>3
  <2>2. DOMAIN E = 1 .. n /\ E = [i \in 1 .. n |-> E[i]]
    BY <1>1
  <2>3. n \in Nat
    BY <1>1
  <2> HIDE DEF E, n
  <2> QED BY <2>1, <2>2, <2>3, IndexedIsSeq
<1>8. won \in Arenas /\ won.is_open
  <2>1. w \in Nat
    BY <1>1, <1>2
  <2> HIDE DEF E, n
  <2> QED BY <1>1, <1>7, <2>1 DEF Arenas
<1>9. Gc(won) = won /\ Gc(Close(won)) = NoArena
  BY <1>8, OpenStays, ClosedGoes
<1>10. h = [g EXCEPT !.arena = Gc(IF Final(ev) THEN Close(won) ELSE won),
                     !.begun = Count(g.begun, told)]
  BY <1>6 DEF Chosen, told
<1>11. /\ Count(g.begun, told) \in 0 .. 2
       /\ told[w].calls \notin Successes => Count(g.begun, told) = g.begun
       /\ g.begun = 0 => Count(g.begun, told) \in 0 .. 1
  <2>1. n \in Nat /\ g.begun \in 0 .. 2 /\ DOMAIN told = 1 .. n
        /\ \A i \in 1 .. n : i # w => told[i].calls \notin Successes
    BY <1>1, <1>3, <1>5
  <2> HIDE DEF n, told
  <2> QED BY <2>1, OneSuccess
<1> HIDE DEF won
<1>12. h.begun = Count(g.begun, told) /\ h.arena = IF Final(ev) THEN NoArena ELSE won
  BY <1>1, <1>9, <1>10 DEF Bundles
<1>13. OnlyArena(g, h)
  BY <1>9, <1>10, <1>12 DEF OnlyArena
<1> QED BY <1>1, <1>2, <1>4, <1>11, <1>12, <1>13 DEF WonBy, won

\* Without a winner nothing succeeds.
LEMMA NobodyShape ==
  ASSUME NEW g, Good(g), Present(g.arena), NEW ev, IsEvent(ev),
         NEW asked, AskedAs(g, ev, asked), asked.first = 0,
         NEW h, h = NobodyChosen(g, asked.answers)
  PROVE  /\ \E stay : KeptAt(g, ev, h, stay)
         /\ OnlyArena(g, h)
<1> DEFINE a == g.arena
           n == Len(a.entries)
           all == asked.answers
           stay == {i \in DOMAIN all : all[i].verdict # "Rejected"}
           R == [i \in DOMAIN a.entries |-> Handle(a.entries[i], ev).r]
           left == [a EXCEPT !.entries = Selected(R, stay)]
<1>1. /\ g \in Bundles /\ a \in Arenas /\ a.is_open /\ n \in Nat \ {0}
      /\ DOMAIN a.entries = 1 .. n /\ g.begun \in 0 .. 2
  BY KeptArena DEF Good, Sound, Bundles
<1>2. /\ DOMAIN all = 1 .. n
      /\ \A i \in 1 .. n : all[i] = Handle(a.entries[i], ev)
      /\ \A i \in 1 .. n : all[i].verdict \in {"Possible", "Rejected"}
      /\ \A i \in 1 .. n : Sane(a.entries[i], ev, all[i])
  <2>1. asked.first \notin 1 .. n /\ n \in Nat
    BY <1>1
  <2>2. \A i \in 1 .. n : Sane(a.entries[i], ev, Handle(a.entries[i], ev))
    BY <1>1, HandleIsSane DEF Good, Sound
  <2>3. /\ DOMAIN all = 1 .. n
        /\ \A i \in 1 .. n : /\ all[i] = Handle(a.entries[i], ev)
                             /\ Handle(a.entries[i], ev).verdict \in {"Possible", "Rejected"}
    BY <2>1 DEF AskedAs
  <2> HIDE DEF n, all
  <2> QED BY <2>2, <2>3
<1>3. After(all) = R
  BY <1>1, <1>2 DEF After
<1>4. Count(g.begun, all) = g.begun
  <2>1. n \in Nat /\ g.begun \in 0 .. 2 /\ DOMAIN all = 1 .. n /\ 0 \notin 1 .. n
    BY <1>1, <1>2
  <2>2. \A i \in 1 .. n : i # 0 => all[i].calls \notin Successes
    BY <1>2 DEF Sane
  <2> HIDE DEF n, all
  <2> QED BY <2>1, <2>2, OneSuccess
<1>5. R \in Seq(Entry) /\ DOMAIN R = 1 .. n
  <2>1. ASSUME NEW i \in 1 .. n PROVE R[i] \in Entry
    <3>1. R[i] = all[i].r
      BY <1>1, <1>2
    <3> QED BY <1>2, <3>1 DEF Sane, WellKept
  <2>2. DOMAIN R = 1 .. n /\ R = [i \in 1 .. n |-> R[i]] /\ n \in Nat
    BY <1>1
  <2> HIDE DEF R, n
  <2> QED BY <2>1, <2>2, IndexedIsSeq
<1>6. stay \in SUBSET DOMAIN R
  BY <1>2, <1>5
<1>7. Selected(R, stay) \in Seq(Entry)
  <2> HIDE DEF R, stay
  <2> QED BY <1>5, <1>6, SelectedType
<1>8. left \in Arenas /\ left.is_open
  <2> HIDE DEF R, stay
  <2> QED BY <1>1, <1>7 DEF Arenas
<1>9. Gc(left) = left /\ Gc(Close(left)) = NoArena
  BY <1>8, OpenStays, ClosedGoes
<1>10. h = [g EXCEPT !.arena = Gc(IF stay = {} THEN Close(left) ELSE left),
                     !.begun = Count(g.begun, all)]
  BY <1>3, Zenon DEF NobodyChosen
<1>11. \A i \in DOMAIN a.entries :
         Handle(a.entries[i], ev).verdict = IF i \in stay THEN "Possible" ELSE "Rejected"
  BY <1>1, <1>2
<1> HIDE DEF left, stay
<1>12. h.begun = g.begun /\ h.arena = IF stay = {} THEN NoArena ELSE left
  BY <1>1, <1>4, <1>9, <1>10 DEF Bundles
<1>13. OnlyArena(g, h)
  BY <1>4, <1>9, <1>10, <1>12 DEF OnlyArena
<1>14. stay \in SUBSET DOMAIN a.entries
  BY <1>1, <1>5, <1>6
<1>15. KeptAt(g, ev, h, stay)
  BY <1>11, <1>12, <1>14 DEF KeptAt, left
<1> QED BY <1>13, <1>15

-----------------------------------------------------------------------------
(* What dispatch keeps.                                                    *)

Dispatched(g, ev, h) ==
  /\ Good(h)
  /\ OnlyArena(g, h)
  /\ Present(h.arena) =>
       /\ Present(g.arena) /\ h.arena.hold_count = g.arena.hold_count
       /\ Len(h.arena.entries) <= Len(g.arena.entries)
       /\ ev.phase = "Up" \/ Rested(g.arena) => Rested(h.arena)

\* A bundle whose arena went is good.
LEMMA GoneIsGood ==
  ASSUME NEW g, Good(g), NEW h, OnlyArena(g, h),
         h.begun \in 0 .. 2, h.arena = NoArena
  PROVE  Good(h) /\ ~Present(h.arena)
<1>1. Sound(NoArena) /\ NoArena \in Arenas /\ ~Present(NoArena)
  BY NoArenaIsSound DEF Sound
<1> DEFINE b == h.begun
<1>2. h = [g EXCEPT !.arena = NoArena, !.begun = b] /\ b \in 0 .. 2 /\ g \in Bundles
  BY DEF Good, OnlyArena
<1> HIDE DEF b
<1>3. h \in Bundles
  BY <1>1, <1>2 DEF Bundles
<1> QED BY <1>1, <1>3 DEF Good

LEMMA WinnerDispatched ==
  ASSUME NEW g, Good(g), Present(g.arena), g.arena.winner # 0, NEW ev, IsEvent(ev),
         NEW h, h = DispatchToWinner(g, ev)
  PROVE  Dispatched(g, ev, h)
<1> DEFINE a == g.arena
           w == a.winner
           ans == Handle(a.entries[w], ev)
           kept == [a.entries EXCEPT ![w] = ans.r]
           left == [a EXCEPT !.entries = kept]
<1>1. /\ g \in Bundles /\ a \in Arenas /\ a.is_open
      /\ a.entries \in Seq(Entry) /\ w \in 1 .. Len(a.entries)
      /\ Len(a.entries) \in Nat \ {0} /\ DOMAIN a.entries = 1 .. Len(a.entries)
      /\ \A i \in 1 .. Len(a.entries) : WellKept(a.entries[i])
  BY KeptArena DEF Good, Sound, Bundles
<1>2. /\ Sane(a.entries[w], ev, ans) /\ kept \in Seq(Entry) /\ Len(kept) = Len(a.entries)
      /\ OnlyArena(g, h)
      /\ h.arena = IF Final(ev) \/ ans.verdict = "Rejected" THEN NoArena ELSE left
      /\ h.begun \in 0 .. 2
  <2>1. ans = Handle(g.arena.entries[g.arena.winner], ev)
    OBVIOUS
  <2> HIDE DEF ans
  <2>2. Sane(a.entries[w], ev, ans) /\ WinnerLeft(g, ev, h, ans) /\ OnlyArena(g, h)
    BY <2>1, WinnerShape
  <2> QED BY <2>2 DEF WinnerLeft
<1>3. \A i \in 1 .. Len(a.entries) : WellKept(kept[i])
  BY <1>1, <1>2 DEF Sane
<1> HIDE DEF kept, ans
<1>4. /\ left \in Arenas /\ left.is_open /\ left.entries = kept /\ left.winner = w
      /\ left.hold_count = a.hold_count
  BY <1>1, <1>2 DEF Arenas
<1>5. Sound(left)
  BY <1>1, <1>2, <1>3, <1>4 DEF Sound
<1> HIDE DEF left
<1>6. CASE h.arena = NoArena
  BY <1>2, <1>6, GoneIsGood DEF Dispatched
<1>7. CASE h.arena = left /\ ~Final(ev)
  <2>1. h \in Bundles
    BY <1>1, <1>2, <1>4, <1>7 DEF Bundles, OnlyArena
  <2>2. ev.phase # "Up" /\ ~Rested(a)
    BY <1>1, <1>7 DEF Final, Rested
  <2> QED BY <1>1, <1>2, <1>4, <1>5, <1>7, <2>1, <2>2 DEF Dispatched, Good
<1> QED BY <1>2, <1>6, <1>7

LEMMA ChosenDispatched ==
  ASSUME NEW g, Good(g), Present(g.arena), NEW ev, IsEvent(ev),
         NEW h, OnlyArena(g, h),
         NEW w, WonBy(g, ev, h, w)
  PROVE  Dispatched(g, ev, h)
<1> DEFINE a == g.arena
           n == Len(a.entries)
           E == [i \in DOMAIN a.entries |-> IF i = w THEN Handle(a.entries[i], ev).r
                                            ELSE Fresh(a.entries[i].kind)]
           won == [a EXCEPT !.entries = E, !.winner = w]
<1>1. /\ g \in Bundles /\ a \in Arenas /\ a.is_open /\ n \in Nat \ {0}
      /\ DOMAIN a.entries = 1 .. n
      /\ \A i \in 1 .. n : WellKept(a.entries[i])
  BY KeptArena DEF Good, Sound, Bundles
<1>2. /\ w \in 1 .. n /\ h.begun \in 0 .. 2
      /\ h.arena = IF Final(ev) THEN NoArena ELSE won
      /\ Handle(a.entries[w], ev).verdict = "Accepted"
  BY <1>1 DEF WonBy
<1>3. CASE Final(ev)
  BY <1>2, <1>3, GoneIsGood DEF Dispatched
<1>4. CASE ~Final(ev)
  <2>1. ASSUME NEW i \in 1 .. n PROVE WellKept(E[i])
    <3>1. /\ WellKept(a.entries[i]) /\ Sane(a.entries[i], ev, Handle(a.entries[i], ev))
          /\ a.entries[i].kind \in Kinds
      BY <1>1, HandleIsSane DEF WellKept, Entry, States
    <3>2. WellKept(Handle(a.entries[i], ev).r) /\ WellKept(Fresh(a.entries[i].kind))
      BY <3>1, FreshIsWellKept DEF Sane
    <3> QED BY <1>1, <3>2
  <2>2. DOMAIN E = 1 .. n /\ E = [i \in 1 .. n |-> E[i]]
    BY <1>1
  <2>3. ~Rested(a)
    <3>1. Sane(a.entries[w], ev, Handle(a.entries[w], ev))
      BY <1>1, <1>2, HandleIsSane
    <3>2. ~Quiet(a.entries[w])
      BY <1>2, <1>4, <3>1 DEF Sane, Quiet, Final
    <3> QED BY <1>1, <1>2, <3>2 DEF Rested
  <2>4. n \in Nat \ {0} /\ w # 0 /\ w \in Nat /\ w <= n
    BY <1>1, <1>2
  <2> HIDE DEF E, n
  <2>5. E \in Seq(Entry) /\ Len(E) = n
    BY <2>1, <2>2, <2>4, IndexedIsSeq DEF WellKept
  <2>6. /\ won \in Arenas /\ won.is_open /\ won.entries = E /\ won.winner = w
        /\ won.hold_count = a.hold_count
    BY <1>1, <2>4, <2>5 DEF Arenas
  <2>7. Sound(won)
    BY <2>1, <2>2, <2>4, <2>5, <2>6 DEF Sound
  <2> HIDE DEF won
  <2>8. h \in Bundles
    <3> DEFINE b == h.begun
    <3>1. h = [g EXCEPT !.arena = won, !.begun = b] /\ b \in 0 .. 2
      BY <1>2, <1>4 DEF OnlyArena
    <3> HIDE DEF b
    <3> QED BY <1>1, <2>6, <3>1 DEF Bundles
  <2> QED BY <1>2, <1>4, <2>3, <2>4, <2>5, <2>6, <2>7, <2>8 DEF Dispatched, Good, Final, n
<1> QED BY <1>3, <1>4

LEMMA NobodyDispatched ==
  ASSUME NEW g, Good(g), Present(g.arena), g.arena.winner = 0, NEW ev, IsEvent(ev),
         NEW h, OnlyArena(g, h),
         NEW stay, KeptAt(g, ev, h, stay)
  PROVE  Dispatched(g, ev, h)
<1> DEFINE a == g.arena
           n == Len(a.entries)
           R == [i \in DOMAIN a.entries |-> Handle(a.entries[i], ev).r]
           E == Selected(R, stay)
           left == [a EXCEPT !.entries = E]
<1>1. /\ g \in Bundles /\ a \in Arenas /\ a.is_open /\ n \in Nat \ {0}
      /\ DOMAIN a.entries = 1 .. n /\ h.begun = g.begun /\ g.begun \in 0 .. 2
      /\ \A i \in 1 .. n : WellKept(a.entries[i])
  BY KeptArena DEF Good, Sound, Bundles, KeptAt
<1>2. stay \in SUBSET (1 .. n) /\ h.arena = IF stay = {} THEN NoArena ELSE left
  BY <1>1 DEF KeptAt
<1>3. CASE stay = {}
  BY <1>1, <1>2, <1>3, GoneIsGood DEF Dispatched
<1>4. CASE stay # {}
  <2>1. ASSUME NEW i \in 1 .. n
        PROVE  R[i] = Handle(a.entries[i], ev).r /\ Sane(a.entries[i], ev, Handle(a.entries[i], ev))
    BY <1>1, HandleIsSane
  <2>2. DOMAIN R = 1 .. n /\ R = [i \in 1 .. n |-> R[i]]
    BY <1>1
  <2>3. n \in Nat
    BY <1>1
  <2>4. R \in Seq(Entry) /\ Len(R) = n
    <3>1. \A i \in 1 .. n : R[i] \in Entry
      BY <2>1 DEF Sane, WellKept
    <3> HIDE DEF R, n
    <3> QED BY <2>2, <2>3, <3>1, IndexedIsSeq
  <2> HIDE DEF R
  <2>5. /\ E \in Seq(Entry) /\ Len(E) \in 1 .. n /\ DOMAIN E = 1 .. Len(E)
        /\ \A j \in 1 .. Len(E) : Nth(stay, j) \in 1 .. n /\ E[j] = R[Nth(stay, j)]
    <3>1. stay \in SUBSET DOMAIN R
      BY <1>2, <2>2
    <3> QED BY <1>2, <1>4, <2>3, <2>4, <3>1, SelectedType
  <2>6. ASSUME NEW j \in 1 .. Len(E)
        PROVE  \E i \in 1 .. n : E[j] = Handle(a.entries[i], ev).r
                                 /\ Sane(a.entries[i], ev, Handle(a.entries[i], ev))
    BY <2>1, <2>5
  <2> HIDE DEF E
  <2>7. \A j \in 1 .. Len(E) : WellKept(E[j])
    BY <2>6 DEF Sane
  <2>8. ASSUME NEW j \in 1 .. Len(E), E[j].kind = "DoubleTap" PROVE a.hold_count > 0
    <3>1. PICK i \in 1 .. n : E[j] = Handle(a.entries[i], ev).r
                              /\ Sane(a.entries[i], ev, Handle(a.entries[i], ev))
      BY <2>6
    <3>2. a.entries[i].kind = "DoubleTap"
      BY <2>8, <3>1 DEF Sane
    <3>3. Sound(a) /\ i \in 1 .. Len(a.entries)
      BY <1>1, <3>1 DEF Good
    <3> QED BY <3>2, <3>3 DEF Sound
  <2>9. ASSUME NEW j \in 1 .. Len(E), ev.phase = "Up" \/ Rested(a) PROVE Quiet(E[j])
    <3>1. PICK i \in 1 .. n : E[j] = Handle(a.entries[i], ev).r
                              /\ Sane(a.entries[i], ev, Handle(a.entries[i], ev))
      BY <2>6
    <3>2. Rested(a) => Quiet(a.entries[i])
      BY <1>1, <3>1 DEF Rested
    <3> QED BY <2>9, <3>1, <3>2 DEF Sane, Quiet
  <2>10. /\ left \in Arenas /\ left.is_open /\ left.entries = E /\ left.winner = 0
         /\ left.hold_count = a.hold_count
    BY <1>1, <2>5 DEF Arenas
  <2>11. Sound(left)
    BY <2>5, <2>7, <2>8, <2>10 DEF Sound
  <2> HIDE DEF left
  <2>12. h \in Bundles
    <3> DEFINE b == h.begun
    <3>1. h = [g EXCEPT !.arena = left, !.begun = b] /\ b \in 0 .. 2
      BY <1>1, <1>2, <1>4 DEF OnlyArena
    <3> HIDE DEF b
    <3> QED BY <1>1, <2>10, <3>1 DEF Bundles
  <2>13. ev.phase = "Up" \/ Rested(a) => Rested(left)
    BY <2>5, <2>9, <2>10 DEF Rested
  <2>14. Len(E) <= Len(a.entries)
    BY <2>3, <2>5
  <2> QED BY <1>2, <1>4, <2>10, <2>11, <2>12, <2>13, <2>14 DEF Dispatched, Good
<1> QED BY <1>3, <1>4

\* Dispatch of any event.
LEMMA DispatchKeeps ==
  ASSUME NEW g, Good(g), NEW ev, IsEvent(ev), NEW h, h = Dispatch(g, ev)
  PROVE  /\ Dispatched(g, ev, h)
         /\ ~Present(g.arena) => h = g
<1>1. CASE ~Present(g.arena)
  <2>1. h = g /\ OnlyArena(g, h)
    BY <1>1 DEF Dispatch, Good, Bundles, OnlyArena
  <2> QED BY <1>1, <2>1 DEF Dispatched
<1>2. CASE Present(g.arena) /\ g.arena.winner # 0
  <2>1. g.arena.is_open
    BY <1>2, KeptArena DEF Good
  <2> QED BY <1>2, <2>1, WinnerDispatched DEF Dispatch
<1>3. CASE Present(g.arena) /\ g.arena.winner = 0
  <2>1. g.arena.is_open
    BY <1>3, KeptArena DEF Good
  <2> DEFINE all == [i \in DOMAIN g.arena.entries |-> Handle(g.arena.entries[i], ev)]
             asked == UpToFirstAccepted(g.arena.entries, all)
  <2>2. h = Decide(g, ev, asked)
    BY <1>3, <2>1 DEF Dispatch, DispatchUndecided
  <2>3. AskedAs(g, ev, asked)
    BY <1>3, AskedShape
  <2> HIDE DEF asked
  <2>4. CASE asked.first # 0
    <3>1. h = Chosen(g, ev, asked.first, OthersRejected(asked.answers, asked.first))
      BY <2>2, <2>4 DEF Decide
    <3>2. WonBy(g, ev, h, asked.first) /\ OnlyArena(g, h)
      BY <1>3, <2>3, <2>4, <3>1, ChosenShape
    <3> QED BY <1>3, <3>2, ChosenDispatched
  <2>5. CASE asked.first = 0
    <3>1. h = NobodyChosen(g, asked.answers)
      BY <2>2, <2>5 DEF Decide
    <3>2. /\ \E stay : KeptAt(g, ev, h, stay)
          /\ OnlyArena(g, h)
      BY <1>3, <2>3, <2>5, <3>1, NobodyShape
    <3> QED BY <1>3, <3>2, NobodyDispatched
  <2> QED BY <1>3, <2>4, <2>5
<1> QED BY <1>1, <1>2, <1>3

\* The winner reports one success at most.
LEMMA WinnerStaysOwner ==
  ASSUME NEW g, Good(g), Present(g.arena), g.arena.winner # 0, Owned(g.arena, g.begun),
         NEW ev, IsEvent(ev), ev.phase # "Down", NEW h, h = DispatchToWinner(g, ev)
  PROVE  Owned(h.arena, h.begun)
<1> DEFINE a == g.arena
           w == a.winner
           e == a.entries[w]
           ans == Handle(e, ev)
           kept == [a.entries EXCEPT ![w] = ans.r]
           left == [a EXCEPT !.entries = kept]
<1>1. /\ a \in Arenas /\ w \in 1 .. Len(a.entries) /\ DOMAIN a.entries = 1 .. Len(a.entries)
      /\ WellKept(e)
  BY KeptArena DEF Good, Sound
<1>2. Decided(a, g.begun) /\ g.begun \in 0 .. 1
  BY DEF Owned
<1>3. Sane(e, ev, ans) /\ WinnerLeft(g, ev, h, ans)
  <2>1. ans = Handle(g.arena.entries[g.arena.winner], ev)
    OBVIOUS
  <2> HIDE DEF ans
  <2> QED BY <2>1, WinnerShape
<1> HIDE DEF ans
<1>4. /\ h.arena = IF Final(ev) \/ ans.verdict = "Rejected" THEN NoArena ELSE left
      /\ ans.calls \notin Successes => h.begun = g.begun
      /\ g.begun = 0 => h.begun \in 0 .. 1
  BY <1>3 DEF WinnerLeft
<1>5. g.begun = 1 => ans.calls \notin Successes
  BY <1>2, <1>3 DEF Decided, Sane
<1>6. h.begun \in 0 .. 1
  BY <1>2, <1>4, <1>5
<1>7. CASE h.arena = NoArena
  BY <1>6, <1>7, NoArenaIsSound DEF Owned
<1>8. CASE h.arena = left /\ ~Final(ev) /\ ans.verdict # "Rejected"
  <2>1. /\ left.winner = w /\ left.entries = kept /\ DOMAIN kept = DOMAIN a.entries
        /\ kept[w] = ans.r /\ \A i \in DOMAIN a.entries \ {w} : kept[i] = a.entries[i]
        /\ \A i \in DOMAIN a.entries : kept[i].kind = a.entries[i].kind
    <3>1. ans.r.kind = e.kind
      BY <1>3 DEF Sane
    <3> QED BY <1>1, <3>1 DEF Arenas
  <2> HIDE DEF left, kept
  <2>2. h.begun = 1 => ans.r.kind = "LongPress" \/ (ans.r.kind \in DragKinds /\ ans.r.st = "Accepted")
    <3>1. CASE ans.calls \in Successes
      BY <1>3, <1>8, <3>1 DEF Sane
    <3>2. CASE ans.calls \notin Successes
      BY <1>2, <1>3, <1>4, <1>8, <3>2 DEF Sane, Decided
    <3> QED BY <3>1, <3>2
  <2>3. ASSUME ans.r.timer > 0
        PROVE  ~ (ans.r.slot \in DOMAIN kept /\ kept[ans.r.slot].kind = "LongPress")
    <3>1. ans.r.st # "Idle"
      BY <1>3, <2>3 DEF Sane, WellKept
    <3>2. e.timer > 0 /\ ans.r.slot = e.slot
      BY <1>3, <2>3, <3>1 DEF Sane
    <3> QED BY <1>2, <2>1, <3>2 DEF Decided
  <2>4. \A i \in DOMAIN kept \ {w} :
          kept[i].st = "Idle" /\ kept[i].timer = 0 /\ ~kept[i].accepted
    BY <1>2, <2>1 DEF Decided
  <2>5. Decided(left, h.begun)
    BY <2>1, <2>2, <2>3, <2>4 DEF Decided
  <2> QED BY <1>6, <1>8, <2>1, <2>5 DEF Owned
<1> QED BY <1>4, <1>7, <1>8

\* A winner that is chosen leaves nobody behind.
LEMMA ChosenOwns ==
  ASSUME NEW g, Good(g), Present(g.arena), g.arena.winner = 0, Owned(g.arena, g.begun),
         NEW ev, IsEvent(ev), NEW h, NEW w, WonBy(g, ev, h, w)
  PROVE  Owned(h.arena, h.begun)
<1> DEFINE a == g.arena
           e == a.entries[w]
           E == [i \in DOMAIN a.entries |-> IF i = w THEN Handle(a.entries[i], ev).r
                                            ELSE Fresh(a.entries[i].kind)]
           won == [a EXCEPT !.entries = E, !.winner = w]
<1>1. /\ a \in Arenas /\ DOMAIN a.entries = 1 .. Len(a.entries) /\ Len(a.entries) \in Nat
      /\ \A i \in DOMAIN a.entries : WellKept(a.entries[i])
  BY KeptArena DEF Good, Sound
<1>2. /\ w \in DOMAIN a.entries /\ Handle(e, ev).verdict = "Accepted"
      /\ Handle(e, ev).calls \notin Successes => h.begun = g.begun
      /\ g.begun = 0 => h.begun \in 0 .. 1
      /\ h.arena = IF Final(ev) THEN NoArena ELSE won
  BY DEF WonBy
<1>3. g.begun = 0 /\ h.begun \in 0 .. 1
  BY <1>2 DEF Owned
<1>4. Sane(e, ev, Handle(e, ev))
  BY <1>1, <1>2, HandleIsSane
<1>5. CASE Final(ev)
  BY <1>2, <1>3, <1>5, NoArenaIsSound DEF Owned
<1>6. CASE ~Final(ev)
  <2>1. /\ won.winner = w /\ won.entries = E /\ DOMAIN E = DOMAIN a.entries
        /\ E[w] = Handle(e, ev).r /\ \A i \in DOMAIN E \ {w} : E[i] = Fresh(a.entries[i].kind)
    BY <1>1, <1>2 DEF Arenas
  <2> HIDE DEF won, E
  <2>2. ASSUME NEW i \in DOMAIN E \ {w}
        PROVE  E[i].st = "Idle" /\ E[i].timer = 0 /\ ~E[i].accepted
    <3>1. a.entries[i].kind \in Kinds
      BY <1>1, <2>1 DEF WellKept, Entry, States
    <3> QED BY <2>1, <3>1, FreshIsWellKept
  <2>3. /\ e.kind \in DragKinds /\ E[w].kind = e.kind
        /\ E[w].timer > 0 => E[w].kind = "LongPress"
    BY <1>2, <1>4, <1>6, <2>1 DEF Sane, Final, WellKept
  <2>4. ~ (E[w].timer > 0)
    BY <2>3 DEF DragKinds
  <2>5. ASSUME h.begun = 1 PROVE E[w].kind \in DragKinds /\ E[w].st = "Accepted"
    <3>1. Handle(e, ev).calls \in Successes
      BY <1>2, <1>3, <2>5
    <3>2. Handle(e, ev).r.st = "Accepted"
      BY <1>4, <1>6, <3>1 DEF Sane
    <3> QED BY <2>1, <2>3, <3>2
  <2>6. Decided(won, h.begun)
    BY <2>1, <2>2, <2>4, <2>5 DEF Decided
  <2>7. w # 0
    BY <1>1, <1>2
  <2> QED BY <1>2, <1>3, <1>6, <2>1, <2>6, <2>7 DEF Owned
<1> QED BY <1>5, <1>6

\* Those that are kept close up, no faster than their slots.
LEMMA NobodyOwns ==
  ASSUME NEW g, Good(g), Present(g.arena), g.arena.winner = 0, Owned(g.arena, g.begun),
         NEW ev, IsEvent(ev), NEW h, NEW stay, KeptAt(g, ev, h, stay)
  PROVE  Owned(h.arena, h.begun)
<1> DEFINE a == g.arena
           n == Len(a.entries)
           R == [i \in DOMAIN a.entries |-> Handle(a.entries[i], ev).r]
           E == Selected(R, stay)
           left == [a EXCEPT !.entries = E]
           was(j) == a.entries[Nth(stay, j)]
<1>1. /\ a \in Arenas /\ DOMAIN a.entries = 1 .. n /\ n \in Nat
      /\ \A i \in 1 .. n : WellKept(a.entries[i])
  BY KeptArena DEF Good, Sound
<1>2. /\ stay \in SUBSET (1 .. n) /\ h.begun = g.begun
      /\ \A i \in stay : Handle(a.entries[i], ev).verdict = "Possible"
      /\ h.arena = IF stay = {} THEN NoArena ELSE left
  BY <1>1 DEF KeptAt
<1>3. g.begun = 0 /\ Undecided(a)
  BY DEF Owned
<1>4. CASE stay = {}
  BY <1>2, <1>3, <1>4, NoArenaIsSound DEF Owned
<1>5. CASE stay # {}
  <2>1. R \in Seq(Entry) /\ DOMAIN R = 1 .. n /\ Len(R) = n
    <3>1. ASSUME NEW i \in 1 .. n PROVE R[i] \in Entry
      BY <1>1, HandleIsSane DEF Sane, WellKept
    <3>2. DOMAIN R = 1 .. n /\ R = [i \in 1 .. n |-> R[i]] /\ n \in Nat
      BY <1>1
    <3> HIDE DEF R, n
    <3> QED BY <3>1, <3>2, IndexedIsSeq
  <2>2. \A i \in 1 .. n : R[i] = Handle(a.entries[i], ev).r
    BY <1>1
  <2> HIDE DEF R
  <2>3. /\ E \in Seq(Entry) /\ DOMAIN E = 1 .. Cardinality(stay) /\ Cardinality(stay) \in Nat
        /\ \A j \in 1 .. Cardinality(stay) : Nth(stay, j) \in stay /\ E[j] = R[Nth(stay, j)]
    BY <1>1, <1>2, <2>1, SelectedType
  <2> DEFINE N == 1 .. Cardinality(stay)
  <2>4. ASSUME NEW j \in N
        PROVE  /\ Nth(stay, j) \in 1 .. n /\ j <= Nth(stay, j)
               /\ E[j].kind = was(j).kind
               /\ Live(E[j]) <=> Live(was(j))
               /\ Live(E[j]) => E[j].slot = was(j).slot
               /\ ~E[j].accepted /\ E[j].st # "Accepted"
    <3>1. /\ Nth(stay, j) \in stay /\ Nth(stay, j) \in 1 .. n /\ j <= Nth(stay, j)
      BY <1>1, <1>2, <2>3, NthBehind
    <3>2. /\ Sane(was(j), ev, Handle(was(j), ev)) /\ Handle(was(j), ev).verdict = "Possible"
          /\ E[j] = Handle(was(j), ev).r
      BY <1>1, <1>2, <2>2, <2>3, <3>1, HandleIsSane
    <3>3. ~was(j).accepted /\ was(j).st # "Accepted"
      BY <1>1, <1>3, <3>1 DEF Undecided
    <3> QED BY <3>1, <3>2, <3>3 DEF Sane, Live
  <2>5. \A i, j \in N : i < j => /\ Nth(stay, i) < Nth(stay, j)
                                 /\ Nth(stay, j) - Nth(stay, i) >= j - i
    BY <1>1, <1>2, NthOrder
  <2> HIDE DEF E
  <2>6. ASSUME NEW i \in N, Live(E[i])
        PROVE  /\ i <= E[i].slot
               /\ \A j \in N : i < j /\ E[j].kind = "LongPress" =>
                    /\ Live(E[j])
                    /\ E[j].slot - E[i].slot >= j - i
                    /\ \A m \in N : j < m => ~Live(E[m])
    <3> DEFINE p == Nth(stay, i)
    <3>1. /\ p \in 1 .. n /\ Live(a.entries[p]) /\ i <= p /\ E[i].slot = a.entries[p].slot
          /\ WellKept(a.entries[p])
      BY <1>1, <2>4, <2>6
    <3>2. a.entries[p].slot \in Nat
      BY <3>1 DEF WellKept, Entry, States
    <3>3. p <= a.entries[p].slot
      BY <1>1, <1>3, <3>1 DEF Undecided
    <3>4. i <= E[i].slot
      BY <3>1, <3>2, <3>3
    <3>5. ASSUME NEW j \in N, i < j, E[j].kind = "LongPress"
          PROVE  /\ Live(E[j])
                 /\ E[j].slot - E[i].slot >= j - i
                 /\ \A m \in N : j < m => ~Live(E[m])
      <4> DEFINE q == Nth(stay, j)
      <4>1. /\ q \in 1 .. n /\ p < q /\ q - p >= j - i /\ a.entries[q].kind = "LongPress"
        BY <2>4, <2>5, <3>5
      <4>2. /\ Live(a.entries[q])
            /\ a.entries[q].slot - a.entries[p].slot >= q - p
            /\ \A m \in 1 .. n : q < m => ~Live(a.entries[m])
        BY <1>1, <1>3, <3>1, <4>1 DEF Undecided
      <4>3. Live(E[j]) /\ E[j].slot = a.entries[q].slot
        BY <2>4, <4>2
      <4>4. ASSUME NEW m \in N, j < m PROVE ~Live(E[m])
        <5>1. Nth(stay, m) \in 1 .. n /\ q < Nth(stay, m)
          BY <2>4, <2>5, <4>4
        <5> QED BY <2>4, <4>2, <5>1
      <4>5. a.entries[q].slot \in Nat
        BY <1>1, <4>1 DEF WellKept, Entry, States
      <4> HIDE DEF p, q
      <4>6. i \in Int /\ j \in Int /\ p \in Int /\ q \in Int
        BY <3>1, <4>1
      <4>7. a.entries[q].slot - a.entries[p].slot >= j - i
        <5> DEFINE u == a.entries[p].slot
                   w == a.entries[q].slot
        <5>1. u \in Int /\ w \in Int
          BY <3>2, <4>5
        <5>2. w - u >= q - p /\ q - p >= j - i
          BY <4>1, <4>2
        <5> HIDE DEF u, w
        <5>3. w - u >= j - i
          BY <4>6, <5>1, <5>2
        <5> QED BY <5>3 DEF u, w
      <4>8. E[j].slot - E[i].slot >= j - i
        BY <3>1, <4>3, <4>7
      <4> QED BY <4>3, <4>4, <4>8
    <3> QED BY <3>4, <3>5
  <2>7. left.entries = E /\ left.winner = 0
    BY <1>1 DEF Arenas
  <2> HIDE DEF left
  <2>8. Undecided(left)
    BY <2>3, <2>4, <2>6, <2>7 DEF Undecided
  <2> QED BY <1>2, <1>3, <1>5, <2>7, <2>8 DEF Owned
<1> QED BY <1>4, <1>5

LEMMA DispatchOwns ==
  ASSUME NEW g, Good(g), Owned(g.arena, g.begun), NEW ev, IsEvent(ev),
         ev.phase = "Down" => g.arena.winner = 0, NEW h, h = Dispatch(g, ev)
  PROVE  Owned(h.arena, h.begun)
<1>1. CASE ~Present(g.arena)
  BY <1>1 DEF Dispatch
<1>2. CASE Present(g.arena) /\ g.arena.winner # 0
  <2>1. g.arena.is_open
    BY <1>2, KeptArena DEF Good
  <2>2. h = DispatchToWinner(g, ev)
    BY <1>2, <2>1 DEF Dispatch
  <2> QED BY <1>2, <2>2, WinnerStaysOwner
<1>3. CASE Present(g.arena) /\ g.arena.winner = 0
  <2>1. g.arena.is_open
    BY <1>3, KeptArena DEF Good
  <2> DEFINE all == [i \in DOMAIN g.arena.entries |-> Handle(g.arena.entries[i], ev)]
             asked == UpToFirstAccepted(g.arena.entries, all)
  <2>2. h = Decide(g, ev, asked)
    BY <1>3, <2>1 DEF Dispatch, DispatchUndecided
  <2>3. AskedAs(g, ev, asked)
    BY <1>3, AskedShape
  <2> HIDE DEF asked
  <2>4. CASE asked.first # 0
    <3>1. h = Chosen(g, ev, asked.first, OthersRejected(asked.answers, asked.first))
      BY <2>2, <2>4 DEF Decide
    <3>2. WonBy(g, ev, h, asked.first)
      BY <1>3, <2>3, <2>4, <3>1, ChosenShape
    <3> QED BY <1>3, <3>2, ChosenOwns
  <2>5. CASE asked.first = 0
    <3>1. h = NobodyChosen(g, asked.answers)
      BY <2>2, <2>5 DEF Decide
    <3>2. \E stay : KeptAt(g, ev, h, stay)
      BY <1>3, <2>3, <2>5, <3>1, NobodyShape
    <3> QED BY <1>3, <3>2, NobodyOwns
  <2> QED BY <1>3, <2>4, <2>5
<1> QED BY <1>1, <1>2, <1>3

-----------------------------------------------------------------------------
(* The end of an event: sweep, cancel, release.                            *)

\* A sweep removes an undecided arena that nobody holds, with one success at
\* most, the captain's; it touches nothing else.
LEMMA SweepKeeps ==
  ASSUME NEW g, Good(g), NEW h, h = Sweep(g)
  PROVE  /\ Good(h) /\ OnlyArena(g, h)
         /\ h.arena = IF Sweepable(g.arena) THEN NoArena ELSE g.arena
         /\ ~Sweepable(g.arena) => h = g
         /\ Owned(g.arena, g.begun) => Owned(h.arena, h.begun)
<1> DEFINE a == g.arena
           n == Len(a.entries)
<1>1. CASE ~Sweepable(a)
  <2>1. h = g
    BY <1>1 DEF Sweep
  <2>2. OnlyArena(g, h)
    BY <2>1 DEF OnlyArena, Good, Bundles
  <2> QED BY <1>1, <2>1, <2>2
<1>2. CASE Sweepable(a)
  <2> DEFINE answers == [i \in DOMAIN a.entries |-> IF i = 1 THEN SweepAccepted(a.entries[i])
                                                    ELSE Reject(a.entries[i])]
             gone == [Swept(a) EXCEPT !.entries = After(answers)]
  <2>1. /\ a \in Arenas /\ DOMAIN a.entries = 1 .. n /\ n \in Nat \ {0}
        /\ \A i \in 1 .. n : WellKept(a.entries[i])
        /\ a.winner = 0 /\ a.is_open /\ a.hold_count = 0 /\ Present(a)
        /\ g \in Bundles /\ g.begun \in 0 .. 2
    BY <1>2, KeptArena DEF Good, Sound, Sweepable, Bundles
  <2>2. h = SweptWith(g, answers)
    BY <1>2 DEF Sweep
  <2>3. DOMAIN answers = 1 .. n /\ \A i \in 1 .. n : i # 1 => answers[i].calls \notin Successes
    BY <2>1 DEF Reject, Answer, Successes
  <2> HIDE DEF answers
  <2>4. ~gone.is_open /\ gone.hold_count = 0
    BY <2>1 DEF Swept, Arenas
  <2>5. Gc(gone) = NoArena
    BY <2>4 DEF Gc, Present
  <2>6. h = [g EXCEPT !.arena = NoArena, !.begun = Count(g.begun, answers)]
    BY <2>2, <2>5 DEF SweptWith
  <2>7. /\ Count(g.begun, answers) \in 0 .. 2
        /\ g.begun = 0 => Count(g.begun, answers) \in 0 .. 1
    <3>1. n \in Nat
      BY <2>1
    <3> HIDE DEF n
    <3> QED BY <2>1, <2>3, <3>1, OneSuccess
  <2>8. h.arena = NoArena /\ h.begun = Count(g.begun, answers)
    BY <2>1, <2>6 DEF Bundles
  <2>9. OnlyArena(g, h)
    BY <2>6, <2>8 DEF OnlyArena
  <2>10. Good(h) /\ ~Present(h.arena)
    BY <2>7, <2>8, <2>9, GoneIsGood
  <2>11. Owned(a, g.begun) => Owned(h.arena, h.begun)
    BY <2>1, <2>7, <2>8, <2>10 DEF Owned
  <2> QED BY <1>2, <2>8, <2>9, <2>10, <2>11
<1> QED BY <1>1, <1>2

\* After an Up the arena is gone, or held and undecided; a press's own
\* recognizers are quiet.
LEMMA UpKeeps ==
  ASSUME NEW g, Good(g), NEW ev, IsEvent(ev), ev.phase = "Up",
         NEW h, h = OnPointerEvent(g, ev)
  PROVE  /\ Good(h) /\ h.parked = g.parked /\ Rested(h.arena)
         /\ Len(h.arena.entries) <= Len(g.arena.entries)
         /\ h.release = IF Present(h.arena) THEN g.release ELSE 0
         /\ h.arena = IF Sweepable(Dispatch(g, ev).arena) THEN NoArena ELSE Dispatch(g, ev).arena
         /\ Owned(g.arena, g.begun) => Owned(h.arena, h.begun)
<1> DEFINE d == Dispatch(g, ev)
           s == Sweep(d)
<1>1. h = EndUnlessHeld(s)
  BY DEF OnPointerEvent, Finish
<1>2. d = Dispatch(g, ev)
  OBVIOUS
<1>3. Dispatched(g, ev, d) /\ (Owned(g.arena, g.begun) => Owned(d.arena, d.begun))
  BY DispatchKeeps, DispatchOwns
<1> HIDE DEF d
<1>4. /\ Good(s) /\ OnlyArena(d, s)
      /\ s.arena = IF Sweepable(d.arena) THEN NoArena ELSE d.arena
      /\ Owned(d.arena, d.begun) => Owned(s.arena, s.begun)
  BY <1>3, SweepKeeps DEF Dispatched
<1> HIDE DEF s
<1>5. g \in Bundles /\ d \in Bundles /\ s \in Bundles
  BY <1>3, <1>4 DEF Dispatched, Good
<1>6. s.release = g.release /\ s.parked = g.parked
  BY <1>3, <1>4, <1>5 DEF Dispatched, OnlyArena, Bundles
<1>7. CASE ~Present(s.arena)
  <2>1. s.arena = NoArena /\ Gc(Close(NoArena)) = NoArena
    BY <1>7 DEF Present, Gc, Close, NoArena
  <2>2. h = [s EXCEPT !.release = 0, !.arena = NoArena]
    BY <1>1, <1>7, <2>1 DEF EndUnlessHeld, TerminalResolved
  <2>3. /\ h.arena = NoArena /\ h.release = 0 /\ h.parked = s.parked /\ h.begun = s.begun
        /\ h \in Bundles
    <3>1. 0 \in 0 .. DoubleTapMax + 1
      BY SettingsAssumption
    <3>2. NoArena \in Arenas
      BY NoArenaIsSound DEF Sound
    <3> QED BY <1>5, <2>2, <3>1, <3>2 DEF Bundles
  <2>4. Len(NoArena.entries) = 0 /\ Len(g.arena.entries) \in Nat
    BY <1>5 DEF NoArena, Bundles, Arenas
  <2> QED BY <1>3, <1>4, <1>6, <1>2, <2>1, <2>3, <2>4, NoArenaIsSound DEF Good
<1>8. CASE Present(s.arena)
  <2>1. s.arena = d.arena /\ ~Sweepable(d.arena) /\ Present(d.arena)
    BY <1>4, <1>8 DEF Present
  <2>2. Rested(d.arena) /\ Len(d.arena.entries) <= Len(g.arena.entries)
    BY <1>3, <2>1 DEF Dispatched
  <2>3. d.arena.is_open
    BY <1>3, <2>1, KeptArena DEF Dispatched, Good
  <2>4. h = s
    BY <1>1, <1>8, <2>1, <2>2, <2>3 DEF EndUnlessHeld, TerminalResolved, Rested
  <2> QED BY <1>3, <1>4, <1>6, <1>8, <1>2, <2>1, <2>2, <2>4
<1> QED BY <1>7, <1>8

\* A Cancel or a Removed ends everything.
LEMMA CancelKeeps ==
  ASSUME NEW g, Good(g), NEW ev, IsEvent(ev), ev.phase \in {"Cancel", "Removed"},
         NEW h, h = OnPointerEvent(g, ev)
  PROVE  /\ Good(h) /\ h.parked = g.parked /\ h.arena = NoArena /\ h.release = 0
         /\ Owned(g.arena, g.begun) => Owned(h.arena, h.begun)
<1> DEFINE d == Dispatch(g, ev)
<1>1. h = FinishRemoved(d)
  BY DEF OnPointerEvent, Finish
<1>2. Dispatched(g, ev, d) /\ (Owned(g.arena, g.begun) => Owned(d.arena, d.begun))
  BY DispatchKeeps, DispatchOwns
<1> HIDE DEF d
<1>3. g \in Bundles /\ d \in Bundles /\ d.parked = g.parked
  <2>1. g \in Bundles /\ d \in Bundles
    BY <1>2 DEF Dispatched, Good
  <2> QED BY <1>2, <2>1 DEF Dispatched, OnlyArena, Bundles
<1>4. h = [d EXCEPT !.arena = NoArena, !.release = 0]
  BY <1>1, <1>3 DEF FinishRemoved, CancelArena, Present, Bundles
<1>5. NoArena \in Arenas /\ 0 \in 0 .. DoubleTapMax + 1
  BY NoArenaIsSound, SettingsAssumption DEF Sound
<1>6. /\ h \in Bundles /\ h.arena = NoArena /\ h.release = 0 /\ h.parked = d.parked
      /\ h.begun = d.begun
  BY <1>3, <1>4, <1>5 DEF Bundles
<1> QED BY <1>2, <1>3, <1>6, NoArenaIsSound DEF Good, Owned

-----------------------------------------------------------------------------
(* A press.                                                                *)

\* What is under the pointer brings recognizers of known kinds.
LEMMA JoiningType ==
  ASSUME NEW path \in Seq(Widgets), NEW ready, NEW ev
  PROVE  Joining(path, ready, ev) \in Seq(Kinds)
<1> DEFINE batch(w) == IF w \in ready THEN RecognizersOf[w] ELSE <<>>
           batches == [i \in DOMAIN path |-> batch(path[i])]
           drained == FlattenSeq(batches)
           admitted == {i \in DOMAIN drained : drained[i] \in Filtered => "primary" \in ev.buttons}
<1>1. \A w \in Widgets : batch(w) \in Seq(Kinds)
  BY ElementsAssumption
<1> HIDE DEF batch
<1>2. batches \in Seq(Seq(Kinds))
  <2>1. /\ DOMAIN path = 1 .. Len(path) /\ Len(path) \in Nat
        /\ \A i \in DOMAIN path : path[i] \in Widgets
    OBVIOUS
  <2>2. \A i \in DOMAIN path : batches[i] \in Seq(Kinds)
    BY <1>1, <2>1
  <2>3. DOMAIN batches = DOMAIN path /\ batches = [i \in DOMAIN path |-> batches[i]]
    OBVIOUS
  <2> HIDE DEF batches
  <2> QED BY <2>1, <2>2, <2>3, IndexedIsSeq
<1> HIDE DEF batches
<1>3. drained \in Seq(Kinds)
  BY <1>2, FlattenType
<1>4. Joining(path, ready, ev) = Selected(drained, admitted)
  BY DEF Joining, drained, batches, batch
<1> HIDE DEF drained
<1>5. admitted \in SUBSET DOMAIN drained
  OBVIOUS
<1> HIDE DEF admitted
<1> QED BY <1>3, <1>4, <1>5, SelectedType

\* One recognizer a press has brought.
Newcomer(kind, slot, ev) ==
  AddPointer(IF kind = "LongPress" THEN [Fresh(kind) EXCEPT !.slot = slot] ELSE Fresh(kind), ev)

\* Nothing has happened to it yet, and a long press knows its entry.
IsNewcomer(e, kind, i, ev) ==
  /\ WellKept(e) /\ e.kind = kind /\ e.timer = 0 /\ ~e.accepted /\ e.st # "Accepted"
  /\ kind = "LongPress" => e.slot = i /\ (Live(e) <=> "primary" \in ev.buttons)

LEMMA NewcomerIsWellKept ==
  ASSUME NEW kind \in Kinds, NEW slot \in Nat, NEW ev, IsEvent(ev)
  PROVE  IsNewcomer(Newcomer(kind, slot, ev), kind, slot, ev)
<1> DEFINE member == IF kind = "LongPress" THEN [Fresh(kind) EXCEPT !.slot = slot] ELSE Fresh(kind)
           e == Newcomer(kind, slot, ev)
           down == [member EXCEPT !.st = "Down", !.at = ev.pos]
<1>1. /\ member \in Entry /\ member.kind = kind /\ member.timer = 0 /\ ~member.accepted
      /\ member.st = "Idle" /\ (kind = "LongPress" => member.slot = slot)
  <2>1. /\ Fresh(kind) \in Entry /\ Fresh(kind).kind = kind /\ Fresh(kind).timer = 0
        /\ ~Fresh(kind).accepted /\ Fresh(kind).st = "Idle"
    BY FreshIsWellKept DEF WellKept
  <2> DEFINE f == Fresh(kind)
  <2> HIDE DEF f
  <2>2. /\ [f EXCEPT !.slot = slot] \in Entry /\ [f EXCEPT !.slot = slot].kind = kind
        /\ [f EXCEPT !.slot = slot].timer = 0 /\ ~[f EXCEPT !.slot = slot].accepted
        /\ [f EXCEPT !.slot = slot].st = "Idle" /\ [f EXCEPT !.slot = slot].slot = slot
    BY <2>1 DEF Entry, States, f
  <2> QED BY <2>1, <2>2 DEF f
<1>2. e = IF kind = "Scale" \/ "primary" \in ev.buttons THEN down ELSE member
  BY <1>1 DEF Newcomer, AddPointer
<1> HIDE DEF member
<1>3. /\ down \in Entry /\ down.kind = kind /\ down.timer = 0 /\ ~down.accepted
      /\ down.st = "Down" /\ down.slot = member.slot
  BY <1>1 DEF Entry, States, IsEvent
<1> HIDE DEF down
<1>4. CASE e = down
  <2>1. WellKept(e)
    BY <1>3, <1>4 DEF WellKept
  <2> QED BY <1>1, <1>2, <1>3, <1>4, <2>1 DEF Live, IsNewcomer
<1>5. CASE e = member
  <2>1. WellKept(e)
    BY <1>1, <1>5 DEF WellKept
  <2> QED BY <1>1, <1>2, <1>3, <1>5, <2>1 DEF Live, IsNewcomer
<1> QED BY <1>2, <1>4, <1>5

\* The newcomers queue up behind those that are there.
QueuedBehind(es, kinds, ev, E) ==
  /\ E \in Seq(Entry) /\ Len(E) = Len(es) + Len(kinds)
  /\ \A i \in 1 .. Len(es) : E[i] = es[i]
  /\ \A i \in 1 .. Len(E) : i > Len(es) =>
       i - Len(es) \in 1 .. Len(kinds) /\ IsNewcomer(E[i], kinds[i - Len(es)], i, ev)

LEMMA RegisterShape ==
  ASSUME NEW es \in Seq(Entry), NEW kinds \in Seq(Kinds), NEW ev, IsEvent(ev),
         NEW E, E = Register(es, kinds, ev)
  PROVE  QueuedBehind(es, kinds, ev, E)
<1> DEFINE n == Len(es)
           k == Len(kinds)
           new == [i \in DOMAIN kinds |-> Newcomer(kinds[i], n + i, ev)]
<1>1. /\ n \in Nat /\ k \in Nat /\ DOMAIN kinds = 1 .. k /\ DOMAIN es = 1 .. n
      /\ \A i \in 1 .. k : kinds[i] \in Kinds
  OBVIOUS
<1>2. E = es \o new
  BY DEF Register, Newcomer
<1>3. ASSUME NEW i \in 1 .. k PROVE IsNewcomer(new[i], kinds[i], n + i, ev)
  <2>1. new[i] = Newcomer(kinds[i], n + i, ev) /\ kinds[i] \in Kinds /\ n + i \in Nat
    BY <1>1
  <2> HIDE DEF n, k, new
  <2> QED BY <2>1, NewcomerIsWellKept
<1>4. new \in Seq(Entry) /\ Len(new) = k /\ DOMAIN new = 1 .. k
  <2>1. DOMAIN new = 1 .. k /\ new = [i \in 1 .. k |-> new[i]]
    BY <1>1
  <2>2. \A i \in 1 .. k : new[i] \in Entry
    BY <1>3 DEF WellKept, IsNewcomer
  <2>3. k \in Nat
    BY <1>1
  <2> HIDE DEF k, new
  <2> QED BY <2>1, <2>2, <2>3, IndexedIsSeq
<1> HIDE DEF new
<1>5. /\ E \in Seq(Entry) /\ Len(E) = n + k
      /\ \A i \in 1 .. n : E[i] = es[i]
      /\ \A i \in 1 .. (n + k) : i > n => E[i] = new[i - n]
  <2>1. es \o new \in Seq(Entry) /\ Len(es \o new) = Len(es) + Len(new)
    BY <1>4
  <2>2. \A i \in 1 .. Len(es) : (es \o new)[i] = es[i]
    BY <1>4
  <2>3. ASSUME NEW i \in 1 .. (Len(es) + Len(new)), i > Len(es)
        PROVE  (es \o new)[i] = new[i - Len(es)]
    BY <1>4, <2>3
  <2> QED BY <1>2, <1>4, <2>1, <2>2, <2>3
<1>6. ASSUME NEW i \in 1 .. Len(E), i > n
      PROVE  /\ i - n \in 1 .. k /\ E[i] = new[i - n] /\ n + (i - n) = i
  <2>1. n \in Nat /\ k \in Nat /\ i \in 1 .. (n + k) /\ i > n /\ E[i] = new[i - n]
    BY <1>1, <1>5, <1>6
  <2> HIDE DEF n, k
  <2> QED BY <2>1
<1>7. \A i \in 1 .. Len(E) : i > n =>
        i - n \in 1 .. k /\ IsNewcomer(E[i], kinds[i - n], i, ev)
  <2> HIDE DEF n, k
  <2> QED BY <1>3, <1>6
<1> QED BY <1>5, <1>7 DEF QueuedBehind

\* One of them asks for the arena to be held.
WantsHold(kinds) == "DoubleTap" \in Range(kinds)

\* A press joins an arena that is at rest, or opens one.
Joins(g, kinds, h) ==
  /\ Good(h) /\ kinds \in Seq(Kinds) /\ (WantsHold(kinds) => kinds # <<>>)
  /\ h.release = IF WantsHold(kinds) THEN DoubleTapMax + 1 ELSE g.release
  /\ h.arena.winner = 0
  /\ Len(h.arena.entries) = Len(g.arena.entries) + Len(kinds)
  /\ kinds = <<>> => h.arena = g.arena
  /\ kinds # <<>> =>
       /\ Present(h.arena)
       /\ h.arena.hold_count =
            IF WantsHold(kinds) /\ g.arena.hold_count < HoldMax THEN g.arena.hold_count + 1
            ELSE g.arena.hold_count
  /\ Owned(g.arena, g.begun) /\ ~ThreeLongPresses(kinds) => Owned(h.arena, h.begun)

LEMMA JoinKeeps ==
  ASSUME NEW g, Good(g), Rested(g.arena), NEW ev, IsEvent(ev),
         HitPath(ev.pos) \in Seq(Widgets),
         NEW kinds, kinds = Joining(HitPath(ev.pos), g.parked, ev),
         NEW h, h = JoinArena(g, ev)
  PROVE  Joins(g, kinds, h)
<1> DEFINE a == g.arena
           o == Opened(a)
           n == Len(a.entries)
           E == Register(a.entries, kinds, ev)
           joined == Joined(o, kinds, ev)
           held == IF WantsHold(kinds) THEN Hold(joined) ELSE joined
           b == IF Present(a) THEN g.begun ELSE 0
<1>1. kinds \in Seq(Kinds) /\ Len(kinds) \in Nat
  BY JoiningType
<1>2. /\ g \in Bundles /\ a \in Arenas /\ a.winner = 0 /\ a.entries \in Seq(Entry)
      /\ n \in Nat /\ DOMAIN a.entries = 1 .. n /\ a.hold_count \in 0 .. HoldMax
      /\ \A i \in 1 .. n : WellKept(a.entries[i]) /\ Quiet(a.entries[i])
      /\ \A i \in 1 .. n : a.entries[i].kind = "DoubleTap" => a.hold_count > 0
  BY DEF Good, Sound, Rested, Bundles, Arenas
<1>3. h = [g EXCEPT !.parked = g.parked \ Range(HitPath(ev.pos)),
                    !.arena = IF kinds = <<>> THEN a ELSE held,
                    !.release = IF WantsHold(kinds) THEN DoubleTapMax + 1 ELSE g.release,
                    !.begun = b]
  BY DEF JoinArena, JoinArenaWith, WantsHold
<1>4. /\ E \in Seq(Entry) /\ Len(E) = n + Len(kinds)
      /\ \A i \in 1 .. n : E[i] = a.entries[i]
      /\ \A i \in 1 .. Len(E) : i > n =>
           i - n \in 1 .. Len(kinds) /\ IsNewcomer(E[i], kinds[i - n], i, ev)
  <2>1. E = Register(a.entries, kinds, ev)
    OBVIOUS
  <2> HIDE DEF E
  <2>2. QueuedBehind(a.entries, kinds, ev, E)
    BY <1>1, <1>2, <2>1, RegisterShape
  <2> QED BY <2>2 DEF QueuedBehind
<1>5. /\ o \in Arenas /\ o.is_open /\ o.winner = 0 /\ o.entries = a.entries
      /\ o.hold_count = a.hold_count
  <2>1. CASE Present(a)
    BY <1>2, <2>1, KeptArena DEF Opened, Good
  <2>2. CASE ~Present(a)
    <3>1. a = NoArena /\ o = NewArena
      BY <2>2 DEF Opened, Present
    <3>2. a.entries = <<>> /\ a.hold_count = 0 /\ <<>> \in Seq(Entry)
      BY <3>1 DEF NoArena
    <3>3. /\ NewArena.entries = <<>> /\ NewArena.hold_count = 0 /\ NewArena.winner = 0
          /\ NewArena.is_open
          /\ NewArena = [entries |-> <<>>, winner |-> 0, is_open |-> TRUE, hold_count |-> 0]
      BY DEF NewArena
    <3> QED BY <1>2, <3>1, <3>2, <3>3 DEF Arenas
  <2> QED BY <2>1, <2>2
<1>6. WantsHold(kinds) => \E i \in DOMAIN kinds : kinds[i] = "DoubleTap"
  BY DEF Range, WantsHold
<1>7. (\E i \in DOMAIN kinds : kinds[i] = "DoubleTap") => WantsHold(kinds)
  BY DEF Range, WantsHold
<1>8. WantsHold(kinds) => kinds # <<>>
  BY <1>6
<1>9. joined = [o EXCEPT !.entries = E]
  BY <1>5 DEF Joined
<1>10. n = Len(a.entries)
  OBVIOUS
<1> HIDE DEF E, o, joined, n
<1>11. DOMAIN E = 1 .. Len(E) /\ Len(E) \in Nat
  BY <1>4
<1>12. ASSUME NEW i \in 1 .. Len(E), i > n
       PROVE  /\ i - n \in DOMAIN kinds /\ kinds[i - n] = E[i].kind
              /\ WellKept(E[i]) /\ ~E[i].accepted /\ E[i].st # "Accepted"
              /\ E[i].kind = "LongPress" => E[i].slot = i
              /\ E[i].kind = "LongPress" => (Live(E[i]) <=> "primary" \in ev.buttons)
  <2>1. i - n \in DOMAIN kinds /\ IsNewcomer(E[i], kinds[i - n], i, ev)
    BY <1>1, <1>4, <1>12
  <2> QED BY <2>1 DEF IsNewcomer
<1>13. ASSUME NEW i \in 1 .. Len(E), ~(i > n) PROVE i \in 1 .. n /\ E[i] = a.entries[i]
  <2>1. i \in 1 .. n
    BY <1>2, <1>4, <1>13, <1>11
  <2> QED BY <1>4, <2>1
<1>14. /\ joined \in Arenas /\ joined.is_open /\ joined.winner = 0 /\ joined.entries = E
       /\ joined.hold_count = a.hold_count /\ Present(joined)
  <2>1. /\ joined \in Arenas /\ joined.is_open /\ joined.winner = 0 /\ joined.entries = E
        /\ joined.hold_count = a.hold_count
    BY <1>4, <1>5, <1>9 DEF Arenas
  <2> QED BY <2>1, OpenStays
<1> DEFINE c == IF WantsHold(kinds) /\ a.hold_count < HoldMax THEN a.hold_count + 1 ELSE a.hold_count
<1>15. /\ held \in Arenas /\ held.is_open /\ held.winner = 0 /\ held.entries = E
       /\ held.hold_count = c /\ Present(held)
  <2>1. a.hold_count < HoldMax => a.hold_count + 1 \in 0 .. HoldMax
    BY <1>2, ElementsAssumption
  <2>2. /\ held \in Arenas /\ held.is_open /\ held.winner = 0 /\ held.entries = E
        /\ held.hold_count = c
    BY <1>14, <2>1 DEF Hold, Arenas
  <2> QED BY <2>2, OpenStays
<1> HIDE DEF held
<1>16. ASSUME NEW i \in 1 .. Len(E) PROVE WellKept(E[i])
  <2>1. CASE i > n
    BY <1>12, <2>1
  <2>2. CASE ~(i > n)
    BY <1>2, <1>13, <2>2
  <2> QED BY <2>1, <2>2
<1>17. ASSUME NEW i \in 1 .. Len(E), E[i].kind = "DoubleTap" PROVE c > 0
  <2>1. CASE i > n
    <3>1. WantsHold(kinds)
      BY <1>7, <1>17, <1>12, <2>1
    <3> QED BY <1>2, <3>1, ElementsAssumption
  <2>2. CASE ~(i > n)
    <3>1. i \in 1 .. n /\ E[i] = a.entries[i]
      BY <1>13, <2>2
    <3>2. a.hold_count > 0
      BY <1>2, <1>17, <3>1
    <3> QED BY <1>2, <3>2
  <2> QED BY <2>1, <2>2
<1>18. ASSUME kinds # <<>> PROVE Len(E) > 0
  <2>1. Len(kinds) > 0 /\ Len(kinds) \in Nat
    BY <1>1, <1>18
  <2>2. n \in Nat /\ Len(E) = n + Len(kinds)
    BY <1>2, <1>4
  <2> QED BY <2>1, <2>2
<1>19. c = IF WantsHold(kinds) /\ a.hold_count < HoldMax THEN a.hold_count + 1 ELSE a.hold_count
  OBVIOUS
<1> HIDE DEF c
<1>20. ASSUME kinds # <<>> PROVE Sound(held)
  <2>1. DOMAIN held.entries = 1 .. Len(E) /\ Len(held.entries) = Len(E)
    BY <1>15, <1>11
  <2>2. \A i \in DOMAIN held.entries : WellKept(held.entries[i])
    BY <1>15, <1>16, <2>1
  <2>3. \A i \in DOMAIN held.entries : held.entries[i].kind = "DoubleTap" => held.hold_count > 0
    BY <1>15, <1>17, <2>1
  <2>4. held.winner = 0 /\ Len(held.entries) > 0 /\ Len(held.entries) \in Nat /\ held.is_open
    BY <1>15, <1>18, <1>20, <1>11, <2>1
  <2> QED BY <1>15, <2>2, <2>3, <2>4 DEF Sound
<1>21. b \in 0 .. 2 /\ DoubleTapMax + 1 \in 0 .. DoubleTapMax + 1
       /\ g.parked \ Range(HitPath(ev.pos)) \in SUBSET Widgets
  BY <1>2, SettingsAssumption DEF Bundles
<1> HIDE DEF b
<1>22. /\ h \in Bundles /\ h.arena = (IF kinds = <<>> THEN a ELSE held) /\ h.begun = b
       /\ h.release = IF WantsHold(kinds) THEN DoubleTapMax + 1 ELSE g.release
  <2> DEFINE left == IF kinds = <<>> THEN a ELSE held
             task == IF WantsHold(kinds) THEN DoubleTapMax + 1 ELSE g.release
             rest == g.parked \ Range(HitPath(ev.pos))
  <2>1. left \in Arenas /\ task \in 0 .. DoubleTapMax + 1 /\ rest \in SUBSET Widgets
    BY <1>2, <1>15, <1>21 DEF Bundles
  <2> HIDE DEF left, task, rest
  <2>2. h = [g EXCEPT !.parked = rest, !.arena = left, !.release = task, !.begun = b]
    BY <1>3 DEF left, task, rest
  <2>3. /\ h \in Bundles /\ h.arena = left /\ h.begun = b /\ h.release = task
    BY <1>2, <1>21, <2>1, <2>2 DEF Bundles
  <2> QED BY <2>3 DEF left, task
<1>23. Good(h)
  BY <1>20, <1>22 DEF Good
<1>24. ASSUME Owned(a, g.begun), ~ThreeLongPresses(kinds) PROVE Owned(h.arena, h.begun)
  <2>1. b = 0 \/ (b = g.begun /\ Present(a))
    BY DEF b
  <2>2. b = 0 /\ (Present(a) => Undecided(a))
    BY <1>2, <1>24, <2>1 DEF Owned
  <2>3. CASE kinds = <<>>
    BY <1>2, <1>22, <2>2, <2>3 DEF Owned
  <2>4. CASE kinds # <<>>
    <3>1. ASSUME NEW i \in 1 .. Len(E)
          PROVE  ~E[i].accepted /\ E[i].st # "Accepted" /\ (Live(E[i]) => i > n /\ E[i].slot = i)
      <4>1. CASE i > n
        BY <1>12, <4>1 DEF Live
      <4>2. CASE ~(i > n)
        <5>1. i \in 1 .. n /\ E[i] = a.entries[i]
          BY <1>13, <4>2
        <5>2. Present(a)
          BY <1>2, <5>1 DEF Present, NoArena
        <5>3. ~E[i].accepted /\ E[i].st # "Accepted"
          BY <1>10, <2>2, <5>1, <5>2 DEF Undecided
        <5>4. ~Live(E[i])
          BY <1>2, <5>1 DEF Live, Quiet
        <5> QED BY <5>3, <5>4
      <4> QED BY <4>1, <4>2
    <3>2. ASSUME NEW i \in 1 .. Len(E), NEW j \in 1 .. Len(E),
                 Live(E[i]), i < j, E[j].kind = "LongPress"
          PROVE  /\ Live(E[j]) /\ E[j].slot - E[i].slot >= j - i
                 /\ \A m \in 1 .. Len(E) : j < m => ~Live(E[m])
      <4>1. i > n /\ E[i].slot = i
        BY <3>1, <3>2
      <4>2. i \in Nat /\ j \in Nat /\ n \in Nat /\ j > n
        BY <1>10, <3>2, <4>1
      <4>3. Live(E[j]) /\ E[j].slot = j
        <5>1. "primary" \in ev.buttons
          BY <1>12, <3>2, <4>1 DEF Live
        <5> QED BY <1>12, <3>2, <4>2, <5>1
      <4>4. ASSUME NEW m \in 1 .. Len(E), j < m, Live(E[m]) PROVE FALSE
        <5>1. m \in Nat /\ m > n
          BY <1>10, <4>2, <4>4
        <5>2. /\ i - n \in DOMAIN kinds /\ j - n \in DOMAIN kinds /\ m - n \in DOMAIN kinds
              /\ kinds[i - n] = "LongPress" /\ kinds[j - n] = "LongPress"
              /\ kinds[m - n] = "LongPress"
          BY <1>12, <3>2, <4>1, <4>2, <4>4, <5>1 DEF Live
        <5>3. i - n < j - n /\ j - n < m - n
          BY <3>2, <4>2, <4>4, <5>1
        <5> QED BY <1>24, <5>2, <5>3 DEF ThreeLongPresses
      <4>5. E[j].slot - E[i].slot >= j - i
        BY <4>1, <4>2, <4>3
      <4> QED BY <4>3, <4>4, <4>5
    <3>3. ASSUME NEW i \in 1 .. Len(E), Live(E[i]) PROVE i <= E[i].slot
      <4>1. E[i].slot = i
        BY <3>1, <3>3
      <4>2. i \in Nat
        BY <1>11
      <4> QED BY <4>1, <4>2
    <3>4. Undecided(held)
      BY <1>15, <1>10, <3>1, <3>2, <3>3 DEF Undecided
    <3> QED BY <1>15, <1>22, <2>2, <2>4, <3>4 DEF Owned
  <2> QED BY <2>3, <2>4
<1>25. Len(h.arena.entries) = n + Len(kinds)
  <2>1. CASE kinds = <<>>
    BY <1>2, <1>22, <2>1
  <2>2. CASE kinds # <<>>
    BY <1>4, <1>15, <1>22, <2>2
  <2> QED BY <2>1, <2>2
<1>26. h.arena.winner = 0
  BY <1>2, <1>15, <1>22
<1>27. kinds # <<>> => Present(h.arena) /\ h.arena.hold_count = c
  BY <1>15, <1>22
<1> QED BY <1>1, <1>8, <1>22, <1>23, <1>24, <1>25, <1>26, <1>27, <1>10, <1>19 DEF Joins

\* The whole Down: what joined is dispatched to.
LEMMA DownKeeps ==
  ASSUME NEW g, Good(g), Rested(g.arena), NEW ev, IsEvent(ev), ev.phase = "Down",
         HitPath(ev.pos) \in Seq(Widgets),
         NEW kinds, kinds = Joining(HitPath(ev.pos), g.parked, ev),
         NEW h, h = OnPointerEvent(g, ev)
  PROVE  /\ Good(h)
         /\ Len(h.arena.entries) <= Len(g.arena.entries) + Len(kinds)
         /\ Owned(g.arena, g.begun) /\ ~ThreeLongPresses(kinds) => Owned(h.arena, h.begun)
<1> DEFINE j == JoinArena(g, ev)
<1>1. h = Dispatch(j, ev)
  BY DEF OnPointerEvent, Finish
<1>2. /\ Good(j) /\ j.arena.winner = 0 /\ kinds \in Seq(Kinds)
      /\ Len(j.arena.entries) = Len(g.arena.entries) + Len(kinds)
      /\ Owned(g.arena, g.begun) /\ ~ThreeLongPresses(kinds) => Owned(j.arena, j.begun)
  <2>1. Joins(g, kinds, j)
    <3>1. j = JoinArena(g, ev)
      OBVIOUS
    <3> HIDE DEF j
    <3> QED BY <3>1, JoinKeeps
  <2> QED BY <2>1 DEF Joins
<1> HIDE DEF j
<1>3. Dispatched(j, ev, h)
  BY <1>1, <1>2, DispatchKeeps
<1>4. Good(h)
  BY <1>3 DEF Dispatched
<1>5. Len(h.arena.entries) <= Len(j.arena.entries)
  <2>1. CASE Present(h.arena)
    BY <1>3, <2>1 DEF Dispatched
  <2>2. CASE ~Present(h.arena)
    <3>1. h.arena = NoArena /\ Len(NoArena.entries) = 0
      BY <2>2 DEF Present, NoArena
    <3>2. Len(j.arena.entries) \in Nat
      BY <1>2, GoodType
    <3> QED BY <3>1, <3>2
  <2> QED BY <2>1, <2>2
<1>6. Owned(j.arena, j.begun) => Owned(h.arena, h.begun)
  BY <1>1, <1>2, DispatchOwns
<1> QED BY <1>2, <1>4, <1>5, <1>6

-----------------------------------------------------------------------------
(* A move, and a hover.                                                    *)

LEMMA MoveKeeps ==
  ASSUME NEW g, Good(g), NEW ev, IsEvent(ev), ev.phase \in {"Move", "Hover"},
         NEW h, h = OnPointerEvent(g, ev)
  PROVE  /\ Good(h) /\ h.release = g.release /\ h.parked = g.parked
         /\ h = Dispatch(g, ev)
         /\ Len(h.arena.entries) <= Len(g.arena.entries)
         /\ Rested(g.arena) => Rested(h.arena)
         /\ Owned(g.arena, g.begun) => Owned(h.arena, h.begun)
<1>1. h = Dispatch(g, ev)
  BY DEF OnPointerEvent, Finish
<1>2. Dispatched(g, ev, h) /\ (Owned(g.arena, g.begun) => Owned(h.arena, h.begun))
  BY <1>1, DispatchKeeps, DispatchOwns
<1>3. g \in Bundles /\ Good(h)
  BY <1>2 DEF Dispatched, Good
<1>4. h.release = g.release /\ h.parked = g.parked
  BY <1>2, <1>3 DEF Dispatched, OnlyArena, Bundles
<1>5. CASE Present(h.arena)
  BY <1>1, <1>2, <1>3, <1>4, <1>5 DEF Dispatched
<1>6. CASE ~Present(h.arena)
  <2>1. h.arena = NoArena /\ Rested(NoArena)
    BY <1>6, NoArenaIsSound DEF Present
  <2>2. Len(NoArena.entries) = 0 /\ Len(g.arena.entries) \in Nat
    BY <1>3 DEF NoArena, Bundles, Arenas
  <2> QED BY <1>1, <1>2, <1>3, <1>4, <2>1, <2>2
<1> QED BY <1>5, <1>6

\* An arena at rest does not notice a hover.
LEMMA HoverKeeps ==
  ASSUME NEW g, Good(g), Rested(g.arena), NEW ev, IsEvent(ev), ev.phase = "Hover"
  PROVE  Dispatch(g, ev) = g
<1> DEFINE es == g.arena.entries
           n == Len(es)
           all == [i \in DOMAIN es |-> Handle(es[i], ev)]
<1>1. CASE ~Present(g.arena)
  BY <1>1 DEF Dispatch
<1>2. CASE Present(g.arena)
  <2>1. /\ g.arena.is_open /\ n \in Nat \ {0} /\ DOMAIN es = 1 .. n /\ es \in Seq(Entry)
        /\ g \in Bundles /\ g.arena \in Arenas /\ g.arena.winner = 0
    BY <1>2, KeptArena DEF Good, Sound, Rested
  <2>2. \A i \in 1 .. n : Handle(es[i], ev) = Possible(es[i])
    <3>1. ASSUME NEW i \in 1 .. n PROVE Handle(es[i], ev) = Possible(es[i])
      <4>1. WellKept(es[i])
        BY <2>1 DEF Good, Sound
      <4> QED BY <4>1, HandleIsSane DEF Sane
    <3> QED BY <3>1
  <2>3. all = [i \in 1 .. n |-> Possible(es[i])]
    BY <2>1, <2>2
  <2> DEFINE answers == [i \in 1 .. n |-> Possible(es[i])]
  <2>4. \A i \in 1 .. n : /\ answers[i].verdict = "Possible" /\ answers[i].calls = "none"
                          /\ answers[i].r = es[i]
    BY DEF Possible, Answer
  <2>5. DOMAIN answers = 1 .. n
    OBVIOUS
  <2>6. {i \in DOMAIN answers : answers[i].verdict = "Accepted"} = {}
    BY <2>4, <2>5
  <2>7. UpToFirstAccepted(es, answers).first = 0
    BY <2>6 DEF UpToFirstAccepted
  <2>8. UpToFirstAccepted(es, answers).answers = answers
    BY <2>6 DEF UpToFirstAccepted
  <2>9. Dispatch(g, ev) = NobodyChosen(g, answers)
    <3>1. Dispatch(g, ev) = DispatchUndecided(g, ev)
      BY <1>2, <2>1 DEF Dispatch
    <3>2. DispatchUndecided(g, ev) = Decide(g, ev, UpToFirstAccepted(es, answers))
      BY <2>3 DEF DispatchUndecided
    <3> HIDE DEF answers
    <3> QED BY <2>7, <2>8, <3>1, <3>2 DEF Decide
  <2> HIDE DEF answers
  <2>10. {i \in DOMAIN answers : answers[i].verdict # "Rejected"} = 1 .. n
    BY <2>4, <2>5
  <2>11. After(answers) = es
    <3>1. After(answers) = [i \in 1 .. n |-> es[i]]
      BY <2>4, <2>5 DEF After
    <3> QED BY <2>1, <3>1
  <2>12. Selected(es, 1 .. n) = es
    <3>1. Selected(es, DOMAIN es) = es
      BY <2>1, SelectedAll
    <3> QED BY <2>1, <3>1
  <2>13. Count(g.begun, answers) = g.begun
    <3>1. \A i \in 1 .. n : i # 0 => answers[i].calls \notin Successes
      BY <2>4 DEF Successes
    <3>2. n \in Nat /\ g.begun \in 0 .. 2
      BY <2>1 DEF Bundles
    <3> HIDE DEF n
    <3> QED BY <2>5, <3>1, <3>2, OneSuccess
  <2>14. [g.arena EXCEPT !.entries = es] = g.arena
    BY <2>1 DEF Arenas
  <2>15. 1 .. n # {}
    <3>1. 1 \in 1 .. n
      BY <2>1
    <3> QED BY <3>1
  <2>16. Gc(g.arena) = g.arena
    BY <2>1, OpenStays
  <2>17. NobodyChosen(g, answers) = [g EXCEPT !.arena = g.arena, !.begun = g.begun]
    BY <2>10, <2>11, <2>12, <2>13, <2>14, <2>15, <2>16 DEF NobodyChosen
  <2> QED BY <2>1, <2>9, <2>17 DEF Bundles
<1> QED BY <1>1, <1>2

-----------------------------------------------------------------------------
(* The timer tasks, and time.                                              *)

\* A release leaves the arena with one hold fewer, or ends it.
LEMMA ReleaseKeeps ==
  ASSUME NEW g, Good(g), NEW h, h = Release(g)
  PROVE  /\ Good(h) /\ h.release = g.release /\ h.parked = g.parked
         /\ Len(h.arena.entries) <= Len(g.arena.entries)
         /\ Rested(g.arena) => Rested(h.arena)
         /\ h.arena = IF Sweepable(Unhold(g.arena)) THEN NoArena ELSE Unhold(g.arena)
         /\ Owned(g.arena, g.begun) => Owned(h.arena, h.begun)
<1> DEFINE a == g.arena
           u == Unhold(a)
           k == [g EXCEPT !.arena = u]
<1>1. /\ g \in Bundles /\ a \in Arenas /\ Sound(a) /\ Len(a.entries) \in Nat
      /\ DOMAIN a.entries = 1 .. Len(a.entries)
  BY GoodType DEF Good
<1>2. CASE ~Present(a)
  <2>1. h = g /\ a = NoArena
    BY <1>2 DEF Release, Present
  <2>2. Unhold(NoArena) = NoArena /\ ~Sweepable(NoArena)
    BY DEF Unhold, NoArena, Sweepable, Present
  <2> QED BY <1>1, <2>1, <2>2
<1>3. CASE Present(a)
  <2>1. a.is_open /\ a.winner \in 0 .. Len(a.entries) /\ Len(a.entries) > 0
    BY <1>1, <1>3, KeptArena
  <2>2. /\ u \in Arenas /\ u.entries = a.entries /\ u.winner = a.winner /\ u.is_open
        /\ u.hold_count = IF a.hold_count > 0 THEN a.hold_count - 1 ELSE a.hold_count
    <3>1. a.hold_count > 0 => a.hold_count - 1 \in 0 .. HoldMax
      BY <1>1, ElementsAssumption DEF Arenas
    <3> QED BY <1>1, <2>1, <3>1 DEF Unhold, Arenas
  <2>3. h = Sweep(k)
    BY <1>3 DEF Release
  <2> HIDE DEF u
  <2>4. /\ k \in Bundles /\ k.arena = u /\ k.release = g.release /\ k.parked = g.parked
        /\ k.begun = g.begun /\ g.begun \in 0 .. 2
    BY <1>1, <2>2 DEF Bundles
  <2>5. Present(u)
    BY <2>2, OpenStays
  <2> HIDE DEF k
  <2>6. CASE Sweepable(u)
    <3> DEFINE answers == [i \in DOMAIN u.entries |->
                             IF i = 1 THEN SweepAccepted(u.entries[i]) ELSE Reject(u.entries[i])]
               gone == [Swept(u) EXCEPT !.entries = After(answers)]
               c == Count(g.begun, answers)
    <3>1. h = SweptWith(k, answers)
      BY <2>3, <2>4, <2>6 DEF Sweep
    <3>2. /\ DOMAIN answers = 1 .. Len(a.entries)
          /\ \A i \in 1 .. Len(a.entries) : i # 1 => answers[i].calls \notin Successes
      BY <1>1, <2>2 DEF Reject, Answer, Successes
    <3> HIDE DEF answers
    <3>3. ~gone.is_open /\ gone.hold_count = 0
      BY <2>2, <2>6 DEF Swept, Arenas, Sweepable
    <3>4. Gc(gone) = NoArena
      BY <3>3 DEF Gc, Present
    <3>5. c \in 0 .. 2 /\ (g.begun = 0 => c \in 0 .. 1)
      <4> DEFINE n == Len(a.entries)
      <4>1. n \in Nat /\ DOMAIN answers = 1 .. n /\ g.begun \in 0 .. 2
            /\ \A i \in 1 .. n : i # 1 => answers[i].calls \notin Successes
        BY <1>1, <2>4, <3>2
      <4> HIDE DEF n
      <4>2. PICK b \in 0 .. 2 : b = g.begun
        BY <4>1
      <4>3. /\ Count(b, answers) \in 0 .. 2
            /\ b = 0 => Count(b, answers) \in 0 .. 1
        BY <4>1, OneSuccess
      <4> QED BY <4>2, <4>3
    <3> HIDE DEF c, gone
    <3>6. h = [k EXCEPT !.arena = NoArena, !.begun = c]
      BY <2>4, <3>1, <3>4 DEF SweptWith, c, gone
    <3>7. NoArena \in Arenas /\ Sound(NoArena) /\ Rested(NoArena) /\ ~Present(NoArena)
      BY NoArenaIsSound DEF Sound
    <3>8. /\ h \in Bundles /\ h.arena = NoArena /\ h.begun = c /\ h.release = k.release
          /\ h.parked = k.parked
      BY <2>4, <3>5, <3>6, <3>7 DEF Bundles
    <3>9. Len(NoArena.entries) = 0
      BY DEF NoArena
    <3>10. Owned(a, g.begun) => Owned(NoArena, c)
      <4>1. a.winner = 0
        BY <2>2, <2>6 DEF Sweepable
      <4>2. Owned(a, g.begun) => g.begun = 0
        BY <1>3, <4>1 DEF Owned
      <4>3. c \in 0 .. 1 => Owned(NoArena, c)
        BY <3>7 DEF Owned
      <4> QED BY <3>5, <4>2, <4>3
    <3>11. Good(h)
      BY <3>7, <3>8 DEF Good
    <3>12. h.arena = IF Sweepable(u) THEN NoArena ELSE u
      BY <2>6, <3>8
    <3>13. Len(h.arena.entries) <= Len(a.entries)
      BY <1>1, <3>8, <3>9
    <3> QED BY <2>4, <3>7, <3>8, <3>10, <3>11, <3>12, <3>13 DEF u
  <2>7. CASE ~Sweepable(u)
    <3>1. h = k
      BY <2>3, <2>4, <2>7 DEF Sweep
    <3>2. u.winner = 0 => u.hold_count > 0
      <4>1. u.hold_count \in Nat
        BY <2>2, ElementsAssumption DEF Arenas
      <4>2. u.hold_count # 0 \/ u.winner # 0
        BY <2>2, <2>5, <2>7, Zenon DEF Sweepable
      <4> QED BY <4>1, <4>2
    <3>3. Sound(u)
      BY <1>1, <1>3, <2>1, <2>2, <3>2 DEF Sound
    <3>4. Rested(a) => Rested(u)
      BY <2>2 DEF Rested
    <3>5. Owned(a, g.begun) => Owned(u, g.begun)
      BY <1>3, <2>2 DEF Owned, Undecided, Decided
    <3>6. Good(h)
      BY <2>4, <3>1, <3>3 DEF Good
    <3>7. Len(u.entries) <= Len(a.entries)
      BY <1>1, <2>2
    <3> QED BY <2>4, <2>7, <3>1, <3>4, <3>5, <3>6, <3>7 DEF u
  <2> QED BY <2>6, <2>7
<1> QED BY <1>2, <1>3

\* Time changes only the clocks of a recognizer, and starts no timer.
LEMMA AgedKeeps ==
  ASSUME NEW r, WellKept(r)
  PROVE  /\ WellKept(Aged(r))
         /\ Aged(r).kind = r.kind /\ Aged(r).st = r.st /\ Aged(r).slot = r.slot
         /\ Aged(r).accepted = r.accepted
         /\ Aged(r).timer > 0 <=> r.timer > 0
<1> DEFINE up == IF r.firstUp = 0 \/ r.firstUp = DoubleTapMax + 2 THEN r.firstUp ELSE r.firstUp + 1
           left == IF r.timer > 1 THEN r.timer - 1 ELSE r.timer
<1>1. r \in Entry /\ r.firstUp \in 0 .. DoubleTapMax + 2 /\ r.timer \in 0 .. LongPressTime + 1
  BY DEF WellKept, Entry, States
<1>2. up \in 0 .. DoubleTapMax + 2
  BY <1>1, SettingsAssumption
<1>3. left \in 0 .. LongPressTime + 1 /\ (left > 0 <=> r.timer > 0)
  BY <1>1, SettingsAssumption
<1>4. Aged(r) = [r EXCEPT !.firstUp = up, !.timer = left]
  BY DEF Aged
<1> HIDE DEF up, left
<1>5. /\ Aged(r) \in Entry /\ Aged(r).kind = r.kind /\ Aged(r).st = r.st /\ Aged(r).slot = r.slot
      /\ Aged(r).accepted = r.accepted /\ Aged(r).timer = left
  BY <1>1, <1>2, <1>3, <1>4 DEF Entry, States
<1> QED BY <1>3, <1>5 DEF WellKept

LEMMA TickKeeps ==
  ASSUME NEW a, Sound(a), NEW b,
         NEW h, h = [a EXCEPT !.entries = [i \in DOMAIN a.entries |-> Aged(a.entries[i])]]
  PROVE  /\ Sound(h) /\ Len(h.entries) = Len(a.entries) /\ h.winner = a.winner
         /\ h.is_open = a.is_open /\ h.hold_count = a.hold_count
         /\ Rested(a) => Rested(h)
         /\ Owned(a, b) => Owned(h, b)
<1> DEFINE n == Len(a.entries)
           aged == [i \in DOMAIN a.entries |-> Aged(a.entries[i])]
<1>1. /\ a \in Arenas /\ n \in Nat /\ DOMAIN a.entries = 1 .. n /\ a.entries \in Seq(Entry)
      /\ \A i \in 1 .. n : WellKept(a.entries[i])
  <2>1. a \in Arenas /\ a.entries \in Seq(Entry)
    BY DEF Sound, Arenas
  <2> QED BY <2>1 DEF Sound
<1>2. DOMAIN aged = 1 .. n /\ aged = [i \in 1 .. n |-> aged[i]]
  BY <1>1
<1>3. ASSUME NEW i \in 1 .. n
      PROVE  /\ WellKept(aged[i]) /\ aged[i].kind = a.entries[i].kind
             /\ aged[i].st = a.entries[i].st /\ aged[i].slot = a.entries[i].slot
             /\ aged[i].accepted = a.entries[i].accepted
             /\ aged[i].timer > 0 <=> a.entries[i].timer > 0
  <2>1. aged[i] = Aged(a.entries[i]) /\ WellKept(a.entries[i])
    BY <1>1
  <2> HIDE DEF aged
  <2> QED BY <2>1, AgedKeeps
<1> HIDE DEF aged, n
<1>4. aged \in Seq(Entry) /\ Len(aged) = n
  BY <1>1, <1>2, <1>3, IndexedIsSeq DEF WellKept
<1>5. /\ h \in Arenas /\ h.entries = aged /\ h.winner = a.winner /\ h.is_open = a.is_open
      /\ h.hold_count = a.hold_count
  BY <1>1, <1>4 DEF Arenas, aged
<1>6. n = Len(a.entries)
  BY DEF n
<1>7. a = NoArena => h = NoArena
  <2>1. a = NoArena => aged = <<>>
    BY <1>2, <1>4, <1>6 DEF NoArena
  <2> QED BY <1>5, <2>1 DEF NoArena, Arenas
<1>8. Sound(h)
  BY <1>1, <1>2, <1>3, <1>4, <1>5, <1>6, <1>7 DEF Sound
<1>9. Rested(a) => Rested(h)
  BY <1>1, <1>2, <1>3, <1>5 DEF Rested, Quiet
<1>10. ASSUME Owned(a, b) PROVE Owned(h, b)
  <2>1. Present(h) => Present(a)
    BY <1>7 DEF Present
  <2>2. ASSUME Undecided(a) PROVE Undecided(h)
    BY <1>1, <1>2, <1>3, <1>5, <2>2 DEF Undecided, Live
  <2>3. ASSUME Decided(a, b), Present(a), a.winner # 0 PROVE Decided(h, b)
    <3>1. a.winner \in 1 .. n
      BY <1>1, <1>6, <2>3, KeptArena
    <3>2. ASSUME NEW i \in 1 .. n, i # a.winner
          PROVE  aged[i].st = "Idle" /\ aged[i].timer = 0 /\ ~aged[i].accepted
      <4>1. i \in DOMAIN a.entries \ {a.winner}
        BY <1>1, <3>2
      <4>2. a.entries[i].st = "Idle" /\ a.entries[i].timer = 0 /\ ~a.entries[i].accepted
        BY <2>3, <4>1 DEF Decided
      <4>3. aged[i].timer \in Nat
        BY <1>3, SettingsAssumption DEF WellKept, Entry, States
      <4>4. ~(aged[i].timer > 0)
        BY <1>3, <4>2
      <4> QED BY <1>3, <4>2, <4>3, <4>4
    <3>3. /\ b = 1 => aged[a.winner].kind = "LongPress"
                      \/ (aged[a.winner].kind \in DragKinds /\ aged[a.winner].st = "Accepted")
          /\ aged[a.winner].timer > 0 =>
               ~ (aged[a.winner].slot \in 1 .. n /\ aged[aged[a.winner].slot].kind = "LongPress")
      BY <1>1, <1>3, <2>3, <3>1 DEF Decided
    <3> QED BY <1>2, <1>5, <3>2, <3>3 DEF Decided
  <2> QED BY <1>5, <1>10, <2>1, <2>2, <2>3 DEF Owned
<1> QED BY <1>4, <1>5, <1>6, <1>8, <1>9, <1>10

\* The timer of the long press at entry i looks for a long press at its slot.
Slot(a, i) == a.entries[i].slot
Found(a, i) == Slot(a, i) \in DOMAIN a.entries /\ a.entries[Slot(a, i)].kind = "LongPress"
Ran(a, i) == [a EXCEPT !.entries[i].timer = 0]
Started(a, i) == IF Found(a, i) THEN [Ran(a, i) EXCEPT !.entries[Slot(a, i)].accepted = TRUE]
                 ELSE Ran(a, i)
Fired(a, i) == IF Slot(a, i) \in DOMAIN a.entries THEN Declare(Started(a, i), Slot(a, i))
               ELSE Ran(a, i)

\* The timer that ran is gone, and what it found has started.
AfterTimer(a, i, j, e) ==
  /\ WellKept(e) /\ e.kind = a.entries[j].kind /\ e.st = a.entries[j].st
  /\ e.slot = a.entries[j].slot
  /\ e.timer = IF j = i THEN 0 ELSE a.entries[j].timer
  /\ e.accepted => a.entries[j].accepted \/ (Found(a, i) /\ j = Slot(a, i))

\* It wins if nobody has.
FiredAs(a, i, h) ==
  LET k == Slot(a, i)
      won == k \in DOMAIN a.entries /\ a.winner = 0
  IN  /\ h \in Arenas /\ Present(h) /\ h.is_open /\ h.hold_count = a.hold_count
      /\ Len(h.entries) = Len(a.entries) /\ DOMAIN h.entries = DOMAIN a.entries
      /\ h.winner = IF won THEN k ELSE a.winner
      /\ \A j \in DOMAIN a.entries :
           IF won /\ j # k THEN h.entries[j] = Fresh(a.entries[j].kind)
           ELSE AfterTimer(a, i, j, h.entries[j])

LEMMA StartedShape ==
  ASSUME NEW a, Sound(a), NEW i \in DOMAIN a.entries, a.entries[i].timer = 1,
         NEW s, s = IF Slot(a, i) \in DOMAIN a.entries THEN Started(a, i) ELSE Ran(a, i)
  PROVE  /\ s \in Arenas /\ Present(s) /\ s.is_open /\ s.hold_count = a.hold_count
         /\ Len(s.entries) = Len(a.entries) /\ DOMAIN s.entries = DOMAIN a.entries
         /\ s.winner = a.winner
         /\ \A j \in DOMAIN a.entries : AfterTimer(a, i, j, s.entries[j])
<1> DEFINE es == a.entries
           n == Len(es)
           k == Slot(a, i)
           e1 == [es EXCEPT ![i].timer = 0]
           e2 == [e1 EXCEPT ![k].accepted = TRUE]
           kept == IF Found(a, i) THEN e2 ELSE e1
<1>1. /\ a \in Arenas /\ es \in Seq(Entry) /\ n \in Nat /\ DOMAIN es = 1 .. n /\ a.is_open
      /\ \A j \in 1 .. n : WellKept(es[j])
  <2>1. a \in Arenas /\ es \in Seq(Entry)
    BY DEF Sound, Arenas
  <2>2. a # NoArena
    BY DEF NoArena
  <2> QED BY <2>1, <2>2 DEF Sound
<1>2. i \in 1 .. n /\ es[i].kind = "LongPress" /\ es[i].st # "Idle"
  BY <1>1 DEF WellKept
<1>3. ASSUME NEW j \in 1 .. n
      PROVE  /\ WellKept(e1[j]) /\ e1[j].kind = es[j].kind /\ e1[j].st = es[j].st
             /\ e1[j].slot = es[j].slot /\ e1[j].accepted = es[j].accepted
             /\ e1[j].timer = IF j = i THEN 0 ELSE es[j].timer
  <2>1. es[j] \in Entry /\ WellKept(es[j])
    BY <1>1 DEF WellKept
  <2>2. CASE j # i
    <3>1. e1[j] = es[j]
      BY <1>1, <2>2
    <3> QED BY <2>1, <2>2, <3>1
  <2>3. CASE j = i
    <3> DEFINE r == [es[j] EXCEPT !.timer = 0]
    <3>1. e1[j] = r
      BY <1>1, <2>3
    <3>2. 0 \in 0 .. LongPressTime + 1
      BY SettingsAssumption
    <3>3. /\ r \in Entry /\ r.kind = es[j].kind /\ r.st = es[j].st /\ r.slot = es[j].slot
          /\ r.accepted = es[j].accepted /\ r.timer = 0
      BY <2>1, <3>2 DEF Entry, States
    <3> HIDE DEF r
    <3>4. WellKept(r)
      BY <2>1, <3>3 DEF WellKept
    <3> QED BY <2>3, <3>1, <3>3, <3>4
  <2> QED BY <2>2, <2>3
<1>4. DOMAIN e1 = 1 .. n /\ e1 = [j \in 1 .. n |-> e1[j]]
  BY <1>1
<1>5. DOMAIN e2 = 1 .. n /\ e2 = [j \in 1 .. n |-> e2[j]]
  BY <1>4
<1>6. ASSUME NEW j \in 1 .. n PROVE AfterTimer(a, i, j, kept[j])
  <2>1. CASE Found(a, i) /\ j = k
    <3> DEFINE f == e1[j]
               r == [f EXCEPT !.accepted = TRUE]
    <3>1. kept[j] = r
      BY <1>4, <2>1
    <3>2. /\ f \in Entry /\ WellKept(f) /\ f.kind = "LongPress" /\ f.kind = es[j].kind
          /\ f.st = es[j].st /\ f.slot = es[j].slot
          /\ f.timer = IF j = i THEN 0 ELSE es[j].timer
      BY <1>3, <2>1 DEF Found, WellKept
    <3> HIDE DEF f
    <3>3. /\ r \in Entry /\ r.kind = f.kind /\ r.st = f.st /\ r.slot = f.slot
          /\ r.timer = f.timer
      BY <3>2 DEF Entry, States
    <3> HIDE DEF r
    <3>4. WellKept(r)
      BY <3>2, <3>3 DEF WellKept
    <3> QED BY <2>1, <3>1, <3>2, <3>3, <3>4 DEF AfterTimer
  <2>2. CASE ~(Found(a, i) /\ j = k)
    <3>1. kept[j] = e1[j]
      BY <1>4, <2>2
    <3> HIDE DEF kept, e1
    <3> QED BY <1>3, <2>2, <3>1 DEF AfterTimer
  <2> QED BY <2>1, <2>2
<1>7. DOMAIN kept = 1 .. n /\ kept = [j \in 1 .. n |-> kept[j]]
  BY <1>4, <1>5
<1>8. s = [a EXCEPT !.entries = kept]
  <2>1. Ran(a, i) = [a EXCEPT !.entries = e1]
    BY <1>1 DEF Ran, Arenas
  <2>2. [[a EXCEPT !.entries = e1] EXCEPT !.entries[k].accepted = TRUE] = [a EXCEPT !.entries = e2]
    BY <1>1 DEF Arenas
  <2>3. Started(a, i) = [a EXCEPT !.entries = kept]
    BY <2>1, <2>2 DEF Started
  <2>4. ~Found(a, i) => kept = e1
    OBVIOUS
  <2> QED BY <2>1, <2>3, <2>4 DEF Found
<1> HIDE DEF kept, e1, e2
<1>9. kept \in Seq(Entry) /\ Len(kept) = n
  <2>1. n \in Nat /\ DOMAIN kept = 1 .. n /\ kept = [j \in 1 .. n |-> kept[j]]
    BY <1>1, <1>7
  <2>2. \A j \in 1 .. n : kept[j] \in Entry
    BY <1>6 DEF AfterTimer, WellKept
  <2> HIDE DEF n
  <2> QED BY <2>1, <2>2, IndexedIsSeq
<1>10. /\ s \in Arenas /\ s.is_open /\ s.hold_count = a.hold_count /\ s.entries = kept
       /\ s.winner = a.winner
  BY <1>1, <1>8, <1>9 DEF Arenas
<1>11. Present(s)
  BY <1>10, OpenStays
<1> QED BY <1>1, <1>6, <1>7, <1>9, <1>10, <1>11

LEMMA FiredShape ==
  ASSUME NEW a, Sound(a), NEW i \in DOMAIN a.entries, a.entries[i].timer = 1,
         NEW h, h = Fired(a, i)
  PROVE  FiredAs(a, i, h)
<1> DEFINE k == Slot(a, i)
           n == Len(a.entries)
           s == IF k \in DOMAIN a.entries THEN Started(a, i) ELSE Ran(a, i)
<1>1. /\ s \in Arenas /\ Present(s) /\ s.is_open /\ s.hold_count = a.hold_count
      /\ Len(s.entries) = Len(a.entries) /\ DOMAIN s.entries = DOMAIN a.entries
      /\ s.winner = a.winner
      /\ \A j \in DOMAIN a.entries : AfterTimer(a, i, j, s.entries[j])
  <2>1. s = IF k \in DOMAIN a.entries THEN Started(a, i) ELSE Ran(a, i)
    OBVIOUS
  <2> HIDE DEF s
  <2> QED BY <2>1, StartedShape
<1>2. h = IF k \in DOMAIN a.entries THEN Declare(s, k) ELSE s
  BY DEF Fired
<1> HIDE DEF s
<1>3. n \in Nat /\ DOMAIN a.entries = 1 .. n
  BY DEF Sound, Arenas
<1>4. CASE k \in DOMAIN a.entries /\ a.winner = 0
  <2> DEFINE E == [j \in DOMAIN s.entries |-> IF j = k THEN s.entries[j]
                                              ELSE Reject(s.entries[j]).r]
  <2>1. k <= Len(s.entries)
    BY <1>1, <1>3, <1>4
  <2>2. h = [s EXCEPT !.winner = k, !.entries = E]
    BY <1>1, <1>2, <1>4, <2>1 DEF Declare
  <2>3. ASSUME NEW j \in 1 .. n
        PROVE  E[j] = (IF j = k THEN s.entries[j] ELSE Fresh(a.entries[j].kind)) /\ E[j] \in Entry
    <3>1. WellKept(s.entries[j]) /\ s.entries[j].kind = a.entries[j].kind
      BY <1>1, <1>3 DEF AfterTimer
    <3>2. Reject(s.entries[j]).r = Fresh(s.entries[j].kind)
      BY DEF Reject, Answer, Reset
    <3>3. s.entries[j].kind \in Kinds /\ s.entries[j] \in Entry
      BY <3>1 DEF WellKept, Entry, States
    <3>4. Fresh(s.entries[j].kind) \in Entry
      BY <3>3, FreshIsWellKept DEF WellKept
    <3>5. E[j] = IF j = k THEN s.entries[j] ELSE Reject(s.entries[j]).r
      BY <1>1, <1>3
    <3> QED BY <3>1, <3>2, <3>3, <3>4, <3>5
  <2>4. DOMAIN E = 1 .. n /\ E = [j \in 1 .. n |-> E[j]]
    BY <1>1, <1>3
  <2> HIDE DEF E, n
  <2>5. E \in Seq(Entry) /\ Len(E) = n
    BY <1>3, <2>3, <2>4, IndexedIsSeq
  <2>6. /\ h \in Arenas /\ h.is_open /\ h.hold_count = s.hold_count /\ h.entries = E
        /\ h.winner = k
    <3>1. k \in Nat
      BY <1>3, <1>4
    <3> QED BY <1>1, <2>2, <2>5, <3>1 DEF Arenas
  <2>7. Present(h)
    BY <2>6, OpenStays
  <2>8. \A j \in DOMAIN a.entries :
          IF j # k THEN h.entries[j] = Fresh(a.entries[j].kind)
          ELSE AfterTimer(a, i, j, h.entries[j])
    BY <1>1, <1>3, <2>3, <2>6
  <2>9. Len(h.entries) = Len(a.entries) /\ DOMAIN h.entries = DOMAIN a.entries
    BY <1>3, <2>4, <2>5, <2>6 DEF n
  <2> QED BY <1>1, <1>4, <2>6, <2>7, <2>8, <2>9 DEF FiredAs
<1>5. CASE ~(k \in DOMAIN a.entries /\ a.winner = 0)
  <2>1. h = s
    BY <1>1, <1>2, <1>5 DEF Declare
  <2> QED BY <1>1, <1>5, <2>1 DEF FiredAs
<1> QED BY <1>4, <1>5

\* A long press that starts has the arena to itself: of the two that a press
\* may bring, the one that is found by the other's timer finds none.
LEMMA FiredKeeps ==
  ASSUME NEW a, Sound(a), NEW i \in DOMAIN a.entries, a.entries[i].timer = 1,
         NEW h, h = Fired(a, i), NEW b \in 0 .. 2,
         NEW c, c = IF Found(a, i) /\ b < 2 THEN b + 1 ELSE b
  PROVE  /\ Sound(h) /\ c \in 0 .. 2
         /\ Owned(a, b) => Owned(h, c)
<1> DEFINE es == a.entries
           n == Len(es)
           k == Slot(a, i)
           won == k \in 1 .. n /\ a.winner = 0
<1>1. /\ a \in Arenas /\ n \in Nat /\ DOMAIN es = 1 .. n /\ es \in Seq(Entry) /\ i \in 1 .. n
      /\ \A j \in 1 .. n : WellKept(es[j])
  <2>1. a \in Arenas /\ es \in Seq(Entry)
    BY DEF Sound, Arenas
  <2> QED BY <2>1 DEF Sound
<1>2. Present(a) /\ a.winner \in 0 .. n
  <2>1. a # NoArena
    BY <1>1 DEF NoArena
  <2> QED BY <2>1, KeptArena DEF Present
<1>3. es[i].kind = "LongPress" /\ es[i].st # "Idle" /\ Live(es[i])
  BY <1>1 DEF WellKept, Live
<1>4. FiredAs(a, i, h)
  BY FiredShape
<1>5. /\ h \in Arenas /\ Present(h) /\ h.is_open /\ h.hold_count = a.hold_count
      /\ Len(h.entries) = n /\ DOMAIN h.entries = 1 .. n
      /\ h.winner = IF won THEN k ELSE a.winner
      /\ \A j \in 1 .. n : IF won /\ j # k THEN h.entries[j] = Fresh(es[j].kind)
                           ELSE AfterTimer(a, i, j, h.entries[j])
  BY <1>1, <1>4 DEF FiredAs
<1>6. c \in 0 .. 2
  OBVIOUS
<1> HIDE DEF n
<1>7. ASSUME NEW j \in 1 .. n PROVE WellKept(h.entries[j]) /\ h.entries[j].kind = es[j].kind
  <2>1. CASE won /\ j # k
    <3>1. h.entries[j] = Fresh(es[j].kind) /\ es[j].kind \in Kinds
      BY <1>1, <1>5, <2>1 DEF WellKept, Entry, States
    <3> QED BY <3>1, FreshIsWellKept
  <2>2. CASE ~(won /\ j # k)
    BY <1>5, <2>2 DEF AfterTimer
  <2> QED BY <2>1, <2>2
<1>8. Sound(h)
  <2>1. n > 0 /\ h.winner \in 0 .. n
    BY <1>1, <1>2, <1>5
  <2>2. h.winner = 0 => a.winner = 0
    BY <1>1, <1>5
  <2>3. ASSUME h.winner = 0, NEW j \in 1 .. n, h.entries[j].kind = "DoubleTap"
        PROVE  h.hold_count > 0
    <3>1. es[j].kind = "DoubleTap" /\ a.winner = 0
      BY <1>7, <2>2, <2>3
    <3>2. a.hold_count > 0
      BY <1>1, <3>1 DEF Sound
    <3> QED BY <1>5, <3>2
  <2> QED BY <1>5, <1>7, <2>1, <2>3 DEF Sound
<1>9. ASSUME Owned(a, b), a.winner # 0 PROVE Owned(h, c)
  <2>1. Decided(a, b) /\ b \in 0 .. 1
    BY <1>2, <1>9 DEF Owned
  <2>2. i = a.winner
    BY <1>1, <2>1 DEF Decided
  <2>3. ~Found(a, i)
    BY <2>1, <2>2 DEF Decided, Found, Slot
  <2>4. c = b /\ h.winner = a.winner
    BY <1>5, <1>9, <2>3
  <2>5. \A j \in 1 .. n : AfterTimer(a, i, j, h.entries[j])
    BY <1>5, <1>9
  <2>6. ASSUME NEW j \in 1 .. n, j # a.winner
        PROVE  h.entries[j].st = "Idle" /\ h.entries[j].timer = 0 /\ ~h.entries[j].accepted
    <3>1. es[j].st = "Idle" /\ es[j].timer = 0 /\ ~es[j].accepted
      BY <1>1, <2>1, <2>6 DEF Decided
    <3>2. AfterTimer(a, i, j, h.entries[j])
      BY <2>5
    <3> DEFINE e == h.entries[j]
    <3>3. AfterTimer(a, i, j, e)
      BY <3>2
    <3> HIDE DEF e
    <3>4. e.st = "Idle" /\ e.timer = 0
      BY <3>1, <3>3 DEF AfterTimer
    <3>5. ~e.accepted
      BY <2>3, <3>1, <3>3 DEF AfterTimer
    <3> QED BY <3>4, <3>5 DEF e
  <2>7. /\ h.entries[i].timer = 0 /\ h.entries[i].kind = es[i].kind
        /\ h.entries[i].st = es[i].st
    BY <1>1, <2>5 DEF AfterTimer
  <2>8. Decided(h, b)
    <3>1. h.entries[h.winner].timer = 0 /\ h.entries[h.winner].kind = "LongPress"
      BY <1>3, <2>2, <2>4, <2>7
    <3>2. DOMAIN h.entries = 1 .. n /\ h.winner = a.winner
      BY <1>5, <2>4
    <3>3. ASSUME NEW j \in DOMAIN h.entries \ {h.winner}
          PROVE  h.entries[j].st = "Idle" /\ h.entries[j].timer = 0 /\ ~h.entries[j].accepted
      BY <2>6, <3>2
    <3> HIDE DEF won, k
    <3> QED BY <3>1, <3>3 DEF Decided
  <2> QED BY <1>5, <1>9, <2>1, <2>4, <2>8 DEF Owned
<1>10. ASSUME Owned(a, b), a.winner = 0 PROVE Owned(h, c)
  <2>1. Undecided(a) /\ b = 0
    BY <1>2, <1>10 DEF Owned
  <2>2. i <= k /\ k \in Nat
    <3>1. k \in Nat
      BY <1>1 DEF Slot, WellKept, Entry, States
    <3> QED BY <1>1, <1>3, <2>1, <3>1 DEF Undecided, Slot
  <2>3. CASE k \notin 1 .. n
    <3>1. ~Found(a, i) /\ c = 0
      BY <1>1, <2>1, <2>3 DEF Found
    <3>2. h.winner = 0 /\ \A j \in 1 .. n : AfterTimer(a, i, j, h.entries[j])
      BY <1>5, <1>10, <2>3
    <3>3. ASSUME NEW j \in 1 .. n
          PROVE  /\ h.entries[j].kind = es[j].kind /\ h.entries[j].st = es[j].st
                 /\ h.entries[j].slot = es[j].slot
                 /\ h.entries[j].accepted => es[j].accepted
      BY <3>1, <3>2 DEF AfterTimer
    <3>4. ASSUME NEW j \in 1 .. n
          PROVE  (Live(h.entries[j]) <=> Live(es[j])) /\ h.entries[j].slot = es[j].slot
      BY <3>3 DEF Live
    <3>5. ASSUME NEW j \in 1 .. n
          PROVE  /\ ~h.entries[j].accepted /\ h.entries[j].st # "Accepted"
                 /\ Live(h.entries[j]) => j <= h.entries[j].slot
      BY <1>1, <2>1, <3>3, <3>4 DEF Undecided
    <3>6. ASSUME NEW j \in 1 .. n, NEW l \in 1 .. n, Live(h.entries[j]), j < l,
                 h.entries[l].kind = "LongPress"
          PROVE  /\ Live(h.entries[l])
                 /\ h.entries[l].slot - h.entries[j].slot >= l - j
                 /\ \A m \in 1 .. n : l < m => ~Live(h.entries[m])
      <4>1. Live(es[j]) /\ es[l].kind = "LongPress"
        BY <3>3, <3>4, <3>6
      <4>2. /\ Live(es[l]) /\ es[l].slot - es[j].slot >= l - j
            /\ \A m \in 1 .. n : l < m => ~Live(es[m])
        BY <1>1, <2>1, <3>6, <4>1 DEF Undecided
      <4> QED BY <3>4, <4>2
    <3>7. Undecided(h)
      BY <1>5, <3>5, <3>6 DEF Undecided
    <3> QED BY <1>5, <3>1, <3>2, <3>7 DEF Owned
  <2>4. CASE k \in 1 .. n
    <3>1. h.winner = k /\ k # 0
      BY <1>1, <1>5, <1>10, <2>4
    <3>2. ASSUME NEW j \in 1 .. n, j # k
          PROVE  h.entries[j].st = "Idle" /\ h.entries[j].timer = 0 /\ ~h.entries[j].accepted
      <4>1. h.entries[j] = Fresh(es[j].kind) /\ es[j].kind \in Kinds
        BY <1>1, <1>5, <1>10, <2>4, <3>2 DEF WellKept, Entry, States
      <4> QED BY <4>1, FreshIsWellKept
    <3>3. AfterTimer(a, i, k, h.entries[k]) /\ h.entries[k].slot = es[k].slot
      BY <1>5, <2>4 DEF AfterTimer
    <3>4. c \in 0 .. 1 /\ (c = 1 => Found(a, i))
      BY <2>1
    <3>5. Found(a, i) => h.entries[k].kind = "LongPress"
      BY <1>7, <2>4 DEF Found
    <3>6. ASSUME h.entries[k].timer > 0, es[k].slot \in 1 .. n,
                 h.entries[es[k].slot].kind = "LongPress"
          PROVE  FALSE
      <4> DEFINE m == es[k].slot
      <4>1. k # i /\ i < k
        BY <1>1, <2>2, <3>3, <3>6 DEF AfterTimer
      <4>2. es[k].kind = "LongPress"
        BY <1>7, <2>4, <3>6 DEF WellKept
      <4>3. /\ Live(es[k]) /\ es[k].slot - es[i].slot >= k - i
            /\ \A j \in 1 .. n : k < j => ~Live(es[j])
        BY <1>1, <1>3, <2>1, <2>4, <4>1, <4>2 DEF Undecided
      <4>4. m \in 1 .. n /\ k < m /\ i < m
        <5>1. es[i].slot = k /\ k \in Nat /\ i \in Nat
          BY <1>1, <2>2 DEF Slot
        <5>2. m \in Nat /\ m - k >= k - i /\ i < k
          BY <1>1, <3>6, <4>1, <4>3, <5>1
        <5> HIDE DEF m
        <5>3. k < m /\ i < m
          BY <5>1, <5>2
        <5> QED BY <3>6, <5>3 DEF m
      <4>5. es[m].kind = "LongPress"
        BY <1>7, <3>6
      <4>6. Live(es[m])
        BY <1>1, <1>3, <2>1, <4>4, <4>5 DEF Undecided
      <4> QED BY <4>3, <4>4, <4>6
    <3>7. Decided(h, c)
      BY <1>5, <3>1, <3>2, <3>3, <3>4, <3>5, <3>6 DEF Decided
    <3> QED BY <1>5, <3>1, <3>4, <3>7 DEF Owned
  <2> QED BY <2>3, <2>4
<1> QED BY <1>6, <1>8, <1>9, <1>10

-----------------------------------------------------------------------------
(* The window.                                                             *)

\* The inductive invariant: the arena is sound, and at rest between presses.
WindowInv ==
  /\ Good(ArenaAndTask)
  /\ sanitizer \in SanitizerStates(Places)
  /\ Len(arena.entries) <= MaxEntries
  /\ ~sanitizer.mouse_down => Rested(arena) /\ sanitizer.buttons = {}

\* It says what TypeOK does, and more.
LEMMA WindowInvTypes == WindowInv => TypeOK
<1> SUFFICES ASSUME WindowInv PROVE TypeOK
  OBVIOUS
<1>1. Good(ArenaAndTask)
  BY DEF WindowInv
<1>2. /\ arena \in Arenas /\ Sound(arena) /\ release \in 0 .. DoubleTapMax + 1
      /\ parked \subseteq Widgets /\ begun \in 0 .. 2
  BY <1>1, GoodType DEF ArenaAndTask
<1>3. arena.winner <= Len(arena.entries)
  <2>1. arena = NoArena => arena.winner <= Len(arena.entries)
    BY DEF NoArena
  <2> QED BY <1>2, <2>1 DEF Sound
<1> QED BY <1>2, <1>3 DEF TypeOK, WindowInv, Arenas, Entry

\* The bundle is the four variables.
LEMMA Becomes ==
  ASSUME NEW g, Good(g), Become(g)
  PROVE  ArenaAndTask' = g
<1>1. g = [arena |-> g.arena, release |-> g.release, parked |-> g.parked, begun |-> g.begun]
  BY DEF Good, Bundles
<1> QED BY <1>1 DEF Become, ArenaAndTask

\* The Down of a press, and what it finds: after the Cancel of a press that
\* saw no Up, nothing.
PressOf(b, pos) == Event("Down", Clamp(pos), ButtonBits(b))

FoundBy(g) ==
  /\ Good(g) /\ Rested(g.arena) /\ g.parked = parked
  /\ IF sanitizer.mouse_down THEN g.arena = NoArena /\ g.release = 0
     ELSE g = ArenaAndTask
  /\ Owned(arena, begun) => Owned(g.arena, g.begun)

PressedAs(b, pos) ==
  \E g : /\ FoundBy(g)
         /\ OnPointerEvent(g, PressOf(b, pos)) = ArenaAndTask'
         /\ Len(g.arena.entries)
              + Len(Joining(HitPath(Clamp(pos)), g.parked, PressOf(b, pos))) <= MaxEntries
         /\ sanitizer' = [buttons |-> ButtonBits(b), mouse_down |-> TRUE,
                          last_down |-> Clamp(pos)]

LEMMA PressIsEvent ==
  ASSUME NEW b \in PressButtons, NEW pos \in Positions
  PROVE  /\ IsEvent(PressOf(b, pos)) /\ PressOf(b, pos).phase = "Down"
         /\ PressOf(b, pos).pos = Clamp(pos) /\ PressOf(b, pos).buttons = ButtonBits(b)
         /\ Clamp(pos) \in Places /\ HitPath(Clamp(pos)) \in Seq(Widgets)
         /\ ButtonBits(b) \in SUBSET {"primary", "secondary"}
<1>1. /\ PressOf(b, pos).phase = "Down" /\ PressOf(b, pos).pos = Clamp(pos)
      /\ PressOf(b, pos).buttons = ButtonBits(b)
  BY DEF PressOf, Event
<1>2. Clamp(pos) \in Places /\ HitPath(Clamp(pos)) \in Seq(Widgets)
  BY ElementsAssumption DEF Places
<1>3. ButtonBits(b) \in SUBSET {"primary", "secondary"}
  BY ElementsAssumption DEF ButtonBits, Buttons
<1> QED BY <1>1, <1>2, <1>3 DEF IsEvent, Phases

LEMMA PressShape ==
  ASSUME WindowInv, NEW b \in PressButtons, NEW pos \in Positions, Room(b, pos),
         DispatchEvent([type |-> "MouseDown", button |-> b, pos |-> pos])
  PROVE  UNCHANGED <<sanitizer, ArenaAndTask>> \/ PressedAs(b, pos)
<1> DEFINE in == [type |-> "MouseDown", button |-> b, pos |-> pos]
           s == sanitizer
           ev == PressOf(b, pos)
           cancel == Event("Cancel", s.last_down, s.buttons)
           down == [buttons |-> ButtonBits(b), mouse_down |-> TRUE, last_down |-> Clamp(pos)]
           c == Convert(in, s)
           g == Handled(ArenaAndTask, c.events)
<1>1. sanitizer' = c.state /\ Become(g)
  BY DEF DispatchEvent, Handled
<1>2. s \in SanitizerStates(Places) /\ (~s.mouse_down => s.buttons = {} /\ Rested(arena))
  BY DEF WindowInv
<1>3. Good(ArenaAndTask) /\ ArenaAndTask.arena = arena /\ ArenaAndTask.parked = parked
      /\ ArenaAndTask.begun = begun
  BY DEF WindowInv, ArenaAndTask
<1>4. /\ in.type = "MouseDown" /\ in.button = b /\ in.pos = pos
  OBVIOUS
<1>5. MouseDown(b, pos, NoPress).event = ev
  BY DEF MouseDown, NoPress, PressOf
<1>6. Room(b, pos) <=>
        (IF s.mouse_down THEN 0 ELSE Len(arena.entries))
          + Len(Joining(HitPath(Clamp(pos)), parked, ev)) <= MaxEntries
  BY <1>5, PressIsEvent DEF Room
<1> HIDE DEF in
<1>7. CASE s.mouse_down /\ pos = s.last_down
  <2>1. c = [events |-> <<>>, state |-> s]
    BY <1>4, <1>7 DEF Convert
  <2>2. g = ArenaAndTask /\ c.state = s
    BY <2>1, FoldNone
  <2> HIDE DEF g, c
  <2> QED BY <1>1, <1>3, <2>2, Becomes
<1>8. CASE s.mouse_down /\ pos # s.last_down
  <2> DEFINE rest == [s EXCEPT !.mouse_down = FALSE, !.buttons = {}]
             t == Translate(in, rest)
             x == OnPointerEvent(ArenaAndTask, cancel)
  <2>1. c = [events |-> <<cancel, t.event>>, state |-> t.state]
    BY <1>4, <1>8 DEF Convert
  <2>2. rest.buttons = {}
    BY <1>2 DEF SanitizerStates
  <2>3. t.event = ev /\ t.state = down
    <3> HIDE DEF rest
    <3> QED BY <1>4, <2>2 DEF Translate, MouseDown, PressOf
  <2>4. c.events = <<cancel, ev>> /\ c.state = down
    BY <2>1, <2>3
  <2> HIDE DEF c
  <2>5. g = OnPointerEvent(x, ev)
    <3> HIDE DEF cancel, ev
    <3> QED BY <2>4, FoldTwo
  <2>6. IsEvent(cancel) /\ cancel.phase = "Cancel"
    BY <1>2 DEF IsEvent, Phases, Event, SanitizerStates
  <2> HIDE DEF cancel, g
  <2>7. /\ Good(x) /\ x.parked = parked /\ x.arena = NoArena /\ x.release = 0
        /\ Owned(arena, begun) => Owned(x.arena, x.begun)
    BY <1>3, <2>6, CancelKeeps
  <2> HIDE DEF x
  <2>8. FoundBy(x)
    BY <1>8, <2>7, NoArenaIsSound DEF FoundBy
  <2>9. Good(g)
    BY <2>5, <2>7, NoArenaIsSound, DownKeeps, PressIsEvent
  <2>10. ArenaAndTask' = g
    BY <1>1, <2>9, Becomes
  <2>11. Len(x.arena.entries) = 0
    BY <2>7 DEF NoArena
  <2>12. Len(x.arena.entries) + Len(Joining(HitPath(Clamp(pos)), x.parked, ev)) <= MaxEntries
    BY <1>6, <1>8, <2>7, <2>11
  <2> QED BY <1>1, <2>4, <2>5, <2>8, <2>10, <2>12 DEF PressedAs
<1>9. CASE ~s.mouse_down
  <2> DEFINE t == Translate(in, s)
  <2>1. c = [events |-> <<t.event>>, state |-> t.state]
    BY <1>4, <1>9 DEF Convert
  <2>2. t.event = ev /\ t.state = down
    BY <1>2, <1>4, <1>9 DEF Translate, MouseDown, PressOf
  <2>3. c.events = <<ev>> /\ c.state = down
    BY <2>1, <2>2
  <2> HIDE DEF c
  <2>4. g = OnPointerEvent(ArenaAndTask, ev)
    BY <2>3, FoldOne
  <2> HIDE DEF g
  <2>5. FoundBy(ArenaAndTask)
    BY <1>2, <1>3, <1>9 DEF FoundBy
  <2>6. Good(g)
    BY <1>2, <1>3, <1>9, <2>4, DownKeeps, PressIsEvent
  <2>7. ArenaAndTask' = g
    BY <1>1, <2>6, Becomes
  <2>8. Len(ArenaAndTask.arena.entries)
          + Len(Joining(HitPath(Clamp(pos)), ArenaAndTask.parked, ev)) <= MaxEntries
    BY <1>3, <1>6, <1>9
  <2> QED BY <1>1, <2>3, <2>4, <2>5, <2>7, <2>8 DEF PressedAs
<1> QED BY <1>7, <1>8, <1>9

\* A press keeps the invariant.
LEMMA PressKeeps ==
  ASSUME WindowInv, NEW b \in PressButtons, NEW pos \in Positions, PressedAs(b, pos)
  PROVE  /\ WindowInv'
         /\ FewLongPresses /\ Owned(arena, begun) => Owned(arena, begun)'
<1> DEFINE ev == PressOf(b, pos)
<1>1. PICK g : /\ FoundBy(g)
               /\ OnPointerEvent(g, ev) = ArenaAndTask'
               /\ Len(g.arena.entries)
                    + Len(Joining(HitPath(Clamp(pos)), g.parked, ev)) <= MaxEntries
               /\ sanitizer' = [buttons |-> ButtonBits(b), mouse_down |-> TRUE,
                                last_down |-> Clamp(pos)]
  BY DEF PressedAs
<1> DEFINE kinds == Joining(HitPath(Clamp(pos)), g.parked, ev)
           h == OnPointerEvent(g, ev)
<1>2. /\ IsEvent(ev) /\ ev.phase = "Down" /\ ev.pos = Clamp(pos) /\ ev.buttons = ButtonBits(b)
      /\ Clamp(pos) \in Places /\ HitPath(Clamp(pos)) \in Seq(Widgets)
      /\ ButtonBits(b) \in SUBSET {"primary", "secondary"}
  BY PressIsEvent
<1>3. Good(g) /\ Rested(g.arena) /\ g.parked = parked
      /\ (Owned(arena, begun) => Owned(g.arena, g.begun))
  BY <1>1 DEF FoundBy
<1>4. g.parked \subseteq Widgets /\ Len(g.arena.entries) \in Nat
  BY <1>3, GoodType
<1>5. kinds \in Seq(Kinds)
  BY <1>2, JoiningType
<1>6. FewLongPresses => ~ThreeLongPresses(kinds)
  <2>1. ev = Event("Down", Clamp(pos), ButtonBits(b))
    BY DEF PressOf
  <2>2. ButtonBits(b) \in SUBSET Buttons /\ g.parked \in SUBSET Widgets
    BY <1>2, <1>4 DEF Buttons
  <2> QED BY <2>1, <2>2 DEF FewLongPresses
<1>7. kinds = Joining(HitPath(ev.pos), g.parked, ev) /\ HitPath(ev.pos) \in Seq(Widgets)
  BY <1>2
<1>8. Len(g.arena.entries) + Len(kinds) <= MaxEntries
  BY <1>1
<1> HIDE DEF kinds, ev
<1>9. Len(kinds) \in Nat
  BY <1>5
<1>10. /\ Good(h) /\ Len(h.arena.entries) <= Len(g.arena.entries) + Len(kinds)
       /\ Owned(g.arena, g.begun) /\ ~ThreeLongPresses(kinds) => Owned(h.arena, h.begun)
  BY <1>2, <1>3, <1>7, DownKeeps
<1>11. h = ArenaAndTask'
  BY <1>1 DEF ev
<1> HIDE DEF h
<1>12. h.arena = arena' /\ h.begun = begun'
  BY <1>11 DEF ArenaAndTask
<1>13. Len(arena'.entries) <= MaxEntries
  <2>1. Len(h.arena.entries) \in Nat
    BY <1>10, GoodType
  <2> QED BY <1>4, <1>8, <1>10, <1>12, <1>9, <2>1, ElementsAssumption
<1>14. sanitizer' \in SanitizerStates(Places) /\ sanitizer'.mouse_down
  BY <1>1, <1>2 DEF SanitizerStates
<1> QED BY <1>3, <1>6, <1>10, <1>11, <1>12, <1>13, <1>14 DEF WindowInv

\* An event of any other phase is one event.
LEMMA OtherShape ==
  ASSUME WindowInv, NEW in, in.type # "MouseDown", DispatchEvent(in),
         NEW ev, ev = Translate(in, sanitizer).event,
         Good(OnPointerEvent(ArenaAndTask, ev))
  PROVE  /\ sanitizer' = Translate(in, sanitizer).state
         /\ ArenaAndTask' = OnPointerEvent(ArenaAndTask, ev)
<1> DEFINE c == Convert(in, sanitizer)
           g == Handled(ArenaAndTask, c.events)
<1>1. sanitizer' = c.state /\ Become(g)
  BY DEF DispatchEvent, Handled
<1>2. c.events = <<ev>> /\ c.state = Translate(in, sanitizer).state
  BY DEF Convert
<1> HIDE DEF c
<1>3. g = OnPointerEvent(ArenaAndTask, ev)
  BY <1>2, FoldOne
<1> HIDE DEF g
<1>4. ArenaAndTask' = g
  BY <1>1, <1>3, Becomes
<1> QED BY <1>1, <1>2, <1>3, <1>4

Handles(ev) == IsEvent(ev) /\ ArenaAndTask' = OnPointerEvent(ArenaAndTask, ev)

\* A release is an Up, and the press may end; it never begins.
LEMMA LiftShape ==
  ASSUME WindowInv, NEW b \in PressButtons, NEW pos \in Positions,
         DispatchEvent([type |-> "MouseUp", button |-> b, pos |-> pos])
  PROVE  /\ \E ev : ev.phase = "Up" /\ Handles(ev)
         /\ sanitizer' \in SanitizerStates(Places)
         /\ sanitizer'.mouse_down => sanitizer.mouse_down
         /\ ~sanitizer'.mouse_down => sanitizer'.buttons = {}
<1> DEFINE in == [type |-> "MouseUp", button |-> b, pos |-> pos]
           s == sanitizer
           held == s.buttons \ ButtonBits(b)
           ev == Event("Up", Clamp(pos), held)
           t == [s EXCEPT !.buttons = held, !.mouse_down = s.mouse_down /\ held # {}]
<1>1. in.type = "MouseUp" /\ in.button = b /\ in.pos = pos /\ DispatchEvent(in)
  OBVIOUS
<1>2. s \in SanitizerStates(Places) /\ (~s.mouse_down => s.buttons = {}) /\ Good(ArenaAndTask)
  BY DEF WindowInv
<1> HIDE DEF in
<1>3. Translate(in, s).event = ev /\ Translate(in, s).state = t
  BY <1>1 DEF Translate, MouseUp
<1>4. IsEvent(ev) /\ ev.phase = "Up"
  BY DEF IsEvent, Event, Phases, Places
<1> HIDE DEF ev
<1>5. Good(OnPointerEvent(ArenaAndTask, ev))
  BY <1>2, <1>4, UpKeeps
<1>6. sanitizer' = t /\ ArenaAndTask' = OnPointerEvent(ArenaAndTask, ev)
  BY <1>1, <1>3, <1>5, OtherShape
<1>7. /\ t \in SanitizerStates(Places) /\ (t.mouse_down => s.mouse_down)
      /\ ~t.mouse_down => t.buttons = {}
  BY <1>2 DEF SanitizerStates
<1> HIDE DEF t
<1> QED BY <1>4, <1>6, <1>7 DEF Handles

\* A motion is a Move during a press, and else as the platform says.
LEMMA MoveShape ==
  ASSUME WindowInv, NEW pressed \in BOOLEAN, NEW pos \in Positions,
         DispatchEvent([type |-> "MouseMove", pressed |-> pressed, pos |-> pos])
  PROVE  /\ \E ev : /\ ev.phase = IF sanitizer.mouse_down \/ pressed THEN "Move" ELSE "Hover"
                    /\ Handles(ev)
         /\ sanitizer' = sanitizer
<1> DEFINE in == [type |-> "MouseMove", pressed |-> pressed, pos |-> pos]
           s == sanitizer
           phase == IF s.mouse_down \/ pressed THEN "Move" ELSE "Hover"
           ev == Event(phase, Clamp(pos), s.buttons)
<1>1. in.type = "MouseMove" /\ in.pressed = pressed /\ in.pos = pos /\ DispatchEvent(in)
  OBVIOUS
<1>2. Good(ArenaAndTask)
  BY DEF WindowInv
<1> HIDE DEF in
<1>3. Translate(in, s).event = ev /\ Translate(in, s).state = s
  BY <1>1 DEF Translate, MouseMove
<1>4. IsEvent(ev) /\ ev.phase = phase /\ phase \in {"Move", "Hover"}
  BY DEF IsEvent, Event, Phases, Places
<1> HIDE DEF ev
<1>5. Good(OnPointerEvent(ArenaAndTask, ev))
  BY <1>2, <1>4, MoveKeeps
<1>6. sanitizer' = s /\ ArenaAndTask' = OnPointerEvent(ArenaAndTask, ev)
  BY <1>1, <1>3, <1>5, OtherShape
<1> QED BY <1>4, <1>6 DEF Handles

\* An exit is a Removed, and the press is not forgotten.
LEMMA LeaveShape ==
  ASSUME WindowInv, NEW pos \in Positions,
         DispatchEvent([type |-> "MouseExit", pos |-> pos])
  PROVE  /\ \E ev : ev.phase = "Removed" /\ Handles(ev)
         /\ sanitizer' = sanitizer
<1> DEFINE in == [type |-> "MouseExit", pos |-> pos]
           s == sanitizer
           ev == Event("Removed", Clamp(pos), s.buttons)
<1>1. in.type = "MouseExit" /\ in.pos = pos /\ DispatchEvent(in)
  OBVIOUS
<1>2. Good(ArenaAndTask)
  BY DEF WindowInv
<1> HIDE DEF in
<1>3. Translate(in, s).event = ev /\ Translate(in, s).state = s
  BY <1>1 DEF Translate, MouseExit
<1>4. IsEvent(ev) /\ ev.phase = "Removed"
  BY DEF IsEvent, Event, Phases, Places
<1> HIDE DEF ev
<1>5. Good(OnPointerEvent(ArenaAndTask, ev))
  BY <1>2, <1>4, CancelKeeps
<1>6. sanitizer' = s /\ ArenaAndTask' = OnPointerEvent(ArenaAndTask, ev)
  BY <1>1, <1>3, <1>5, OtherShape
<1> QED BY <1>4, <1>6 DEF Handles

\* Events other than a press keep the invariant: none lengthens the arena,
\* and the one that may end a press leaves the arena at rest.
LEMMA OtherKeeps ==
  ASSUME WindowInv, NEW ev, Handles(ev), ev.phase # "Down",
         sanitizer' \in SanitizerStates(Places),
         ~sanitizer'.mouse_down => sanitizer'.buttons = {},
         sanitizer'.mouse_down = sanitizer.mouse_down \/ ev.phase = "Up"
  PROVE  WindowInv' /\ (Owned(arena, begun) => Owned(arena, begun)')
<1> DEFINE g == ArenaAndTask
           h == OnPointerEvent(g, ev)
<1>1. /\ Good(g) /\ IsEvent(ev) /\ g.arena = arena /\ g.begun = begun
      /\ Len(arena.entries) <= MaxEntries /\ (~sanitizer.mouse_down => Rested(arena))
  BY DEF WindowInv, Handles, ArenaAndTask
<1>2. h = ArenaAndTask' /\ h.arena = arena' /\ h.begun = begun'
  BY DEF Handles, ArenaAndTask
<1>3. ev.phase \in {"Up", "Move", "Hover", "Cancel", "Removed"}
  BY <1>1 DEF IsEvent, Phases
<1> HIDE DEF g
<1>4. /\ Good(h) /\ Len(h.arena.entries) <= Len(g.arena.entries)
      /\ ev.phase = "Up" \/ Rested(g.arena) => Rested(h.arena)
      /\ Owned(g.arena, g.begun) => Owned(h.arena, h.begun)
  <2>1. CASE ev.phase = "Up"
    BY <1>1, <2>1, UpKeeps
  <2>2. CASE ev.phase \in {"Move", "Hover"}
    BY <1>1, <2>2, MoveKeeps
  <2>3. CASE ev.phase \in {"Cancel", "Removed"}
    <3>1. /\ Good(h) /\ h.arena = NoArena
          /\ Owned(g.arena, g.begun) => Owned(h.arena, h.begun)
      BY <1>1, <2>3, CancelKeeps
    <3>2. Len(NoArena.entries) = 0 /\ Len(g.arena.entries) \in Nat
      BY <1>1, GoodType DEF NoArena
    <3> HIDE DEF h
    <3> QED BY <3>1, <3>2, NoArenaIsSound
  <2> QED BY <1>3, <2>1, <2>2, <2>3
<1> HIDE DEF h
<1>5. Len(arena'.entries) <= MaxEntries
  <2>1. Len(h.arena.entries) \in Nat /\ Len(g.arena.entries) \in Nat
    BY <1>1, <1>4, GoodType
  <2> QED BY <1>1, <1>2, <1>4, <2>1, ElementsAssumption
<1>6. ~sanitizer'.mouse_down => Rested(arena')
  BY <1>1, <1>2, <1>4
<1> QED BY <1>1, <1>2, <1>4, <1>5, <1>6 DEF WindowInv

\* Painting only parks.
LEMMA DrawKeeps ==
  ASSUME WindowInv, NEW reused \in SUBSET Cached, Draw(reused)
  PROVE  WindowInv' /\ (Owned(arena, begun) => Owned(arena, begun)')
<1>1. /\ parked' \subseteq Widgets
      /\ UNCHANGED <<sanitizer, arena, release, begun>>
  BY DEF Draw
<1>2. Good(ArenaAndTask)'
  BY <1>1 DEF WindowInv, Good, Bundles, ArenaAndTask
<1> QED BY <1>1, <1>2 DEF WindowInv

\* The release task runs.
LEMMA ReleaseFireShape ==
  ASSUME WindowInv, ReleaseFire
  PROVE  \E g : /\ Good(g) /\ g.arena = arena /\ g.begun = begun /\ g.release = 0
                /\ ArenaAndTask' = Release(g) /\ sanitizer' = sanitizer
<1> DEFINE g == [ArenaAndTask EXCEPT !.release = 0]
           h == Release(g)
<1>1. Good(g) /\ g.arena = arena /\ g.begun = begun /\ g.release = 0
  <2>1. 0 \in 0 .. DoubleTapMax + 1
    BY SettingsAssumption
  <2> QED BY <2>1 DEF WindowInv, Good, Bundles, ArenaAndTask
<1>2. Become(h) /\ sanitizer' = sanitizer
  BY DEF ReleaseFire
<1> HIDE DEF g
<1>3. Good(h)
  BY <1>1, ReleaseKeeps
<1>4. ArenaAndTask' = h
  BY <1>2, <1>3, Becomes
<1> QED BY <1>1, <1>2, <1>4

LEMMA ReleaseFireKeeps ==
  ASSUME WindowInv, ReleaseFire
  PROVE  WindowInv' /\ (Owned(arena, begun) => Owned(arena, begun)')
<1>1. PICK g : /\ Good(g) /\ g.arena = arena /\ g.begun = begun /\ g.release = 0
               /\ ArenaAndTask' = Release(g) /\ sanitizer' = sanitizer
  BY ReleaseFireShape
<1> DEFINE h == Release(g)
<1>2. /\ Good(h) /\ Len(h.arena.entries) <= Len(g.arena.entries)
      /\ Rested(g.arena) => Rested(h.arena)
      /\ Owned(g.arena, g.begun) => Owned(h.arena, h.begun)
  BY <1>1, ReleaseKeeps
<1>3. h = ArenaAndTask' /\ h.arena = arena' /\ h.begun = begun'
  BY <1>1 DEF ArenaAndTask
<1> HIDE DEF h
<1>4. Len(arena'.entries) <= MaxEntries
  <2>1. Len(h.arena.entries) \in Nat /\ Len(g.arena.entries) \in Nat
    BY <1>1, <1>2, GoodType
  <2> QED BY <1>1, <1>2, <1>3, <2>1, ElementsAssumption DEF WindowInv
<1> QED BY <1>1, <1>2, <1>3, <1>4 DEF WindowInv

\* The timer of a long press runs, always during a press.
LEMMA LongPressShape ==
  ASSUME WindowInv, NEW i \in DOMAIN arena.entries, LongPressFire(i)
  PROVE  /\ arena' = Fired(arena, i)
         /\ begun' = IF Found(arena, i) /\ begun < 2 THEN begun + 1 ELSE begun
         /\ sanitizer' = sanitizer /\ parked' = parked /\ release' = release
         /\ Sound(arena) /\ arena.entries[i].timer = 1 /\ sanitizer.mouse_down
<1>1. /\ arena' = Fired(arena, i)
      /\ begun' = IF Found(arena, i) /\ begun < 2 THEN begun + 1 ELSE begun
  BY DEF LongPressFire, Fired, Started, Ran, Found, Slot
<1>2. /\ sanitizer' = sanitizer /\ parked' = parked /\ release' = release
      /\ arena.entries[i].timer = 1
  BY DEF LongPressFire
<1>3. Sound(arena)
  BY DEF WindowInv, Good, ArenaAndTask
<1>4. sanitizer.mouse_down
  <2>1. WellKept(arena.entries[i])
    BY <1>3 DEF Sound
  <2>2. ~Rested(arena)
    BY <1>2, <2>1 DEF WellKept, Rested, Quiet
  <2> QED BY <2>2 DEF WindowInv
<1> QED BY <1>1, <1>2, <1>3, <1>4

LEMMA LongPressKeeps ==
  ASSUME WindowInv, NEW i \in DOMAIN arena.entries, LongPressFire(i)
  PROVE  WindowInv' /\ (Owned(arena, begun) => Owned(arena, begun)')
<1>1. /\ arena' = Fired(arena, i)
      /\ begun' = IF Found(arena, i) /\ begun < 2 THEN begun + 1 ELSE begun
      /\ sanitizer' = sanitizer /\ parked' = parked /\ release' = release
      /\ Sound(arena) /\ arena.entries[i].timer = 1 /\ sanitizer.mouse_down
  BY LongPressShape
<1>2. Good(ArenaAndTask) /\ begun \in 0 .. 2
  BY DEF WindowInv, Good, Bundles, ArenaAndTask
<1>3. FiredAs(arena, i, arena')
  BY <1>1, FiredShape
<1>4. Sound(arena') /\ begun' \in 0 .. 2 /\ (Owned(arena, begun) => Owned(arena', begun'))
  BY <1>1, <1>2, FiredKeeps
<1>5. Good(ArenaAndTask)'
  BY <1>1, <1>2, <1>4 DEF Good, Bundles, ArenaAndTask, Sound
<1>6. Len(arena'.entries) = Len(arena.entries)
  BY <1>3 DEF FiredAs
<1> QED BY <1>1, <1>4, <1>5, <1>6 DEF WindowInv

\* Time passes.
LEMMA TimeKeeps ==
  ASSUME WindowInv, Tick
  PROVE  WindowInv' /\ (Owned(arena, begun) => Owned(arena, begun)')
<1>1. /\ release' = IF release = 0 THEN 0 ELSE release - 1
      /\ arena' = [arena EXCEPT !.entries =
                     [i \in DOMAIN arena.entries |-> Aged(arena.entries[i])]]
      /\ UNCHANGED <<sanitizer, parked, begun>>
  BY DEF Tick
<1>2. Good(ArenaAndTask) /\ Sound(arena) /\ release \in 0 .. DoubleTapMax + 1
  BY DEF WindowInv, Good, Bundles, ArenaAndTask
<1>3. /\ Sound(arena') /\ Len(arena'.entries) = Len(arena.entries)
      /\ Rested(arena) => Rested(arena')
      /\ Owned(arena, begun) => Owned(arena', begun)
  BY <1>1, <1>2, TickKeeps
<1>4. release' \in 0 .. DoubleTapMax + 1
  BY <1>1, <1>2, SettingsAssumption
<1>5. Good(ArenaAndTask)'
  BY <1>1, <1>2, <1>3, <1>4 DEF Good, Bundles, ArenaAndTask, Sound
<1> QED BY <1>1, <1>3, <1>5 DEF WindowInv

-----------------------------------------------------------------------------
(* The invariants of the specification.                                    *)

LEMMA InitInv == Init => WindowInv /\ Owned(arena, begun)
<1> SUFFICES ASSUME Init PROVE WindowInv /\ Owned(arena, begun)
  OBVIOUS
<1>1. 0 \in 0 .. DoubleTapMax + 1 /\ NoArena \in Arenas /\ Sound(NoArena)
      /\ Rested(NoArena) /\ ~Present(NoArena)
  BY SettingsAssumption, NoArenaIsSound DEF Sound
<1>2. Good(ArenaAndTask)
  BY <1>1 DEF Init, Good, Bundles, ArenaAndTask
<1>3. sanitizer \in SanitizerStates(Places) /\ ~sanitizer.mouse_down /\ sanitizer.buttons = {}
  BY DEF Init, NoPress, SanitizerStates, Places
<1>4. Len(arena.entries) <= MaxEntries
  BY ElementsAssumption DEF Init, NoArena
<1>5. Owned(arena, begun)
  BY <1>1 DEF Init, Owned
<1> QED BY <1>1, <1>2, <1>3, <1>4, <1>5 DEF WindowInv, Init

\* Every step keeps WindowInv; where no press brings three long presses it
\* keeps the owner of the gesture too.
LEMMA StepInv ==
  ASSUME WindowInv, [Next]_vars
  PROVE  /\ WindowInv'
         /\ FewLongPresses /\ Owned(arena, begun) => Owned(arena, begun)'
<1>1. CASE UNCHANGED <<sanitizer, ArenaAndTask>>
  <2>1. UNCHANGED <<sanitizer, arena, release, parked, begun>>
    BY <1>1 DEF ArenaAndTask
  <2> QED BY <1>1, <2>1 DEF WindowInv
<1>2. CASE UNCHANGED vars
  <2>1. UNCHANGED <<sanitizer, ArenaAndTask>>
    BY <1>2 DEF vars, ArenaAndTask
  <2> QED BY <1>1, <2>1
<1>3. CASE Press
  <2>1. PICK b \in PressButtons, pos \in Positions :
          /\ Room(b, pos)
          /\ DispatchEvent([type |-> "MouseDown", button |-> b, pos |-> pos])
    BY <1>3 DEF Press
  <2>2. UNCHANGED <<sanitizer, ArenaAndTask>> \/ PressedAs(b, pos)
    BY <2>1, PressShape
  <2> QED BY <1>1, <2>2, PressKeeps
<1>4. CASE Lift
  <2>1. PICK b \in PressButtons, pos \in Positions :
          DispatchEvent([type |-> "MouseUp", button |-> b, pos |-> pos])
    BY <1>4 DEF Lift
  <2>2. PICK ev : ev.phase = "Up" /\ Handles(ev)
    BY <2>1, LiftShape
  <2>3. /\ sanitizer' \in SanitizerStates(Places)
        /\ ~sanitizer'.mouse_down => sanitizer'.buttons = {}
    BY <2>1, LiftShape
  <2> QED BY <2>2, <2>3, OtherKeeps
<1>5. ASSUME NEW ev, Handles(ev), ev.phase # "Down", sanitizer' = sanitizer
      PROVE  WindowInv' /\ (Owned(arena, begun) => Owned(arena, begun)')
  <2>1. /\ sanitizer' \in SanitizerStates(Places)
        /\ ~sanitizer'.mouse_down => sanitizer'.buttons = {}
    BY <1>5 DEF WindowInv
  <2> QED BY <1>5, <2>1, OtherKeeps
<1>6. CASE MovePointer
  <2>1. PICK pos \in Positions, pressed \in BOOLEAN :
          DispatchEvent([type |-> "MouseMove", pressed |-> pressed, pos |-> pos])
    BY <1>6 DEF MovePointer
  <2>2. PICK ev : /\ ev.phase = IF sanitizer.mouse_down \/ pressed THEN "Move" ELSE "Hover"
                  /\ Handles(ev)
    BY <2>1, MoveShape
  <2>3. sanitizer' = sanitizer /\ ev.phase # "Down"
    BY <2>1, <2>2, MoveShape
  <2> QED BY <1>5, <2>2, <2>3
<1>7. CASE Leave
  <2>1. PICK pos \in Positions : DispatchEvent([type |-> "MouseExit", pos |-> pos])
    BY <1>7 DEF Leave
  <2>2. PICK ev : ev.phase = "Removed" /\ Handles(ev)
    BY <2>1, LeaveShape
  <2>3. sanitizer' = sanitizer
    BY <2>1, LeaveShape
  <2> QED BY <1>5, <2>2, <2>3
<1>8. CASE \E reused \in SUBSET Cached : Draw(reused)
  BY <1>8, DrawKeeps
<1>9. CASE ReleaseFire
  BY <1>9, ReleaseFireKeeps
<1>10. CASE \E i \in DOMAIN arena.entries : LongPressFire(i)
  BY <1>10, LongPressKeeps
<1>11. CASE Tick
  BY <1>11, TimeKeeps
<1> QED BY <1>2, <1>3, <1>4, <1>6, <1>7, <1>8, <1>9, <1>10, <1>11 DEF Next

\* Every field keeps its type.
THEOREM WindowTypes == Spec => []TypeOK
<1>1. Init => WindowInv
  BY InitInv
<1>2. WindowInv /\ [Next]_vars => WindowInv'
  BY StepInv
<1>3. WindowInv => TypeOK
  BY WindowInvTypes
<1> QED BY <1>1, <1>2, <1>3, PTL DEF Spec

LEMMA HeldFromInv == WindowInv => PendingDoubleTapIsHeld
<1> SUFFICES ASSUME WindowInv, arena.winner = 0, NEW i \in DOMAIN arena.entries,
                    arena.entries[i].st \in {"AwaitSecond", "SecondDown"}
             PROVE  arena.hold_count > 0
  BY DEF PendingDoubleTapIsHeld
<1>1. Sound(arena)
  BY DEF WindowInv, Good, ArenaAndTask
<1>2. arena.entries[i].kind = "DoubleTap"
  BY <1>1 DEF Sound, WellKept
<1> QED BY <1>1, <1>2 DEF Sound

\* While an arena has no winner, a double tap in it that has had its first
\* tap has a hold: no sweep can give that tap to the captain before the
\* release task runs, whatever else competes and whatever is painted.
THEOREM PendingIsHeld == Spec => []PendingDoubleTapIsHeld
<1>1. Init => WindowInv
  BY InitInv
<1>2. WindowInv /\ [Next]_vars => WindowInv'
  BY StepInv
<1>3. WindowInv => PendingDoubleTapIsHeld
  BY HeldFromInv
<1> QED BY <1>1, <1>2, <1>3, PTL DEF Spec

LEMMA OwnerFromInv ==
  WindowInv /\ Owned(arena, begun) => AtMostOneGesture /\ OnlyTheWinnerActs
<1> SUFFICES ASSUME WindowInv, Owned(arena, begun) PROVE AtMostOneGesture /\ OnlyTheWinnerActs
  OBVIOUS
<1>1. AtMostOneGesture
  BY DEF AtMostOneGesture, Owned
<1>2. ASSUME NEW i \in DOMAIN arena.entries
      PROVE  /\ arena.winner \notin {0, i} =>
                  arena.entries[i].st = "Idle" /\ arena.entries[i].timer = 0
             /\ arena.entries[i].st = "Accepted" \/ arena.entries[i].accepted =>
                  arena.winner = i
  <2>1. Present(arena)
    BY DEF Present, NoArena
  <2>2. CASE arena.winner = 0
    <3>1. Undecided(arena)
      BY <2>1, <2>2 DEF Owned
    <3> QED BY <2>2, <3>1 DEF Undecided
  <2>3. CASE arena.winner # 0
    <3>1. Decided(arena, begun)
      BY <2>1, <2>3 DEF Owned
    <3>2. i # arena.winner =>
            arena.entries[i].st = "Idle" /\ arena.entries[i].timer = 0
            /\ ~arena.entries[i].accepted
      BY <3>1 DEF Decided
    <3> QED BY <2>3, <3>2
  <2> QED BY <2>2, <2>3
<1> QED BY <1>1, <1>2 DEF OnlyTheWinnerActs

\* Where no press brings three long presses, at most one recognizer of an
\* arena reports a success.  With three, two of which outlive the entries in
\* front of them, a timer that looks for its entry at the index it was
\* registered with starts another long press, which later starts again.
THEOREM OneGesture ==
  ASSUME FewLongPresses PROVE Spec => []AtMostOneGesture
<1>1. Init => WindowInv /\ Owned(arena, begun)
  BY InitInv
<1>2. WindowInv /\ Owned(arena, begun) /\ [Next]_vars => WindowInv' /\ Owned(arena, begun)'
  BY StepInv
<1>3. WindowInv /\ Owned(arena, begun) => AtMostOneGesture
  BY OwnerFromInv
<1> QED BY <1>1, <1>2, <1>3, PTL DEF Spec

\* There too, the losers of a decided arena are idle for good, and a drag or
\* a long press that has started is the winner.
THEOREM WinnerActsAlone ==
  ASSUME FewLongPresses PROVE Spec => []OnlyTheWinnerActs
<1>1. Init => WindowInv /\ Owned(arena, begun)
  BY InitInv
<1>2. WindowInv /\ Owned(arena, begun) /\ [Next]_vars => WindowInv' /\ Owned(arena, begun)'
  BY StepInv
<1>3. WindowInv /\ Owned(arena, begun) => OnlyTheWinnerActs
  BY OwnerFromInv
<1> QED BY <1>1, <1>2, <1>3, PTL DEF Spec

-----------------------------------------------------------------------------
(* The window implements the arena of GestureArena.                        *)

\* A row of the abstract arena: the competitors are counted.
Row(n, w, open, c) == [entries |-> n, winner |-> w, is_open |-> open, hold_count |-> c]

Tally(a) == Row(Len(a.entries), a.winner, a.is_open, a.hold_count)

Rows == [entries : Nat, winner : Nat, is_open : BOOLEAN, hold_count : 0 .. HoldMax]

LEMMA RowShape ==
  ASSUME NEW n \in Nat, NEW w \in Nat, NEW open \in BOOLEAN, NEW c \in 0 .. HoldMax
  PROVE  /\ Row(n, w, open, c) \in Rows
         /\ Row(n, w, open, c).entries = n /\ Row(n, w, open, c).winner = w
         /\ Row(n, w, open, c).is_open = open /\ Row(n, w, open, c).hold_count = c
  BY DEF Row, Rows

LEMMA SameRow ==
  ASSUME NEW r \in Rows, NEW q \in Rows, r.entries = q.entries, r.winner = q.winner,
         r.is_open = q.is_open, r.hold_count = q.hold_count
  PROVE  r = q
  BY DEF Rows

\* A row that is closed goes; one that is open stays.
LEMMA RowEnds ==
  ASSUME NEW r \in Rows
  PROVE  /\ Abstract!Gc(Abstract!Close(r)) = Abstract!NoArena
         /\ r.is_open => Abstract!Present(r) /\ Abstract!Gc(r) = r
<1>1. 0 \in 0 .. HoldMax
  BY ElementsAssumption
<1>2. /\ Abstract!Close(r) \in Rows
      /\ ~Abstract!Close(r).is_open /\ Abstract!Close(r).hold_count = 0
  BY <1>1 DEF Rows, Abstract!Close
<1>3. Abstract!Gc(Abstract!Close(r)) = Abstract!NoArena
  BY <1>2 DEF Abstract!Gc, Abstract!Present
<1>4. r.is_open => Abstract!Present(r) /\ Abstract!Gc(r) = r
  BY DEF Rows, Abstract!Gc, Abstract!Present, Abstract!NoArena
<1> QED BY <1>3, <1>4

LEMMA NoArenaTally == Tally(NoArena) = Abstract!NoArena /\ ~Abstract!Present(Abstract!NoArena)
<1>1. /\ Len(NoArena.entries) = 0 /\ NoArena.winner = 0 /\ NoArena.is_open = FALSE
      /\ NoArena.hold_count = 0
  BY DEF NoArena
<1>2. Abstract!NoArena = Row(0, 0, FALSE, 0)
  BY DEF Abstract!NoArena, Row
<1> QED BY <1>1, <1>2 DEF Tally, Abstract!Present

\* What the abstract arena sees of a kept one.
LEMMA KeptTally ==
  ASSUME NEW a, Sound(a), Present(a)
  PROVE  /\ Tally(a) \in Rows
         /\ Tally(a).entries = Len(a.entries) /\ Tally(a).winner = a.winner
         /\ Tally(a).is_open /\ Tally(a).hold_count = a.hold_count
         /\ Abstract!Present(Tally(a))
         /\ Len(a.entries) \in Nat \ {0} /\ a.winner \in 0 .. Len(a.entries)
         /\ a.hold_count \in 0 .. HoldMax
<1>1. /\ a.is_open /\ Len(a.entries) \in Nat \ {0}
      /\ a.winner \in 0 .. Len(a.entries) /\ a.hold_count \in 0 .. HoldMax /\ a \in Arenas
  BY KeptArena DEF Sound
<1>2. a.is_open = TRUE /\ a.winner \in Nat
  BY <1>1 DEF Arenas
<1>3. /\ Tally(a) \in Rows
      /\ Tally(a).entries = Len(a.entries) /\ Tally(a).winner = a.winner
      /\ Tally(a).is_open = TRUE /\ Tally(a).hold_count = a.hold_count
  BY <1>1, <1>2 DEF Tally, Row, Rows
<1> QED BY <1>1, <1>3, RowEnds

\* It is what Counted says.
LEMMA CountedIsTally ==
  ASSUME NEW a \in Arenas
  PROVE  [a EXCEPT !.entries = Len(a.entries)] = Tally(a)
  BY DEF Tally, Row, Arenas

\* What dispatch does to the arena is what the abstract dispatch may do.
LEMMA DispatchTally ==
  ASSUME NEW g, Good(g), NEW ev, IsEvent(ev), NEW h, h = Dispatch(g, ev)
  PROVE  Tally(h.arena) \in Abstract!Dispatch(Tally(g.arena), Final(ev))
<1> DEFINE a == g.arena
           T == Tally(a)
           U == Tally(h.arena)
<1> SUFFICES U \in Abstract!Dispatch(T, Final(ev))
  OBVIOUS
<1>1. Sound(a) /\ a \in Arenas
  BY GoodType
<1>2. CASE ~Present(a)
  <2>1. h = g /\ a = NoArena
    BY <1>2 DEF Dispatch, Present
  <2>2. T = Abstract!NoArena /\ ~Abstract!Present(T)
    BY <2>1, NoArenaTally
  <2>3. Abstract!Dispatch(T, Final(ev)) = {T}
    BY <2>2 DEF Abstract!Dispatch
  <2> QED BY <2>1, <2>3
<1>3. CASE Present(a)
  <2>1. /\ T \in Rows /\ T.entries = Len(a.entries) /\ T.winner = a.winner /\ T.is_open
        /\ T.hold_count = a.hold_count /\ Abstract!Present(T)
        /\ Len(a.entries) \in Nat \ {0} /\ a.winner \in 0 .. Len(a.entries)
        /\ a.hold_count \in 0 .. HoldMax
    BY <1>1, <1>3, KeptTally
  <2>2. Dispatched(g, ev, h)
    BY DispatchKeeps
  <2>3. a.is_open /\ g \in Bundles
    BY <1>1, <1>3, KeptArena DEF Good
  <2>4. ASSUME Present(h.arena)
        PROVE  /\ U \in Rows /\ U.entries = Len(h.arena.entries) /\ U.winner = h.arena.winner
               /\ U.is_open /\ U.hold_count = a.hold_count
               /\ Len(h.arena.entries) \in 1 .. Len(a.entries)
    <3>1. Sound(h.arena) /\ h.arena.hold_count = a.hold_count
          /\ Len(h.arena.entries) <= Len(a.entries)
      BY <2>2, <2>4, GoodType DEF Dispatched
    <3>2. /\ U \in Rows /\ U.entries = Len(h.arena.entries) /\ U.winner = h.arena.winner
          /\ U.is_open /\ U.hold_count = h.arena.hold_count
          /\ Len(h.arena.entries) \in Nat \ {0}
      BY <2>4, <3>1, KeptTally
    <3>3. Len(h.arena.entries) \in 1 .. Len(a.entries)
      BY <2>1, <3>1, <3>2
    <3> QED BY <3>1, <3>2, <3>3
  <2>5. h.arena = NoArena => U = Abstract!NoArena
    BY NoArenaTally
  <2>6. /\ Abstract!Gc(Abstract!Close(T)) = Abstract!NoArena /\ Abstract!Gc(T) = T
    BY <2>1, RowEnds
  <2>7. CASE a.winner # 0
    <3> DEFINE ans == Handle(a.entries[a.winner], ev)
    <3>1. h = DispatchToWinner(g, ev)
      BY <1>3, <2>3, <2>7 DEF Dispatch
    <3>2. WinnerLeft(g, ev, h, ans)
      BY <1>3, <2>7, <3>1, WinnerShape
    <3> DEFINE kept == [a.entries EXCEPT ![a.winner] = ans.r]
    <3>3. /\ kept \in Seq(Entry) /\ Len(kept) = Len(a.entries)
          /\ h.arena = IF Final(ev) \/ ans.verdict = "Rejected" THEN NoArena
                       ELSE [a EXCEPT !.entries = kept]
      BY <3>2 DEF WinnerLeft
    <3> HIDE DEF kept, ans, T, U
    <3>4. Abstract!Dispatch(T, Final(ev)) = Abstract!Decided(T, Final(ev))
      BY <2>1, <2>7 DEF Abstract!Dispatch
    <3>5. CASE h.arena = NoArena
      BY <2>5, <2>6, <3>4, <3>5 DEF Abstract!Decided
    <3>6. CASE ~Final(ev) /\ h.arena = [a EXCEPT !.entries = kept]
      <4>1. /\ h.arena \in Arenas /\ h.arena.is_open /\ h.arena.winner = a.winner
            /\ Len(h.arena.entries) = Len(a.entries)
        BY <1>1, <2>3, <3>3, <3>6 DEF Arenas
      <4>2. Present(h.arena)
        BY <4>1, OpenStays
      <4>3. U = T
        BY <2>1, <2>4, <4>1, <4>2, SameRow DEF Rows
      <4> QED BY <2>6, <3>4, <3>6, <4>3 DEF Abstract!Decided
    <3> QED BY <3>3, <3>5, <3>6
  <2>8. CASE a.winner = 0
    <3> DEFINE all == [i \in DOMAIN a.entries |-> Handle(a.entries[i], ev)]
               asked == UpToFirstAccepted(a.entries, all)
    <3>1. h = Decide(g, ev, asked)
      BY <1>3, <2>3, <2>8 DEF Dispatch, DispatchUndecided
    <3>2. AskedAs(g, ev, asked)
      BY <1>3, AskedShape
    <3> HIDE DEF asked
    <3>3. Abstract!Dispatch(T, Final(ev)) = Abstract!Undecided(T, Final(ev))
      BY <2>1, <2>8 DEF Abstract!Dispatch
    <3>4. CASE asked.first # 0
      <4> DEFINE w == asked.first
                 W == [T EXCEPT !.winner = w]
      <4>1. h = Chosen(g, ev, w, OthersRejected(asked.answers, w))
        BY <3>1, <3>4 DEF Decide
      <4>2. WonBy(g, ev, h, w)
        BY <1>3, <3>2, <3>4, <4>1, ChosenShape
      <4>3. w \in 1 .. T.entries /\ w \in Nat
        <5>1. w \in DOMAIN a.entries /\ DOMAIN a.entries = 1 .. Len(a.entries)
          BY <4>2, GoodType DEF WonBy
        <5> QED BY <2>1, <5>1
      <4> HIDE DEF w, T, U
      <4>4. Abstract!Won(T, w, Final(ev)) \in Abstract!Dispatch(T, Final(ev))
        BY <3>3, <4>3 DEF Abstract!Undecided
      <4>5. /\ W \in Rows /\ W.winner = w /\ W.entries = T.entries /\ W.is_open
            /\ W.hold_count = T.hold_count
        BY <2>1, <4>3 DEF Rows
      <4>6. CASE Final(ev)
        <5>1. h.arena = NoArena
          BY <4>2, <4>6 DEF WonBy
        <5>2. Abstract!Won(T, w, Final(ev)) = Abstract!NoArena
          BY <4>5, <4>6, RowEnds DEF Abstract!Won
        <5> QED BY <2>5, <4>4, <5>1, <5>2
      <4>7. CASE ~Final(ev)
        <5> DEFINE E == [i \in DOMAIN a.entries |-> IF i = w THEN Handle(a.entries[i], ev).r
                                                    ELSE Fresh(a.entries[i].kind)]
        <5>1. h.arena = [a EXCEPT !.entries = E, !.winner = w]
          BY <4>2, <4>7 DEF WonBy
        <5>2. DOMAIN E = DOMAIN a.entries
          OBVIOUS
        <5> HIDE DEF E
        <5>3. /\ h.arena.entries = E /\ h.arena.winner = w /\ h.arena.is_open
          BY <1>1, <2>3, <5>1 DEF Arenas
        <5>4. Present(h.arena)
          BY <5>3 DEF Present, NoArena
        <5>5. h.arena.entries \in Seq(Entry) /\ Len(h.arena.entries) = Len(a.entries)
          <6>1. /\ DOMAIN h.arena.entries = 1 .. Len(h.arena.entries)
                /\ DOMAIN a.entries = 1 .. Len(a.entries)
                /\ Len(h.arena.entries) \in Nat /\ Len(a.entries) \in Nat
                /\ h.arena.entries \in Seq(Entry)
            BY <2>2, GoodType DEF Dispatched
          <6>2. 1 .. Len(h.arena.entries) = 1 .. Len(a.entries)
            BY <5>2, <5>3, <6>1
          <6> QED BY <6>1, <6>2
        <5>6. U = W
          BY <2>1, <2>4, <4>5, <5>3, <5>4, <5>5, SameRow DEF Rows
        <5>7. Abstract!Won(T, w, Final(ev)) = W
          BY <4>5, <4>7, RowEnds DEF Abstract!Won
        <5> QED BY <4>4, <5>6, <5>7
      <4> QED BY <4>6, <4>7
    <3>5. CASE asked.first = 0
      <4>1. h = NobodyChosen(g, asked.answers)
        BY <3>1, <3>5 DEF Decide
      <4>2. PICK stay : KeptAt(g, ev, h, stay)
        BY <1>3, <3>2, <3>5, <4>1, NobodyShape
      <4> DEFINE told == [i \in DOMAIN a.entries |-> Handle(a.entries[i], ev).r]
                 n == Len(a.entries)
                 k == IF stay = {} THEN n ELSE n - Len(h.arena.entries)
                 D == [T EXCEPT !.entries = T.entries - k]
      <4>3. h.arena = IF stay = {} THEN NoArena ELSE [a EXCEPT !.entries = Selected(told, stay)]
        BY <4>2 DEF KeptAt
      <4> HIDE DEF told
      <4>4. stay # {} => h.arena.winner = a.winner /\ h.arena.is_open /\ Present(h.arena)
        <5>1. stay # {} => h.arena.winner = a.winner /\ h.arena.is_open
          BY <1>1, <2>3, <4>3 DEF Arenas
        <5> QED BY <5>1 DEF Present, NoArena
      <4>5. k \in 0 .. n /\ (stay # {} => n - k = Len(h.arena.entries))
        <5>1. n \in Nat
          BY <2>1
        <5>2. stay # {} => Len(h.arena.entries) \in 1 .. n
          BY <2>4, <4>4
        <5> HIDE DEF n
        <5>3. CASE stay = {}
          BY <5>1, <5>3
        <5>4. CASE stay # {}
          <6>1. k = n - Len(h.arena.entries)
            BY <5>4
          <6> HIDE DEF k
          <6> QED BY <5>1, <5>2, <5>4, <6>1
        <5> QED BY <5>3, <5>4
      <4>6. T.entries = n /\ n \in Nat
        BY <2>1
      <4> HIDE DEF T, U, k, n
      <4>7. /\ D \in Rows /\ D.entries = n - k /\ D.winner = T.winner /\ D.is_open
            /\ D.hold_count = T.hold_count
        BY <2>1, <4>5, <4>6 DEF Rows
      <4>8. Abstract!Dropped(T, k) \in Abstract!Dispatch(T, Final(ev))
        BY <3>3, <4>5, <4>6 DEF Abstract!Undecided
      <4>9. Abstract!Dropped(T, k) = Abstract!Gc(IF D.entries = 0 THEN Abstract!Close(D) ELSE D)
        BY DEF Abstract!Dropped
      <4>10. CASE stay = {}
        <5>1. D.entries = 0
          BY <4>6, <4>7, <4>10 DEF k
        <5>2. Abstract!Dropped(T, k) = Abstract!NoArena
          BY <4>7, <4>9, <5>1, RowEnds
        <5> QED BY <2>5, <4>3, <4>8, <4>10, <5>2
      <4>11. CASE stay # {}
        <5>1. D.entries = Len(h.arena.entries) /\ Len(h.arena.entries) \in 1 .. n
          BY <2>4, <4>4, <4>5, <4>7, <4>11 DEF n
        <5>2. D.entries # 0
          BY <4>6, <5>1
        <5>3. Abstract!Dropped(T, k) = D
          BY <4>7, <4>9, <5>2, RowEnds
        <5>4. U = D
          BY <2>1, <2>4, <4>4, <4>7, <4>11, <5>1, SameRow DEF Rows
        <5> QED BY <4>8, <5>3, <5>4
      <4> QED BY <4>10, <4>11
    <3> QED BY <3>4, <3>5
  <2> QED BY <2>7, <2>8
<1> QED BY <1>2, <1>3

\* An end sweeps or cancels what is abstract as it does what is kept.
LEMMA EndTally ==
  ASSUME NEW a, Sound(a)
  PROVE  /\ Tally(a) \in Rows /\ (a = NoArena => Tally(a) = Abstract!NoArena)
         /\ Abstract!Sweep(Tally(a)) = Tally(IF Sweepable(a) THEN NoArena ELSE a)
         /\ Abstract!Cancelled(Tally(a)) = Abstract!NoArena
<1> DEFINE T == Tally(a)
<1> SUFFICES /\ T \in Rows /\ (a = NoArena => T = Abstract!NoArena)
             /\ Abstract!Sweep(T) = Tally(IF Sweepable(a) THEN NoArena ELSE a)
             /\ Abstract!Cancelled(T) = Abstract!NoArena
  OBVIOUS
<1>1. 0 \in 0 .. HoldMax
  BY ElementsAssumption
<1>2. CASE ~Present(a)
  <2>1. a = NoArena
    BY <1>2 DEF Present
  <2>2. T = Abstract!NoArena /\ ~Abstract!Present(T)
    BY <2>1, NoArenaTally
  <2>3. T \in Rows
    BY <1>1, <2>2 DEF Rows, Abstract!NoArena
  <2>4. ~Sweepable(a) /\ ~Abstract!Sweepable(T)
    BY <1>2, <2>2 DEF Sweepable, Abstract!Sweepable
  <2> HIDE DEF T
  <2> QED BY <2>1, <2>2, <2>3, <2>4, NoArenaTally DEF Abstract!Sweep, Abstract!Cancelled
<1>3. CASE Present(a)
  <2>1. /\ T \in Rows /\ T.winner = a.winner /\ T.is_open /\ T.hold_count = a.hold_count
        /\ Abstract!Present(T) /\ a.is_open /\ a # NoArena
    BY <1>3, KeptTally, KeptArena DEF Present
  <2>2. Abstract!Sweepable(T) <=> Sweepable(a)
    BY <1>3, <2>1 DEF Sweepable, Abstract!Sweepable
  <2> DEFINE S == Abstract!Swept(T)
             C == [Abstract!Close(T) EXCEPT !.winner = 0]
  <2>3. S \in Rows /\ ~S.is_open /\ S.hold_count = T.hold_count
    BY <2>1 DEF Rows, Abstract!Swept
  <2>4. C \in Rows /\ ~C.is_open /\ C.hold_count = 0
    BY <1>1, <2>1 DEF Rows, Abstract!Close
  <2>5. Sweepable(a) => Abstract!Gc(S) = Abstract!NoArena
    BY <2>1, <2>2, <2>3 DEF Abstract!Gc, Abstract!Present, Sweepable
  <2>6. Abstract!Gc(C) = Abstract!NoArena
    BY <2>4 DEF Abstract!Gc, Abstract!Present
  <2>7. Abstract!Cancelled(T) = Abstract!NoArena
    BY <2>1, <2>6 DEF Abstract!Cancelled
  <2>8. Abstract!Sweep(T) = IF Sweepable(a) THEN Abstract!NoArena ELSE T
    BY <2>2, <2>5 DEF Abstract!Sweep
  <2> QED BY <2>1, <2>7, <2>8, NoArenaTally
<1> QED BY <1>2, <1>3

\* An Up.
UpAs(t, timer, u, after) ==
  \E b \in Abstract!Dispatch(t, TRUE) :
    LET s == Abstract!Sweep(b)
    IN  IF Abstract!TerminalResolved(s) THEN u = Abstract!Gc(Abstract!Close(s)) /\ after = 0
        ELSE u = s /\ after = timer

LEMMA UpTally ==
  ASSUME NEW g, Good(g), NEW ev, IsEvent(ev), ev.phase = "Up",
         NEW h, h = OnPointerEvent(g, ev)
  PROVE  UpAs(Tally(g.arena), g.release, Tally(h.arena), h.release)
<1> DEFINE d == Dispatch(g, ev)
           b == Tally(d.arena)
           U == Tally(h.arena)
<1>1. b \in Abstract!Dispatch(Tally(g.arena), TRUE)
  <2>1. Final(ev) = TRUE
    BY DEF Final
  <2> QED BY <2>1, DispatchTally
<1>2. /\ Good(h) /\ Rested(h.arena)
      /\ h.release = IF Present(h.arena) THEN g.release ELSE 0
      /\ h.arena = IF Sweepable(d.arena) THEN NoArena ELSE d.arena
  BY UpKeeps
<1>3. Sound(d.arena) /\ Sound(h.arena)
  <2>1. Good(d)
    BY DispatchKeeps DEF Dispatched
  <2> QED BY <1>2, <2>1, GoodType
<1>4. Abstract!Sweep(b) = U
  BY <1>2, <1>3, EndTally
<1>5. CASE ~Present(h.arena)
  <2>1. U = Abstract!NoArena /\ U \in Rows
    BY <1>3, <1>5, EndTally DEF Present
  <2>2. Abstract!TerminalResolved(U)
    BY <2>1 DEF Abstract!TerminalResolved, Abstract!Present
  <2>3. Abstract!Gc(Abstract!Close(U)) = U
    BY <2>1, RowEnds
  <2> HIDE DEF b, U
  <2> QED BY <1>1, <1>2, <1>4, <1>5, <2>2, <2>3 DEF UpAs, U
<1>6. CASE Present(h.arena)
  <2>1. U.winner = 0 /\ U.is_open /\ Abstract!Present(U)
    BY <1>2, <1>3, <1>6, KeptTally DEF Rested
  <2>2. ~Abstract!TerminalResolved(U)
    BY <2>1 DEF Abstract!TerminalResolved
  <2> HIDE DEF b, U
  <2> QED BY <1>1, <1>2, <1>4, <1>6, <2>2 DEF UpAs, U
<1> QED BY <1>5, <1>6

\* A Removed, or the Cancel before a Down.
LEMMA CancelTally ==
  ASSUME NEW g, Good(g), NEW ev, IsEvent(ev), ev.phase \in {"Cancel", "Removed"},
         NEW h, h = OnPointerEvent(g, ev)
  PROVE  \E b \in Abstract!Dispatch(Tally(g.arena), TRUE) :
           Tally(h.arena) = Abstract!Cancelled(b)
<1> DEFINE d == Dispatch(g, ev)
<1>1. Tally(d.arena) \in Abstract!Dispatch(Tally(g.arena), TRUE)
  <2>1. Final(ev) = TRUE
    BY DEF Final
  <2> QED BY <2>1, DispatchTally
<1>2. Sound(d.arena)
  <2>1. Good(d)
    BY DispatchKeeps DEF Dispatched
  <2> QED BY <2>1, GoodType
<1>3. Tally(h.arena) = Abstract!NoArena
  BY CancelKeeps, NoArenaTally
<1>4. Abstract!Cancelled(Tally(d.arena)) = Abstract!NoArena
  BY <1>2, EndTally
<1> QED BY <1>1, <1>3, <1>4

\* A press that joins.
Drained(t, n, hold) ==
  IF hold THEN Abstract!Hold(Abstract!Registered(t, n)) ELSE Abstract!Registered(t, n)

LEMMA JoinTally ==
  ASSUME NEW g, Good(g), Rested(g.arena), NEW kinds, NEW j, Joins(g, kinds, j)
  PROVE  Tally(j.arena) = Drained(Tally(g.arena), Len(kinds), WantsHold(kinds))
<1> DEFINE a == g.arena
           n == Len(kinds)
           T == Tally(a)
           O == Abstract!Opened(T)
           R == Abstract!Registered(T, n)
           U == Tally(j.arena)
<1> SUFFICES U = Drained(T, n, WantsHold(kinds))
  OBVIOUS
<1>1. /\ Sound(a) /\ a.winner = 0 /\ a.hold_count \in 0 .. HoldMax /\ Sound(j.arena)
      /\ j.arena.winner = 0 /\ n \in Nat
      /\ Len(j.arena.entries) = Len(a.entries) + n
  <2>1. Sound(a) /\ Sound(j.arena) /\ kinds \in Seq(Kinds) /\ a \in Arenas
    BY GoodType DEF Joins
  <2> QED BY <2>1 DEF Joins, Rested, Arenas
<1>2. CASE kinds = <<>>
  <2>1. n = 0 /\ ~WantsHold(kinds) /\ j.arena = a
    BY <1>2 DEF Joins
  <2>2. R = T
    BY <2>1 DEF Abstract!Registered
  <2> QED BY <2>1, <2>2 DEF Drained
<1>3. CASE kinds # <<>>
  <2>1. n # 0
    <3>1. kinds \in Seq(Kinds)
      BY DEF Joins
    <3> QED BY <1>3, <3>1
  <2>2. /\ Present(j.arena)
        /\ j.arena.hold_count =
             IF WantsHold(kinds) /\ a.hold_count < HoldMax THEN a.hold_count + 1
             ELSE a.hold_count
    BY <1>3 DEF Joins
  <2>3. /\ U \in Rows /\ U.entries = Len(a.entries) + n /\ U.winner = 0 /\ U.is_open
        /\ U.hold_count = j.arena.hold_count
    BY <1>1, <2>2, KeptTally
  <2>4. 0 \in 0 .. HoldMax
    BY ElementsAssumption
  <2>5. /\ O \in Rows /\ O.entries = Len(a.entries) /\ O.winner = 0 /\ O.is_open
        /\ O.hold_count = a.hold_count
    <3>1. CASE Present(a)
      <4>1. /\ T \in Rows /\ T.entries = Len(a.entries) /\ T.winner = 0 /\ T.is_open
            /\ T.hold_count = a.hold_count /\ Abstract!Present(T)
        BY <1>1, <3>1, KeptTally
      <4>2. O = T
        BY <4>1 DEF Abstract!Opened
      <4> HIDE DEF T, O
      <4> QED BY <4>1, <4>2
    <3>2. CASE ~Present(a)
      <4>1. a = NoArena /\ Len(NoArena.entries) = 0 /\ NoArena.hold_count = 0
        BY <3>2 DEF Present, NoArena
      <4>2. O = Abstract!NewArena
        BY <4>1, NoArenaTally DEF Abstract!Opened
      <4>3. O \in Rows /\ O.entries = 0 /\ O.winner = 0 /\ O.is_open /\ O.hold_count = 0
        BY <2>4, <4>2 DEF Rows, Abstract!NewArena
      <4> HIDE DEF O
      <4> QED BY <4>1, <4>3
    <3> QED BY <3>1, <3>2
  <2>6. R = [O EXCEPT !.entries = O.entries + n]
    BY <2>1 DEF Abstract!Registered
  <2>7. Len(a.entries) \in Nat
    BY GoodType
  <2> HIDE DEF T, O, R, U, n
  <2>8. /\ R \in Rows /\ R.entries = Len(a.entries) + n /\ R.winner = 0 /\ R.is_open
        /\ R.hold_count = a.hold_count
    BY <1>1, <2>5, <2>6, <2>7 DEF Rows
  <2>9. CASE ~WantsHold(kinds)
    <3>1. U.is_open = R.is_open
      BY <2>3, <2>8 DEF Rows
    <3>2. U = R
      BY <2>2, <2>3, <2>8, <2>9, <3>1, SameRow
    <3> QED BY <2>9, <3>2 DEF Drained, R
  <2>10. CASE WantsHold(kinds)
    <3> DEFINE H == Abstract!Hold(R)
    <3>1. Abstract!Present(R)
      BY <2>8, RowEnds
    <3>2. H = IF R.hold_count < HoldMax THEN [R EXCEPT !.hold_count = R.hold_count + 1] ELSE R
      BY <3>1 DEF Abstract!Hold
    <3>3. /\ H \in Rows /\ H.entries = R.entries /\ H.winner = R.winner /\ H.is_open = R.is_open
          /\ H.hold_count = IF R.hold_count < HoldMax THEN R.hold_count + 1 ELSE R.hold_count
      <4>1. HoldMax \in Nat /\ R.hold_count \in 0 .. HoldMax
        BY <2>8, ElementsAssumption DEF Rows
      <4> HIDE DEF H
      <4>2. CASE ~ (R.hold_count < HoldMax)
        BY <2>8, <3>2, <4>2
      <4>3. CASE R.hold_count < HoldMax
        <5>1. H = [R EXCEPT !.hold_count = R.hold_count + 1]
          BY <3>2, <4>3
        <5>2. R.hold_count + 1 \in 0 .. HoldMax
          BY <4>1, <4>3
        <5>3. R \in Rows
          BY <2>8
        <5> HIDE DEF R
        <5>4. H \in Rows
          BY <5>1, <5>2, <5>3 DEF Rows
        <5>5. /\ H.entries = R.entries /\ H.winner = R.winner /\ H.is_open = R.is_open
              /\ H.hold_count = R.hold_count + 1
          BY <5>1, <5>3 DEF Rows
        <5> QED BY <4>3, <5>4, <5>5
      <4> QED BY <4>2, <4>3
    <3> HIDE DEF H
    <3>4. U.is_open = H.is_open
      BY <2>3, <2>8, <3>3 DEF Rows
    <3>5. U = H
      <4>1. U \in Rows /\ H \in Rows
        BY <2>3, <3>3
      <4>2. U.entries = H.entries /\ U.winner = H.winner
        BY <2>3, <2>8, <3>3
      <4>3. U.hold_count = H.hold_count
        BY <2>2, <2>3, <2>8, <2>10, <3>3
      <4> HIDE DEF U
      <4> QED BY <3>4, <4>1, <4>2, <4>3, SameRow
    <3>6. Drained(T, n, WantsHold(kinds)) = H
      BY <2>10 DEF Drained, R, H
    <3> HIDE DEF U, T, n
    <3> QED BY <3>5, <3>6
  <2> QED BY <2>9, <2>10
<1> QED BY <1>2, <1>3

DrainedBy(g, kinds, h) ==
  /\ Tally(h.arena) \in
       Abstract!Dispatch(Drained(Tally(g.arena), Len(kinds), WantsHold(kinds)), FALSE)
  /\ h.release = IF WantsHold(kinds) THEN DoubleTapMax + 1 ELSE g.release
  /\ WantsHold(kinds) => Len(kinds) > 0

LEMMA DownTally ==
  ASSUME NEW g, Good(g), Rested(g.arena), NEW ev, IsEvent(ev), ev.phase = "Down",
         HitPath(ev.pos) \in Seq(Widgets),
         NEW kinds, kinds = Joining(HitPath(ev.pos), g.parked, ev),
         NEW h, h = OnPointerEvent(g, ev)
  PROVE  DrainedBy(g, kinds, h)
<1> DEFINE j == JoinArena(g, ev)
<1>1. h = Dispatch(j, ev)
  BY DEF OnPointerEvent, Finish
<1>2. Joins(g, kinds, j)
  BY JoinKeeps
<1> HIDE DEF j
<1>3. Good(j) /\ j.release = IF WantsHold(kinds) THEN DoubleTapMax + 1 ELSE g.release
  BY <1>2 DEF Joins
<1>4. Final(ev) = FALSE
  BY DEF Final
<1>5. Tally(h.arena) \in Abstract!Dispatch(Tally(j.arena), FALSE)
  BY <1>1, <1>3, <1>4, DispatchTally
<1>6. h.release = j.release
  <2>1. OnlyArena(j, h) /\ j \in Bundles
    BY <1>1, <1>3, DispatchKeeps DEF Dispatched, Good
  <2> QED BY <2>1 DEF OnlyArena, Bundles
<1>7. WantsHold(kinds) => Len(kinds) > 0
  <2>1. kinds \in Seq(Kinds) /\ (WantsHold(kinds) => kinds # <<>>)
    BY <1>2 DEF Joins
  <2> QED BY <2>1
<1> QED BY <1>2, <1>3, <1>5, <1>6, <1>7, JoinTally DEF DrainedBy

\* The release task.
LEMMA ReleaseTally ==
  ASSUME NEW g, Good(g), NEW h, h = Release(g)
  PROVE  Tally(h.arena) = Abstract!Release(Tally(g.arena))
<1> DEFINE a == g.arena
           u == Unhold(a)
           T == Tally(a)
           V == Abstract!Unhold(T)
<1>1. h.arena = IF Sweepable(u) THEN NoArena ELSE u
  BY ReleaseKeeps
<1>2. Sound(a)
  BY GoodType
<1>3. CASE ~Present(a)
  <2>1. a = NoArena
    BY <1>3 DEF Present
  <2>2. u = NoArena /\ ~Sweepable(NoArena)
    BY <2>1 DEF Unhold, NoArena, Sweepable, Present
  <2>3. h.arena = NoArena
    BY <1>1, <2>2
  <2>4. T = Abstract!NoArena /\ ~Abstract!Present(T)
    BY <2>1, NoArenaTally
  <2>5. Abstract!Release(T) = T
    BY <2>4 DEF Abstract!Release
  <2> QED BY <2>1, <2>3, <2>5
<1>4. CASE Present(a)
  <2>1. /\ T \in Rows /\ T.entries = Len(a.entries) /\ T.winner = a.winner /\ T.is_open
        /\ T.hold_count = a.hold_count /\ Abstract!Present(T)
        /\ a.hold_count \in 0 .. HoldMax /\ a.winner \in 0 .. Len(a.entries)
    BY <1>2, <1>4, KeptTally
  <2>2. a \in Arenas /\ a.is_open
    BY <1>2, <1>4, KeptArena DEF Sound
  <2>3. /\ u \in Arenas /\ u.entries = a.entries /\ u.winner = a.winner /\ u.is_open
        /\ u.hold_count = IF a.hold_count > 0 THEN a.hold_count - 1 ELSE a.hold_count
    <3>1. HoldMax \in Nat
      BY ElementsAssumption
    <3>2. CASE a.hold_count > 0
      <4>1. a.hold_count - 1 \in 0 .. HoldMax
        BY <2>1, <3>1, <3>2
      <4>2. u = [a EXCEPT !.hold_count = a.hold_count - 1]
        BY <3>2 DEF Unhold
      <4> HIDE DEF u
      <4> QED BY <2>2, <3>2, <4>1, <4>2 DEF Arenas
    <3>3. CASE ~ (a.hold_count > 0)
      <4>1. u = a
        BY <3>3 DEF Unhold
      <4> QED BY <2>2, <3>3, <4>1
    <3> QED BY <3>2, <3>3
  <2>4. V = IF T.hold_count > 0 THEN [T EXCEPT !.hold_count = T.hold_count - 1] ELSE T
    BY DEF Abstract!Unhold
  <2> HIDE DEF T, V, u
  <2>5. /\ V \in Rows /\ V.entries = T.entries /\ V.winner = T.winner /\ V.is_open
        /\ V.hold_count = IF T.hold_count > 0 THEN T.hold_count - 1 ELSE T.hold_count
    BY <2>1, <2>4, ElementsAssumption DEF Rows
  <2>6. Tally(u) = V
    <3>1. /\ Tally(u) \in Rows /\ Tally(u).entries = Len(u.entries)
          /\ Tally(u).winner = u.winner /\ Tally(u).is_open = u.is_open
          /\ Tally(u).hold_count = u.hold_count
      <4>1. /\ Len(u.entries) \in Nat /\ u.winner \in Nat /\ u.is_open \in BOOLEAN
            /\ u.hold_count \in 0 .. HoldMax
        <5>1. u.entries \in Seq(Entry)
          BY <2>3 DEF Arenas
        <5>2. u.winner \in Nat
          BY <2>3 DEF Arenas
        <5>3. u.is_open \in BOOLEAN /\ u.hold_count \in 0 .. HoldMax
          BY <2>3 DEF Arenas
        <5> QED BY <5>1, <5>2, <5>3
      <4> QED BY <4>1, RowShape DEF Tally
    <3>2. V.is_open = Tally(u).is_open
      BY <2>3, <2>5, <3>1 DEF Rows, Arenas
    <3>3. /\ Tally(u).entries = V.entries /\ Tally(u).winner = V.winner
          /\ Tally(u).hold_count = V.hold_count
      BY <2>1, <2>3, <2>5, <3>1
    <3> QED BY <2>5, <3>1, <3>2, <3>3, SameRow
  <2>7. Present(u)
    BY <2>3, OpenStays
  <2>8. Abstract!Present(V)
    BY <2>5, RowEnds
  <2>9. Sweepable(u) <=> Abstract!Sweepable(V)
    BY <2>1, <2>3, <2>5, <2>7, <2>8 DEF Sweepable, Abstract!Sweepable
  <2>10. Abstract!Sweepable(V) => Abstract!Sweep(V) = Abstract!NoArena
    <3> SUFFICES ASSUME Abstract!Sweepable(V) PROVE Abstract!Sweep(V) = Abstract!NoArena
      OBVIOUS
    <3> DEFINE S == Abstract!Swept(V)
    <3>1. S \in Rows /\ ~S.is_open /\ S.hold_count = 0
      BY <2>5 DEF Rows, Abstract!Swept, Abstract!Sweepable
    <3>2. Abstract!Gc(S) = Abstract!NoArena
      BY <3>1 DEF Abstract!Gc, Abstract!Present
    <3> QED BY <3>2 DEF Abstract!Sweep
  <2>11. ~Abstract!Sweepable(V) => Abstract!Sweep(V) = V
    BY DEF Abstract!Sweep
  <2>12. Abstract!Release(T) = Abstract!Sweep(V)
    BY <2>1 DEF Abstract!Release, V
  <2>13. Tally(h.arena) = Abstract!Sweep(V)
    BY <1>1, <2>6, <2>9, <2>10, <2>11, NoArenaTally DEF u
  <2> QED BY <2>12, <2>13 DEF T
<1> QED BY <1>3, <1>4

\* The timer of a long press declares a winner, or nothing.
LEMMA FireTally ==
  ASSUME NEW a, Sound(a), NEW i \in DOMAIN a.entries, a.entries[i].timer = 1,
         NEW h, h = Fired(a, i)
  PROVE  \/ Tally(h) = Tally(a)
         \/ \E k \in 1 .. Len(a.entries) : Tally(h) = Abstract!DeclareWinner(Tally(a), k)
<1> DEFINE k == Slot(a, i)
           T == Tally(a)
           U == Tally(h)
<1>1. FiredAs(a, i, h)
  BY FiredShape
<1>2. Present(a)
  <2>1. DOMAIN NoArena.entries = {}
    BY DEF NoArena
  <2> QED BY <2>1 DEF Present
<1>3. /\ T \in Rows /\ T.entries = Len(a.entries) /\ T.winner = a.winner /\ T.is_open
      /\ T.hold_count = a.hold_count /\ Abstract!Present(T)
      /\ DOMAIN a.entries = 1 .. Len(a.entries)
  BY <1>2, KeptTally, KeptArena
<1>4. /\ U \in Rows /\ U.entries = Len(a.entries) /\ U.winner = h.winner /\ U.is_open
      /\ U.hold_count = a.hold_count
  <2>1. Sound(h)
    <3>1. 0 \in 0 .. 2
      OBVIOUS
    <3> QED BY <3>1, FiredKeeps
  <2> QED BY <1>1, <2>1, KeptTally DEF FiredAs
<1>5. U.is_open = T.is_open
  BY <1>3, <1>4 DEF Rows
<1> HIDE DEF T, U
<1>6. CASE ~(k \in DOMAIN a.entries /\ a.winner = 0)
  <2>1. h.winner = a.winner
    BY <1>1, <1>6 DEF FiredAs
  <2>2. U = T
    BY <1>3, <1>4, <1>5, <2>1, SameRow
  <2> QED BY <2>2 DEF T, U
<1>7. CASE k \in DOMAIN a.entries /\ a.winner = 0
  <2> DEFINE W == [T EXCEPT !.winner = k]
  <2>1. h.winner = k /\ k \in 1 .. Len(a.entries) /\ k \in Nat /\ Len(a.entries) \in Nat
    <3>1. Len(a.entries) \in Nat
      BY <1>2, KeptArena
    <3> QED BY <1>1, <1>3, <1>7, <3>1 DEF FiredAs
  <2> HIDE DEF k
  <2>2. /\ W \in Rows /\ W.entries = T.entries /\ W.winner = k /\ W.is_open = T.is_open
        /\ W.hold_count = T.hold_count
    BY <1>3, <2>1 DEF Rows
  <2>3. U = W
    <3> HIDE DEF W
    <3> QED BY <1>3, <1>4, <1>5, <2>1, <2>2, SameRow
  <2>4. Abstract!DeclareWinner(T, k) = Abstract!Gc(W)
    BY <1>3, <1>7, <2>1 DEF Abstract!DeclareWinner
  <2>5. Abstract!Gc(W) = W
    <3> HIDE DEF W
    <3> QED BY <1>3, <2>2, RowEnds
  <2> HIDE DEF W
  <2>6. U = Abstract!DeclareWinner(T, k)
    BY <2>3, <2>4, <2>5
  <2> QED BY <2>1, <2>6 DEF T, U
<1> QED BY <1>6, <1>7

-----------------------------------------------------------------------------
(* Every step of the window is a step of the abstract arena of the mouse.  *)

Pointer == "DESKTOP_MOUSE_POINTER"

\* What a function on the one pointer is.
LEMMA OnePointer ==
  /\ Pointer \in Mouse
  /\ \A x, y : [[p \in Mouse |-> x] EXCEPT ![Pointer] = y] = [p \in Mouse |-> y]
  /\ \A x : [p \in Mouse |-> x][Pointer] = x
  BY DEF Pointer, Mouse

\* What a step does to the variables of the abstract arena.
Mapped(u, after, down) ==
  /\ [p \in Mouse |-> Counted]' = [[p \in Mouse |-> Counted] EXCEPT ![Pointer] = u]
  /\ [p \in Mouse |-> release # 0]' = [[p \in Mouse |-> release # 0] EXCEPT ![Pointer] = after]
  /\ [p \in Mouse |-> sanitizer.mouse_down]' =
       [[p \in Mouse |-> sanitizer.mouse_down] EXCEPT ![Pointer] = down]

Same ==
  /\ [p \in Mouse |-> Counted][Pointer] = Tally(arena)
  /\ [p \in Mouse |-> release # 0][Pointer] = (release # 0)
  /\ [p \in Mouse |-> sanitizer.mouse_down][Pointer] = sanitizer.mouse_down

LEMMA MappedStep ==
  ASSUME WindowInv, WindowInv'
  PROVE  /\ Same
         /\ Mapped(Tally(arena'), release' # 0, sanitizer'.mouse_down)
         /\ Tally(arena') = Tally(arena) =>
              [p \in Mouse |-> Counted]' = [p \in Mouse |-> Counted]
         /\ (release' # 0) = (release # 0) =>
              [p \in Mouse |-> release # 0]' = [p \in Mouse |-> release # 0]
         /\ sanitizer'.mouse_down = sanitizer.mouse_down =>
              [p \in Mouse |-> sanitizer.mouse_down]' = [p \in Mouse |-> sanitizer.mouse_down]
<1>1. arena \in Arenas /\ arena' \in Arenas
  BY DEF WindowInv, Good, Sound, ArenaAndTask
<1>2. Counted = Tally(arena) /\ Counted' = Tally(arena')
  BY <1>1, CountedIsTally DEF Counted
<1>3. Same
  BY <1>2, OnePointer DEF Same
<1>4. Mapped(Tally(arena'), release' # 0, sanitizer'.mouse_down)
  BY <1>2, OnePointer DEF Mapped
<1>5. Tally(arena') = Tally(arena) =>
        [p \in Mouse |-> Counted]' = [p \in Mouse |-> Counted]
  BY <1>2
<1>6. (release' # 0) = (release # 0) =>
        [p \in Mouse |-> release # 0]' = [p \in Mouse |-> release # 0]
  OBVIOUS
<1>7. sanitizer'.mouse_down = sanitizer.mouse_down =>
        [p \in Mouse |-> sanitizer.mouse_down]' = [p \in Mouse |-> sanitizer.mouse_down]
  OBVIOUS
<1> QED BY <1>3, <1>4, <1>5, <1>6, <1>7

\* A step that the abstract arena does not see.
LEMMA Unseen ==
  ASSUME WindowInv, WindowInv', Tally(arena') = Tally(arena),
         (release' # 0) = (release # 0), sanitizer'.mouse_down = sanitizer.mouse_down
  PROVE  UNCHANGED Abstract!vars
  BY MappedStep DEF Abstract!vars

LEMMA MoveRefines ==
  ASSUME WindowInv, WindowInv', NEW ev, ev.phase = "Move", Handles(ev),
         sanitizer' = sanitizer
  PROVE  Abstract!Next
<1> DEFINE g == ArenaAndTask
           h == OnPointerEvent(g, ev)
<1>1. Good(g) /\ g.arena = arena /\ g.release = release /\ IsEvent(ev)
  BY DEF WindowInv, ArenaAndTask, Handles
<1>2. h = ArenaAndTask' /\ h.arena = arena' /\ h.release = release'
  BY DEF Handles, ArenaAndTask
<1> HIDE DEF g
<1>3. h = Dispatch(g, ev) /\ h.release = g.release
  BY <1>1, MoveKeeps
<1> HIDE DEF h
<1>4. Final(ev) = FALSE
  BY DEF Final
<1>5. Tally(arena') \in Abstract!Dispatch(Tally(arena), FALSE) /\ release' = release
  BY <1>1, <1>2, <1>3, <1>4, DispatchTally
<1>6. Same /\ Mapped(Tally(arena'), release' # 0, sanitizer'.mouse_down)
      /\ [p \in Mouse |-> release # 0]' = [p \in Mouse |-> release # 0]
      /\ [p \in Mouse |-> sanitizer.mouse_down]' = [p \in Mouse |-> sanitizer.mouse_down]
  BY <1>5, MappedStep
<1>7. Abstract!Move(Pointer)
  BY <1>5, <1>6 DEF Abstract!Move, Same, Mapped
<1> QED BY <1>7, OnePointer DEF Abstract!Next

LEMMA HoverRefines ==
  ASSUME WindowInv, WindowInv', NEW ev, ev.phase = "Hover", Handles(ev),
         sanitizer' = sanitizer, ~sanitizer.mouse_down
  PROVE  UNCHANGED Abstract!vars
<1> DEFINE g == ArenaAndTask
           h == OnPointerEvent(g, ev)
<1>1. Good(g) /\ Rested(g.arena) /\ IsEvent(ev)
  BY DEF WindowInv, ArenaAndTask, Handles
<1>2. h = g
  <2> HIDE DEF g
  <2> QED BY <1>1, MoveKeeps, HoverKeeps
<1>3. arena' = arena /\ release' = release
  <2>1. g' = g
    BY <1>2 DEF Handles
  <2>2. g.arena = arena /\ g.release = release /\ g'.arena = arena' /\ g'.release = release'
    BY DEF ArenaAndTask
  <2> HIDE DEF g
  <2> QED BY <2>1, <2>2
<1> QED BY <1>3, Unseen

LEMMA LiftRefines ==
  ASSUME WindowInv, WindowInv', NEW ev, ev.phase = "Up", Handles(ev),
         sanitizer'.mouse_down => sanitizer.mouse_down
  PROVE  Abstract!Next
<1> DEFINE g == ArenaAndTask
           h == OnPointerEvent(g, ev)
<1>1. Good(g) /\ g.arena = arena /\ g.release = release /\ IsEvent(ev)
  BY DEF WindowInv, ArenaAndTask, Handles
<1>2. h = ArenaAndTask' /\ h.arena = arena' /\ h.release = release'
  BY DEF Handles, ArenaAndTask
<1> HIDE DEF g
<1>3. UpAs(Tally(g.arena), g.release, Tally(h.arena), h.release)
  BY <1>1, UpTally
<1> HIDE DEF h
<1>4. UpAs(Tally(arena), release, Tally(arena'), release')
  BY <1>1, <1>2, <1>3
<1>5. /\ Same /\ Mapped(Tally(arena'), release' # 0, sanitizer'.mouse_down)
      /\ (release' # 0) = (release # 0) =>
              [p \in Mouse |-> release # 0]' = [p \in Mouse |-> release # 0]
  BY MappedStep
<1>6. sanitizer.mouse_down \in BOOLEAN /\ sanitizer'.mouse_down \in BOOLEAN
  BY DEF WindowInv, SanitizerStates
<1>7. sanitizer'.mouse_down \in {FALSE, sanitizer.mouse_down}
  BY <1>6
<1>8. PICK b \in Abstract!Dispatch(Tally(arena), TRUE) :
        LET s == Abstract!Sweep(b)
        IN  IF Abstract!TerminalResolved(s)
            THEN Tally(arena') = Abstract!Gc(Abstract!Close(s)) /\ release' = 0
            ELSE Tally(arena') = s /\ release' = release
  BY <1>4 DEF UpAs
<1>9. Abstract!Up(Pointer)
  <2> DEFINE s == Abstract!Sweep(b)
  <2>1. CASE Abstract!TerminalResolved(s)
    <3>1. Tally(arena') = Abstract!Gc(Abstract!Close(s)) /\ (release' # 0) = FALSE
      BY <1>8, <2>1
    <3> QED BY <1>5, <1>7, <1>8, <2>1, <3>1 DEF Abstract!Up, Same, Mapped
  <2>2. CASE ~Abstract!TerminalResolved(s)
    <3>1. Tally(arena') = s /\ release' = release
      BY <1>8, <2>2
    <3>2. [p \in Mouse |-> release # 0]' = [p \in Mouse |-> release # 0]
      BY <1>5, <3>1
    <3>3. Mapped(s, release' # 0, sanitizer'.mouse_down) /\ Same
      BY <1>5, <3>1
    <3> HIDE DEF s
    <3> QED BY <1>7, <1>8, <2>2, <3>2, <3>3 DEF Abstract!Up, Same, Mapped, s
  <2> QED BY <2>1, <2>2
<1> QED BY <1>9, OnePointer DEF Abstract!Next

LEMMA LeaveRefines ==
  ASSUME WindowInv, WindowInv', NEW ev, ev.phase = "Removed", Handles(ev),
         sanitizer' = sanitizer
  PROVE  Abstract!Next
<1> DEFINE g == ArenaAndTask
           h == OnPointerEvent(g, ev)
<1>1. Good(g) /\ g.arena = arena /\ g.release = release /\ IsEvent(ev)
  BY DEF WindowInv, ArenaAndTask, Handles
<1>2. h = ArenaAndTask' /\ h.arena = arena' /\ h.release = release'
  BY DEF Handles, ArenaAndTask
<1> HIDE DEF g
<1>3. h.release = 0
  BY <1>1, CancelKeeps
<1>4. \E b \in Abstract!Dispatch(Tally(g.arena), TRUE) : Tally(h.arena) = Abstract!Cancelled(b)
  BY <1>1, CancelTally
<1> HIDE DEF h
<1>5. /\ \E b \in Abstract!Dispatch(Tally(arena), TRUE) : Tally(arena') = Abstract!Cancelled(b)
      /\ (release' # 0) = FALSE
  BY <1>1, <1>2, <1>3, <1>4
<1>6. /\ Same /\ Mapped(Tally(arena'), release' # 0, sanitizer'.mouse_down)
      /\ [p \in Mouse |-> sanitizer.mouse_down]' = [p \in Mouse |-> sanitizer.mouse_down]
  BY MappedStep
<1>7. Abstract!Removed(Pointer)
  BY <1>5, <1>6 DEF Abstract!Removed, Same, Mapped
<1> QED BY <1>7, OnePointer DEF Abstract!Next

LEMMA ReleaseRefines ==
  ASSUME WindowInv, WindowInv', ReleaseFire
  PROVE  Abstract!Next
<1>1. PICK g : /\ Good(g) /\ g.arena = arena /\ g.begun = begun /\ g.release = 0
               /\ ArenaAndTask' = Release(g) /\ sanitizer' = sanitizer
  BY ReleaseFireShape
<1> DEFINE h == Release(g)
<1>2. h.arena = arena' /\ h.release = release'
  BY <1>1 DEF ArenaAndTask
<1>3. h.release = g.release /\ Tally(h.arena) = Abstract!Release(Tally(g.arena))
  BY <1>1, ReleaseKeeps, ReleaseTally
<1> HIDE DEF h
<1>4. Tally(arena') = Abstract!Release(Tally(arena)) /\ (release' # 0) = FALSE
  BY <1>1, <1>2, <1>3
<1>5. (release # 0) = TRUE
  BY DEF ReleaseFire
<1>6. /\ Same /\ Mapped(Tally(arena'), release' # 0, sanitizer'.mouse_down)
      /\ [p \in Mouse |-> sanitizer.mouse_down]' = [p \in Mouse |-> sanitizer.mouse_down]
  BY <1>1, MappedStep
<1>7. Abstract!ReleaseFire(Pointer)
  BY <1>4, <1>5, <1>6 DEF Abstract!ReleaseFire, Same, Mapped
<1> QED BY <1>7, OnePointer DEF Abstract!Next

LEMMA LongPressRefines ==
  ASSUME WindowInv, WindowInv', NEW i \in DOMAIN arena.entries, LongPressFire(i)
  PROVE  Abstract!Next \/ UNCHANGED Abstract!vars
<1>1. /\ arena' = Fired(arena, i) /\ sanitizer' = sanitizer /\ release' = release
      /\ Sound(arena) /\ arena.entries[i].timer = 1 /\ sanitizer.mouse_down
  BY LongPressShape
<1>2. CASE Tally(arena') = Tally(arena)
  BY <1>1, <1>2, Unseen
<1>3. CASE \E k \in 1 .. Len(arena.entries) :
             Tally(arena') = Abstract!DeclareWinner(Tally(arena), k)
  <2>1. PICK k \in 1 .. Len(arena.entries) :
          Tally(arena') = Abstract!DeclareWinner(Tally(arena), k)
    BY <1>3
  <2>2. k \in 1 .. MaxEntries
    <3>1. Len(arena.entries) \in Nat /\ Len(arena.entries) <= MaxEntries
      BY <1>1 DEF Sound, Arenas, WindowInv
    <3> QED BY <3>1, ElementsAssumption
  <2>3. /\ Same /\ Mapped(Tally(arena'), release' # 0, sanitizer'.mouse_down)
        /\ [p \in Mouse |-> release # 0]' = [p \in Mouse |-> release # 0]
        /\ [p \in Mouse |-> sanitizer.mouse_down]' = [p \in Mouse |-> sanitizer.mouse_down]
    BY <1>1, MappedStep
  <2>4. \E m \in 1 .. MaxEntries :
          [p \in Mouse |-> Counted]' =
            [[p \in Mouse |-> Counted] EXCEPT ![Pointer] =
               Abstract!DeclareWinner([p \in Mouse |-> Counted][Pointer], m)]
    <3>1. [p \in Mouse |-> Counted][Pointer] = Tally(arena)
      BY <2>3 DEF Same
    <3>2. [p \in Mouse |-> Counted]' =
            [[p \in Mouse |-> Counted] EXCEPT ![Pointer] = Tally(arena')]
      BY <2>3 DEF Mapped
    <3> QED BY <2>1, <2>2, <3>1, <3>2
  <2>5. Abstract!BackChannel(Pointer)
    BY <2>3, <2>4 DEF Abstract!BackChannel
  <2> QED BY <2>5, OnePointer DEF Abstract!Next
<1> QED BY <1>1, <1>2, <1>3, FireTally

LEMMA DrawRefines ==
  ASSUME WindowInv, WindowInv', NEW reused \in SUBSET Cached, Draw(reused)
  PROVE  UNCHANGED Abstract!vars
<1>1. UNCHANGED <<sanitizer, arena, release>>
  BY DEF Draw
<1> QED BY <1>1, Unseen

LEMMA TickRefines ==
  ASSUME WindowInv, WindowInv', Tick
  PROVE  UNCHANGED Abstract!vars
<1>1. /\ release # 1 /\ release' = IF release = 0 THEN 0 ELSE release - 1
      /\ arena' = [arena EXCEPT !.entries =
                     [i \in DOMAIN arena.entries |-> Aged(arena.entries[i])]]
      /\ sanitizer' = sanitizer
  BY DEF Tick
<1>2. Sound(arena) /\ release \in 0 .. DoubleTapMax + 1 /\ arena \in Arenas
  BY DEF WindowInv, Good, Bundles, ArenaAndTask
<1>3. Len(arena'.entries) = Len(arena.entries)
  BY <1>1, <1>2, TickKeeps
<1>4. Tally(arena') = Tally(arena)
  BY <1>1, <1>2, <1>3 DEF Tally, Arenas
<1>5. (release' # 0) = (release # 0)
  BY <1>1, <1>2, SettingsAssumption
<1> QED BY <1>1, <1>4, <1>5, Unseen

\* What a press does to the abstract arena of the mouse.
Drains(t, timer) ==
  \E n \in 0 .. MaxEntries, hold \in BOOLEAN :
    /\ t.entries + n <= MaxEntries /\ (hold => n > 0)
    /\ Tally(arena') \in Abstract!Dispatch(Drained(t, n, hold), FALSE)
    /\ (release' # 0) = (timer \/ hold)

LEMMA PressDrains ==
  ASSUME WindowInv, NEW b \in PressButtons, NEW pos \in Positions, PressedAs(b, pos)
  PROVE  /\ IF sanitizer.mouse_down THEN Drains(Abstract!NoArena, FALSE)
            ELSE Drains(Tally(arena), release # 0)
         /\ sanitizer'.mouse_down = TRUE
<1> DEFINE ev == PressOf(b, pos)
<1>1. PICK g : /\ FoundBy(g)
               /\ OnPointerEvent(g, ev) = ArenaAndTask'
               /\ Len(g.arena.entries)
                    + Len(Joining(HitPath(Clamp(pos)), g.parked, ev)) <= MaxEntries
               /\ sanitizer' = [buttons |-> ButtonBits(b), mouse_down |-> TRUE,
                                last_down |-> Clamp(pos)]
  BY DEF PressedAs
<1> DEFINE kinds == Joining(HitPath(Clamp(pos)), g.parked, ev)
           h == OnPointerEvent(g, ev)
           T == Tally(g.arena)
           n == Len(kinds)
           hold == WantsHold(kinds)
<1>2. /\ IsEvent(ev) /\ ev.phase = "Down" /\ ev.pos = Clamp(pos)
      /\ HitPath(Clamp(pos)) \in Seq(Widgets)
  BY PressIsEvent
<1>3. Good(g) /\ Rested(g.arena)
  BY <1>1 DEF FoundBy
<1>4. kinds = Joining(HitPath(ev.pos), g.parked, ev) /\ HitPath(ev.pos) \in Seq(Widgets)
  BY <1>2
<1>5. n \in Nat
  <2>1. g.parked \subseteq Widgets
    BY <1>3, GoodType
  <2>2. kinds \in Seq(Kinds)
    BY <1>2, <2>1, JoiningType
  <2> QED BY <2>2
<1>6. Len(g.arena.entries) + n <= MaxEntries
  BY <1>1
<1> HIDE DEF kinds, ev
<1>7. /\ Tally(h.arena) \in Abstract!Dispatch(Drained(T, n, hold), FALSE)
      /\ h.release = IF hold THEN DoubleTapMax + 1 ELSE g.release
      /\ hold => n > 0
  <2>1. h = OnPointerEvent(g, ev)
    OBVIOUS
  <2> HIDE DEF h
  <2>2. DrainedBy(g, kinds, h)
    BY <1>2, <1>3, <1>4, <2>1, DownTally
  <2> QED BY <2>2 DEF DrainedBy
<1>8. h = ArenaAndTask'
  BY <1>1 DEF ev
<1> HIDE DEF h
<1>9. h.arena = arena' /\ h.release = release'
  BY <1>8 DEF ArenaAndTask
<1>10. n \in 0 .. MaxEntries /\ T.entries + n <= MaxEntries
  <2>1. Len(g.arena.entries) \in Nat
    BY <1>3, GoodType
  <2>2. T.entries = Len(g.arena.entries)
    BY DEF Tally, Row
  <2> HIDE DEF T, n
  <2> QED BY <1>5, <1>6, <2>1, <2>2, ElementsAssumption DEF n
<1>11. hold \in BOOLEAN
  BY DEF WantsHold
<1>12. (release' # 0) = (g.release # 0 \/ hold)
  <2>1. g.release \in 0 .. DoubleTapMax + 1
    BY <1>3, GoodType
  <2> HIDE DEF hold
  <2> QED BY <1>7, <1>9, <2>1, SettingsAssumption
<1>13. Drains(T, g.release # 0)
  <2> HIDE DEF T, n, hold
  <2> QED BY <1>7, <1>9, <1>10, <1>11, <1>12 DEF Drains
<1>14. CASE sanitizer.mouse_down
  <2>1. T = Abstract!NoArena /\ (g.release # 0) = FALSE
    BY <1>1, <1>14, NoArenaTally DEF FoundBy
  <2> HIDE DEF T
  <2> QED BY <1>1, <1>13, <1>14, <2>1
<1>15. CASE ~sanitizer.mouse_down
  <2>1. T = Tally(arena) /\ g.release = release
    BY <1>1, <1>15 DEF FoundBy, ArenaAndTask
  <2> HIDE DEF T
  <2> QED BY <1>1, <1>13, <1>15, <2>1
<1> QED BY <1>14, <1>15

LEMMA PressRefines ==
  ASSUME WindowInv, WindowInv', NEW b \in PressButtons, NEW pos \in Positions,
         PressedAs(b, pos)
  PROVE  Abstract!Next
<1>1. /\ IF sanitizer.mouse_down THEN Drains(Abstract!NoArena, FALSE)
         ELSE Drains(Tally(arena), release # 0)
      /\ sanitizer'.mouse_down = TRUE
  BY PressDrains
<1>2. Same /\ Mapped(Tally(arena'), release' # 0, sanitizer'.mouse_down)
  BY MappedStep
<1>3. ASSUME NEW t, NEW timer, Drains(t, timer) PROVE Abstract!DownOn(Pointer, t, timer)
  <2>1. PICK n \in 0 .. MaxEntries, hold \in BOOLEAN :
          /\ t.entries + n <= MaxEntries /\ (hold => n > 0)
          /\ Tally(arena') \in Abstract!Dispatch(Drained(t, n, hold), FALSE)
          /\ (release' # 0) = (timer \/ hold)
    BY <1>3 DEF Drains
  <2>2. \E x \in Abstract!Dispatch(IF hold THEN Abstract!Hold(Abstract!Registered(t, n))
                                   ELSE Abstract!Registered(t, n), FALSE) :
          [p \in Mouse |-> Counted]' = [[p \in Mouse |-> Counted] EXCEPT ![Pointer] = x]
    BY <1>2, <2>1 DEF Drained, Mapped
  <2>3. [p \in Mouse |-> release # 0]' =
          [[p \in Mouse |-> release # 0] EXCEPT ![Pointer] = timer \/ hold]
    BY <1>2, <2>1 DEF Mapped
  <2>4. [p \in Mouse |-> sanitizer.mouse_down]' =
          [[p \in Mouse |-> sanitizer.mouse_down] EXCEPT ![Pointer] = TRUE]
    BY <1>1, <1>2 DEF Mapped
  <2> QED BY <2>1, <2>2, <2>3, <2>4 DEF Abstract!DownOn
<1>4. CASE ~sanitizer.mouse_down
  <2>1. Abstract!DownOn(Pointer, Tally(arena), release # 0)
    BY <1>1, <1>3, <1>4
  <2>2. ~[p \in Mouse |-> sanitizer.mouse_down][Pointer]
    BY <1>2, <1>4 DEF Same
  <2>3. Abstract!Down(Pointer)
    <3>1. /\ [p \in Mouse |-> Counted][Pointer] = Tally(arena)
          /\ [p \in Mouse |-> release # 0][Pointer] = (release # 0)
      BY <1>2 DEF Same
    <3> QED BY <2>1, <2>2, <3>1 DEF Abstract!Down
  <2> QED BY <2>3, OnePointer DEF Abstract!Next
<1>5. CASE sanitizer.mouse_down
  <2>1. Abstract!DownOn(Pointer, Abstract!NoArena, FALSE)
    BY <1>1, <1>3, <1>5
  <2>2. [p \in Mouse |-> sanitizer.mouse_down][Pointer]
    BY <1>2, <1>5 DEF Same
  <2>3. Abstract!Cancelled([p \in Mouse |-> Counted][Pointer]) = Abstract!NoArena
    <3>1. Sound(arena)
      BY DEF WindowInv, Good, ArenaAndTask
    <3> QED BY <1>2, <3>1, EndTally DEF Same
  <2>4. Abstract!OrphanDown(Pointer)
    BY <2>1, <2>2, <2>3 DEF Abstract!OrphanDown
  <2> QED BY <2>4, OnePointer DEF Abstract!Next
<1> QED BY <1>4, <1>5

LEMMA InitRefines == Init => Abstract!Init
<1> SUFFICES ASSUME Init PROVE Abstract!Init
  OBVIOUS
<1>1. Counted = Abstract!NoArena
  <2>1. arena = NoArena /\ NoArena \in Arenas
    BY NoArenaIsSound DEF Init, Sound
  <2> QED BY <2>1, CountedIsTally, NoArenaTally DEF Counted
<1>2. [p \in Mouse |-> Counted] = [p \in Mouse |-> Abstract!NoArena]
  BY <1>1
<1>3. (release # 0) = FALSE /\ sanitizer.mouse_down = FALSE
  BY DEF Init, NoPress
<1> QED BY <1>2, <1>3 DEF Abstract!Init

LEMMA StepRefines ==
  ASSUME WindowInv, WindowInv', [Next]_vars
  PROVE  [Abstract!Next]_Abstract!vars
<1>1. CASE UNCHANGED vars
  <2>1. UNCHANGED <<sanitizer, arena, release>>
    BY <1>1 DEF vars
  <2> QED BY <2>1, Unseen
<1>2. CASE Press
  <2>1. PICK b \in PressButtons, pos \in Positions :
          /\ Room(b, pos)
          /\ DispatchEvent([type |-> "MouseDown", button |-> b, pos |-> pos])
    BY <1>2 DEF Press
  <2>2. UNCHANGED <<sanitizer, ArenaAndTask>> \/ PressedAs(b, pos)
    BY <2>1, PressShape
  <2>3. CASE UNCHANGED <<sanitizer, ArenaAndTask>>
    <3>1. UNCHANGED <<sanitizer, arena, release>>
      BY <2>3 DEF ArenaAndTask
    <3> QED BY <3>1, Unseen
  <2> QED BY <2>2, <2>3, PressRefines
<1>3. CASE Lift
  <2>1. PICK b \in PressButtons, pos \in Positions :
          DispatchEvent([type |-> "MouseUp", button |-> b, pos |-> pos])
    BY <1>3 DEF Lift
  <2>2. PICK ev : ev.phase = "Up" /\ Handles(ev)
    BY <2>1, LiftShape
  <2>3. sanitizer'.mouse_down => sanitizer.mouse_down
    BY <2>1, LiftShape
  <2> QED BY <2>2, <2>3, LiftRefines
<1>4. CASE MovePointer
  <2>1. PICK pos \in Positions, pressed \in BOOLEAN :
          DispatchEvent([type |-> "MouseMove", pressed |-> pressed, pos |-> pos])
    BY <1>4 DEF MovePointer
  <2>2. PICK ev : /\ ev.phase = IF sanitizer.mouse_down \/ pressed THEN "Move" ELSE "Hover"
                  /\ Handles(ev)
    BY <2>1, MoveShape
  <2>3. sanitizer' = sanitizer
    BY <2>1, MoveShape
  <2>4. CASE sanitizer.mouse_down \/ pressed
    <3>1. ev.phase = "Move"
      BY <2>2, <2>4
    <3> QED BY <2>2, <2>3, <3>1, MoveRefines
  <2>5. CASE ~(sanitizer.mouse_down \/ pressed)
    <3>1. ev.phase = "Hover" /\ ~sanitizer.mouse_down
      BY <2>2, <2>5
    <3> QED BY <2>2, <2>3, <3>1, HoverRefines
  <2> QED BY <2>4, <2>5
<1>5. CASE Leave
  <2>1. PICK pos \in Positions : DispatchEvent([type |-> "MouseExit", pos |-> pos])
    BY <1>5 DEF Leave
  <2>2. PICK ev : ev.phase = "Removed" /\ Handles(ev)
    BY <2>1, LeaveShape
  <2>3. sanitizer' = sanitizer
    BY <2>1, LeaveShape
  <2> QED BY <2>2, <2>3, LeaveRefines
<1>6. CASE \E reused \in SUBSET Cached : Draw(reused)
  BY <1>6, DrawRefines
<1>7. CASE ReleaseFire
  BY <1>7, ReleaseRefines
<1>8. CASE \E i \in DOMAIN arena.entries : LongPressFire(i)
  BY <1>8, LongPressRefines
<1>9. CASE Tick
  BY <1>9, TickRefines
<1> QED BY <1>1, <1>2, <1>3, <1>4, <1>5, <1>6, <1>7, <1>8, <1>9 DEF Next

\* The window implements the abstract arena: every platform event, task and
\* frame, for every configuration of widgets and recognizers, is a step of
\* GestureArena or leaves it alone.  What GestureArenaProofs proves of every
\* arena is therefore true of the one that the built-in recognizers, the
\* sanitizer and Window::dispatch_event drive.
THEOREM WindowImplementsArena == Spec => ImplementsArena
<1>1. Init => WindowInv
  BY InitInv
<1>2. WindowInv /\ [Next]_vars => WindowInv'
  BY StepInv
<1>3. Init => Abstract!Init
  BY InitRefines
<1>4. WindowInv /\ WindowInv' /\ [Next]_vars => [Abstract!Next]_Abstract!vars
  BY StepRefines
<1> QED BY <1>1, <1>2, <1>3, <1>4, PTL DEF Spec, ImplementsArena, Abstract!Spec
=============================================================================
