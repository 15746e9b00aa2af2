--------------------------- MODULE SequenceLemmas ---------------------------
(***************************************************************************)
(* Induction and recursion along the natural numbers, stated of sets, and  *)
(* what the removal of the first occurrence of an element, as the erase    *)
(* loops of Channel and Server do it on their vectors of clients, leaves   *)
(* of a sequence.                                                          *)
(***************************************************************************)
EXTENDS Integers, Sequences, FiniteSets, SequencesExt, TLAPS,
        SequenceTheorems, WellFoundedInduction

\* A non-empty set of natural numbers has a least element.
LEMMA LeastExists ==
  ASSUME NEW R, IsWellFoundedOn(R, Nat),
         \A x, y \in Nat : x < y => <<x, y>> \in R,
         NEW I, I \subseteq Nat, I # {}
  PROVE  \E i \in I : \A j \in I : i <= j
<1>0. \E i \in I : \A j \in I : ~(<<j, i>> \in R)
  BY ONLY IsWellFoundedOn(R, Nat), I \subseteq Nat, I # {}, WFMin, Zenon
<1>1. PICK i \in I : \A j \in I : ~(<<j, i>> \in R)
  BY <1>0
<1>2. i \in Nat
  OBVIOUS
<1>3. ASSUME NEW j \in I PROVE i <= j
  <2>1. j \in Nat
    OBVIOUS
  <2>2. ~(j < i)
    BY <1>1, <1>2, <2>1
  <2>. QED  BY <1>2, <2>1, <2>2
<1>. QED  BY <1>3

\* Induction: a set with 0 and all successors of its numbers has every number.
LEMMA SetInduction ==
  ASSUME NEW S, 0 \in S, \A n \in Nat : n \in S => n + 1 \in S
  PROVE  \A n \in Nat : n \in S
<1>. DEFINE T == Nat \ S
            R == OpToRel(<, Nat)
<1>. SUFFICES ASSUME T # {}
              PROVE  FALSE
  OBVIOUS
<1>1. IsWellFoundedOn(R, Nat)
  BY NatLessThanWellFounded
<1>2. \A x, y \in Nat : x < y => <<x, y>> \in R
  BY DEF OpToRel
<1>3. T \subseteq Nat
  OBVIOUS
<1>. HIDE DEF T, R
<1>4. PICK x \in T : \A y \in T : x <= y
  BY <1>1, <1>2, <1>3, LeastExists
<1>5. x - 1 \in Nat /\ x - 1 \notin T
  BY <1>3, <1>4 DEF T
<1>6. x - 1 \in S
  BY <1>5 DEF T
<1>. QED  BY <1>3, <1>4, <1>5, <1>6 DEF T

\* Induction up to N.
LEMMA InductionUpTo ==
  ASSUME NEW N \in Nat, NEW S, 0 \in S, \A i \in 1..N : i - 1 \in S => i \in S
  PROVE  \A i \in 0..N : i \in S
<1>. DEFINE U == S \cup {n \in Nat : n > N}
<1>1. 0 \in U
  OBVIOUS
<1>2. ASSUME NEW n \in Nat, n \in U
      PROVE  n + 1 \in U
  <2>1. CASE n + 1 \in 1..N
    <3>1. n + 1 - 1 \in S
      BY <1>2, <2>1
    <3>. QED  BY <2>1, <3>1
  <2>2. CASE n + 1 \notin 1..N
    BY <2>2
  <2>. QED  BY <2>1, <2>2
<1>. HIDE DEF U
<1>3. \A n \in Nat : n \in U
  BY <1>1, <1>2, SetInduction
<1>. QED  BY <1>3 DEF U

\* Induction from N + 1 down.
LEMMA InductionDown ==
  ASSUME NEW N \in Nat, NEW S,
         \A p \in 1..(N + 1) : (\A q \in (p + 1)..(N + 1) : q \in S) => p \in S
  PROVE  \A p \in 1..(N + 1) : p \in S
<1>. DEFINE T == {n \in Nat : \A q \in 1..(N + 1) : q >= N + 1 - n => q \in S}
<1>1. 0 \in T
  <2>1. N + 1 \in S
    BY N + 1 \in 1..(N + 1)
  <2>2. \A q \in 1..(N + 1) : q >= N + 1 => q = N + 1
    OBVIOUS
  <2>. QED  BY <2>1, <2>2
<1>2. ASSUME NEW n \in Nat, n \in T
      PROVE  n + 1 \in T
  <2>1. ASSUME NEW p \in 1..(N + 1), p >= N + 1 - (n + 1)
        PROVE  p \in S
    <3>1. \A q \in (p + 1)..(N + 1) : q \in 1..(N + 1) /\ q >= N + 1 - n
      BY <2>1
    <3>. QED  BY <1>2, <3>1
  <2>. QED  BY <2>1
<1>. HIDE DEF T
<1>3. N + 1 \in T
  BY <1>1, <1>2, SetInduction
<1>. QED  BY <1>3 DEF T

\* f is made by a step from each value to the next, from b on.
IsRecursive(f, N, b, step) ==
  /\ f = [i \in 0..N |-> f[i]]
  /\ f[0] = b
  /\ \A i \in 1..N : f[i] = step[i][f[i - 1]]

\* The steps do not leave T.
StepsWithin(step, N, T) == \A i \in 1..N : \A x \in T : step[i][x] \in T

\* Recursion up to N: there is such a function.
LEMMA RecursionExists ==
  ASSUME NEW N \in Nat, NEW b, NEW step
  PROVE  \E f : IsRecursive(f, N, b, step)
<1>. DEFINE S == {n \in 0..N : \E f : IsRecursive(f, n, b, step)}
<1>1. 0 \in S
  <2>. DEFINE g == [i \in 0..0 |-> b]
  <2>1. IsRecursive(g, 0, b, step)
    BY DEF IsRecursive
  <2>. HIDE DEF g
  <2>. QED  BY <2>1
<1>2. ASSUME NEW n \in 1..N, n - 1 \in S
      PROVE  n \in S
  <2>1. PICK f : IsRecursive(f, n - 1, b, step)
    BY <1>2
  <2>. DEFINE g == [i \in 0..n |-> IF i = n THEN step[i][f[n - 1]] ELSE f[i]]
  <2>2. g[0] = b /\ g = [i \in 0..n |-> g[i]]
    BY <2>1 DEF IsRecursive
  <2>3. \A i \in 1..n : g[i] = step[i][g[i - 1]]
    <3>. SUFFICES ASSUME NEW i \in 1..n
                  PROVE  g[i] = step[i][g[i - 1]]
      OBVIOUS
    <3>1. g[i - 1] = f[i - 1]
      OBVIOUS
    <3>2. CASE i = n
      BY <3>1, <3>2
    <3>3. CASE i \in 1..(n - 1)
      <4>1. g[i] = f[i]
        BY <3>3
      <4>. HIDE DEF g
      <4>2. f[i] = step[i][f[i - 1]]
        BY <2>1, <3>3, Zenon DEF IsRecursive
      <4>. QED  BY <3>1, <4>1, <4>2, Zenon
    <3>. QED  BY <3>2, <3>3
  <2>. HIDE DEF g
  <2>4. IsRecursive(g, n, b, step)
    BY <2>2, <2>3, Zenon DEF IsRecursive
  <2>. QED  BY <2>4
<1>. HIDE DEF S
<1>3. N \in S
  BY <1>1, <1>2, InductionUpTo
<1>. QED  BY <1>3 DEF S

\* Its values are where the first is and the steps stay.
LEMMA RecursionTyped ==
  ASSUME NEW N \in Nat, NEW b, NEW step, NEW f, IsRecursive(f, N, b, step),
         NEW T, b \in T, StepsWithin(step, N, T)
  PROVE  \A i \in 0..N : f[i] \in T
<1>. DEFINE S == {n \in 0..N : f[n] \in T}
<1>1. 0 \in S
  BY DEF IsRecursive
<1>2. ASSUME NEW n \in 1..N, n - 1 \in S
      PROVE  n \in S
  BY <1>2 DEF IsRecursive, StepsWithin
<1>. HIDE DEF S
<1>3. \A n \in 0..N : n \in S
  BY <1>1, <1>2, InductionUpTo
<1>. QED  BY <1>3 DEF S

\* Min, the CHOOSE that SelectInSeq relies on, yields it.
LEMMA MinIsLeast ==
  ASSUME NEW I, I \subseteq Nat, I # {}
  PROVE  Min(I) \in I /\ \A j \in I : Min(I) <= j
<1>1. \A x, y \in Nat : x < y => <<x, y>> \in OpToRel(<, Nat)
  BY SMT DEF OpToRel
<1>2. \E i \in I : \A j \in I : i <= j
  <2>. HIDE DEF OpToRel
  <2>. QED  BY <1>1, NatLessThanWellFounded, LeastExists
<1>. QED  BY <1>2 DEF Min

\* The least element is unique.
LEMMA MinIs ==
  ASSUME NEW I, NEW m \in I, \A j \in I : j \in Nat /\ m <= j
  PROVE  Min(I) = m
<1>1. I \subseteq Nat /\ I # {}
  OBVIOUS
<1>2. Min(I) \in I /\ \A j \in I : Min(I) <= j
  BY <1>1, MinIsLeast
<1>3. Min(I) <= m /\ m <= Min(I) /\ Min(I) \in Nat /\ m \in Nat
  BY <1>2
<1>. QED  BY <1>3

\* RemoveAt closes the gap left by one element.
LEMMA RemoveAtCloses ==
  ASSUME NEW S, NEW s \in Seq(S), NEW k \in 1..Len(s)
  PROVE  /\ RemoveAt(s, k) \in Seq(S)
         /\ Len(RemoveAt(s, k)) = Len(s) - 1
         /\ \A i \in 1..(Len(s) - 1) :
              RemoveAt(s, k)[i] = IF i < k THEN s[i] ELSE s[i + 1]
<1>. DEFINE a == SubSeq(s, 1, k - 1)
            b == SubSeq(s, k + 1, Len(s))
<1>1. RemoveAt(s, k) = a \o b
  BY DEF RemoveAt
<1>2. /\ a \in Seq(S)
      /\ Len(a) = k - 1
      /\ \A i \in 1..(k - 1) : a[i] = s[i]
  OBVIOUS
<1>3. /\ b \in Seq(S)
      /\ Len(b) = Len(s) - k
      /\ \A i \in 1..(Len(s) - k) : b[i] = s[i + k]
  OBVIOUS
<1>. HIDE DEF a, b
<1>4. /\ a \o b \in Seq(S)
      /\ Len(a \o b) = Len(a) + Len(b)
      /\ \A i \in 1..(Len(a) + Len(b)) :
           (a \o b)[i] = IF i <= Len(a) THEN a[i] ELSE b[i - Len(a)]
  <2>1. a \in Seq(S) /\ b \in Seq(S)
    BY <1>2, <1>3
  <2>. QED  BY <2>1, ConcatProperties
<1>5. ASSUME NEW i \in 1..(Len(s) - 1)
      PROVE  RemoveAt(s, k)[i] = IF i < k THEN s[i] ELSE s[i + 1]
  <2>1. RemoveAt(s, k)[i] = IF i <= k - 1 THEN a[i] ELSE b[i - (k - 1)]
    <3>1. i \in 1..(Len(a) + Len(b))
      BY <1>2, <1>3
    <3>2. (a \o b)[i] = IF i <= Len(a) THEN a[i] ELSE b[i - Len(a)]
      BY <1>4, <3>1
    <3>. QED  BY <1>1, <1>2, <3>2
  <2>2. CASE i < k
    BY <1>2, <2>1, <2>2
  <2>3. CASE ~(i < k)
    <3>1. i - (k - 1) \in 1..(Len(s) - k) /\ (i - (k - 1)) + k = i + 1
      BY <2>3
    <3>. QED  BY <1>3, <2>1, <2>3, <3>1
  <2>. QED  BY <2>2, <2>3
<1>. QED  BY <1>1, <1>2, <1>3, <1>4, <1>5

\* RemoveFirst does so at one occurrence of the element.
LEMMA RemoveFirstAt ==
  ASSUME NEW S, NEW s \in Seq(S), NEW e, e \in ToSet(s)
  PROVE  /\ RemoveFirst(s, e) \in Seq(S)
         /\ Len(RemoveFirst(s, e)) = Len(s) - 1
         /\ \E k \in 1..Len(s) :
              /\ s[k] = e
              /\ \A i \in 1..(Len(s) - 1) :
                   RemoveFirst(s, e)[i] = IF i < k THEN s[i] ELSE s[i + 1]
<1>. DEFINE I == {i \in 1..Len(s) : s[i] = e}
            k == Min(I)
<1>1. \E i \in 1..Len(s) : s[i] = e
  BY DEF ToSet
<1>2. RemoveFirst(s, e) = RemoveAt(s, k)
  BY <1>1 DEF RemoveFirst, SelectInSeq
<1>3. k \in 1..Len(s) /\ s[k] = e
  <2>1. I \subseteq Nat /\ I # {}
    BY <1>1
  <2>2. Min(I) \in I
    BY <2>1, MinIsLeast
  <2>. QED  BY <2>2
<1>. HIDE DEF k
<1>. QED  BY <1>2, <1>3, RemoveAtCloses

\* It removes nothing but the element, and leaves the rest in the sequence.
LEMMA RemoveFirstKeeps ==
  ASSUME NEW S, NEW s \in Seq(S), NEW e
  PROVE  /\ RemoveFirst(s, e) \in Seq(S)
         /\ ToSet(RemoveFirst(s, e)) \subseteq ToSet(s)
         /\ ToSet(s) \ {e} \subseteq ToSet(RemoveFirst(s, e))
<1>1. CASE e \in ToSet(s)
  <2>. DEFINE t == RemoveFirst(s, e)
  <2>1. t \in Seq(S) /\ Len(t) = Len(s) - 1
    BY <1>1, RemoveFirstAt
  <2>2. PICK k \in 1..Len(s) :
          /\ s[k] = e
          /\ \A i \in 1..(Len(s) - 1) :
               t[i] = IF i < k THEN s[i] ELSE s[i + 1]
    BY <1>1, RemoveFirstAt
  <2>. HIDE DEF t
  <2>3. ASSUME NEW x \in ToSet(t) PROVE x \in ToSet(s)
    <3>1. PICK i \in 1..Len(t) : t[i] = x
      BY <2>1 DEF ToSet
    <3>2. i \in 1..Len(s) /\ i + 1 \in 1..Len(s)
      BY <2>1, <3>1
    <3>. QED  BY <2>1, <2>2, <3>1, <3>2 DEF ToSet
  <2>4. ASSUME NEW x \in ToSet(s), x # e PROVE x \in ToSet(t)
    <3>1. PICK j \in 1..Len(s) : s[j] = x
      BY DEF ToSet
    <3>2. CASE j < k
      <4>1. j \in 1..(Len(s) - 1) /\ t[j] = x
        BY <2>2, <3>1, <3>2
      <4>. QED  BY <4>1, <2>1 DEF ToSet
    <3>3. CASE j > k
      <4>1. j - 1 \in 1..(Len(s) - 1) /\ ~(j - 1 < k) /\ (j - 1) + 1 = j
        BY <2>2, <3>1, <3>3
      <4>2. t[j - 1] = x
        BY <2>2, <3>1, <4>1
      <4>. QED  BY <4>1, <4>2, <2>1 DEF ToSet
    <3>4. j # k
      BY <2>2, <2>4, <3>1
    <3>. QED  BY <2>2, <3>1, <3>2, <3>3, <3>4
  <2>. QED  BY <2>1, <2>3, <2>4 DEF t
<1>2. CASE e \notin ToSet(s)
  <2>1. RemoveFirst(s, e) = s
    BY <1>2 DEF RemoveFirst, ToSet
  <2>. QED  BY <2>1
<1>. QED  BY <1>1, <1>2

\* Of a sequence without repetitions it removes the element altogether.
LEMMA RemoveFirstOfDistinct ==
  ASSUME NEW S, NEW s \in Seq(S), NEW e, IsInjective(s)
  PROVE  /\ IsInjective(RemoveFirst(s, e))
         /\ ToSet(RemoveFirst(s, e)) = ToSet(s) \ {e}
<1>1. CASE e \in ToSet(s)
  <2>. DEFINE t == RemoveFirst(s, e)
  <2>1. t \in Seq(S) /\ Len(t) = Len(s) - 1
    BY <1>1, RemoveFirstAt
  <2>2. PICK k \in 1..Len(s) :
          /\ s[k] = e
          /\ \A i \in 1..(Len(s) - 1) :
               t[i] = IF i < k THEN s[i] ELSE s[i + 1]
    BY <1>1, RemoveFirstAt
  <2>. HIDE DEF t
  <2>. DEFINE place(n) == IF n < k THEN n ELSE n + 1
  <2>3. \A n \in 1..Len(t) :
          place(n) \in 1..Len(s) /\ place(n) # k /\ t[n] = s[place(n)]
    BY <2>1, <2>2
  <2>4. \A p, q \in 1..Len(s) : s[p] = s[q] => p = q
    <3>1. DOMAIN s = 1..Len(s)
      OBVIOUS
    <3>. QED  BY <3>1, SMTT(30) DEF IsInjective
  <2>5. ASSUME NEW i \in 1..Len(t), NEW j \in 1..Len(t), t[i] = t[j]
        PROVE  i = j
    <3>1. place(i) = place(j)
      <4>. HIDE DEF place
      <4>. QED  BY <2>3, <2>4, <2>5
    <3>. QED  BY <2>1, <3>1
  <2>6. ASSUME NEW i \in 1..Len(t) PROVE t[i] # e
    <3>. HIDE DEF place
    <3>. QED  BY <2>2, <2>3, <2>4
  <2>7. e \notin ToSet(t)
    BY <2>1, <2>6 DEF ToSet
  <2>8. ToSet(t) \subseteq ToSet(s) /\ ToSet(s) \ {e} \subseteq ToSet(t)
    BY RemoveFirstKeeps DEF t
  <2>9. IsInjective(t)
    BY <2>5 DEF IsInjective
  <2>. QED  BY <2>7, <2>8, <2>9 DEF t
<1>2. CASE e \notin ToSet(s)
  <2>1. RemoveFirst(s, e) = s
    BY <1>2 DEF RemoveFirst, ToSet
  <2>. QED  BY <1>2, <2>1
<1>. QED  BY <1>1, <1>2

\* Appending a new element to a sequence without repetitions makes none.
LEMMA AppendOfDistinct ==
  ASSUME NEW S, NEW s \in Seq(S), NEW e \in S
  PROVE  /\ Append(s, e) \in Seq(S)
         /\ ToSet(Append(s, e)) = ToSet(s) \cup {e}
         /\ IsInjective(s) /\ e \notin ToSet(s) => IsInjective(Append(s, e))
<1>1. /\ Append(s, e) \in Seq(S)
      /\ Len(Append(s, e)) = Len(s) + 1
      /\ \A i \in 1..Len(s) : Append(s, e)[i] = s[i]
      /\ Append(s, e)[Len(s) + 1] = e
  OBVIOUS
<1>. DEFINE t == Append(s, e)
<1>. HIDE DEF t
<1>2. ToSet(t) = ToSet(s) \cup {e}
  <2>1. ASSUME NEW x \in ToSet(t) PROVE x \in ToSet(s) \cup {e}
    BY <1>1 DEF ToSet, t
  <2>2. ASSUME NEW x \in ToSet(s) \cup {e} PROVE x \in ToSet(t)
    <3>1. CASE x \in ToSet(s)
      <4>1. PICK i \in 1..Len(s) : s[i] = x
        BY <3>1 DEF ToSet
      <4>2. i \in 1..Len(t) /\ t[i] = x
        BY <1>1, <4>1 DEF t
      <4>. QED  BY <1>1, <4>2 DEF ToSet, t
    <3>2. CASE x = e
      <4>1. Len(s) + 1 \in 1..Len(t) /\ t[Len(s) + 1] = e
        BY <1>1 DEF t
      <4>. QED  BY <1>1, <3>2, <4>1 DEF ToSet, t
    <3>. QED  BY <3>1, <3>2
  <2>. QED  BY <2>1, <2>2
<1>3. ASSUME IsInjective(s), e \notin ToSet(s) PROVE IsInjective(t)
  BY <1>1, <1>3 DEF IsInjective, ToSet, t
<1>. QED  BY <1>1, <1>2, <1>3 DEF t

\* Membership of the empty sequence, and of one that has lost its head.
LEMMA TailKeeps ==
  ASSUME NEW S, NEW s \in Seq(S), s # <<>>
  PROVE  /\ Tail(s) \in Seq(S)
         /\ Head(s) \in ToSet(s)
         /\ ToSet(s) \ {Head(s)} \subseteq ToSet(Tail(s))
<1>1. /\ Len(s) > 0 /\ Head(s) = s[1]
      /\ Tail(s) \in Seq(S) /\ Len(Tail(s)) = Len(s) - 1
      /\ \A i \in 1..(Len(s) - 1) : Tail(s)[i] = s[i + 1]
  OBVIOUS
<1>2. ASSUME NEW x \in ToSet(s), x # Head(s) PROVE x \in ToSet(Tail(s))
  <2>1. PICK i \in 1..Len(s) : s[i] = x
    BY DEF ToSet
  <2>2. i - 1 \in 1..(Len(s) - 1) /\ (i - 1) + 1 = i
    BY <1>1, <1>2, <2>1
  <2>3. Tail(s)[i - 1] = x
    BY <1>1, <2>1, <2>2
  <2>4. i - 1 \in DOMAIN Tail(s)
    BY <1>1, <2>2
  <2>. QED  BY <2>3, <2>4 DEF ToSet
<1>. QED  BY <1>1, <1>2 DEF ToSet

\* A part of a sequence, place by place.
LEMMA PartIs ==
  ASSUME NEW S, NEW s \in Seq(S), NEW a \in 1..(Len(s) + 1), NEW b \in (a - 1)..Len(s)
  PROVE  /\ SubSeq(s, a, b) \in Seq(S)
         /\ Len(SubSeq(s, a, b)) = b - a + 1
         /\ \A i \in 1..(b - a + 1) : SubSeq(s, a, b)[i] = s[a + i - 1]
         /\ \A x : x \in ToSet(SubSeq(s, a, b)) <=> \E i \in a..b : s[i] = x
<1>. DEFINE t == SubSeq(s, a, b)
<1>1. a \in Int /\ b \in Int /\ \A i \in a..b : s[i] \in S
  OBVIOUS
<1>2. /\ t \in Seq(S)
      /\ Len(t) = b - a + 1
      /\ \A i \in 1..(b - a + 1) : t[i] = s[a + i - 1]
  BY <1>1, SubSeqProperties
<1>. HIDE DEF t
<1>3. ASSUME NEW x, x \in ToSet(t)
      PROVE  \E i \in a..b : s[i] = x
  <2>1. PICK j \in 1..(b - a + 1) : t[j] = x
    BY <1>2, <1>3 DEF ToSet
  <2>2. a + j - 1 \in a..b /\ s[a + j - 1] = x
    BY <1>1, <1>2, <2>1
  <2>. QED  BY <2>2
<1>4. ASSUME NEW i \in a..b
      PROVE  s[i] \in ToSet(t)
  <2>1. i - a + 1 \in 1..(b - a + 1) /\ a + (i - a + 1) - 1 = i
    BY <1>1
  <2>2. t[i - a + 1] = s[i]
    BY <1>2, <2>1
  <2>. QED  BY <1>2, <2>1, <2>2 DEF ToSet
<1>5. \A x : x \in ToSet(t) <=> \E i \in a..b : s[i] = x
  BY <1>3, <1>4
<1>. QED  BY <1>2, <1>5 DEF t

\* One sequence in front of another, place by place.
LEMMA Joined ==
  ASSUME NEW S, NEW a \in Seq(S), NEW b \in Seq(S)
  PROVE  /\ a \o b \in Seq(S)
         /\ Len(a \o b) = Len(a) + Len(b)
         /\ \A i \in 1..Len(a) : (a \o b)[i] = a[i]
         /\ \A i \in 1..Len(b) : (a \o b)[Len(a) + i] = b[i]
<1>. DEFINE c == a \o b
<1>1. /\ c \in Seq(S) /\ Len(c) = Len(a) + Len(b)
      /\ \A i \in 1..(Len(a) + Len(b)) :
           c[i] = IF i <= Len(a) THEN a[i] ELSE b[i - Len(a)]
  BY ConcatProperties
<1>2. Len(a) \in Nat /\ Len(b) \in Nat
  OBVIOUS
<1>. HIDE DEF c
<1>3. ASSUME NEW i \in 1..Len(b)
      PROVE  c[Len(a) + i] = b[i]
  <2>1. Len(a) + i \in 1..(Len(a) + Len(b)) /\ ~(Len(a) + i <= Len(a))
        /\ Len(a) + i - Len(a) = i
    BY <1>2
  <2>. QED  BY <1>1, <2>1
<1>4. \A i \in 1..Len(a) : c[i] = a[i]
  BY <1>1, <1>2
<1>. QED  BY <1>1, <1>3, <1>4 DEF c

\* One element in front of a sequence.
LEMMA PrependProperties ==
  ASSUME NEW S, NEW w \in S, NEW x \in Seq(S)
  PROVE  /\ <<w>> \o x \in Seq(S)
         /\ Len(<<w>> \o x) = Len(x) + 1
         /\ (<<w>> \o x)[1] = w
         /\ \A i \in 1..Len(x) : (<<w>> \o x)[i + 1] = x[i]
         /\ Head(<<w>> \o x) = w
         /\ Tail(<<w>> \o x) = x
<1>. DEFINE t == <<w>> \o x
<1>1. /\ <<w>> \in Seq(S) /\ Len(<<w>>) = 1 /\ <<w>>[1] = w
      /\ Len(x) \in Nat
  OBVIOUS
<1>2. /\ t \in Seq(S) /\ Len(t) = 1 + Len(x)
      /\ \A i \in 1..(1 + Len(x)) : t[i] = IF i <= 1 THEN <<w>>[i] ELSE x[i - 1]
  <2>. DEFINE v == <<w>>
  <2>. HIDE DEF v
  <2>1. /\ v \o x \in Seq(S) /\ Len(v \o x) = Len(v) + Len(x)
        /\ \A i \in 1..(Len(v) + Len(x)) :
             (v \o x)[i] = IF i <= Len(v) THEN v[i] ELSE x[i - Len(v)]
    BY <1>1, ConcatProperties DEF v
  <2>. QED  BY <1>1, <2>1 DEF v
<1>. HIDE DEF t
<1>3. t[1] = w /\ Len(t) = Len(x) + 1
  BY <1>1, <1>2
<1>4. \A i \in 1..Len(x) : t[i + 1] = x[i]
  <2>. TAKE i \in 1..Len(x)
  <2>1. i + 1 \in 1..(1 + Len(x)) /\ ~(i + 1 <= 1) /\ (i + 1) - 1 = i
    BY <1>1
  <2>. QED  BY <1>2, <2>1
<1>5. t # <<>> /\ Head(t) = w
  BY <1>1, <1>2, <1>3
<1>6. Tail(t) = x
  <2>1. /\ Tail(t) \in Seq(S) /\ Len(Tail(t)) = Len(x)
        /\ \A i \in 1..Len(Tail(t)) : Tail(t)[i] = t[i + 1]
    BY <1>1, <1>2, <1>3, <1>5, HeadTailProperties
  <2>. QED  BY <1>4, <2>1, SeqEqual
<1>. QED  BY <1>2, <1>3, <1>4, <1>5, <1>6 DEF t

\* Two sequences of one element.
LEMMA PairIs ==
  ASSUME NEW S, NEW w \in S, NEW v \in S
  PROVE  <<w>> \o <<v>> = <<w, v>>
<1>. DEFINE c == <<w>> \o <<v>>
<1>1. /\ <<w>> \in Seq(S) /\ Len(<<w>>) = 1 /\ <<w>>[1] = w
      /\ <<v>> \in Seq(S) /\ Len(<<v>>) = 1 /\ <<v>>[1] = v
  OBVIOUS
<1>2. /\ c \in Seq(S) /\ Len(c) = 2 /\ c[1] = w /\ c[2] = v
  <2>1. /\ c \in Seq(S) /\ Len(c) = Len(<<w>>) + Len(<<v>>)
        /\ \A i \in 1..Len(<<w>>) : c[i] = <<w>>[i]
        /\ \A i \in 1..Len(<<v>>) : c[Len(<<w>>) + i] = <<v>>[i]
    BY <1>1, Joined
  <2>. DEFINE a == <<w>>
              b == <<v>>
  <2>2. /\ Len(a) = 1 /\ a[1] = w /\ Len(b) = 1 /\ b[1] = v
        /\ Len(c) = Len(a) + Len(b)
        /\ \A i \in 1..Len(a) : c[i] = a[i]
        /\ \A i \in 1..Len(b) : c[Len(a) + i] = b[i]
    BY <1>1, <2>1
  <2>. HIDE DEF a, b, c
  <2>3. Len(c) = 2 /\ c[1] = w /\ c[1 + 1] = v
    BY <2>2
  <2>. QED  BY <2>1, <2>3
<1>. HIDE DEF c
<1>3. c = <<w, v>>
  BY <1>2
<1>. QED  BY <1>3 DEF c
=============================================================================
