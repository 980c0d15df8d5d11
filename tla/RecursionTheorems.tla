------------------------- MODULE RecursionTheorems -------------------------
(***************************************************************************)
(* Facts about what is defined by recursion: sums, powers of ten, lists.   *)
(* Induction is over the members of a set (ClimbTo), so that no theorem    *)
(* takes an operator.                                                      *)
(***************************************************************************)
EXTENDS Sums, Lists, WellFoundedInduction, TLAPS

(* Every nonempty set of naturals has a least member. *)
LEMMA LeastOf ==
    ASSUME NEW T, T \subseteq Nat, T # {}
    PROVE  \E m \in T : \A k \in T : m <= k
<1> DEFINE less == {ss \in Nat \X Nat : ss[1] < ss[2]}
<1>1. IsWellFoundedOn(less, Nat)
  BY NatLessThanWellFounded DEF OpToRel
<1>2. PICK m \in T : \A k \in T : ~(<<k, m>> \in less)
  <2> HIDE DEF less
  <2> QED
    BY <1>1, WFMin
<1>3. ASSUME NEW k \in T PROVE m <= k
  <2>1. ~(<<k, m>> \in less)
    BY <1>2
  <2>2. k \in Nat /\ m \in Nat
    OBVIOUS
  <2>3. QED
    BY <2>1, <2>2
<1>4. QED
  BY <1>3

(* Induction up to n: a set that has 0, and k with k - 1, has all of 0..n. *)
LEMMA ClimbTo ==
    ASSUME NEW n \in Nat, NEW S, 0 \in S,
           \A k \in 1..n : k - 1 \in S => k \in S
    PROVE  0..n \subseteq S
<1> DEFINE T == {k \in 0..n : k \notin S}
<1> SUFFICES ASSUME T # {} PROVE FALSE
  OBVIOUS
<1>1. PICK m \in T : \A k \in T : m <= k
  <2>1. T \subseteq Nat
    OBVIOUS
  <2> HIDE DEF T
  <2> QED
    BY <2>1, LeastOf
<1>2. m \in 1..n /\ m - 1 \in 0..n
  OBVIOUS
<1>3. m - 1 \notin T
  BY <1>1, <1>2
<1>4. QED
  BY <1>2, <1>3

-----------------------------------------------------------------------------
\* The partial sums of g up to n, as the definition of SumTo builds them.
IsPartialSums(f, g, n) ==
    f = [k \in 0..n |-> IF k = 0 THEN 0 ELSE f[k - 1] + g[k]]

LEMMA PartialSumsExist ==
    ASSUME NEW n \in Nat, NEW g
    PROVE  \E f : IsPartialSums(f, g, n)
<1> DEFINE S == {m \in 0..n : \E f : IsPartialSums(f, g, m)}
<1>1. 0 \in S
  <2> DEFINE f == [k \in 0..0 |-> 0]
  <2>1. IsPartialSums(f, g, 0)
    BY DEF IsPartialSums
  <2>2. QED
    BY <2>1
<1>2. ASSUME NEW m \in 1..n, m - 1 \in S PROVE m \in S
  <2>1. PICK e : IsPartialSums(e, g, m - 1)
    BY <1>2
  <2> DEFINE f == [k \in 0..m |-> IF k = m THEN e[m - 1] + g[m] ELSE e[k]]
  <2>2. ASSUME NEW k \in 0..m PROVE f[k] = IF k = 0 THEN 0 ELSE f[k - 1] + g[k]
    <3>1. CASE k = m
      BY <3>1
    <3>2. CASE k # m
      <4>1. k \in 0..(m - 1)
        BY <3>2
      <4>2. e[k] = IF k = 0 THEN 0 ELSE e[k - 1] + g[k]
        BY <2>1, <4>1 DEF IsPartialSums
      <4>3. QED
        BY <4>1, <4>2
    <3>3. QED
      BY <3>1, <3>2
  <2>3. IsPartialSums(f, g, m)
    BY <2>2 DEF IsPartialSums
  <2>4. QED
    BY <2>3
<1>3. n \in S
  <2>1. \A k \in 1..n : k - 1 \in S => k \in S
    BY <1>2
  <2> HIDE DEF S
  <2>2. 0..n \subseteq S
    BY <1>1, <2>1, ClimbTo
  <2>3. QED
    BY <2>2
<1>4. QED
  BY <1>3

(* SumTo is the last of some partial sums. *)
LEMMA SumToIsPartial ==
    ASSUME NEW n \in Nat, NEW g
    PROVE  \E f : IsPartialSums(f, g, n) /\ SumTo(g, n) = f[n]
<1> DEFINE upTo == CHOOSE f : f = [k \in 0..n |-> IF k = 0 THEN 0 ELSE f[k - 1] + g[k]]
<1>1. IsPartialSums(upTo, g, n)
  BY PartialSumsExist DEF IsPartialSums
<1>2. SumTo(g, n) = upTo[n]
  BY DEF SumTo
<1>3. QED
  BY <1>1, <1>2

LEMMA PartialStep ==
    ASSUME NEW n \in Nat, NEW g, NEW f, IsPartialSums(f, g, n)
    PROVE  /\ f[0] = 0
           /\ \A k \in 1..n : f[k] = f[k - 1] + g[k]
BY DEF IsPartialSums

-----------------------------------------------------------------------------
(* A sum of naturals is a natural, and at least each of its terms. *)
LEMMA SumToNat ==
    ASSUME NEW n \in Nat, NEW g \in [1..n -> Nat]
    PROVE  /\ SumTo(g, n) \in Nat
           /\ \A i \in 1..n : SumTo(g, n) >= g[i]
<1>1. PICK f : IsPartialSums(f, g, n) /\ SumTo(g, n) = f[n]
  BY SumToIsPartial
<1> DEFINE S == {k \in 0..n : f[k] \in Nat /\ \A i \in 1..k : f[k] >= g[i]}
<1>2. 0 \in S
  BY <1>1, PartialStep
<1>3. ASSUME NEW k \in 1..n, k - 1 \in S PROVE k \in S
  <2>1. f[k] = f[k - 1] + g[k] /\ g[k] \in Nat
    BY <1>1, PartialStep
  <2>2. ASSUME NEW i \in 1..k PROVE f[k] >= g[i]
    <3>1. CASE i = k
      BY <1>3, <2>1, <3>1
    <3>2. CASE i # k
      <4>1. i \in 1..(k - 1) /\ g[i] \in Nat
        BY <3>2
      <4>2. QED
        BY <1>3, <2>1, <4>1
    <3>3. QED
      BY <3>1, <3>2
  <2>3. QED
    BY <1>3, <2>1, <2>2
<1>4. n \in S
  <2>1. \A k \in 1..n : k - 1 \in S => k \in S
    BY <1>3
  <2> HIDE DEF S
  <2>2. 0..n \subseteq S
    BY <1>2, <2>1, ClimbTo
  <2>3. QED
    BY <2>2
<1>5. QED
  BY <1>1, <1>4

(* Changing one term changes the sum by as much. *)
LEMMA SumToUpdate ==
    ASSUME NEW n \in Nat, NEW g \in [1..n -> Nat], NEW h \in [1..n -> Nat],
           NEW i \in 1..n, \A k \in 1..n : k # i => h[k] = g[k]
    PROVE  SumTo(h, n) = SumTo(g, n) - g[i] + h[i]
<1>1. PICK f : IsPartialSums(f, g, n) /\ SumTo(g, n) = f[n]
  BY SumToIsPartial
<1>2. PICK e : IsPartialSums(e, h, n) /\ SumTo(h, n) = e[n]
  BY SumToIsPartial
<1> DEFINE S == {k \in 0..n : /\ f[k] \in Int /\ e[k] \in Int
                             /\ e[k] = IF k < i THEN f[k] ELSE f[k] - g[i] + h[i]}
<1>3. 0 \in S
  BY <1>1, <1>2, PartialStep
<1>4. ASSUME NEW k \in 1..n, k - 1 \in S PROVE k \in S
  <2>1. f[k] = f[k - 1] + g[k] /\ e[k] = e[k - 1] + h[k]
    BY <1>1, <1>2, PartialStep
  <2>2. g[k] \in Nat /\ h[k] \in Nat /\ g[i] \in Nat /\ h[i] \in Nat
    OBVIOUS
  <2>3. f[k - 1] \in Int /\ e[k - 1] \in Int
    BY <1>4
  <2>4. e[k - 1] = IF k - 1 < i THEN f[k - 1] ELSE f[k - 1] - g[i] + h[i]
    BY <1>4
  <2>5. e[k] = IF k < i THEN f[k] ELSE f[k] - g[i] + h[i]
    <3>1. CASE k = i
      <4>1. e[k - 1] = f[k - 1]
        BY <2>4, <3>1
      <4>2. QED
        BY <2>1, <2>2, <2>3, <3>1, <4>1
    <3>2. CASE k < i
      <4>1. e[k - 1] = f[k - 1] /\ h[k] = g[k]
        BY <2>4, <3>2
      <4>2. QED
        BY <2>1, <3>2, <4>1
    <3>3. CASE k > i
      <4>1. e[k - 1] = f[k - 1] - g[i] + h[i] /\ h[k] = g[k]
        BY <2>4, <3>3
      <4>2. e[k - 1] + h[k] = (f[k - 1] + g[k]) - g[i] + h[i]
        BY <2>2, <2>3, <4>1
      <4>3. ~(k < i)
        BY <3>3
      <4>4. QED
        BY <2>1, <4>2, <4>3
    <3>4. QED
      BY <3>1, <3>2, <3>3
  <2>6. f[k] \in Int /\ e[k] \in Int
    BY <2>1, <2>2, <2>3
  <2>7. QED
    BY <2>5, <2>6
<1>5. n \in S
  <2>1. \A k \in 1..n : k - 1 \in S => k \in S
    BY <1>4
  <2> HIDE DEF S
  <2>2. 0..n \subseteq S
    BY <1>3, <2>1, ClimbTo
  <2>3. QED
    BY <2>2
<1>6. QED
  BY <1>1, <1>2, <1>5

(* A sum of zeros is zero. *)
LEMMA SumToZero ==
    ASSUME NEW n \in Nat, NEW g, \A k \in 1..n : g[k] = 0
    PROVE  SumTo(g, n) = 0
<1>1. PICK f : IsPartialSums(f, g, n) /\ SumTo(g, n) = f[n]
  BY SumToIsPartial
<1> DEFINE S == {k \in 0..n : f[k] = 0}
<1>2. 0 \in S
  BY <1>1, PartialStep
<1>3. ASSUME NEW k \in 1..n, k - 1 \in S PROVE k \in S
  BY <1>1, <1>3, PartialStep
<1>4. n \in S
  <2>1. \A k \in 1..n : k - 1 \in S => k \in S
    BY <1>3
  <2> HIDE DEF S
  <2>2. 0..n \subseteq S
    BY <1>2, <2>1, ClimbTo
  <2>3. QED
    BY <2>2
<1>5. QED
  BY <1>1, <1>4

-----------------------------------------------------------------------------
\* f is built up to m by the steps next, from base, inside the set T.
IsBuilt(f, m, T, base, next) ==
    /\ f \in [0..m -> T] /\ f[0] = base
    /\ \A k \in 1..m : f[k] = next[k][f[k - 1]]

(* What a recursive definition on 0..n asks for exists, if its steps stay  *)
(* in a set T.                                                             *)
LEMMA RecursionExists ==
    ASSUME NEW n \in Nat, NEW T, NEW base \in T, NEW next \in [1..n -> [T -> T]]
    PROVE  \E f : IsBuilt(f, n, T, base, next)
<1> DEFINE S == {m \in 0..n : \E f : IsBuilt(f, m, T, base, next)}
<1>1. 0 \in S
  <2> DEFINE f == [k \in 0..0 |-> base]
  <2>1. IsBuilt(f, 0, T, base, next)
    BY DEF IsBuilt
  <2> HIDE DEF f
  <2>2. QED
    BY <2>1
<1>2. ASSUME NEW m \in 1..n, m - 1 \in S PROVE m \in S
  <2>1. PICK e : IsBuilt(e, m - 1, T, base, next)
    BY <1>2
  <2> DEFINE f == [k \in 0..m |-> IF k = m THEN next[m][e[m - 1]] ELSE e[k]]
  <2>2. m - 1 \in 0..(m - 1) /\ e[m - 1] \in T /\ next[m][e[m - 1]] \in T
    BY <2>1 DEF IsBuilt
  <2>3. f \in [0..m -> T]
    <3>1. ASSUME NEW k \in 0..m PROVE f[k] \in T
      <4>1. CASE k = m
        BY <2>2, <4>1
      <4>2. CASE k # m
        <5>1. k \in 0..(m - 1)
          BY <4>2
        <5>2. QED
          BY <2>1, <4>2, <5>1 DEF IsBuilt
      <4>3. QED
        BY <4>1, <4>2
    <3>2. QED
      BY <3>1
  <2>4. f[0] = base
    BY <2>1 DEF IsBuilt
  <2>5. ASSUME NEW k \in 1..m PROVE f[k] = next[k][f[k - 1]]
    <3>1. k - 1 \in 0..m /\ k - 1 # m /\ f[k - 1] = e[k - 1]
      OBVIOUS
    <3>2. CASE k = m
      BY <3>1, <3>2
    <3>3. CASE k # m
      <4>1. k \in 1..(m - 1)
        BY <3>3
      <4>2. f[k] = e[k] /\ e[k] = next[k][e[k - 1]]
        BY <2>1, <3>3, <4>1 DEF IsBuilt
      <4>3. QED
        BY <3>1, <4>2
    <3>4. QED
      BY <3>2, <3>3
  <2> HIDE DEF f
  <2>6. IsBuilt(f, m, T, base, next)
    BY <2>3, <2>4, <2>5 DEF IsBuilt
  <2>7. QED
    BY <2>6
<1>3. n \in S
  <2>1. \A k \in 1..n : k - 1 \in S => k \in S
    BY <1>2
  <2> HIDE DEF S
  <2>2. 0..n \subseteq S
    BY <1>1, <2>1, ClimbTo
  <2>3. QED
    BY <2>2
<1>4. QED
  BY <1>3

-----------------------------------------------------------------------------
\* What Without has found of s when it has seen the first k of it.
IsFiltering(f, s, gone) ==
    f = [k \in 0..Len(s) |->
            IF k = 0 THEN <<>>
            ELSE IF s[k] \in gone THEN f[k - 1] ELSE Append(f[k - 1], s[k])]

LEMMA FilteringStep ==
    ASSUME NEW T, NEW s \in Seq(T), NEW gone, NEW f, IsFiltering(f, s, gone)
    PROVE  /\ f[0] = <<>>
           /\ \A k \in 1..Len(s) :
                 f[k] = IF s[k] \in gone THEN f[k - 1] ELSE Append(f[k - 1], s[k])
<1>1. Len(s) \in Nat
  OBVIOUS
<1>2. \A k \in 0..Len(s) :
          f[k] = IF k = 0 THEN <<>>
                 ELSE IF s[k] \in gone THEN f[k - 1] ELSE Append(f[k - 1], s[k])
  BY DEF IsFiltering
<1>3. QED
  BY <1>1, <1>2

LEMMA FilteringExists ==
    ASSUME NEW T, NEW s \in Seq(T), NEW gone
    PROVE  \E f : IsFiltering(f, s, gone)
<1> DEFINE n == Len(s)
           next == [k \in 1..n |-> [r \in Seq(T) |->
                       IF s[k] \in gone THEN r ELSE Append(r, s[k])]]
<1>1. n \in Nat /\ <<>> \in Seq(T) /\ \A k \in 1..n : s[k] \in T
  OBVIOUS
<1>2. next \in [1..n -> [Seq(T) -> Seq(T)]]
  <2>1. ASSUME NEW k \in 1..n, NEW r \in Seq(T) PROVE Append(r, s[k]) \in Seq(T)
    BY <1>1
  <2>2. QED
    BY <2>1
<1>3. PICK f \in [0..n -> Seq(T)] :
          f[0] = <<>> /\ \A k \in 1..n : f[k] = next[k][f[k - 1]]
  <2> DEFINE U == Seq(T)
             none == <<>>
  <2>1. next \in [1..n -> [U -> U]] /\ none \in U /\ n \in Nat
    BY <1>1, <1>2
  <2> HIDE DEF n, next, U, none
  <2>2. \E f : IsBuilt(f, n, U, none, next)
    BY <2>1, RecursionExists
  <2>3. QED
    BY <2>2 DEF U, none, IsBuilt
<1>4. ASSUME NEW k \in 1..n
      PROVE  f[k] = IF s[k] \in gone THEN f[k - 1] ELSE Append(f[k - 1], s[k])
  <2>1. f[k - 1] \in Seq(T)
    BY <1>1
  <2>2. QED
    BY <1>3, <2>1
<1>5. ASSUME NEW k \in 0..n
      PROVE  f[k] = IF k = 0 THEN <<>>
                    ELSE IF s[k] \in gone THEN f[k - 1] ELSE Append(f[k - 1], s[k])
  <2>1. CASE k = 0
    BY <1>3, <2>1
  <2>2. CASE k # 0
    <3>1. k \in 1..n
      BY <1>1, <2>2
    <3>2. QED
      BY <1>4, <2>2, <3>1
  <2>3. QED
    BY <2>1, <2>2
<1>6. IsFiltering(f, s, gone)
  BY <1>3, <1>5 DEF IsFiltering
<1>7. QED
  BY <1>6

LEMMA WithoutIsFiltering ==
    ASSUME NEW T, NEW s \in Seq(T), NEW gone
    PROVE  \E f : IsFiltering(f, s, gone) /\ Without(s, gone) = f[Len(s)]
<1> DEFINE upTo == CHOOSE f : f = [k \in 0..Len(s) |->
                                      IF k = 0 THEN <<>>
                                      ELSE IF s[k] \in gone THEN f[k - 1]
                                      ELSE Append(f[k - 1], s[k])]
<1>1. IsFiltering(upTo, s, gone)
  <2>1. \E f : IsFiltering(f, s, gone)
    BY FilteringExists
  <2>2. QED
    BY <2>1, Zenon DEF IsFiltering
<1>2. Without(s, gone) = upTo[Len(s)]
  BY DEF Without
<1>3. QED
  BY <1>1, <1>2

\* The list w has members of s only, in their order, and none that is gone.
KeptOf(w, s, gone, T) ==
    /\ w \in Seq(T) /\ Len(w) <= Len(s)
    /\ \A p \in 1..Len(w) : w[p] \notin gone /\ \E i \in 1..Len(s) : w[p] = s[i]
    /\ \A p, q \in 1..Len(w) :
          p < q => \E i, j \in 1..Len(s) : i < j /\ w[p] = s[i] /\ w[q] = s[j]

(* What Without keeps: only members that are not to go, in their order.    *)
LEMMA WithoutKeeps ==
    ASSUME NEW T, NEW s \in Seq(T), NEW gone
    PROVE  KeptOf(Without(s, gone), s, gone, T)
<1>1. PICK f : IsFiltering(f, s, gone) /\ Without(s, gone) = f[Len(s)]
  BY WithoutIsFiltering
<1> DEFINE n == Len(s)
           Kept(w, k) ==
               /\ w \in Seq(T) /\ Len(w) <= k
               /\ \A p \in 1..Len(w) : w[p] \notin gone /\ \E i \in 1..k : w[p] = s[i]
               /\ \A p, q \in 1..Len(w) :
                     p < q => \E i, j \in 1..k : i < j /\ w[p] = s[i] /\ w[q] = s[j]
           S == {k \in 0..n : Kept(f[k], k)}
<1>2. n \in Nat /\ DOMAIN s = 1..n /\ \A k \in 1..n : s[k] \in T
  OBVIOUS
<1>3. 0 \in S
  <2>1. f[0] = <<>>
    BY <1>1, FilteringStep
  <2>2. Kept(<<>>, 0)
    OBVIOUS
  <2> HIDE DEF Kept
  <2>3. QED
    BY <1>2, <2>1, <2>2
<1>4. ASSUME NEW k \in 1..n, k - 1 \in S PROVE k \in S
  <2> DEFINE w == f[k - 1]
             x == f[k]
  <2>1. Kept(w, k - 1)
    BY <1>4
  <2>2. x = IF s[k] \in gone THEN w ELSE Append(w, s[k])
    BY <1>1, FilteringStep
  <2>3. 1..(k - 1) \subseteq 1..k /\ k \in 1..k /\ \A i \in 1..(k - 1) : i < k
    BY <1>2
  <2>4. CASE s[k] \in gone
    <3>1. x = w
      BY <2>2, <2>4
    <3>2. Kept(w, k)
      <4> HIDE DEF w
      <4>1. Len(w) \in Nat /\ Len(w) <= k
        BY <1>2, <2>1
      <4>2. QED
        BY <2>1, <2>3, <4>1
    <3> HIDE DEF Kept
    <3>3. QED
      BY <3>1, <3>2
  <2>5. CASE s[k] \notin gone
    <3> HIDE DEF x, w
    <3>1. x = Append(w, s[k])
      BY <2>2, <2>5
    <3>2. /\ x \in Seq(T) /\ Len(x) = Len(w) + 1 /\ Len(w) \in Nat
          /\ \A p \in 1..Len(w) : x[p] = w[p]
          /\ x[Len(x)] = s[k]
      BY <1>2, <2>1, <3>1
    <3>3. ASSUME NEW p \in 1..Len(x) PROVE x[p] \notin gone /\ \E i \in 1..k : x[p] = s[i]
      <4>1. p \in 1..Len(w) \/ p = Len(x)
        BY <3>2
      <4>2. CASE p \in 1..Len(w)
        <5>1. w[p] \notin gone /\ \E i \in 1..(k - 1) : w[p] = s[i]
          BY <2>1, <4>2
        <5>2. QED
          BY <2>3, <3>2, <4>2, <5>1
      <4>3. CASE p = Len(x)
        BY <2>3, <2>5, <3>2, <4>3
      <4>4. QED
        BY <4>1, <4>2, <4>3
    <3>4. ASSUME NEW p \in 1..Len(x), NEW q \in 1..Len(x), p < q
          PROVE  \E i, j \in 1..k : i < j /\ x[p] = s[i] /\ x[q] = s[j]
      <4>1. p \in 1..Len(w)
        BY <3>2, <3>4
      <4>2. CASE q \in 1..Len(w)
        <5>1. PICK i \in 1..(k - 1), j \in 1..(k - 1) : i < j /\ w[p] = s[i] /\ w[q] = s[j]
          BY <2>1, <3>4, <4>1, <4>2
        <5>2. QED
          BY <2>3, <3>2, <4>1, <4>2, <5>1
      <4>3. CASE q = Len(x)
        <5>1. PICK i \in 1..(k - 1) : w[p] = s[i]
          BY <2>1, <4>1
        <5>2. QED
          BY <2>3, <3>2, <4>1, <4>3, <5>1
      <4>4. QED
        BY <3>2, <4>2, <4>3
    <3>5. Len(x) <= k
      BY <1>2, <2>1, <3>2
    <3>6. Kept(x, k)
      BY <3>2, <3>3, <3>4, <3>5
    <3> HIDE DEF Kept
    <3>7. QED
      BY <3>6 DEF x
  <2>6. QED
    BY <2>4, <2>5
<1>5. n \in S
  <2>1. \A k \in 1..n : k - 1 \in S => k \in S
    BY <1>4
  <2> HIDE DEF S
  <2>2. 0..n \subseteq S
    BY <1>2, <1>3, <2>1, ClimbTo
  <2>3. QED
    BY <1>2, <2>2
<1>6. Kept(Without(s, gone), n)
  <2> HIDE DEF Kept, n
  <2>1. QED
    BY <1>1, <1>5 DEF n
<1>7. QED
  BY <1>6 DEF KeptOf

-----------------------------------------------------------------------------
\* The digits d read as one number, from what is before them.
IsReading(f, whole, d, n) ==
    f = [k \in 0..n |-> IF k = 0 THEN whole ELSE 10 * f[k - 1] + d[k]]

LEMMA ReadingExists ==
    ASSUME NEW n \in Nat, NEW whole \in Nat, NEW d \in [1..n -> Nat]
    PROVE  \E f : IsReading(f, whole, d, n)
<1> DEFINE next == [k \in 1..n |-> [r \in Nat |-> 10 * r + d[k]]]
<1>1. next \in [1..n -> [Nat -> Nat]]
  OBVIOUS
<1>2. PICK f \in [0..n -> Nat] :
          f[0] = whole /\ \A k \in 1..n : f[k] = next[k][f[k - 1]]
  <2> HIDE DEF next
  <2>1. \E f : IsBuilt(f, n, Nat, whole, next)
    BY <1>1, RecursionExists
  <2>2. QED
    BY <2>1 DEF IsBuilt
<1>3. ASSUME NEW k \in 1..n PROVE f[k] = 10 * f[k - 1] + d[k]
  <2>1. k - 1 \in 0..n /\ f[k - 1] \in Nat
    OBVIOUS
  <2>2. QED
    BY <1>2, <2>1
<1>4. ASSUME NEW k \in 0..n PROVE f[k] = IF k = 0 THEN whole ELSE 10 * f[k - 1] + d[k]
  <2>1. CASE k = 0
    BY <1>2, <2>1
  <2>2. CASE k # 0
    <3>1. k \in 1..n
      BY <2>2
    <3>2. QED
      BY <1>3, <2>2, <3>1
  <2>3. QED
    BY <2>1, <2>2
<1>5. IsReading(f, whole, d, n)
  BY <1>2, <1>4 DEF IsReading
<1>6. QED
  BY <1>5

LEMMA ReadingStep ==
    ASSUME NEW n \in Nat, NEW whole \in Nat, NEW d \in [1..n -> Nat],
           NEW f, IsReading(f, whole, d, n)
    PROVE  /\ f[0] = whole
           /\ \A k \in 1..n : f[k] = 10 * f[k - 1] + d[k]
           /\ \A k \in 0..n : f[k] \in Nat
<1>1. f[0] = whole /\ \A k \in 1..n : f[k] = 10 * f[k - 1] + d[k]
  BY DEF IsReading
<1> DEFINE S == {k \in 0..n : f[k] \in Nat}
<1>2. 0 \in S
  BY <1>1
<1>3. ASSUME NEW k \in 1..n, k - 1 \in S PROVE k \in S
  BY <1>1, <1>3
<1>4. 0..n \subseteq S
  <2>1. \A k \in 1..n : k - 1 \in S => k \in S
    BY <1>3
  <2> HIDE DEF S
  <2>2. QED
    BY <1>2, <2>1, ClimbTo
<1>5. QED
  BY <1>1, <1>4

\* The powers of ten up to n, as the definition of TenTo builds them.
IsPowers(f, n) == f = [k \in 0..n |-> IF k = 0 THEN 1 ELSE 10 * f[k - 1]]

LEMMA PowersExist == ASSUME NEW n \in Nat PROVE \E f : IsPowers(f, n)
<1> DEFINE d == [k \in 1..n |-> 0]
<1>1. d \in [1..n -> Nat] /\ 1 \in Nat /\ \A k \in 1..n : d[k] = 0
  OBVIOUS
<1> HIDE DEF d
<1>2. PICK f : IsReading(f, 1, d, n)
  BY <1>1, ReadingExists
<1>3. \A k \in 0..n : f[k] \in Nat
  BY <1>1, <1>2, ReadingStep
<1>4. f = [k \in 0..n |-> IF k = 0 THEN 1 ELSE 10 * f[k - 1] + d[k]]
  BY <1>2 DEF IsReading
<1>5. \A k \in 0..n : f[k] = IF k = 0 THEN 1 ELSE 10 * f[k - 1]
  <2>1. ASSUME NEW k \in 1..n PROVE f[k] = 10 * f[k - 1]
    <3>1. f[k] = 10 * f[k - 1] + d[k] /\ f[k - 1] \in Nat /\ d[k] = 0
      BY <1>1, <1>3, <1>4
    <3>2. QED
      BY <3>1
  <2>2. f[0] = 1
    BY <1>4
  <2>3. QED
    BY <2>1, <2>2
<1>6. IsPowers(f, n)
  BY <1>4, <1>5 DEF IsPowers
<1>7. QED
  BY <1>6

LEMMA PowersStep ==
    ASSUME NEW n \in Nat, NEW f, IsPowers(f, n)
    PROVE  /\ f[0] = 1
           /\ \A k \in 1..n : f[k] = 10 * f[k - 1]
BY DEF IsPowers

LEMMA TenToIsPower ==
    ASSUME NEW n \in Nat
    PROVE  \E f : IsPowers(f, n) /\ TenTo(n) = f[n]
<1> DEFINE upTo == CHOOSE f : f = [k \in 0..n |-> IF k = 0 THEN 1 ELSE 10 * f[k - 1]]
<1>1. IsPowers(upTo, n)
  BY PowersExist DEF IsPowers
<1>2. TenTo(n) = upTo[n]
  BY DEF TenTo
<1>3. QED
  BY <1>1, <1>2

(* Each power of ten is ten times the one before. *)
LEMMA TenToStep ==
    /\ TenTo(0) = 1
    /\ \A n \in Nat : TenTo(n) \in Nat
    /\ \A n \in Nat : TenTo(n + 1) = 10 * TenTo(n)
<1>1. TenTo(0) = 1
  <2>1. PICK f : IsPowers(f, 0) /\ TenTo(0) = f[0]
    BY TenToIsPower
  <2>2. QED
    BY <2>1, PowersStep
<1>2. ASSUME NEW n \in Nat PROVE TenTo(n) \in Nat /\ TenTo(n + 1) = 10 * TenTo(n)
  <2>1. PICK f : IsPowers(f, n) /\ TenTo(n) = f[n]
    BY TenToIsPower
  <2>2. PICK e : IsPowers(e, n + 1) /\ TenTo(n + 1) = e[n + 1]
    BY TenToIsPower
  <2> DEFINE S == {k \in 0..n : f[k] \in Nat /\ e[k] = f[k]}
  <2>3. f[0] = 1 /\ \A k \in 1..n : f[k] = 10 * f[k - 1]
    BY <2>1, PowersStep
  <2>4. e[0] = 1 /\ \A k \in 1..(n + 1) : e[k] = 10 * e[k - 1]
    BY <2>2, PowersStep
  <2>5. 0 \in S
    BY <2>3, <2>4
  <2>6. ASSUME NEW k \in 1..n, k - 1 \in S PROVE k \in S
    BY <2>3, <2>4, <2>6
  <2>7. n \in S
    <3>1. \A k \in 1..n : k - 1 \in S => k \in S
      BY <2>6
    <3> HIDE DEF S
    <3>2. 0..n \subseteq S
      BY <2>5, <3>1, ClimbTo
    <3>3. QED
      BY <3>2
  <2>8. e[n + 1] = 10 * e[n]
    BY <2>4
  <2>9. QED
    BY <2>1, <2>2, <2>7, <2>8
<1>3. QED
  BY <1>1, <1>2

(* n digits read after whole are worth whole times ten to the n, and each  *)
(* of them its own power of ten; those beyond the first m are zero.        *)
LEMMA ReadingIsWorth ==
    ASSUME NEW n \in Nat, NEW m \in 0..n, NEW whole \in Nat, NEW d \in [1..n -> Nat],
           NEW g, \A k \in 1..m : g[k] = d[k] * TenTo(n - k),
           \A k \in (m + 1)..n : d[k] = 0,
           NEW f, IsReading(f, whole, d, n)
    PROVE  f[n] = whole * TenTo(n) + SumTo(g, m)
<1>1. PICK e : IsPartialSums(e, g, m) /\ SumTo(g, m) = e[m]
  BY SumToIsPartial
<1> DEFINE T(k) == TenTo(n - k)
           E(k) == IF k <= m THEN e[k] ELSE e[m]
           S == {k \in 0..n : E(k) \in Nat /\ f[k] * T(k) = whole * TenTo(n) + E(k)}
<1>2. /\ f[0] = whole
      /\ \A k \in 1..n : f[k] = 10 * f[k - 1] + d[k]
      /\ \A k \in 0..n : f[k] \in Nat
  BY ReadingStep
<1>3. e[0] = 0 /\ \A k \in 1..m : e[k] = e[k - 1] + g[k]
  BY <1>1, PartialStep
<1>4. /\ T(0) = TenTo(n) /\ T(n) = 1
      /\ \A k \in 0..n : T(k) \in Nat
      /\ \A k \in 1..n : T(k - 1) = 10 * T(k)
  <2>1. n - 0 = n /\ n - n = 0 /\ \A k \in 0..n : n - k \in Nat
    OBVIOUS
  <2>2. ASSUME NEW k \in 1..n PROVE T(k - 1) = 10 * T(k)
    <3>1. n - k \in Nat /\ n - (k - 1) = (n - k) + 1
      OBVIOUS
    <3>2. QED
      BY <3>1, TenToStep
  <2>3. QED
    BY <2>1, <2>2, TenToStep
<1>5. \A k \in 1..m : g[k] = d[k] * T(k)
  OBVIOUS
<1> HIDE DEF T
<1>6. 0 \in S
  <2>1. E(0) = 0
    BY <1>3
  <2>2. f[0] * T(0) = whole * TenTo(n) /\ whole * TenTo(n) \in Nat
    BY <1>2, <1>4
  <2>3. QED
    BY <2>1, <2>2
<1>7. ASSUME NEW k \in 1..n, k - 1 \in S PROVE k \in S
  <2> DEFINE a == f[k - 1]
             b == d[k]
             t == T(k)
             w == whole * TenTo(n)
             u == E(k - 1)
             v == E(k)
  <2>1. k \in 0..n /\ k - 1 \in 0..n
    OBVIOUS
  <2>2. a \in Nat /\ b \in Nat /\ t \in Nat /\ w \in Nat /\ u \in Nat
    <3>1. a \in Nat /\ b \in Nat
      BY <1>2, <2>1
    <3>2. t \in Nat
      BY <1>4, <2>1
    <3>3. TenTo(n) \in Nat
      BY TenToStep
    <3>4. w \in Nat
      BY ONLY <3>3
    <3>5. u \in Nat
      BY <1>7
    <3>6. QED
      BY <3>1, <3>2, <3>4, <3>5
  <2>3. a * (10 * t) = w + u
    BY <1>4, <1>7
  <2>4. f[k] = 10 * a + b
    BY <1>2
  <2>5. v = u + b * t
    <3>1. CASE k <= m
      <4>1. k \in 1..m /\ k - 1 <= m
        BY <3>1
      <4>2. QED
        BY <1>3, <1>5, <3>1, <4>1
    <3>2. CASE ~(k <= m)
      <4>1. k \in (m + 1)..n /\ b = 0
        BY <3>2
      <4>2. u = e[m] /\ v = e[m]
        BY <3>2
      <4>3. b * t = 0
        BY <2>2, <4>1
      <4>4. QED
        BY <2>2, <4>2, <4>3
    <3>3. QED
      BY <3>1, <3>2
  <2> HIDE DEF a, b, t, w, u, v, E
  <2>6. v \in Nat /\ (10 * a + b) * t = w + v
    <3>1. b * t \in Nat /\ (10 * a + b) * t = a * (10 * t) + b * t
      BY ONLY <2>2
    <3>2. QED
      BY ONLY <2>2, <2>3, <2>5, <3>1
  <2>7. f[k] * T(k) = whole * TenTo(n) + E(k) /\ E(k) \in Nat
    BY <2>4, <2>6 DEF t, w, v
  <2>8. QED
    BY <2>1, <2>7
<1>8. n \in S
  <2>1. \A k \in 1..n : k - 1 \in S => k \in S
    BY <1>7
  <2> HIDE DEF S
  <2>2. 0..n \subseteq S
    BY <1>6, <2>1, ClimbTo
  <2>3. QED
    BY <2>2
<1>9. E(n) = e[m]
  OBVIOUS
<1>10. f[n] * 1 = whole * TenTo(n) + E(n) /\ f[n] \in Nat
  BY <1>2, <1>4, <1>8
<1>11. QED
  BY <1>1, <1>9, <1>10
=============================================================================
