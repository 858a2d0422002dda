----------------------------- MODULE ListLemmas -----------------------------
(***************************************************************************)
(* Lemmas that the proofs of several components cite: least and greatest   *)
(* numbers of a set, and what the operators of Lists return for every      *)
(* list.                                                                   *)
(*                                                                         *)
(* A statement about lists of every length is proved by its least          *)
(* counterexample: were there any, there would be a shortest (LeastNatural)*)
(* and the step from the one before it shows that it is none.              *)
(***************************************************************************)
EXTENDS Lists, SequencesExt, SequenceTheorems, WellFoundedInduction, TLAPS

-----------------------------------------------------------------------------
(* Numbers.                                                                *)

(* Every nonempty set of naturals has a least element.                     *)
LEMMA LeastNatural ==
  ASSUME NEW S, S \subseteq Nat, S # {}
  PROVE  \E m \in S : \A n \in S : m <= n
<1>1. PICK R : IsWellFoundedOn(R, Nat) /\ \A m, n \in Nat : m < n => <<m, n>> \in R
  BY NatLessThanWellFounded DEF OpToRel
<1>2. PICK m \in S : \A n \in S : ~ (<<n, m>> \in R)
  <2>1. IsWellFoundedOn(R, Nat)
    BY <1>1
  <2>2. QED
    BY <2>1, WFMin, Zenon
<1>3. ASSUME NEW n \in S PROVE m <= n
  <2>1. m \in Nat /\ n \in Nat
    OBVIOUS
  <2>2. ~ (n < m)
    BY <1>1, <1>2, <2>1, Zenon
  <2> QED BY <2>1, <2>2
<1> QED BY <1>3
LEMMA MinIsLeast ==
  ASSUME NEW S, S \subseteq Nat, S # {}
  PROVE  Min(S) \in S /\ \A n \in S : Min(S) <= n
  BY LeastNatural DEF Min

LEMMA MaxIsGreatest ==
  ASSUME NEW S, S \subseteq Nat, NEW m \in S, \A n \in S : n <= m
  PROVE  Max(S) = m
<1>1. \A n \in S : m >= n
  OBVIOUS
<1>2. Max(S) \in S /\ \A n \in S : Max(S) >= n
  BY <1>1 DEF Max
<1>3. Max(S) \in Nat /\ m \in Nat /\ Max(S) >= m /\ m >= Max(S)
  BY <1>1, <1>2
<1> QED BY <1>3

(* A bounded one has a greatest element: the bound minus the least of the  *)
(* distances to it.                                                        *)
LEMMA BoundedHasMax ==
  ASSUME NEW b \in Nat, NEW S, S \subseteq 0..b, S # {}
  PROVE  Max(S) \in S /\ \A n \in S : n <= Max(S)
<1> DEFINE D == {d \in 0..b : b - d \in S}
<1>1. D \subseteq Nat
  OBVIOUS
<1>2. D # {}
  <2>1. PICK n \in S : TRUE
    OBVIOUS
  <2>2. b - n \in 0..b /\ b - (b - n) = n
    BY <2>1
  <2>3. b - n \in D
    BY <2>2
  <2> QED BY <2>3
<1>3. PICK d \in D : \A x \in D : d <= x
  BY <1>1, <1>2, LeastNatural
<1>4. b - d \in S
  BY <1>3
<1>5. ASSUME NEW n \in S PROVE n <= b - d
  <2>1. b - n \in 0..b /\ b - (b - n) = n
    BY <1>5
  <2>2. b - n \in D
    BY <2>1
  <2>3. d <= b - n /\ d \in Nat
    BY <1>3, <2>2
  <2> QED BY <2>1, <2>3
<1>6. Max(S) = b - d
  <2>1. S \subseteq Nat
    OBVIOUS
  <2> QED BY <1>4, <1>5, <2>1, MaxIsGreatest
<1> QED BY <1>4, <1>5, <1>6
-----------------------------------------------------------------------------
(* What Leaving leaves.                                               *)

(* t is what is left of the first n elements of s without those in S.      *)
IsLeftOf(t, s, S, n) ==
  /\ t \in Seq(ToSet(s) \ S)
  /\ \A p \in 1..n : s[p] \notin S => \E i \in 1..Len(t) : t[i] = s[p]
  /\ \A i \in 1..Len(t) : \E p \in 1..n : t[i] = s[p]
  /\ \A i, j \in 1..Len(t) : i < j =>
       \E p, q \in 1..n : p < q /\ t[i] = s[p] /\ t[j] = s[q]

OneMore(t, x, S) == IF x \in S THEN t ELSE Append(t, x)

(* The equation of Leaving's inner function, up to n.                 *)
KeepsUpTo(f, s, S, n) ==
  f = [i \in 0..n |->
         IF i = 0 THEN <<>>
         ELSE IF s[i] \in S THEN f[i - 1] ELSE Append(f[i - 1], s[i])]

LEMMA LeavingUnfolds ==
  ASSUME NEW s, NEW S
  PROVE  Leaving(s, S) = (CHOOSE f : KeepsUpTo(f, s, S, Len(s)))[Len(s)]
  BY Zenon DEF Leaving, KeepsUpTo

LEMMA KeepsEquation ==
  ASSUME NEW f, NEW s, NEW S, NEW n \in Nat, KeepsUpTo(f, s, S, n)
  PROVE  /\ f[0] = <<>>
         /\ \A i \in 1..n : f[i] = OneMore(f[i - 1], s[i], S)
<1>1. ASSUME NEW i \in 0..n
      PROVE  f[i] = IF i = 0 THEN <<>>
                    ELSE IF s[i] \in S THEN f[i - 1] ELSE Append(f[i - 1], s[i])
  BY Zenon DEF KeepsUpTo
<1>2. 0 \in 0..n /\ \A i \in 1..n : i \in 0..n /\ i # 0
  OBVIOUS
<1>3. f[0] = <<>>
  BY <1>1, <1>2
<1>4. ASSUME NEW i \in 1..n PROVE f[i] = OneMore(f[i - 1], s[i], S)
  BY <1>1, <1>2, Zenon DEF OneMore
<1> QED BY <1>3, <1>4

(* Such a function exists: it is built from the one up to n - 1.           *)
LEMMA KeepsExists ==
  ASSUME NEW s, NEW S, NEW n \in Nat
  PROVE  \E f : KeepsUpTo(f, s, S, n)
<1> DEFINE Bad == {m \in Nat : ~ \E f : KeepsUpTo(f, s, S, m)}
<1>1. SUFFICES ASSUME Bad # {} PROVE FALSE
  OBVIOUS
<1>2. PICK m \in Bad : \A k \in Bad : m <= k
  <2>1. Bad \subseteq Nat
    OBVIOUS
  <2> HIDE DEF Bad
  <2> QED BY <1>1, <2>1, LeastNatural
<1>3. m \in Nat /\ ~ \E f : KeepsUpTo(f, s, S, m)
  OBVIOUS
<1>4. CASE m = 0
  <2> DEFINE f == [i \in 0..0 |-> <<>>]
             g == [i \in 0..0 |->
                     IF i = 0 THEN <<>>
                     ELSE IF s[i] \in S THEN f[i - 1] ELSE Append(f[i - 1], s[i])]
  <2>1. \A i \in 0..0 : f[i] = g[i]
    OBVIOUS
  <2>2. f = g
    BY <2>1, Zenon
  <2>3. KeepsUpTo(f, s, S, 0)
    BY <2>2, Zenon DEF KeepsUpTo
  <2> QED BY <1>3, <1>4, <2>3, Zenon
<1>5. CASE m # 0
  <2>1. m - 1 \in Nat /\ m - 1 \notin Bad
    BY <1>2, <1>3, <1>5
  <2>2. PICK f : KeepsUpTo(f, s, S, m - 1)
    BY <2>1
  <2> DEFINE g == [i \in 0..m |-> IF i = m THEN OneMore(f[m - 1], s[m], S) ELSE f[i]]
             h == [i \in 0..m |->
                     IF i = 0 THEN <<>>
                     ELSE IF s[i] \in S THEN g[i - 1] ELSE Append(g[i - 1], s[i])]
  <2>3. f[0] = <<>> /\ \A i \in 1..(m - 1) : f[i] = OneMore(f[i - 1], s[i], S)
    BY <2>1, <2>2, KeepsEquation
  <2>4. ASSUME NEW i \in 0..m PROVE g[i] = h[i]
    <3>1. CASE i = 0
      BY <1>3, <1>5, <2>3, <3>1
    <3>2. CASE i = m /\ i # 0
      <4>1. m - 1 \in 0..m /\ m - 1 # m
        BY <1>3, <1>5
      <4>2. g[m - 1] = f[m - 1]
        BY <4>1
      <4> QED BY <3>2, <4>2 DEF OneMore
    <3>3. CASE i # m /\ i # 0
      <4>1. i - 1 \in 0..m /\ i - 1 # m /\ i \in 1..(m - 1)
        BY <1>3, <3>3
      <4>2. g[i - 1] = f[i - 1] /\ g[i] = f[i]
        BY <3>3, <4>1
      <4> QED BY <2>3, <3>3, <4>1, <4>2 DEF OneMore
    <3> QED BY <3>1, <3>2, <3>3
  <2>5. g = h
    BY <2>4, Zenon
  <2>6. KeepsUpTo(g, s, S, m)
    BY <2>5, Zenon DEF KeepsUpTo
  <2> QED BY <1>3, <2>6, Zenon
<1> QED BY <1>4, <1>5

(* One more element.                                                       *)
LEMMA OneMoreIsLeft ==
  ASSUME NEW T, NEW s \in Seq(T), NEW S, NEW n \in 1..Len(s), NEW t,
         IsLeftOf(t, s, S, n - 1)
  PROVE  IsLeftOf(OneMore(t, s[n], S), s, S, n)
<1>1. Len(s) \in Nat /\ n \in Nat /\ s[n] \in ToSet(s) /\ n - 1 \in Nat
      /\ 1..n = (1..(n - 1)) \cup {n}
  BY DEF ToSet
<1>2. t \in Seq(ToSet(s) \ S) /\ Len(t) \in Nat
  BY DEF IsLeftOf
<1>3. CASE s[n] \in S
  <2>1. OneMore(t, s[n], S) = t
    BY <1>3 DEF OneMore
  <2> QED BY <1>1, <1>3, <2>1 DEF IsLeftOf
<1>4. CASE s[n] \notin S
  <2> DEFINE u == Append(t, s[n])
  <2>1. OneMore(t, s[n], S) = u
    BY <1>4 DEF OneMore
  <2>2. /\ u \in Seq(ToSet(s) \ S) /\ Len(u) = Len(t) + 1
        /\ u[Len(t) + 1] = s[n] /\ \A i \in 1..Len(t) : u[i] = t[i]
    BY <1>1, <1>2, <1>4
  <2> HIDE DEF u
  <2>3. 1..Len(u) = (1..Len(t)) \cup {Len(t) + 1}
    BY <1>2, <2>2
  <2>4. ASSUME NEW p \in 1..n, s[p] \notin S PROVE \E i \in 1..Len(u) : u[i] = s[p]
    <3>1. CASE p = n
      BY <2>2, <2>3, <3>1
    <3>2. CASE p # n
      <4>1. PICK i \in 1..Len(t) : t[i] = s[p]
        BY <1>1, <2>4, <3>2 DEF IsLeftOf
      <4> QED BY <2>2, <2>3, <4>1
    <3> QED BY <3>1, <3>2
  <2>5. ASSUME NEW i \in 1..Len(u) PROVE \E p \in 1..n : u[i] = s[p]
    BY <1>1, <2>2, <2>3 DEF IsLeftOf
  <2>6. ASSUME NEW i \in 1..Len(u), NEW j \in 1..Len(u), i < j
        PROVE  \E p, q \in 1..n : p < q /\ u[i] = s[p] /\ u[j] = s[q]
    <3>1. i \in 1..Len(t)
      BY <1>2, <2>2, <2>6
    <3>2. CASE j \in 1..Len(t)
      <4>1. PICK p \in 1..(n - 1), q \in 1..(n - 1) : p < q /\ t[i] = s[p] /\ t[j] = s[q]
        BY <2>6, <3>1, <3>2 DEF IsLeftOf
      <4> QED BY <1>1, <2>2, <3>1, <3>2, <4>1
    <3>3. CASE j = Len(t) + 1
      <4>1. PICK p \in 1..(n - 1) : t[i] = s[p]
        BY <3>1 DEF IsLeftOf
      <4>2. p < n /\ p \in 1..n /\ n \in 1..n
        BY <1>1
      <4> QED BY <2>2, <3>1, <3>3, <4>1, <4>2
    <3> QED BY <2>3, <3>2, <3>3
  <2> QED BY <2>1, <2>2, <2>4, <2>5, <2>6 DEF IsLeftOf
<1> QED BY <1>3, <1>4

(* Leaving(s, S) is s without the elements of S, in the same order.   *)
LEMMA LeavingIsLeft ==
  ASSUME NEW T, NEW s \in Seq(T), NEW S
  PROVE  IsLeftOf(Leaving(s, S), s, S, Len(s))
<1> DEFINE f == CHOOSE f : KeepsUpTo(f, s, S, Len(s))
           Bad == {m \in 0..Len(s) : ~ IsLeftOf(f[m], s, S, m)}
<1>1. Len(s) \in Nat
  OBVIOUS
<1>2. KeepsUpTo(f, s, S, Len(s))
  BY <1>1, KeepsExists, Zenon
<1>3. Leaving(s, S) = f[Len(s)]
  BY LeavingUnfolds, Zenon
<1> HIDE DEF f
<1>4. f[0] = <<>> /\ \A i \in 1..Len(s) : f[i] = OneMore(f[i - 1], s[i], S)
  BY <1>1, <1>2, KeepsEquation
<1>5. SUFFICES ASSUME Bad # {} PROVE FALSE
  BY <1>1, <1>3
<1>6. PICK m \in Bad : \A k \in Bad : m <= k
  <2>1. Bad \subseteq Nat
    OBVIOUS
  <2> HIDE DEF Bad
  <2> QED BY <1>5, <2>1, LeastNatural
<1>7. m \in 0..Len(s) /\ ~ IsLeftOf(f[m], s, S, m)
  OBVIOUS
<1>8. CASE m = 0
  <2>1. <<>> \in Seq(ToSet(s) \ S) /\ Len(<<>>) = 0
    OBVIOUS
  <2>2. IsLeftOf(<<>>, s, S, 0)
    BY <2>1 DEF IsLeftOf
  <2> QED BY <1>4, <1>7, <1>8, <2>2
<1>9. CASE m # 0
  <2>1. m \in 1..Len(s) /\ m - 1 \in 0..Len(s) /\ m - 1 \notin Bad
    BY <1>1, <1>6, <1>7, <1>9
  <2>2. IsLeftOf(f[m - 1], s, S, m - 1)
    BY <2>1
  <2> QED BY <1>4, <1>7, <2>1, <2>2, OneMoreIsLeft
<1> QED BY <1>8, <1>9

(* t is s without its i-th element.                                        *)
IsWithoutPlace(t, s, i) ==
  \A j \in 1..(Len(s) - 1) : t[j] = IF j < i THEN s[j] ELSE s[j + 1]

(* What list.remove takes out is one element equal to x, if there is any.  *)
LEMMA FirstIsTakenOut ==
  ASSUME NEW T, NEW s \in Seq(T), NEW x
  PROVE  /\ RemoveFirst(s, x) \in Seq(T)
         /\ x \in ToSet(s) =>
              /\ Len(RemoveFirst(s, x)) = Len(s) - 1
              /\ \E i \in 1..Len(s) : s[i] = x /\ IsWithoutPlace(RemoveFirst(s, x), s, i)
<1> DEFINE I == {i \in 1..Len(s) : s[i] = x}
           t == RemoveFirst(s, x)
<1>1. Len(s) \in Nat /\ DOMAIN s = 1..Len(s)
  OBVIOUS
<1>2. CASE I = {}
  BY <1>1, <1>2 DEF RemoveFirst, ToSet
<1>3. CASE I # {}
  <2> DEFINE m == Min(I)
  <2>1. m \in I
    <3>1. I \subseteq Nat
      BY <1>1
    <3> HIDE DEF I
    <3> QED BY <1>3, <3>1, MinIsLeast
  <2>2. t = RemoveAt(s, m)
    BY <1>3 DEF RemoveFirst, SelectInSeq
  <2> HIDE DEF m, t
  <2>3. m \in 1..Len(s) /\ s[m] = x
    BY <2>1
  <2>4. t = SubSeq(s, 1, m - 1) \o SubSeq(s, m + 1, Len(s))
    BY <2>2 DEF RemoveAt
  <2>5. /\ t \in Seq(T) /\ Len(t) = Len(s) - 1
        /\ IsWithoutPlace(t, s, m)
    <3> DEFINE a == SubSeq(s, 1, m - 1)
               b == SubSeq(s, m + 1, Len(s))
    <3>1. /\ a \in Seq(T) /\ Len(a) = m - 1
          /\ \A j \in 1..(m - 1) : a[j] = s[j]
      BY <1>1, <2>3
    <3>2. /\ b \in Seq(T) /\ Len(b) = Len(s) - m
          /\ \A j \in 1..(Len(s) - m) : b[j] = s[m + j]
      <4>1. m + 1 \in Int /\ Len(s) \in Int /\ \A i \in (m + 1)..Len(s) : s[i] \in T
        BY <1>1, <2>3
      <4>2. /\ b \in Seq(T)
            /\ Len(b) = IF m + 1 <= Len(s) THEN Len(s) - (m + 1) + 1 ELSE 0
            /\ \A i \in 1..(Len(s) - (m + 1) + 1) : b[i] = s[(m + 1) + i - 1]
        BY <4>1, SubSeqProperties
      <4> HIDE DEF b
      <4>3. Len(b) = Len(s) - m
        <5>1. CASE m = Len(s)
          <6>1. ~(m + 1 <= Len(s)) /\ Len(s) - m = 0
            BY <1>1, <5>1
          <6> QED BY <4>2, <6>1
        <5>2. CASE m # Len(s)
          <6>1. m \in Int /\ Len(s) \in Int /\ m <= Len(s)
            BY <1>1, <2>3
          <6>2. m + 1 <= Len(s)
            BY <5>2, <6>1
          <6>3. Len(s) - (m + 1) + 1 = Len(s) - m
            BY <6>1
          <6> QED BY <4>2, <6>2, <6>3
        <5> QED BY <5>1, <5>2
      <4>4. ASSUME NEW j \in 1..(Len(s) - m) PROVE b[j] = s[m + j]
        <5>1. j \in 1..(Len(s) - (m + 1) + 1) /\ (m + 1) + j - 1 = m + j
          BY <1>1, <2>3
        <5> QED BY <4>2, <5>1
      <4> QED BY <4>2, <4>3, <4>4
    <3> HIDE DEF a, b
    <3>3. /\ a \o b \in Seq(T) /\ Len(a \o b) = Len(s) - 1
          /\ \A j \in 1..(Len(s) - 1) :
               (a \o b)[j] = IF j <= m - 1 THEN a[j] ELSE b[j - (m - 1)]
      <4>1. Len(a) + Len(b) = Len(s) - 1
        BY <1>1, <2>3, <3>1, <3>2
      <4> QED BY <3>1, <3>2, <4>1, ConcatProperties
    <3>4. ASSUME NEW j \in 1..(Len(s) - 1)
          PROVE  (a \o b)[j] = IF j < m THEN s[j] ELSE s[j + 1]
      <4>1. CASE j < m
        <5>1. j <= m - 1 /\ j \in 1..(m - 1)
          BY <1>1, <2>3, <4>1
        <5> QED BY <3>1, <3>3, <4>1, <5>1
      <4>2. CASE ~(j < m)
        <5>1. /\ ~(j <= m - 1) /\ j - (m - 1) \in 1..(Len(s) - m)
              /\ m + (j - (m - 1)) = j + 1
          BY <1>1, <2>3, <4>2
        <5> QED BY <3>2, <3>3, <4>2, <5>1
      <4> QED BY <4>1, <4>2
    <3> QED BY <2>4, <3>3, <3>4 DEF a, b, IsWithoutPlace
  <2> QED BY <2>3, <2>5 DEF t
<1> QED BY <1>2, <1>3

(* Ascending(S, n) lists S, every number once, the smaller ones first.     *)
LEMMA AscendingIsSorted ==
  ASSUME NEW n \in Nat, NEW S \in SUBSET (1..n)
  PROVE  /\ Ascending(S, n) \in Seq(S)
         /\ \A x \in S : \E i \in 1..Len(Ascending(S, n)) : Ascending(S, n)[i] = x
         /\ \A i, j \in 1..Len(Ascending(S, n)) :
              i < j => Ascending(S, n)[i] < Ascending(S, n)[j]
<1> DEFINE s == [i \in 1..n |-> i]
           t == Ascending(S, n)
<1>1. s \in Seq(1..n) /\ Len(s) = n /\ ToSet(s) = 1..n /\ \A p \in 1..n : s[p] = p
  BY DEF ToSet
<1> HIDE DEF s
<1>2. IsLeftOf(t, s, (1..n) \ S, n)
  BY <1>1, LeavingIsLeft DEF Ascending, s
<1> HIDE DEF t
<1>3. t \in Seq(S)
  <2>1. (1..n) \ ((1..n) \ S) = S
    OBVIOUS
  <2> QED BY <1>1, <1>2, <2>1 DEF IsLeftOf
<1>4. ASSUME NEW x \in S PROVE \E i \in 1..Len(t) : t[i] = x
  <2>1. x \in 1..n /\ s[x] = x /\ s[x] \notin (1..n) \ S
    BY <1>1
  <2> QED BY <1>2, <2>1 DEF IsLeftOf
<1>5. ASSUME NEW i \in 1..Len(t), NEW j \in 1..Len(t), i < j PROVE t[i] < t[j]
  <2>1. PICK p, q \in 1..n : p < q /\ t[i] = s[p] /\ t[j] = s[q]
    BY <1>2, <1>5 DEF IsLeftOf
  <2> QED BY <1>1, <2>1
<1> QED BY <1>3, <1>4, <1>5 DEF t

(* The keys in D in the order of the different numbers that b gives them.  *)
InOrder(D, b, n) ==
  LET revs == Ascending({b[k].rev : k \in D}, n)
  IN  [i \in 1..Len(revs) |-> CHOOSE k \in D : b[k].rev = revs[i]]

(* So a bucket's replay brings each of them once, the oldest first.        *)
LEMMA OldestFirst ==
  ASSUME NEW D, NEW b, NEW n \in Nat,
         \A k \in D : b[k].rev \in 1..n,
         \A k, l \in D : b[k].rev = b[l].rev => k = l
  PROVE  /\ InOrder(D, b, n) \in Seq(D)
         /\ \A k \in D : \E i \in 1..Len(InOrder(D, b, n)) : InOrder(D, b, n)[i] = k
         /\ \A i, j \in 1..Len(InOrder(D, b, n)) :
              i < j => b[InOrder(D, b, n)[i]].rev < b[InOrder(D, b, n)[j]].rev
<1> DEFINE S     == {b[k].rev : k \in D}
           revs  == Ascending(S, n)
           key(r) == CHOOSE k \in D : b[k].rev = r
           order == [i \in 1..Len(revs) |-> key(revs[i])]
<1>1. S \in SUBSET (1..n)
  OBVIOUS
<1>2. ASSUME NEW r \in S PROVE key(r) \in D /\ b[key(r)].rev = r
  <2>1. \E k \in D : b[k].rev = r
    OBVIOUS
  <2> QED BY <2>1
<1>3. ASSUME NEW k \in D PROVE b[k].rev \in S /\ key(b[k].rev) = k
  <2>1. b[k].rev \in S
    OBVIOUS
  <2>2. key(b[k].rev) \in D /\ b[key(b[k].rev)].rev = b[k].rev
    BY <1>2, <2>1
  <2> HIDE DEF key, S
  <2> QED BY <2>1, <2>2
<1> HIDE DEF key, S
<1>4. /\ revs \in Seq(S)
      /\ \A x \in S : \E i \in 1..Len(revs) : revs[i] = x
      /\ \A i, j \in 1..Len(revs) : i < j => revs[i] < revs[j]
  BY <1>1, AscendingIsSorted
<1> HIDE DEF revs
<1>5. Len(revs) \in Nat /\ \A i \in 1..Len(revs) : revs[i] \in S
  BY <1>4
<1>6. /\ order \in Seq(D) /\ Len(order) = Len(revs)
      /\ \A i \in 1..Len(order) : order[i] = key(revs[i])
  BY <1>2, <1>5
<1>7. order = InOrder(D, b, n)
  BY Zenon DEF InOrder, revs, S, key
<1> HIDE DEF order
<1>8. ASSUME NEW k \in D PROVE \E i \in 1..Len(order) : order[i] = k
  <2>1. PICK i \in 1..Len(revs) : revs[i] = b[k].rev
    BY <1>3, <1>4
  <2> QED BY <1>3, <1>6, <2>1
<1>9. ASSUME NEW i \in 1..Len(order), NEW j \in 1..Len(order), i < j
      PROVE  b[order[i]].rev < b[order[j]].rev
  <2>1. b[order[i]].rev = revs[i] /\ b[order[j]].rev = revs[j]
    BY <1>2, <1>5, <1>6
  <2> QED BY <1>4, <1>6, <1>9, <2>1
<1> QED BY <1>6, <1>7, <1>8, <1>9
=============================================================================
