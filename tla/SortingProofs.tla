----------------------------- MODULE SortingProofs -----------------------------
(***************************************************************************)
(* What sorting and slicing do, for every finite set and order, and the    *)
(* induction that the provers have: facts that the proofs of the search,   *)
(* the pipeline and the providers cite.                                    *)
(***************************************************************************)
EXTENDS Sorting, FiniteSetTheorems, SequenceTheorems, TLAPS

-----------------------------------------------------------------------------
(* Induction. *)

\* A nonempty set of naturals has a least element.
LEMMA LeastNat ==
  ASSUME NEW X \in SUBSET Nat, X # {}
  PROVE  \E n \in X : \A m \in X : n <= m
<1> DEFINE T == {0 .. n : n \in X}
           R == StrictSubsetOrdering(Nat)
           F == FiniteSubsetsOf(Nat)
<1>1. IsWellFoundedOn(R, F)
  BY FS_StrictSubsetOrderingWellFounded
<1>2. T \subseteq F /\ T # {}
  <2>1. \A n \in X : 0 .. n \in SUBSET Nat /\ IsFiniteSet(0 .. n)
    BY FS_Interval
  <2> QED BY <2>1 DEF FiniteSubsetsOf
<1>3. \E x \in T : \A y \in T : ~(<<y, x>> \in R)
  <2> HIDE DEF T, R, F
  <2> QED BY <1>1, <1>2, WFMin
<1>4. PICK n \in X : \A m \in X : ~(<<0 .. m, 0 .. n>> \in R)
  BY <1>3
<1>5. ASSUME NEW m \in X, m < n PROVE <<0 .. m, 0 .. n>> \in R
  <2>1. 0 .. m \in SUBSET Nat /\ 0 .. n \in SUBSET Nat /\ 0 .. m \subseteq 0 .. n
    BY <1>5
  <2>2. n \in 0 .. n /\ n \notin 0 .. m
    BY <1>5
  <2> QED BY <2>1, <2>2 DEF StrictSubsetOrdering
<1>6. \A m \in X : n <= m
  <2> HIDE DEF R
  <2>1. \A m \in X : ~(m < n)
    BY <1>4, <1>5
  <2> QED BY <2>1
<1> QED BY <1>6

\* The functions that start at x and take n of the steps g.
Runs(S, x, g, n) ==
    {h \in [0 .. n -> S] : h[0] = x /\ \A k \in 0 .. n - 1 : h[k + 1] = g[k][h[k]]}

LEMMA RunsExist ==
  ASSUME NEW S, NEW x \in S, NEW g \in [Nat -> [S -> S]], NEW n \in Nat
  PROVE  \E h : h \in Runs(S, x, g, n)
<1> DEFINE X == {m \in Nat : ~\E h : h \in Runs(S, x, g, m)}
<1> SUFFICES ASSUME X # {} PROVE FALSE
  OBVIOUS
<1>1. PICK m \in X : \A l \in X : m <= l
  <2>1. X \in SUBSET Nat
    OBVIOUS
  <2> HIDE DEF X
  <2> QED BY <2>1, LeastNat
<1>2. [k \in 0 .. 0 |-> x] \in Runs(S, x, g, 0)
  BY DEF Runs
<1>3. m # 0 /\ m - 1 \in Nat /\ m - 1 \notin X
  BY <1>1, <1>2
<1>4. PICK h : h \in Runs(S, x, g, m - 1)
  BY <1>3
<1> DEFINE f == [k \in 0 .. m |-> IF k < m THEN h[k] ELSE g[m - 1][h[m - 1]]]
<1>5. /\ h \in [0 .. m - 1 -> S] /\ h[0] = x
      /\ \A k \in 0 .. m - 1 - 1 : h[k + 1] = g[k][h[k]]
  BY <1>4 DEF Runs
<1>6. f \in [0 .. m -> S] /\ f[0] = x
  BY <1>3, <1>5
<1>7. ASSUME NEW k \in 0 .. m - 1 PROVE f[k + 1] = g[k][f[k]]
  <2>1. CASE k = m - 1
    BY <1>3, <2>1
  <2>2. CASE k # m - 1
    <3>1. k \in 0 .. m - 1 - 1 /\ k < m /\ k + 1 < m /\ k + 1 \in 0 .. m
      BY <1>3, <2>2
    <3> QED BY <1>5, <3>1
  <2> QED BY <2>1, <2>2
<1>8. f \in Runs(S, x, g, m)
  BY <1>6, <1>7 DEF Runs
<1> QED BY <1>1, <1>8

LEMMA RunsAgree ==
  ASSUME NEW S, NEW x \in S, NEW g \in [Nat -> [S -> S]], NEW n \in Nat, NEW m \in Nat,
         NEW h \in Runs(S, x, g, n), NEW f \in Runs(S, x, g, m),
         NEW k \in Nat, k <= n, k <= m
  PROVE  h[k] = f[k]
<1> DEFINE X == {l \in Nat : l <= n /\ l <= m /\ h[l] # f[l]}
<1> SUFFICES ASSUME X # {} PROVE FALSE
  OBVIOUS
<1>1. PICK l \in X : \A j \in X : l <= j
  <2>1. X \in SUBSET Nat
    OBVIOUS
  <2> HIDE DEF X
  <2> QED BY <2>1, LeastNat
<1>2. h[0] = x /\ f[0] = x
  BY DEF Runs
<1>3. l # 0 /\ l - 1 \in Nat /\ h[l - 1] = f[l - 1]
  BY <1>1, <1>2
<1>4. h[l - 1 + 1] = g[l - 1][h[l - 1]] /\ f[l - 1 + 1] = g[l - 1][f[l - 1]]
  BY <1>1, <1>3 DEF Runs
<1> QED BY <1>1, <1>3, <1>4

\* f starts at x and takes the steps g.
Takes(f, S, x, g) ==
    f \in [Nat -> S] /\ f[0] = x /\ \A k \in Nat : f[k + 1] = g[k][f[k]]

\* Definition by recursion.
LEMMA RecursionExists ==
  ASSUME NEW S, NEW x \in S, NEW g \in [Nat -> [S -> S]]
  PROVE  \E f : Takes(f, S, x, g)
<1> DEFINE run == [n \in Nat |-> CHOOSE h : h \in Runs(S, x, g, n)]
           f == [n \in Nat |-> run[n][n]]
<1>1. \A n \in Nat : run[n] \in Runs(S, x, g, n)
  BY RunsExist
<1> HIDE DEF run
<1>2. \A n \in Nat : run[n] \in [0 .. n -> S] /\ run[n][0] = x
  BY <1>1 DEF Runs
<1>3. f \in [Nat -> S] /\ f[0] = x
  BY <1>2
<1>4. ASSUME NEW k \in Nat PROVE f[k + 1] = g[k][f[k]]
  <2>1. k + 1 \in Nat /\ run[k + 1][k] = run[k][k]
    BY <1>1, RunsAgree
  <2>2. run[k + 1][k + 1] = g[k][run[k + 1][k]]
    <3>1. run[k + 1] \in Runs(S, x, g, k + 1)
      BY <1>1
    <3> QED BY <3>1 DEF Runs
  <2> QED BY <2>1, <2>2
<1> QED BY <1>3, <1>4 DEF Takes

-----------------------------------------------------------------------------
(* Ordering lists a finite set in the given order. *)

\* R orders S strictly and totally.
IsStrictOrder(S, R) ==
    /\ \A i \in S : <<i, i>> \notin R
    /\ \A i, j, k \in S : <<i, j>> \in R /\ <<j, k>> \in R => <<i, k>> \in R
    /\ \A i, j \in S : i = j \/ <<i, j>> \in R \/ <<j, i>> \in R

\* i and what comes before it, and how many these are.
UpTo(S, R, i) == {j \in S : j = i \/ <<j, i>> \in R}

PlaceIn(S, R, i) == Cardinality(UpTo(S, R, i))

\* Places are numbers from 1 to the size of the set, and grow with the order.
LEMMA PlacesFollowOrder ==
  ASSUME NEW S, IsFiniteSet(S), NEW R, IsStrictOrder(S, R)
  PROVE  /\ \A i \in S : PlaceIn(S, R, i) \in 1 .. Cardinality(S)
         /\ \A i, j \in S : <<i, j>> \in R => PlaceIn(S, R, i) < PlaceIn(S, R, j)
<1>1. Cardinality(S) \in Nat
  BY FS_CardinalityType
<1>2. ASSUME NEW i \in S
      PROVE  /\ IsFiniteSet(UpTo(S, R, i)) /\ i \in UpTo(S, R, i)
             /\ PlaceIn(S, R, i) \in 1 .. Cardinality(S)
  <2>1. UpTo(S, R, i) \in SUBSET S /\ i \in UpTo(S, R, i)
    BY DEF UpTo
  <2>2. IsFiniteSet(UpTo(S, R, i)) /\ Cardinality(UpTo(S, R, i)) <= Cardinality(S)
    BY <2>1, FS_Subset
  <2>3. Cardinality(UpTo(S, R, i)) \in Nat /\ Cardinality(UpTo(S, R, i)) # 0
    BY <2>1, <2>2, FS_CardinalityType, FS_EmptySet
  <2> QED BY <1>1, <2>1, <2>2, <2>3 DEF PlaceIn
<1>3. ASSUME NEW i \in S, NEW j \in S, <<i, j>> \in R
      PROVE  PlaceIn(S, R, i) < PlaceIn(S, R, j)
  <2>1. UpTo(S, R, i) \in SUBSET UpTo(S, R, j)
    BY <1>3 DEF UpTo, IsStrictOrder
  <2>2. j \notin UpTo(S, R, i)
    BY <1>3 DEF UpTo, IsStrictOrder
  <2>3. UpTo(S, R, i) # UpTo(S, R, j)
    BY <1>2, <2>2
  <2>4. /\ Cardinality(UpTo(S, R, i)) <= Cardinality(UpTo(S, R, j))
        /\ Cardinality(UpTo(S, R, i)) # Cardinality(UpTo(S, R, j))
    BY <1>2, <2>1, <2>3, FS_Subset
  <2> QED BY <1>1, <1>2, <2>4 DEF PlaceIn
<1> QED BY <1>2, <1>3

\* Ordering names every element of the set once, in order.
LEMMA OrderingSorts ==
  ASSUME NEW S, IsFiniteSet(S), NEW R, IsStrictOrder(S, R)
  PROVE  /\ Cardinality(S) \in Nat
         /\ Ordering(S, R) \in [1 .. Cardinality(S) -> S]
         /\ \A k, l \in 1 .. Cardinality(S) :
              k < l => <<Ordering(S, R)[k], Ordering(S, R)[l]>> \in R
         /\ \A i \in S : \E k \in 1 .. Cardinality(S) : Ordering(S, R)[k] = i
<1> DEFINE n == Cardinality(S)
           f == [i \in S |-> PlaceIn(S, R, i)]
           o == Ordering(S, R)
<1>1. n \in Nat
  BY FS_CardinalityType
<1>0. ASSUME NEW i \in S, NEW j \in S, PlaceIn(S, R, i) = PlaceIn(S, R, j) PROVE i = j
  <2>1. PlaceIn(S, R, i) \in 1 .. n
    BY PlacesFollowOrder
  <2>2. ~(<<i, j>> \in R) /\ ~(<<j, i>> \in R)
    BY <1>0, <1>1, <2>1, PlacesFollowOrder
  <2> QED BY <2>2 DEF IsStrictOrder
<1>2. f \in Injection(S, 1 .. n)
  <2>1. f \in [S -> 1 .. n]
    BY PlacesFollowOrder
  <2>2. ASSUME NEW i \in S, NEW j \in S, f[i] = f[j] PROVE i = j
    BY <1>0, <2>2
  <2> QED BY <2>1, <2>2 DEF Injection, IsInjective
<1>3. f \in Surjection(S, 1 .. n)
  <2>1. IsFiniteSet(1 .. n) /\ Cardinality(1 .. n) = n
    BY <1>1, FS_Interval
  <2> QED BY <1>2, <2>1, FS_Injection
<1>4. \A k \in 1 .. n : \E i \in S : PlaceIn(S, R, i) = k
  BY <1>3 DEF Surjection
<1>5. o = [k \in 1 .. n |-> CHOOSE i \in S : PlaceIn(S, R, i) = k]
  BY DEF Ordering, PlaceIn, UpTo
<1> HIDE DEF n, f, o
<1>6. \A k \in 1 .. n : o[k] \in S /\ PlaceIn(S, R, o[k]) = k
  BY <1>4, <1>5
<1>7. o \in [1 .. n -> S]
  BY <1>5, <1>6
<1>8. ASSUME NEW k \in 1 .. n, NEW l \in 1 .. n, k < l
      PROVE  <<o[k], o[l]>> \in R
  <2>1. o[k] # o[l] /\ ~(<<o[l], o[k]>> \in R)
    BY <1>1, <1>6, <1>8, PlacesFollowOrder
  <2> QED BY <1>6, <1>8, <2>1 DEF IsStrictOrder
<1>9. ASSUME NEW i \in S PROVE \E k \in 1 .. n : o[k] = i
  <2>1. PlaceIn(S, R, i) \in 1 .. n
    BY PlacesFollowOrder DEF n
  <2>2. o[PlaceIn(S, R, i)] = i
    BY <1>0, <1>6, <2>1
  <2> QED BY <2>1, <2>2
<1> QED BY <1>1, <1>7, <1>8, <1>9 DEF n, o

-----------------------------------------------------------------------------
(* A stable sort, cut. *)

LEMMA ByKeyOrders ==
  ASSUME NEW S, S \subseteq Nat, NEW key, \A i \in S : key[i] \in Int
  PROVE  IsStrictOrder(S, ByKey(S, key))
<1> DEFINE R == ByKey(S, key)
<1>1. \A i, j \in S : <<i, j>> \in R <=>
                        key[i] < key[j] \/ (key[i] = key[j] /\ i < j)
  BY DEF ByKey
<1> HIDE DEF R
<1>2. \A i \in S : i \in Int /\ key[i] \in Int
  OBVIOUS
<1> QED BY <1>1, <1>2 DEF IsStrictOrder, R

\* s is positions in S, none twice, by key, at most n; what it leaves out is behind
\* all of it, and then n positions are left.
Leads(s, S, key, n) ==
    \E m \in 0 .. n :
      /\ s \in [1 .. m -> S]
      /\ \A k, l \in 1 .. m : s[k] = s[l] => k = l
      /\ \A k, l \in 1 .. m : k < l => key[s[k]] <= key[s[l]]
      /\ \A i \in S : \/ \E k \in 1 .. m : s[k] = i
                      \/ m = n /\ \A k \in 1 .. m : key[s[k]] <= key[i]

LEMMA LeadingSorts ==
  ASSUME NEW S, S \subseteq Nat, IsFiniteSet(S), NEW n \in Nat,
         NEW key, \A i \in S : key[i] \in Int
  PROVE  Leads(Leading(S, key, n), S, key, n)
<1> DEFINE R == ByKey(S, key)
           o == Ordering(S, R)
           c == Cardinality(S)
           s == Leading(S, key, n)
<1>1. IsStrictOrder(S, R)
  BY ByKeyOrders
<1>2. /\ c \in Nat /\ o \in [1 .. c -> S]
      /\ \A k, l \in 1 .. c : k < l => <<o[k], o[l]>> \in R
      /\ \A i \in S : \E k \in 1 .. c : o[k] = i
  BY <1>1, OrderingSorts
<1>3. \A i, j \in S : <<i, j>> \in R => key[i] <= key[j] /\ i # j
  <2>1. \A i \in S : <<i, i>> \notin R
    BY <1>1 DEF IsStrictOrder
  <2> QED BY <2>1 DEF ByKey
<1>4. s = [k \in {k \in DOMAIN o : k <= n} |-> o[k]]
  BY DEF Leading
<1> HIDE DEF R, o, c, s
<1>5. PICK m \in 0 .. n : m <= c /\ (m = n \/ m = c)
  <2>1. CASE c <= n
    BY <1>2, <2>1
  <2>2. CASE n < c
    BY <1>2, <2>2
  <2> QED BY <1>2, <2>1, <2>2
<1>6. {k \in DOMAIN o : k <= n} = 1 .. m
  BY <1>2, <1>5
<1>7. s = [k \in 1 .. m |-> o[k]]
  BY <1>4, <1>6
<1>8. \A k \in 1 .. m : k \in 1 .. c /\ s[k] = o[k] /\ o[k] \in S
  BY <1>2, <1>5, <1>7
<1>9. ASSUME NEW k \in 1 .. m, NEW l \in 1 .. m, k < l
      PROVE  key[s[k]] <= key[s[l]] /\ s[k] # s[l]
  BY <1>2, <1>3, <1>8, <1>9
<1>10. ASSUME NEW k \in 1 .. m, NEW l \in 1 .. m, s[k] = s[l] PROVE k = l
  <2>1. ~(k < l) /\ ~(l < k)
    BY <1>9, <1>10
  <2> QED BY <1>5, <2>1
<1>11. ASSUME NEW i \in S, ~\E k \in 1 .. m : s[k] = i
       PROVE  m = n /\ \A k \in 1 .. m : key[s[k]] <= key[i]
  <2>1. PICK l \in 1 .. c : o[l] = i
    BY <1>2
  <2>2. l \notin 1 .. m
    BY <1>8, <1>11, <2>1
  <2>3. m < l /\ m = n
    BY <1>2, <1>5, <2>2
  <2>4. ASSUME NEW k \in 1 .. m PROVE key[s[k]] <= key[i]
    <3>1. k < l /\ k \in 1 .. c
      BY <1>5, <1>8, <2>3
    <3> QED BY <1>2, <1>3, <1>8, <2>1, <3>1
  <2> QED BY <2>3, <2>4
<1>12. s \in [1 .. m -> S]
  BY <1>7, <1>8
<1> QED BY <1>9, <1>10, <1>11, <1>12 DEF s, Leads

\* If at least n positions have a key of at most b, then n positions are left,
\* and none of them has a greater one.
LEMMA LeadingIsFull ==
  ASSUME NEW S, S \subseteq Nat, IsFiniteSet(S), NEW n \in Nat,
         NEW key, \A i \in S : key[i] \in Int,
         NEW b \in Int, NEW f \in Injection(1 .. n, {i \in S : key[i] <= b})
  PROVE  /\ DOMAIN Leading(S, key, n) = 1 .. n
         /\ \A k \in 1 .. n : key[Leading(S, key, n)[k]] <= b
<1> DEFINE s == Leading(S, key, n)
           Low == {i \in S : key[i] <= b}
<1>1. PICK m \in 0 .. n :
         /\ s \in [1 .. m -> S]
         /\ \A k, l \in 1 .. m : s[k] = s[l] => k = l
         /\ \A k, l \in 1 .. m : k < l => key[s[k]] <= key[s[l]]
         /\ \A i \in S : \/ \E k \in 1 .. m : s[k] = i
                         \/ m = n /\ \A k \in 1 .. m : key[s[k]] <= key[i]
  BY LeadingSorts DEF Leads
<1> HIDE DEF s
\* Were an element of Low left out, the rest would hold.
<1>2. CASE \E i \in Low : ~\E k \in 1 .. m : s[k] = i
  <2>1. PICK i \in Low : ~\E k \in 1 .. m : s[k] = i
    BY <1>2
  <2>2. m = n /\ \A k \in 1 .. m : key[s[k]] <= key[i]
    BY <1>1, <2>1
  <2>3. \A k \in 1 .. m : key[s[k]] \in Int /\ key[i] \in Int /\ key[i] <= b
    BY <1>1, <2>1
  <2> QED BY <1>1, <2>2, <2>3 DEF s
\* Else Low is mapped into the places of s, and n places hold it.
<1>3. CASE \A i \in Low : \E k \in 1 .. m : s[k] = i
  <2> DEFINE P == {k \in 1 .. m : s[k] \in Low}
             g == [j \in 1 .. n |-> CHOOSE k \in 1 .. m : s[k] = f[j]]
  <2>1. \A j \in 1 .. n : f[j] \in Low
    BY DEF Injection
  <2>2. \A j \in 1 .. n : g[j] \in P /\ s[g[j]] = f[j]
    BY <1>3, <2>1
  <2>3. \A j, l \in 1 .. n : f[j] = f[l] => j = l
    BY DEF Injection, IsInjective
  <2> HIDE DEF g
  <2>4. g \in Injection(1 .. n, P)
    <3>1. g \in [1 .. n -> P]
      BY <2>2 DEF g
    <3>2. \A j, l \in 1 .. n : g[j] = g[l] => j = l
      BY <2>2, <2>3
    <3> HIDE DEF P
    <3> QED BY <3>1, <3>2 DEF Injection, IsInjective
  <2>5. IsFiniteSet(1 .. m) /\ Cardinality(1 .. m) = m
    BY FS_Interval
  <2>6. IsFiniteSet(1 .. n) /\ Cardinality(1 .. n) = n
    BY FS_Interval
  <2>7. /\ IsFiniteSet(P) /\ Cardinality(P) \in Nat /\ Cardinality(P) <= m
        /\ Cardinality(P) = m => P = 1 .. m
    <3>1. P \in SUBSET (1 .. m)
      OBVIOUS
    <3> HIDE DEF P
    <3> QED BY <3>1, <2>5, FS_Subset, FS_CardinalityType
  <2>8. n <= Cardinality(P)
    <3> HIDE DEF P
    <3> QED BY <2>4, <2>6, <2>7, FS_Injection
  <2>9. m = n /\ P = 1 .. m
    <3> HIDE DEF P
    <3> QED BY <2>7, <2>8
  <2> QED BY <1>1, <2>9 DEF s
<1> QED BY <1>2, <1>3

\* A function on 1 .. m is a sequence of length m.
LEMMA FunctionIsSeq ==
  ASSUME NEW S, NEW m \in Nat, NEW f \in [1 .. m -> S]
  PROVE  f \in Seq(S) /\ Len(f) = m
<1>1. f \in Seq(S)
  BY SeqDef
<1>2. Len(f) \in Nat /\ 1 .. Len(f) = 1 .. m
  BY <1>1, LenProperties
<1> QED BY <1>1, <1>2

================================================================================
