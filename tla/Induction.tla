----------------------------- MODULE Induction -----------------------------
(***************************************************************************)
(* What the proofs of this project need of finite sets and of the natural  *)
(* numbers, with sets in the place of predicates: minimal elements,        *)
(* induction, and that what a recursive definition describes exists.       *)
(***************************************************************************)
EXTENDS Naturals, Sequences, FiniteSets, FiniteSetTheorems, Ordering, TLAPS

(* What a strict order leaves nothing below: the induction is that of      *)
(* strict inclusion, over what is below each element.                      *)
LEMMA MinimalOf ==
  ASSUME NEW S, IsFiniteSet(S), S # {}, NEW R,
         \A x \in S : <<x, x>> \notin R,
         \A x, y, z \in S : <<x, y>> \in R /\ <<y, z>> \in R => <<x, z>> \in R
  PROVE  \E x \in S : \A y \in S : <<y, x>> \notin R
<1> DEFINE Below(x) == {y \in S : <<y, x>> \in R}
           T == {Below(x) : x \in S}
<1>1. T \subseteq FiniteSubsetsOf(S) /\ T # {}
  <2>1. ASSUME NEW x \in S PROVE IsFiniteSet(Below(x)) /\ Below(x) \in SUBSET S
    BY FS_Subset
  <2>2. PICK x \in S : TRUE
    OBVIOUS
  <2>3. Below(x) \in T
    OBVIOUS
  <2>4. ASSUME NEW U \in T PROVE U \in FiniteSubsetsOf(S)
    <3>1. PICK y \in S : U = Below(y)
      OBVIOUS
    <3> HIDE DEF Below
    <3> QED  BY <2>1, <3>1 DEF FiniteSubsetsOf
  <2> QED  BY <2>3, <2>4
<1>2. PICK U \in T : \A V \in T : <<V, U>> \notin StrictSubsetOrdering(S)
  <2> HIDE DEF T
  <2> QED  BY <1>1, FS_StrictSubsetOrderingWellFounded, WFMin
<1>3. PICK x \in S : U = Below(x)
  OBVIOUS
<1>4. ASSUME NEW y \in S, <<y, x>> \in R PROVE FALSE
  <2>1. Below(y) \subseteq Below(x) /\ y \in Below(x) /\ y \notin Below(y)
    BY <1>4
  <2>2. <<Below(y), Below(x)>> \in StrictSubsetOrdering(S)
    BY <2>1 DEF StrictSubsetOrdering
  <2>3. Below(y) \in T
    OBVIOUS
  <2> QED  BY <1>2, <1>3, <2>2, <2>3
<1> QED  BY <1>4

LEMMA LeastIn ==
  ASSUME NEW S \in SUBSET Nat, IsFiniteSet(S), S # {}
  PROVE  \E x \in S : \A y \in S : x <= y
<1> DEFINE R == {xy \in S \X S : xy[1] < xy[2]}
<1>1. \A x, y : <<x, y>> \in R <=> x \in S /\ y \in S /\ x < y
  OBVIOUS
<1> HIDE DEF R
<1>2. \A x \in S : x \in Nat
  OBVIOUS
<1>3. PICK x \in S : \A y \in S : <<y, x>> \notin R
  <2>1. \A x \in S : <<x, x>> \notin R
    BY <1>1, <1>2
  <2>2. \A x, y, z \in S : <<x, y>> \in R /\ <<y, z>> \in R => <<x, z>> \in R
    BY <1>1, <1>2
  <2> QED  BY <2>1, <2>2, MinimalOf
<1>4. ASSUME NEW y \in S PROVE x <= y
  <2>1. x \in Nat /\ y \in Nat /\ <<y, x>> \notin R
    BY <1>2, <1>3
  <2> QED  BY <1>1, <2>1
<1> QED  BY <1>4

LEMMA GreatestIn ==
  ASSUME NEW S \in SUBSET Nat, IsFiniteSet(S), S # {}
  PROVE  \E x \in S : \A y \in S : y <= x
<1> DEFINE R == {xy \in S \X S : xy[2] < xy[1]}
<1>1. \A x, y : <<x, y>> \in R <=> x \in S /\ y \in S /\ y < x
  OBVIOUS
<1> HIDE DEF R
<1>2. \A x \in S : x \in Nat
  OBVIOUS
<1>3. PICK x \in S : \A y \in S : <<y, x>> \notin R
  <2>1. \A x \in S : <<x, x>> \notin R
    BY <1>1, <1>2
  <2>2. \A x, y, z \in S : <<x, y>> \in R /\ <<y, z>> \in R => <<x, z>> \in R
    BY <1>1, <1>2
  <2> QED  BY <2>1, <2>2, MinimalOf
<1>4. ASSUME NEW y \in S PROVE y <= x
  <2>1. x \in Nat /\ y \in Nat /\ <<y, x>> \notin R
    BY <1>2, <1>3
  <2> QED  BY <1>1, <2>1
<1> QED  BY <1>4

(* Of any set of natural numbers, finite or not.                           *)
LEMMA LeastNatural ==
  ASSUME NEW S \in SUBSET Nat, S # {}
  PROVE  \E x \in S : \A y \in S : x <= y
<1>1. PICK n \in S : TRUE
  OBVIOUS
<1> DEFINE T == {x \in S : x <= n}
<1>2. T \in SUBSET Nat /\ n \in T
  <2>1. n \in Nat /\ n <= n
    BY <1>1
  <2> QED  BY <1>1, <2>1
<1>3. IsFiniteSet(T)
  <2>1. IsFiniteSet(0 .. n)
    <3>1. 0 \in Int /\ n \in Int
      BY <1>2
    <3> QED  BY <3>1, FS_Interval
  <2>2. T \subseteq 0 .. n
    BY <1>2
  <2> QED  BY <2>1, <2>2, FS_Subset
<1> HIDE DEF T
<1>4. PICK x \in T : \A y \in T : x <= y
  BY <1>2, <1>3, LeastIn
<1>5. x \in S /\ x <= n
  BY <1>4 DEF T
<1>6. \A y \in S : x <= y
  <2> TAKE y \in S
  <2>1. CASE y <= n
    BY <1>4, <2>1 DEF T
  <2>2. CASE ~(y <= n)
    BY <1>1, <1>5, <2>2
  <2> QED  BY <2>1, <2>2
<1> QED  BY <1>5, <1>6

-----------------------------------------------------------------------------
(* Natural numbers.                                                        *)

(* Induction: the least number outside of the set is not 0, and the one    *)
(* below it is in the set.                                                 *)
LEMMA NaturalInduction ==
  ASSUME NEW S, 0 \in S, \A n \in Nat : n \in S => n + 1 \in S
  PROVE  \A n \in Nat : n \in S
<1> SUFFICES ASSUME NEW n \in Nat, n \notin S PROVE FALSE
  OBVIOUS
<1> DEFINE T == {k \in 0 .. n : k \notin S}
<1>1. T \in SUBSET Nat /\ IsFiniteSet(T) /\ n \in T
  <2>1. IsFiniteSet(0 .. n)
    BY FS_Interval, SMT
  <2>2. T \subseteq 0 .. n
    OBVIOUS
  <2>3. IsFiniteSet(T)
    <3> HIDE DEF T
    <3> QED  BY <2>1, <2>2, FS_Subset
  <2> QED  BY <2>3
<1>2. PICK k \in T : \A m \in T : k <= m
  BY <1>1, LeastIn
<1>3. k \in 1 .. n /\ k - 1 \in Nat
  OBVIOUS
<1>4. k - 1 \in S
  BY <1>2, <1>3
<1> QED  BY <1>3, <1>4

LEMMA BoundedInduction ==
  ASSUME NEW N \in Nat, NEW S, 0 \in S, \A n \in 1 .. N : n - 1 \in S => n \in S
  PROVE  \A n \in 0 .. N : n \in S
<1> DEFINE T == {n \in Nat : n <= N => n \in S}
<1>1. 0 \in T
  OBVIOUS
<1>2. ASSUME NEW n \in Nat, n \in T PROVE n + 1 \in T
  <2>1. CASE n + 1 <= N
    <3>1. n + 1 \in 1 .. N /\ n \in S /\ n + 1 - 1 = n
      BY <1>2, <2>1
    <3> QED  BY <3>1
  <2> QED  BY <2>1
<1>3. \A n \in Nat : n \in T
  <2> HIDE DEF T
  <2> QED  BY <1>1, <1>2, NaturalInduction
<1> QED  BY <1>3

(* What each value of V leads to, and that a function follows it from a.   *)
Steps(V) == [Nat \X V -> V]
IsFollowed(V, a, step) ==
  \E g \in [Nat -> V] : g[0] = a /\ \A n \in Nat : g[n + 1] = step[<<n, g[n]>>]

(* From a first value, and from what each value leads to, there is a       *)
(* function that follows them: every two of its beginnings agree.          *)
LEMMA Recursion ==
  ASSUME NEW V, NEW a \in V, NEW step \in Steps(V)
  PROVE  IsFollowed(V, a, step)
<1> SUFFICES \E g \in [Nat -> V] : g[0] = a /\ \A n \in Nat : g[n + 1] = step[<<n, g[n]>>]
  BY DEF IsFollowed
<1>0. step \in [Nat \X V -> V]
  BY DEF Steps
<1> DEFINE Follows(f, n) == /\ f \in [0 .. n -> V] /\ f[0] = a
                            /\ \A k \in 0 .. n - 1 : f[k + 1] = step[<<k, f[k]>>]
           S == {n \in Nat : \E f : Follows(f, n)}
           g == [n \in Nat |-> (CHOOSE f : Follows(f, n))[n]]
<1>1. \A n \in Nat : n \in S
  <2>1. 0 \in S
    <3>1. Follows([k \in 0 .. 0 |-> a], 0)
      OBVIOUS
    <3> QED  BY <3>1
  <2>2. ASSUME NEW n \in Nat, n \in S PROVE n + 1 \in S
    <3>1. PICK f : Follows(f, n)
      BY <2>2
    <3> DEFINE h == [k \in 0 .. n + 1 |-> IF k = n + 1 THEN step[<<n, f[n]>>] ELSE f[k]]
    <3>2. step[<<n, f[n]>>] \in V
      BY <1>0, <3>1
    <3>3. h \in [0 .. n + 1 -> V] /\ h[0] = a
      BY <3>1, <3>2
    <3>4. ASSUME NEW k \in 0 .. n + 1 - 1 PROVE h[k + 1] = step[<<k, h[k]>>]
      <4>1. h[k] = f[k] /\ k \in Nat
        OBVIOUS
      <4>2. CASE k = n
        <5>1. h[n + 1] = step[<<n, f[n]>>]
          OBVIOUS
        <5> QED  BY ONLY <4>1, <4>2, <5>1
      <4>3. CASE k # n
        <5>1. k \in 0 .. n - 1 /\ k + 1 \in 0 .. n + 1 /\ k + 1 # n + 1
          BY <4>3
        <5>2. h[k + 1] = f[k + 1]
          BY <5>1
        <5>3. f[k + 1] = step[<<k, f[k]>>]
          BY <3>1, <5>1
        <5> QED  BY <4>1, <5>2, <5>3
      <4> QED  BY <4>2, <4>3
    <3> HIDE DEF h
    <3> QED  BY <3>3, <3>4
  <2> HIDE DEF S
  <2> QED  BY <2>1, <2>2, NaturalInduction
<1>2. ASSUME NEW n \in Nat, NEW m \in Nat, NEW f, NEW h, Follows(f, n), Follows(h, m), n <= m
      PROVE  \A k \in 0 .. n : f[k] = h[k]
  <2> DEFINE K == {k \in 0 .. n : f[k] = h[k]}
  <2>1. 0 \in K
    BY <1>2
  <2>2. ASSUME NEW k \in 1 .. n, k - 1 \in K PROVE k \in K
    <3>1. k - 1 \in 0 .. n - 1 /\ k - 1 \in 0 .. m - 1 /\ k - 1 + 1 = k
      BY <1>2
    <3>2. f[k] = step[<<k - 1, f[k - 1]>>] /\ h[k] = step[<<k - 1, h[k - 1]>>]
      BY <1>2, <3>1
    <3> QED  BY <2>2, <3>2
  <2>3. \A k \in 0 .. n : k \in K
    <3> HIDE DEF K
    <3> QED  BY <2>1, <2>2, BoundedInduction
  <2> QED  BY <2>3
<1>3. ASSUME NEW n \in Nat PROVE Follows(CHOOSE f : Follows(f, n), n)
  <2>1. \E f : Follows(f, n)
    BY <1>1
  <2> HIDE DEF Follows
  <2> QED  BY <2>1
<1>4. g \in [Nat -> V] /\ g[0] = a
  <2>1. ASSUME NEW n \in Nat PROVE g[n] \in V
    BY <1>0, <1>3
  <2>2. g[0] = a
    BY <1>3
  <2> QED  BY <2>1, <2>2
<1>5. ASSUME NEW n \in Nat PROVE g[n + 1] = step[<<n, g[n]>>]
  <2> DEFINE f == CHOOSE f : Follows(f, n)
             h == CHOOSE h : Follows(h, n + 1)
  <2>1. Follows(f, n) /\ Follows(h, n + 1)
    <3>1. n + 1 \in Nat
      OBVIOUS
    <3> HIDE DEF Follows
    <3>2. Follows(f, n)
      BY <1>3
    <3>3. Follows(h, n + 1)
      BY <1>3, <3>1
    <3> QED  BY <3>2, <3>3
  <2>2. g[n] = f[n] /\ g[n + 1] = h[n + 1]
    OBVIOUS
  <2> HIDE DEF f, h, g
  <2>3. f[n] = h[n]
    BY <1>2, <2>1
  <2>4. h[n + 1] = step[<<n, h[n]>>]
    BY <2>1
  <2> QED  BY <2>2, <2>3, <2>4
<1> HIDE DEF g
<1> QED  BY <1>4, <1>5

(* The same for a function of the numbers up to N, which is what a scan of *)
(* a text or a sequence is.                                                *)
StepsUpTo(N, V) == [(1 .. N) \X V -> V]
IsFollowedUpTo(N, V, a, step) ==
  \E g \in [0 .. N -> V] : g[0] = a /\ \A n \in 1 .. N : g[n] = step[<<n, g[n - 1]>>]

LEMMA BoundedRecursion ==
  ASSUME NEW N \in Nat, NEW V, NEW a \in V, NEW step \in StepsUpTo(N, V)
  PROVE  IsFollowedUpTo(N, V, a, step)
<1> SUFFICES \E g \in [0 .. N -> V] : g[0] = a /\ \A n \in 1 .. N : g[n] = step[<<n, g[n - 1]>>]
  BY DEF IsFollowedUpTo
<1>0. step \in [(1 .. N) \X V -> V]
  BY DEF StepsUpTo
<1> DEFINE further == [nv \in Nat \X V |-> IF nv[1] < N THEN step[<<nv[1] + 1, nv[2]>>] ELSE nv[2]]
<1>1. further \in [Nat \X V -> V]
  <2>1. ASSUME NEW n \in Nat, NEW v \in V PROVE further[<<n, v>>] \in V
    <3>1. n < N => n + 1 \in 1 .. N
      OBVIOUS
    <3> QED  BY <1>0, <3>1
  <2> QED  BY <2>1
<1>2. \A n \in Nat, v \in V : n < N => further[<<n, v>>] = step[<<n + 1, v>>]
  OBVIOUS
<1> HIDE DEF further
<1>3. PICK g \in [Nat -> V] : g[0] = a /\ \A n \in Nat : g[n + 1] = further[<<n, g[n]>>]
  <2>1. \E g \in [Nat -> V] : g[0] = a /\ \A n \in Nat : g[n + 1] = further[<<n, g[n]>>]
    <3>1. further \in Steps(V)
      BY <1>1 DEF Steps
    <3>2. IsFollowed(V, a, further)
      BY <3>1, Recursion
    <3> QED  BY <3>2 DEF IsFollowed
  <2> QED  BY <2>1
<1> DEFINE h == [n \in 0 .. N |-> g[n]]
<1>4. h \in [0 .. N -> V] /\ h[0] = a
  BY <1>3
<1>5. ASSUME NEW n \in 1 .. N PROVE h[n] = step[<<n, h[n - 1]>>]
  <2>1. n - 1 \in Nat /\ n - 1 < N /\ n - 1 + 1 = n /\ g[n - 1] \in V
    OBVIOUS
  <2>2. g[n] = step[<<n, g[n - 1]>>]
    BY <1>2, <1>3, <2>1
  <2>3. h[n] = g[n] /\ h[n - 1] = g[n - 1]
    BY <2>1
  <2> HIDE DEF h
  <2> QED  BY <2>2, <2>3
<1> HIDE DEF h
<1> QED  BY <1>4, <1>5
-----------------------------------------------------------------------------
(* A strict order of a finite set arranges it.                             *)

Orders(R, S) ==
  /\ R \subseteq S \X S
  /\ \A x \in S : <<x, x>> \notin R
  /\ \A x, y, z \in S : <<x, y>> \in R /\ <<y, z>> \in R => <<x, z>> \in R
  /\ \A x, y \in S : x = y \/ <<x, y>> \in R \/ <<y, x>> \in R

Arranges(list, S, R) ==
  /\ list \in Seq(S) /\ Len(list) = Cardinality(S)
  /\ \A x \in S : \E i \in 1 .. Len(list) : list[i] = x
  /\ \A i, j \in 1 .. Len(list) : i < j => <<list[i], list[j]>> \in R

LEMMA OrderArranges ==
  ASSUME NEW S, IsFiniteSet(S), NEW R, Orders(R, S)
  PROVE  Arranges(Arranged(S, [x \in S |-> Cardinality({y \in S : <<y, x>> \in R})]), S, R)
<1> DEFINE Below(x) == {y \in S : <<y, x>> \in R}
           e == [x \in S |-> Cardinality(Below(x))]
           n == Cardinality(S)
           list == Arranged(S, e)
<1>1. n \in Nat
  BY FS_CardinalityType
<1>0. /\ \A x \in S : e[x] = Cardinality(Below(x))
      /\ DOMAIN e = S /\ e = [x \in S |-> e[x]]
      /\ list = [i \in 1 .. n |-> CHOOSE x \in S : e[x] = i - 1]
  BY DEF Arranged
<1> HIDE DEF e, n, list
<1>2. ASSUME NEW x \in S PROVE IsFiniteSet(Below(x)) /\ e[x] \in Nat /\ e[x] < n
  <2>1. Below(x) \in SUBSET S /\ x \notin Below(x)
    BY DEF Orders
  <2>2. IsFiniteSet(Below(x)) /\ Cardinality(Below(x)) <= n /\ (n = Cardinality(Below(x)) => S = Below(x))
    BY <2>1, FS_Subset DEF n
  <2>3. Cardinality(Below(x)) \in Nat
    BY <2>2, FS_CardinalityType
  <2> QED  BY <1>0, <1>1, <2>1, <2>2, <2>3
<1>10. \A x \in S : e[x] \in Nat /\ e[x] < n
  BY <1>2
<1> HIDE DEF Below
<1>3. ASSUME NEW x \in S, NEW y \in S, <<x, y>> \in R PROVE e[x] < e[y]
  <2>1. Below(x) \in SUBSET Below(y)
    BY <1>3 DEF Below, Orders
  <2>2. x \in Below(y) /\ x \notin Below(x)
    BY <1>3 DEF Below, Orders
  <2>3. IsFiniteSet(Below(y))
    BY <1>2
  <2>4. Cardinality(Below(x)) <= Cardinality(Below(y)) /\ Cardinality(Below(x)) # Cardinality(Below(y))
    BY <2>1, <2>2, <2>3, FS_Subset
  <2>5. e[x] \in Nat /\ e[y] \in Nat /\ e[x] <= e[y] /\ e[x] # e[y]
    BY <1>0, <1>10, <2>4
  <2> QED  BY <2>5
<1>4. \A x, y \in S : e[x] = e[y] => x = y
  <2> TAKE x, y \in S
  <2>1. e[x] \in Nat /\ e[y] \in Nat
    BY <1>10
  <2>2. x = y \/ <<x, y>> \in R \/ <<y, x>> \in R
    BY DEF Orders
  <2>3. CASE <<x, y>> \in R
    BY <1>3, <2>1, <2>3
  <2>4. CASE <<y, x>> \in R
    BY <1>3, <2>1, <2>4
  <2> QED  BY <2>2, <2>3, <2>4
<1>5. e \in [S -> 0 .. n - 1]
  <2>1. \A x \in S : e[x] \in 0 .. n - 1
    BY <1>1, <1>10
  <2> QED  BY <1>0, <2>1
<1>6. e \in Injection(S, 0 .. n - 1)
  BY <1>4, <1>5 DEF Injection, IsInjective
<1>7. IsFiniteSet(0 .. n - 1) /\ Cardinality(0 .. n - 1) = n
  BY <1>1, FS_Interval
<1>8. e \in Surjection(S, 0 .. n - 1)
  BY <1>6, <1>7, FS_Injection DEF n
<1>9. \A k \in 0 .. n - 1 : \E x \in S : e[x] = k
  BY <1>8 DEF Surjection
<1>11. \A i \in 1 .. n : list[i] \in S /\ e[list[i]] = i - 1
  <2> TAKE i \in 1 .. n
  <2>1. i - 1 \in 0 .. n - 1
    BY <1>1
  <2>2. \E x \in S : e[x] = i - 1
    BY <1>9, <2>1
  <2> QED  BY <1>0, <2>2
<1>12. list \in Seq(S) /\ Len(list) = n
  <2>1. list \in [1 .. n -> S] /\ DOMAIN list = 1 .. n
    BY <1>0, <1>11
  <2>2. list \in Seq(S)
    BY <1>1, <2>1
  <2> QED  BY <1>1, <2>1, <2>2
<1>13. ASSUME NEW x \in S PROVE \E i \in 1 .. n : list[i] = x
  <2>1. e[x] + 1 \in 1 .. n /\ (e[x] + 1) - 1 = e[x]
    BY <1>1, <1>10
  <2>2. list[e[x] + 1] \in S /\ e[list[e[x] + 1]] = e[x]
    BY <1>11, <2>1
  <2> QED  BY <1>4, <2>1, <2>2
<1>14. ASSUME NEW i \in 1 .. n, NEW j \in 1 .. n, i < j PROVE <<list[i], list[j]>> \in R
  <2>1. e[list[i]] < e[list[j]] /\ list[i] \in S /\ list[j] \in S
    BY <1>1, <1>11, <1>14
  <2>2. e[list[i]] \in Nat /\ e[list[j]] \in Nat
    BY <1>10, <2>1
  <2>3. ~(e[list[j]] < e[list[i]]) /\ list[i] # list[j]
    BY <2>1, <2>2
  <2> QED  BY <1>3, <2>1, <2>3 DEF Orders
<1>15. Arranges(list, S, R)
  BY <1>12, <1>13, <1>14 DEF Arranges, n
<1> QED  BY <1>15 DEF list, e, Below
=============================================================================
