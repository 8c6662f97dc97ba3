----------------------------- MODULE ListFacts -----------------------------
(***************************************************************************)
(* Lemmas on lists, their places and how many there are that the proofs     *)
(* share.                                                                   *)
(***************************************************************************)
EXTENDS Lists, FiniteSetTheorems, TLAPS

LEMMA AppendedElements ==
  ASSUME NEW S, NEW s \in Seq(S), NEW e \in S
  PROVE  /\ Append(s, e) \in Seq(S)
         /\ Len(Append(s, e)) = Len(s) + 1
         /\ \A i \in 1..Len(s) : Append(s, e)[i] = s[i]
         /\ Append(s, e)[Len(s) + 1] = e
  OBVIOUS

(* Every nonempty set of numbers has a least one: the order is well-founded. *)
LEMMA LeastNumber ==
  ASSUME NEW T, T \subseteq Nat, T # {}
  PROVE  \E m \in T : \A n \in T : m <= n
<1> DEFINE Less == OpToRel(<, Nat)
<1>1. PICK m \in T : \A n \in T : ~ (<<n, m>> \in Less)
  BY NatLessThanWellFounded, WFMin, Zenon
<1>2. \A n \in T : ~ (n < m)
  BY <1>1 DEF OpToRel
<1>3. QED
  BY <1>2

(* Among some places of a list there is a last one. *)
LEMMA GreatestPlace ==
  ASSUME NEW n \in Nat, NEW S, S \subseteq 1..n, S # {}
  PROVE  \E i \in S : \A j \in S : j <= i
<1> DEFINE T == {n - i : i \in S}
<1>1. T \subseteq Nat
  <2>1. \A i \in S : n - i \in Nat
    OBVIOUS
  <2>2. QED
    BY <2>1
<1>2. T # {}
  OBVIOUS
<1>3. PICK m \in T : \A k \in T : m <= k
  <2> HIDE DEF T
  <2> QED BY <1>1, <1>2, LeastNumber
<1>4. PICK i \in S : m = n - i
  OBVIOUS
<1>5. \A j \in S : j <= i
  BY <1>3, <1>4
<1>6. QED
  BY <1>5

(* What is one is at most one.                                              *)
LEMMA NoTwo ==
  ASSUME NEW S, \A x, y \in S : x = y
  PROVE  Cardinality(S) <= 1
<1>1. CASE S = {}
  BY <1>1, FS_EmptySet
<1>2. ASSUME NEW x \in S PROVE Cardinality(S) <= 1
  <2>1. S = {x}
    OBVIOUS
  <2>2. QED
    BY <2>1, FS_Singleton
<1>3. QED
  BY <1>1, <1>2

(* Those that have come and those that may still come are together no more    *)
(* than the actors: a race costs at most one each.                          *)
OneEach(come, may, actors) ==
  /\ IsFiniteSet(actors) /\ IsFiniteSet(come) /\ may \subseteq actors
  /\ Cardinality(come) + Cardinality(may) <= Cardinality(actors)

LEMMA NoneHasCome ==
  ASSUME NEW may, NEW actors, IsFiniteSet(actors), may \subseteq actors
  PROVE  OneEach({}, may, actors)
<1>1. IsFiniteSet({}) /\ Cardinality({}) = 0
  BY FS_EmptySet
<1>2. Cardinality(may) <= Cardinality(actors) /\ IsFiniteSet(may)
  BY FS_Subset
<1>3. Cardinality(may) \in Nat /\ Cardinality(actors) \in Nat
  BY <1>2, FS_CardinalityType
<1>4. QED
  BY <1>1, <1>2, <1>3 DEF OneEach

LEMMA FewerMay ==
  ASSUME NEW come, NEW may, NEW actors, OneEach(come, may, actors),
         NEW fewer, fewer \subseteq may
  PROVE  OneEach(come, fewer, actors)
<1>1. IsFiniteSet(come) /\ IsFiniteSet(actors) /\ may \subseteq actors
  BY DEF OneEach
<1>2. IsFiniteSet(may)
  BY <1>1, FS_Subset
<1>3. Cardinality(fewer) <= Cardinality(may) /\ IsFiniteSet(fewer)
  BY <1>2, FS_Subset
<1>4. /\ Cardinality(fewer) \in Nat /\ Cardinality(may) \in Nat
      /\ Cardinality(come) \in Nat /\ Cardinality(actors) \in Nat
  BY <1>1, <1>2, <1>3, FS_CardinalityType
<1>5. QED
  BY <1>1, <1>3, <1>4 DEF OneEach

LEMMA OneMoreHasCome ==
  ASSUME NEW come, NEW may, NEW actors, OneEach(come, may, actors),
         NEW a \in may, NEW x, NEW fewer, fewer \subseteq may \ {a}
  PROVE  OneEach(come \cup {x}, fewer, actors)
<1>1. IsFiniteSet(come) /\ IsFiniteSet(actors) /\ may \subseteq actors
  BY DEF OneEach
<1>2. IsFiniteSet(may)
  BY <1>1, FS_Subset
<1>3. IsFiniteSet(may \ {a}) /\ Cardinality(may \ {a}) = Cardinality(may) - 1
  BY <1>2, FS_RemoveElement
<1>4. IsFiniteSet(fewer) /\ Cardinality(fewer) <= Cardinality(may \ {a})
  BY <1>3, FS_Subset
<1>5. /\ IsFiniteSet(come \cup {x})
      /\ Cardinality(come \cup {x}) = IF x \in come THEN Cardinality(come)
                                      ELSE Cardinality(come) + 1
  BY <1>1, FS_AddElement
<1>6. /\ Cardinality(come) \in Nat /\ Cardinality(may) \in Nat
      /\ Cardinality(fewer) \in Nat /\ Cardinality(actors) \in Nat
  BY <1>1, <1>2, <1>4, FS_CardinalityType
<1>7. Cardinality(come \cup {x}) + Cardinality(fewer) <= Cardinality(actors)
  BY <1>3, <1>4, <1>5, <1>6 DEF OneEach
<1>8. fewer \subseteq actors
  BY <1>1
<1>9. QED
  BY <1>1, <1>5, <1>7, <1>8 DEF OneEach

LEMMA NoMoreThanTheActors ==
  ASSUME NEW come, NEW may, NEW actors, OneEach(come, may, actors)
  PROVE  Cardinality(come) <= Cardinality(actors)
<1>1. IsFiniteSet(come) /\ IsFiniteSet(actors) /\ IsFiniteSet(may)
  BY FS_Subset DEF OneEach
<1>2. Cardinality(come) \in Nat /\ Cardinality(may) \in Nat /\ Cardinality(actors) \in Nat
  BY <1>1, FS_CardinalityType
<1>3. QED
  BY <1>2 DEF OneEach

(* What has come before each element of a finite set, in a strict order of   *)
(* them all: each has its place, and the places are in that order.           *)
Ordering(S, before) ==
  /\ before \in [S -> SUBSET S]
  /\ \A e \in S : e \notin before[e]
  /\ \A e, f \in S : e = f \/ e \in before[f] \/ f \in before[e]
  /\ \A e, f, g \in S : e \in before[f] /\ f \in before[g] => e \in before[g]

LEMMA EachHasItsPlace ==
  ASSUME NEW S, IsFiniteSet(S), NEW before, Ordering(S, before)
  PROVE  LET at == ByPlace(S, before)
             n == Cardinality(S)
         IN  /\ n \in Nat /\ DOMAIN at = 1..n
             /\ \A k \in 1..n : at[k] \in S /\ Cardinality(before[at[k]]) = k - 1
             /\ \A j, k \in 1..n : at[j] = at[k] => j = k
<1> DEFINE n == Cardinality(S)
           at == ByPlace(S, before)
           place == [e \in S |-> Cardinality(before[e])]
<1>1. n \in Nat
  BY FS_CardinalityType
<1>2. \A e \in S : IsFiniteSet(before[e]) /\ before[e] \in SUBSET S
  BY FS_Subset DEF Ordering
<1>3. ASSUME NEW e \in S PROVE place[e] \in 0..n-1
  <2>1. IsFiniteSet(S \ {e}) /\ Cardinality(S \ {e}) = n - 1
    BY FS_RemoveElement
  <2>2. before[e] \in SUBSET (S \ {e})
    BY <1>2 DEF Ordering
  <2>3. Cardinality(before[e]) <= n - 1 /\ Cardinality(before[e]) \in Nat
    BY <1>2, <2>1, <2>2, FS_Subset, FS_CardinalityType
  <2>4. QED
    BY <1>1, <2>3
<1>4. ASSUME NEW e \in S, NEW f \in S, e \in before[f] PROVE place[e] # place[f]
  <2>1. before[e] \in SUBSET before[f] /\ before[e] # before[f]
    BY <1>2, <1>4 DEF Ordering
  <2>2. QED
    BY <1>2, <2>1, FS_Subset
<1>5. \A e, f \in S : place[e] = place[f] => e = f
  BY <1>4 DEF Ordering
<1>6. place \in Injection(S, 0..n-1)
  <2>1. place \in [S -> 0..n-1]
    BY <1>3
  <2> HIDE DEF place
  <2>2. QED
    BY <1>5, <2>1 DEF Injection, IsInjective
<1>7. IsFiniteSet(0..n-1) /\ Cardinality(0..n-1) = n
  BY SMTT(40), <1>1, FS_Interval
<1>8. place \in Surjection(S, 0..n-1)
  <2> HIDE DEF place
  <2> QED
    BY <1>6, <1>7, FS_Injection
<1>9. \A k \in 1..n : \E e \in S : Cardinality(before[e]) = k - 1
  <2>1. \A k \in 1..n : k - 1 \in 0..n-1
    BY <1>1
  <2>2. \A t \in 0..n-1 : \E e \in S : place[e] = t
    <3> HIDE DEF place
    <3> QED
      BY <1>8 DEF Surjection
  <2>3. QED
    BY <2>1, <2>2
<1>10. DOMAIN at = 1..n /\ \A k \in 1..n : at[k] = CHOOSE e \in S : Cardinality(before[e]) = k - 1
  BY DEF ByPlace
<1> HIDE DEF at, n
<1>11. \A k \in 1..n : at[k] \in S /\ Cardinality(before[at[k]]) = k - 1
  BY <1>9, <1>10
<1>12. \A j, k \in 1..n : at[j] = at[k] => j = k
  <2> SUFFICES ASSUME NEW j \in 1..n, NEW k \in 1..n, at[j] = at[k] PROVE j = k
    OBVIOUS
  <2>1. j - 1 = k - 1
    BY <1>11
  <2>2. QED
    BY <1>1, <2>1
<1>13. QED
  BY <1>1, <1>10, <1>11, <1>12 DEF at, n

(* In its order, each element of a finite set stands at one place.           *)
LEMMA EachStandsOnce ==
  ASSUME NEW S, IsFiniteSet(S), NEW before, Ordering(S, before)
  PROVE  LET at == ByPlace(S, before)
             n == Cardinality(S)
         IN  /\ n \in Nat /\ at \in [1..n -> S] /\ at \in Seq(S) /\ Len(at) = n
             /\ \A j, k \in 1..n : at[j] = at[k] => j = k
             /\ \A s \in S : \E k \in 1..n : at[k] = s
             /\ \A k \in 1..n : Cardinality(before[at[k]]) = k - 1
<1> DEFINE n == Cardinality(S)
           at == ByPlace(S, before)
           pick == [k \in 1..n |-> at[k]]
<1>1. /\ n \in Nat /\ DOMAIN at = 1..n
      /\ \A k \in 1..n : at[k] \in S /\ Cardinality(before[at[k]]) = k - 1
      /\ \A j, k \in 1..n : at[j] = at[k] => j = k
  BY EachHasItsPlace
<1>2. at = pick
  BY DEF ByPlace
<1>3. pick \in [1..n -> S]
  BY <1>1
<1>4. at \in [1..n -> S]
  BY <1>2, <1>3
<1> HIDE DEF at, n
<1>5. at \in Injection(1..n, S)
  BY <1>1, <1>4 DEF Injection, IsInjective
<1>6. Cardinality(1..n) = n
  BY <1>1, FS_Interval
<1>7. at \in Surjection(1..n, S)
  BY <1>5, <1>6, FS_Injection DEF n
<1>8. \A s \in S : \E k \in 1..n : at[k] = s
  BY <1>7 DEF Surjection
<1>9. at \in Seq(S) /\ Len(at) = n
  BY <1>1, <1>4
<1>10. QED
  BY <1>1, <1>4, <1>8, <1>9 DEF at, n

LEMMA MinOfTwo ==
  ASSUME NEW a \in Nat, NEW b \in Nat
  PROVE  Min({a, b}) \in {a, b} /\ Min({a, b}) <= a /\ Min({a, b}) <= b
<1>1. \E x \in {a, b} : \A y \in {a, b} : x <= y
  OBVIOUS
<1>2. Min({a, b}) \in {a, b} /\ \A y \in {a, b} : Min({a, b}) <= y
  BY <1>1 DEF Min
<1>3. QED
  BY <1>2

LEMMA MinIsLeast ==
  ASSUME NEW T, T \subseteq Nat, T # {}
  PROVE  Min(T) \in T /\ \A y \in T : Min(T) <= y
<1>1. \E x \in T : \A y \in T : x <= y
  BY LeastNumber
<1>2. QED
  BY <1>1 DEF Min

LEMMA MaxIs ==
  ASSUME NEW n \in Nat, NEW S, S \subseteq 1..n, NEW m \in S, \A j \in S : j <= m
  PROVE  Max(S) = m
<1>1. \E x \in S : \A y \in S : x >= y
  <2>1. m \in 1..n /\ \A j \in S : j \in 1..n
    OBVIOUS
  <2>2. QED
    BY <2>1
<1>2. Max(S) \in S /\ \A y \in S : Max(S) >= y
  BY <1>1 DEF Max
<1>3. m \in 1..n /\ Max(S) \in 1..n
  BY <1>2
<1>4. Max(S) >= m /\ Max(S) <= m
  BY <1>2
<1>5. QED
  BY <1>3, <1>4

(* What holds before the first place, and of a place when it holds of the    *)
(* one before, holds of all.                                                *)
LEMMA EveryPlace ==
  ASSUME NEW n \in Nat, NEW T, 0 \in T, \A k \in 1..n : k - 1 \in T => k \in T
  PROVE  \A k \in 0..n : k \in T
<1> SUFFICES ASSUME NEW b \in 0..n, b \notin T PROVE FALSE
  OBVIOUS
<1> DEFINE B == {k \in 0..n : k \notin T}
<1>1. PICK m \in B : \A k \in B : m <= k
  <2>1. B \subseteq Nat /\ B # {}
    OBVIOUS
  <2>2. QED
    BY <2>1, LeastNumber
<1>2. m \in 1..n /\ m - 1 \in 0..n /\ ~ (m <= m - 1)
  OBVIOUS
<1>3. m - 1 \notin B
  BY <1>1, <1>2
<1>4. QED
  BY <1>2, <1>3

(* The first places of a list are the first but one and the last of them.    *)
LEMMA FirstPlaces ==
  ASSUME NEW n \in Nat
  PROVE  /\ 1..0 = {}
         /\ \A k \in 1..n : /\ 1..k \in SUBSET (1..n) /\ 1..k # {}
                            /\ Max(1..k) = k /\ (1..k) \ {k} = 1..(k-1)
<1>1. ASSUME NEW k \in 1..n PROVE Max(1..k) = k
  <2>1. k \in Nat /\ k \in 1..k /\ \A j \in 1..k : j <= k
    OBVIOUS
  <2>2. QED
    BY <2>1, MaxIs
<1>2. QED
  BY <1>1

(* A fold exists: it can be computed set of places by set of places, the     *)
(* greatest place last.                                                     *)
FoldOf(n, A, base, g) ==
  {h \in [SUBSET (1..n) -> A] :
     \A s \in SUBSET (1..n) :
       h[s] = IF s = {} THEN base ELSE g[Max(s)][h[s \ {Max(s)}]]}

LEMMA FoldExists ==
  ASSUME NEW n \in Nat, NEW A, NEW base \in A, NEW g \in [1..n -> [A -> A]]
  PROVE  \E h : h \in FoldOf(n, A, base, g)
<1> DEFINE FoldsUpTo(k, h) ==
             /\ h \in [SUBSET (1..k) -> A]
             /\ \A s \in SUBSET (1..k) :
                  h[s] = IF s = {} THEN base ELSE g[Max(s)][h[s \ {Max(s)}]]
           Can(k) == \E h : FoldsUpTo(k, h)
           T == {k \in 0..n : Can(k)}
<1>1. 0 \in T
  <2> DEFINE h == [s \in SUBSET (1..0) |-> base]
  <2>1. SUBSET (1..0) = {{}}
    OBVIOUS
  <2>2. FoldsUpTo(0, h)
    BY <2>1
  <2> HIDE DEF h, FoldsUpTo
  <2>3. Can(0)
    BY <2>2
  <2> HIDE DEF Can
  <2>4. QED
    BY <2>3
<1>2. ASSUME NEW k \in 1..n, k - 1 \in T PROVE k \in T
  <2>1. PICK f : FoldsUpTo(k - 1, f)
    <3>1. Can(k - 1)
      <4> HIDE DEF Can
      <4>1. QED BY <1>2
    <3> HIDE DEF FoldsUpTo
    <3>2. QED
      BY <3>1
  <2> DEFINE h == [s \in SUBSET (1..k) |-> IF k \in s THEN g[k][f[s \ {k}]] ELSE f[s]]
  <2>2. \A s \in SUBSET (1..k) : s \ {k} \in SUBSET (1..k-1) /\ (k \notin s => s \in SUBSET (1..k-1))
    OBVIOUS
  <2>3. h \in [SUBSET (1..k) -> A]
    BY <2>1, <2>2
  <2>4. ASSUME NEW s \in SUBSET (1..k)
        PROVE  h[s] = IF s = {} THEN base ELSE g[Max(s)][h[s \ {Max(s)}]]
    <3>1. CASE k \in s
      <4>1. Max(s) = k
        <5>1. \A j \in s : j <= k
          OBVIOUS
        <5>2. k \in Nat
          OBVIOUS
        <5>3. QED
          BY <3>1, <5>1, <5>2, MaxIs
      <4>2. h[s \ {k}] = f[s \ {k}]
        BY <2>2
      <4>3. h[s] = g[k][f[s \ {k}]]
        BY <3>1
      <4>4. QED
        BY <3>1, <4>1, <4>2, <4>3
    <3>2. CASE k \notin s
      <4>1. h[s] = f[s]
        BY <3>2
      <4>2. f[s] = IF s = {} THEN base ELSE g[Max(s)][f[s \ {Max(s)}]]
        BY <2>1, <2>2, <3>2
      <4>3. h[s \ {Max(s)}] = f[s \ {Max(s)}]
        BY <3>2
      <4>4. QED
        BY <4>1, <4>2, <4>3
    <3>3. QED
      BY <3>1, <3>2
  <2>5. FoldsUpTo(k, h)
    BY <2>3, <2>4
  <2> HIDE DEF h, FoldsUpTo
  <2>6. Can(k)
    BY <2>5
  <2> HIDE DEF Can
  <2>7. QED
    BY <2>6
<1>3. n \in T
  <2> HIDE DEF T
  <2>1. \A k \in 0..n : k \in T
    BY <1>1, <1>2, EveryPlace
  <2>2. QED
    BY <2>1
<1>4. Can(n)
  <2> HIDE DEF Can
  <2>1. QED
    BY <1>3
<1>5. PICK h : FoldsUpTo(n, h)
  BY <1>4
<1>6. h \in FoldOf(n, A, base, g)
  BY <1>5 DEF FoldOf
<1>7. QED
  BY <1>6

LEMMA FoldOfStep ==
  ASSUME NEW n \in Nat, NEW A, NEW base, NEW g, NEW h, h \in FoldOf(n, A, base, g)
  PROVE  /\ h = [s \in SUBSET (1..n) |-> h[s]]
         /\ h[{}] = base
         /\ \A s \in SUBSET (1..n) : s # {} =>
              /\ Max(s) \in 1..n /\ h[s \ {Max(s)}] \in A
              /\ h[s] = g[Max(s)][h[s \ {Max(s)}]]
<1>1. /\ h \in [SUBSET (1..n) -> A]
      /\ \A s \in SUBSET (1..n) :
           h[s] = IF s = {} THEN base ELSE g[Max(s)][h[s \ {Max(s)}]]
  BY DEF FoldOf
<1>2. ASSUME NEW s \in SUBSET (1..n), s # {} PROVE Max(s) \in 1..n
  <2>1. PICK m \in s : \A j \in s : j <= m
    BY <1>2, GreatestPlace
  <2>2. QED
    BY <2>1, MaxIs
<1>3. {} \in SUBSET (1..n)
  OBVIOUS
<1>4. h[{}] = base
  BY <1>1, <1>3
<1>5. \A s \in SUBSET (1..n) : s \ {Max(s)} \in SUBSET (1..n)
  OBVIOUS
<1>6. \A s \in SUBSET (1..n) : h[s \ {Max(s)}] \in A
  BY <1>1, <1>5
<1>7. h = [s \in SUBSET (1..n) |-> h[s]]
  BY <1>1
<1>8. QED
  BY <1>1, <1>2, <1>4, <1>6, <1>7

(* A fold computed place by place.                                           *)
StepsOf(n, A, base, g) ==
  {r \in [0..n -> A] : r[0] = base /\ \A k \in 1..n : r[k] = g[k][r[k-1]]}

LEMMA FoldSteps ==
  ASSUME NEW n \in Nat, NEW A, NEW base \in A, NEW g \in [1..n -> [A -> A]], NEW it,
         it[{}] = base,
         \A k \in 1..n : it[1..(k-1)] \in A => it[1..k] = g[k][it[1..(k-1)]]
  PROVE  [k \in 0..n |-> it[1..k]] \in StepsOf(n, A, base, g)
<1> DEFINE r == [k \in 0..n |-> it[1..k]]
           T == {k \in 0..n : r[k] \in A}
<1>1. 0 \in 0..n /\ r[0] = base
  BY FirstPlaces
<1>2. \A k \in 1..n : k \in 0..n /\ k - 1 \in 0..n /\ r[k] = it[1..k] /\ r[k-1] = it[1..(k-1)]
  OBVIOUS
<1> HIDE DEF r
<1>3. 0 \in T
  BY <1>1
<1>4. ASSUME NEW k \in 1..n, k - 1 \in T PROVE k \in T
  <2>1. it[1..(k-1)] \in A
    BY <1>2, <1>4
  <2>2. r[k] = g[k][it[1..(k-1)]]
    BY <1>2, <2>1
  <2>3. g[k] \in [A -> A]
    OBVIOUS
  <2>4. QED
    BY <1>2, <2>1, <2>2, <2>3
<1>5. \A k \in 0..n : k \in T
  <2> HIDE DEF T
  <2>1. QED
    BY <1>3, <1>4, EveryPlace
<1>6. r \in [0..n -> A]
  BY <1>5 DEF r
<1>7. \A k \in 1..n : r[k] = g[k][r[k-1]]
  BY <1>2, <1>5
<1>8. r \in StepsOf(n, A, base, g)
  BY <1>1, <1>6, <1>7 DEF StepsOf
<1>9. QED
  BY <1>8 DEF r

KeepingSteps(S, list, these) ==
  {r \in [0..Len(list) -> Seq(S)] :
     /\ r[0] = << >>
     /\ \A k \in 1..Len(list) :
          r[k] = IF list[k] \in these THEN Append(r[k-1], list[k]) ELSE r[k-1]
     /\ Those(list, these) = r[Len(list)]}

LEMMA ThoseSteps ==
  ASSUME NEW S, NEW list \in Seq(S), NEW these
  PROVE  \E r : r \in KeepingSteps(S, list, these)
<1> DEFINE n == Len(list)
           A == Seq(S)
           next(a, e) == IF e \in these THEN Append(a, e) ELSE a
           g == [k \in 1..n |-> [a \in A |-> next(a, list[k])]]
           Folds(h) == h = [s \in SUBSET DOMAIN list |->
                              IF s = {} THEN << >> ELSE next(h[s \ {Max(s)}], list[Max(s)])]
           it == CHOOSE h : Folds(h)
           base == << >>
           r == [k \in 0..n |-> it[1..k]]
<1>1. n \in Nat /\ DOMAIN list = 1..n /\ \A k \in 1..n : list[k] \in S
  OBVIOUS
<1>2. Those(list, these) = it[DOMAIN list]
  BY Zenon DEF Those, FoldLeft, MapThenFoldSet
<1>3. base \in A /\ \A k \in 1..n : \A a \in A : next(a, list[k]) \in A
  BY <1>1
<1> HIDE DEF A, n, next
<1>4. g \in [1..n -> [A -> A]]
  BY <1>3
<1>5. \A k \in 1..n : \A a \in A : g[k][a] = next(a, list[k])
  OBVIOUS
<1> HIDE DEF g, base
<1>6. \E h : Folds(h)
  <2>1. PICK h : h \in FoldOf(n, A, base, g)
    BY <1>1, <1>3, <1>4, FoldExists
  <2>2. /\ h = [s \in SUBSET (1..n) |-> h[s]]
        /\ h[{}] = base
        /\ \A s \in SUBSET (1..n) : s # {} =>
             /\ Max(s) \in 1..n /\ h[s \ {Max(s)}] \in A
             /\ h[s] = g[Max(s)][h[s \ {Max(s)}]]
    BY <1>1, <2>1, FoldOfStep
  <2>3. \A s \in SUBSET (1..n) :
          h[s] = IF s = {} THEN << >> ELSE next(h[s \ {Max(s)}], list[Max(s)])
    BY <1>5, <2>2 DEF base
  <2>4. Folds(h)
    BY <1>1, <2>2, <2>3
  <2>5. QED
    BY <2>4
<1>7. Folds(it)
  BY <1>6, Zenon
<1> HIDE DEF it
<1>8. it[{}] = base
  BY <1>7 DEF base
<1>9. ASSUME NEW k \in 1..n, it[1..(k-1)] \in A PROVE it[1..k] = g[k][it[1..(k-1)]]
  <2>1. 1..k \in SUBSET DOMAIN list /\ 1..k # {} /\ Max(1..k) = k /\ (1..k) \ {k} = 1..(k-1)
    BY <1>1, FirstPlaces
  <2>2. it[1..k] = next(it[(1..k) \ {Max(1..k)}], list[Max(1..k)])
    BY <1>7, <2>1
  <2>3. QED
    BY <1>5, <1>9, <2>1, <2>2
<1>10. r \in StepsOf(n, A, base, g)
  <2> HIDE DEF Folds
  <2>1. QED
    BY <1>1, <1>3, <1>4, <1>8, <1>9, FoldSteps
<1> HIDE DEF r
<1>11. r \in [0..n -> A] /\ r[0] = base /\ \A k \in 1..n : r[k-1] \in A /\ r[k] = g[k][r[k-1]]
  BY <1>1, <1>10 DEF StepsOf
<1>12. \A k \in 1..n : r[k] = next(r[k-1], list[k])
  BY <1>5, <1>11
<1>13. Those(list, these) = r[n]
  BY <1>1, <1>2 DEF r
<1>14. QED
  <2>1. r \in KeepingSteps(S, list, these)
    BY <1>11, <1>12, <1>13 DEF next, base, n, A, KeepingSteps
  <2>2. QED
    BY <2>1

(* What is kept of a list: the elements that are among these, as often as    *)
(* they occur, and none twice if none occurs twice.                          *)
AllApart(list) == \A i, j \in 1..Len(list) : list[i] = list[j] => i = j

AreKept(kept, S, list, these) ==
  /\ kept \in Seq(S)
  /\ \A k \in 1..Len(kept) : \E i \in 1..Len(list) : kept[k] = list[i] /\ list[i] \in these
  /\ \A i \in 1..Len(list) : list[i] \in these => \E k \in 1..Len(kept) : kept[k] = list[i]
  /\ Len(kept) = Cardinality({i \in 1..Len(list) : list[i] \in these})
  /\ AllApart(list) => AllApart(kept)

LEMMA ThoseAreKept ==
  ASSUME NEW S, NEW list \in Seq(S), NEW these
  PROVE  AreKept(Those(list, these), S, list, these)
<1> DEFINE n == Len(list)
           A == Seq(S)
           Chosen(k) == {i \in 1..k : list[i] \in these}
           Comes(a, k) == \A j \in 1..Len(a) : \E i \in Chosen(k) : a[j] = list[i]
           Stays(a, k) == \A i \in Chosen(k) : \E j \in 1..Len(a) : a[j] = list[i]
           Inv(a, k) == /\ Comes(a, k) /\ Stays(a, k)
                        /\ Len(a) = Cardinality(Chosen(k))
                        /\ AllApart(list) => AllApart(a)
<1>1. n \in Nat /\ \A k \in 1..n : list[k] \in S
  OBVIOUS
<1>p. PICK r : r \in KeepingSteps(S, list, these)
  BY ThoseSteps
<1>2. /\ r \in [0..n -> A]
      /\ r[0] = << >>
      /\ \A k \in 1..n :
           r[k] = IF list[k] \in these THEN Append(r[k-1], list[k]) ELSE r[k-1]
      /\ Those(list, these) = r[n]
  BY <1>p DEF KeepingSteps
<1>3. Inv(r[0], 0)
  <2>1. Chosen(0) = {} /\ Len(r[0]) = 0
    BY <1>2
  <2>2. Comes(r[0], 0) /\ Stays(r[0], 0) /\ AllApart(r[0])
    BY <2>1 DEF AllApart
  <2>3. Len(r[0]) = Cardinality(Chosen(0))
    BY <2>1, FS_EmptySet
  <2>4. QED
    BY <2>2, <2>3
<1>4. ASSUME NEW k \in 1..n, Inv(r[k-1], k-1) PROVE Inv(r[k], k)
  <2>1. r[k-1] \in A /\ Chosen(k-1) \subseteq 1..(k-1)
    <3>1. k - 1 \in 0..n
      BY <1>1
    <3> HIDE DEF A
    <3>2. QED
      BY <1>2, <3>1
  <2>2. CASE list[k] \notin these
    <3>1. Chosen(k) = Chosen(k-1)
      BY <1>1, <2>2
    <3>2. r[k] = r[k-1]
      BY <1>2, <2>2
    <3> HIDE DEF Chosen
    <3>3. QED
      BY <1>4, <3>1, <3>2
  <2>3. CASE list[k] \in these
    <3> DEFINE a == r[k-1]
               b == r[k]
    <3>1. Chosen(k) = Chosen(k-1) \cup {k}
      BY <1>1, <2>3
    <3>2. k \notin Chosen(k-1)
      OBVIOUS
    <3>3. b = Append(a, list[k])
      BY <1>2, <2>3
    <3>4. /\ a \in Seq(S) /\ Len(a) \in Nat /\ list[k] \in S
          /\ Len(b) = Len(a) + 1
          /\ \A i \in 1..Len(a) : b[i] = a[i]
          /\ b[Len(a) + 1] = list[k]
      <4>1. a \in Seq(S) /\ list[k] \in S
        BY <1>1, <2>1
      <4> HIDE DEF a, b
      <4>2. QED
        BY <3>3, <4>1, AppendedElements
    <3>5. /\ Comes(a, k-1) /\ Stays(a, k-1) /\ Len(a) = Cardinality(Chosen(k-1))
          /\ AllApart(list) => AllApart(a)
      BY <1>4
    <3>6. Comes(b, k)
      <4> HIDE DEF Chosen, a, b
      <4>1. ASSUME NEW j \in 1..Len(b) PROVE \E i \in Chosen(k) : b[j] = list[i]
        <5>1. CASE j \in 1..Len(a)
          BY <3>1, <3>4, <3>5, <5>1
        <5>2. CASE j = Len(a) + 1
          BY <3>1, <3>4, <5>2
        <5>3. QED
          BY <3>4, <5>1, <5>2
      <4>2. QED
        BY <4>1
    <3>7. Stays(b, k)
      <4> HIDE DEF Chosen, a, b
      <4>1. QED
        BY <3>1, <3>4, <3>5
    <3>8. Len(b) = Cardinality(Chosen(k))
      <4>1. IsFiniteSet(Chosen(k-1))
        <5>1. IsFiniteSet(1..(k-1))
          BY <1>1, FS_Interval
        <5>2. QED
          BY <2>1, <5>1, FS_Subset
      <4> HIDE DEF Chosen, a, b
      <4>2. QED
        BY ZenonT(40), <3>1, <3>2, <3>4, <3>5, <4>1, FS_AddElement
    <3>9. ASSUME AllApart(list) PROVE AllApart(b)
      <4>1. \A j \in 1..Len(a) : \E i \in 1..(k-1) : a[j] = list[i]
        BY <3>5
      <4>2. \A i \in 1..(k-1) : i \in 1..n /\ i # k
        BY <1>1
      <4> HIDE DEF Chosen, a, b, n
      <4>3. \A j \in 1..Len(a) : a[j] # list[k]
        BY <3>9, <4>1, <4>2 DEF AllApart, n
      <4>4. AllApart(a)
        BY <3>5, <3>9
      <4>5. ASSUME NEW i \in 1..Len(b), NEW j \in 1..Len(b), b[i] = b[j] PROVE i = j
        <5>1. i \in 1..Len(a) \/ i = Len(a) + 1
          BY <3>4
        <5>2. j \in 1..Len(a) \/ j = Len(a) + 1
          BY <3>4
        <5>3. QED
          BY <3>4, <4>3, <4>4, <4>5, <5>1, <5>2 DEF AllApart
      <4>6. QED
        BY <4>5 DEF AllApart
    <3>10. QED
      BY <3>6, <3>7, <3>8, <3>9
  <2>4. QED
    BY <2>2, <2>3
<1>5. Inv(r[n], n)
  <2> DEFINE T == {k \in 0..n : Inv(r[k], k)}
  <2> HIDE DEF Inv
  <2>1. 0 \in T
    BY <1>1, <1>3
  <2>2. ASSUME NEW k \in 1..n, k - 1 \in T PROVE k \in T
    BY <1>1, <1>4, <2>2
  <2> HIDE DEF T
  <2>3. \A k \in 0..n : k \in T
    BY <1>1, <2>1, <2>2, EveryPlace
  <2>4. n \in T
    BY <1>1, <2>3
  <2>5. QED
    BY <2>4 DEF T
<1>6. r[n] \in A
  BY <1>1, <1>2
<1>7. \A k \in 1..Len(r[n]) : \E i \in 1..n : r[n][k] = list[i] /\ list[i] \in these
  BY <1>5
<1>8. \A i \in 1..n : list[i] \in these => \E k \in 1..Len(r[n]) : r[n][k] = list[i]
  BY <1>5
<1>9. Len(r[n]) = Cardinality({i \in 1..Len(list) : list[i] \in these})
  BY <1>5
<1>10. AllApart(list) => AllApart(r[n])
  BY <1>5
<1> HIDE DEF Inv
<1>11. AreKept(r[n], S, list, these)
  BY <1>6, <1>7, <1>8, <1>9, <1>10, Zenon DEF AreKept
<1>12. QED
  BY <1>2, <1>11

(* Lists one after the other, computed list by list.                         *)
JoiningSteps(S, lists) ==
  {r \in [0..Len(lists) -> Seq(S)] :
     /\ r[0] = << >>
     /\ \A k \in 1..Len(lists) : r[k] = r[k-1] \o lists[k]
     /\ FlattenSeq(lists) = r[Len(lists)]}

(* Joining lists goes through such steps.                                   *)
LEMMA FlatteningSteps ==
  ASSUME NEW S, NEW lists \in Seq(Seq(S))
  PROVE  \E r : r \in JoiningSteps(S, lists)
<1> DEFINE n == Len(lists)
           A == Seq(S)
           base == << >>
           g == [k \in 1..n |-> [a \in A |-> a \o lists[k]]]
           Flattens(f) == f = [i \in 1..n |-> IF i = 1 THEN lists[i] ELSE f[i-1] \o lists[i]]
           it == CHOOSE f : Flattens(f)
<1>1. n \in Nat /\ \A k \in 1..n : lists[k] \in A
  OBVIOUS
<1>2. base \in A /\ \A a, b \in A : a \o b \in A /\ base \o a = a
  OBVIOUS
<1>3. FlattenSeq(lists) = IF n = 0 THEN lists ELSE it[n]
  BY Zenon DEF FlattenSeq
<1>4. n = 0 => lists = base
  OBVIOUS
<1> HIDE DEF A, n, base
<1>5. g \in [1..n -> [A -> A]] /\ \A k \in 1..n : \A a \in A : g[k][a] = a \o lists[k]
  BY <1>1, <1>2
<1> HIDE DEF g
<1>6. PICK h : h \in FoldOf(n, A, base, g)
  BY <1>1, <1>2, <1>5, FoldExists
<1>7. /\ h = [s \in SUBSET (1..n) |-> h[s]]
      /\ h[{}] = base
      /\ \A s \in SUBSET (1..n) : s # {} =>
           /\ Max(s) \in 1..n /\ h[s \ {Max(s)}] \in A
           /\ h[s] = g[Max(s)][h[s \ {Max(s)}]]
  BY <1>1, <1>6, FoldOfStep
<1> DEFINE r == [k \in 0..n |-> h[1..k]]
<1>8. r \in StepsOf(n, A, base, g)
  <2>1. ASSUME NEW k \in 1..n PROVE h[1..k] = g[k][h[1..(k-1)]]
    <3>1. 1..k \in SUBSET (1..n) /\ 1..k # {} /\ Max(1..k) = k /\ (1..k) \ {k} = 1..(k-1)
      BY <1>1, FirstPlaces
    <3>2. QED
      BY <1>7, <3>1
  <2>2. base \in A /\ g \in [1..n -> [A -> A]] /\ h[{}] = base /\ n \in Nat
    BY <1>1, <1>2, <1>5, <1>7
  <2>3. QED
    BY <2>1, <2>2, FoldSteps
<1> HIDE DEF r
<1>9. r \in [0..n -> A] /\ r[0] = base /\ \A k \in 1..n : r[k] = g[k][r[k-1]]
  BY <1>8 DEF StepsOf
<1>10. \A k \in 1..n : k \in 0..n /\ k - 1 \in 0..n
  BY <1>1
<1>11. \A k \in 1..n : r[k] \in A /\ r[k-1] \in A /\ r[k] = r[k-1] \o lists[k]
  BY <1>5, <1>9, <1>10
<1> DEFINE f == [i \in 1..n |-> r[i]]
<1>12. Flattens(f)
  <2>1. ASSUME NEW i \in 1..n PROVE f[i] = IF i = 1 THEN lists[i] ELSE f[i-1] \o lists[i]
    <3>1. CASE i = 1
      <4>1. r[i-1] = base
        BY <1>9, <3>1
      <4>2. r[i] = base \o lists[i]
        BY <1>11, <4>1
      <4>3. QED
        BY <1>1, <1>2, <3>1, <4>2
    <3>2. CASE i # 1
      <4>1. i - 1 \in 1..n
        BY <1>1, <3>2
      <4>2. QED
        BY <1>11, <3>2, <4>1
    <3>3. QED
      BY <3>1, <3>2
  <2>2. QED
    BY <2>1
<1>13. Flattens(it)
  <2> HIDE DEF f
  <2>1. QED
    BY <1>12, Zenon
<1> HIDE DEF it
<1>14. \A k \in 1..n : it[k] = r[k]
  <2> DEFINE T == {k \in 0..n : k # 0 => it[k] = r[k]}
  <2>1. 0 \in T
    BY <1>1
  <2>2. ASSUME NEW k \in 1..n, k - 1 \in T PROVE k \in T
    <3>1. it[k] = IF k = 1 THEN lists[k] ELSE it[k-1] \o lists[k]
      BY <1>13
    <3>2. CASE k = 1
      <4>1. r[k] = base \o lists[k]
        <5>1. k - 1 = 0
          BY <3>2
        <5>2. r[k] = r[k-1] \o lists[k]
          BY <1>11
        <5>3. QED
          BY <1>9, <5>1, <5>2
      <4>2. r[k] = lists[k]
        BY <1>1, <1>2, <4>1
      <4>3. QED
        BY <1>10, <3>1, <3>2, <4>2
    <3>3. CASE k # 1
      <4>1. it[k-1] = r[k-1]
        <5>1. k - 1 # 0
          BY <1>1, <3>3
        <5>2. QED
          BY <2>2, <5>1
      <4>2. it[k] = r[k-1] \o lists[k]
        BY <3>1, <3>3, <4>1
      <4>3. it[k] = r[k] /\ k \in 0..n
        BY <1>10, <1>11, <4>2
      <4>4. QED
        BY <4>3
    <3>4. QED
      BY <3>2, <3>3
  <2>3. \A k \in 0..n : k \in T
    <3> HIDE DEF T
    <3>1. QED
      BY <1>1, <2>1, <2>2, EveryPlace
  <2>4. QED
    BY <1>10, <2>3
<1>15. FlattenSeq(lists) = r[n]
  <2>1. CASE n = 0
    BY <1>3, <1>4, <1>9, <2>1
  <2>2. CASE n # 0
    <3>1. n \in 1..n
      BY <1>1, <2>2
    <3>2. QED
      BY <1>3, <1>14, <2>2, <3>1
  <2>3. QED
    BY <2>1, <2>2
<1>16. r \in JoiningSteps(S, lists)
  BY <1>9, <1>11, <1>15 DEF JoiningSteps, n, A, base
<1>17. QED
  BY <1>16

(* Lists of a kind, one after the other, are a list of that kind.            *)
LEMMA FlattenedIsAList ==
  ASSUME NEW S, NEW lists \in Seq(Seq(S))
  PROVE  FlattenSeq(lists) \in Seq(S)
<1>1. PICK r : r \in JoiningSteps(S, lists)
  BY FlatteningSteps
<1>2. r \in [0..Len(lists) -> Seq(S)] /\ FlattenSeq(lists) = r[Len(lists)]
  BY <1>1 DEF JoiningSteps
<1>3. Len(lists) \in 0..Len(lists)
  OBVIOUS
<1>4. QED
  BY <1>2, <1>3

(* A function on the first numbers is a list.                               *)
LEMMA FunctionsAreLists ==
  ASSUME NEW A, NEW n \in Nat, NEW f \in [1..n -> A]
  PROVE  f \in Seq(A) /\ Len(f) = n /\ DOMAIN f = 1..n
  OBVIOUS

(* Two stretches of a text that meet are one.                               *)
LEMMA StretchesJoin ==
  ASSUME NEW C, NEW text \in Seq(C), NEW a \in Nat, NEW b \in Nat, NEW c \in Nat,
         a <= b, b <= c, c <= Len(text)
  PROVE  /\ SubSeq(text, a + 1, b) \in Seq(C)
         /\ SubSeq(text, a + 1, b) \o SubSeq(text, b + 1, c) = SubSeq(text, a + 1, c)
<1> DEFINE s == SubSeq(text, a + 1, b)
           t == SubSeq(text, b + 1, c)
           u == SubSeq(text, a + 1, c)
<1>1. s \in Seq(C) /\ Len(s) = b - a /\ \A i \in 1..(b - a) : s[i] = text[a + i]
  BY SMTT(40)
<1>2. t \in Seq(C) /\ Len(t) = c - b /\ \A i \in 1..(c - b) : t[i] = text[b + i]
  BY SMTT(40)
<1>3. u \in Seq(C) /\ Len(u) = c - a /\ \A i \in 1..(c - a) : u[i] = text[a + i]
  BY SMTT(40)
<1> HIDE DEF s, t, u
<1> DEFINE v == s \o t
<1>t. s \in Seq(C) /\ t \in Seq(C) /\ Len(s) = b - a /\ Len(t) = c - b
  BY <1>1, <1>2
<1>4. v \in Seq(C) /\ Len(v) = c - a
  <2>1. v \in Seq(C) /\ Len(v) = Len(s) + Len(t)
    BY <1>t
  <2>2. (b - a) + (c - b) = c - a
    OBVIOUS
  <2> HIDE DEF v
  <2>3. QED
    BY <1>t, <2>1, <2>2
<1>5. ASSUME NEW i \in 1..(c - a) PROVE v[i] = u[i]
  <2>1. CASE i \in 1..(b - a)
    BY <1>1, <1>2, <1>3, <2>1
  <2>2. CASE i \notin 1..(b - a)
    <3>1. i - (b - a) \in 1..(c - b) /\ b + (i - (b - a)) = a + i
      BY <2>2
    <3>2. v[i] = t[i - (b - a)]
      BY SMTT(40), <1>1, <1>2, <2>2, <3>1
    <3>3. t[i - (b - a)] = text[a + i]
      BY <1>2, <3>1
    <3>4. QED
      BY <1>3, <3>2, <3>3
  <2>3. QED
    BY <2>1, <2>2
<1> HIDE DEF v
<1>6. v = u
  BY SMTT(40), <1>3, <1>4, <1>5
<1>7. QED
  BY <1>1, <1>6 DEF s, t, u, v

(* One list alone, joined, is itself.                                       *)
LEMMA OneAlone ==
  ASSUME NEW S, NEW t \in Seq(S)
  PROVE  FlattenSeq(<<t>>) = t
<1> DEFINE lists == <<t>>
<1>1. lists \in Seq(Seq(S)) /\ Len(lists) = 1 /\ lists[1] = t
  OBVIOUS
<1> HIDE DEF lists
<1>2. PICK r : r \in JoiningSteps(S, lists)
  BY <1>1, FlatteningSteps
<1>3. r[0] = << >> /\ r[1] = r[0] \o lists[1] /\ FlattenSeq(lists) = r[1]
  BY <1>1, <1>2 DEF JoiningSteps
<1>4. << >> \o t = t
  OBVIOUS
<1>5. QED
  BY <1>1, <1>3, <1>4 DEF lists

(* Two lists of lists, one after the other.                                  *)
LEMMA FlattenedTogether ==
  ASSUME NEW S, NEW a \in Seq(Seq(S)), NEW b \in Seq(Seq(S))
  PROVE  a \o b \in Seq(Seq(S)) /\ FlattenSeq(a \o b) = FlattenSeq(a) \o FlattenSeq(b)
<1> DEFINE A == Seq(S)
           m == Len(a)
           n == Len(b)
           both == a \o b
<1>1. /\ both \in Seq(A) /\ Len(both) = m + n /\ m \in Nat /\ n \in Nat
      /\ \A k \in 1..m : both[k] = a[k] /\ a[k] \in A
      /\ \A k \in 1..n : both[m+k] = b[k] /\ b[k] \in A
  <2> HIDE DEF A
  <2>1. a \in Seq(A) /\ b \in Seq(A)
    BY DEF A
  <2>2. QED
    BY <2>1
<1> HIDE DEF both
<1>2. PICK r : r \in JoiningSteps(S, both)
  BY <1>1, FlatteningSteps
<1>3. PICK p : p \in JoiningSteps(S, a)
  BY FlatteningSteps
<1>4. PICK q : q \in JoiningSteps(S, b)
  BY FlatteningSteps
<1>5. /\ r[0] = << >> /\ \A k \in 1..(m+n) : r[k] = r[k-1] \o both[k]
      /\ FlattenSeq(both) = r[m+n]
  BY <1>1, <1>2 DEF JoiningSteps
<1>6. /\ p[0] = << >> /\ (\A k \in 1..m : p[k] = p[k-1] \o a[k]) /\ FlattenSeq(a) = p[m]
      /\ \A k \in 0..m : p[k] \in A
  BY <1>3 DEF JoiningSteps
<1>7. /\ q[0] = << >> /\ (\A k \in 1..n : q[k] = q[k-1] \o b[k]) /\ FlattenSeq(b) = q[n]
      /\ \A k \in 0..n : q[k] \in A
  BY <1>4 DEF JoiningSteps
<1> HIDE DEF m, n
<1> DEFINE T == {k \in 0..m : r[k] = p[k]}
<1>8. 0 \in T
  BY <1>1, <1>5, <1>6
<1>9. ASSUME NEW k \in 1..m, k - 1 \in T PROVE k \in T
  <2>1. k \in 1..(m+n) /\ k \in 0..m
    BY <1>1
  <2>2. r[k] = r[k-1] \o a[k] /\ p[k] = p[k-1] \o a[k]
    BY <1>1, <1>5, <1>6, <2>1
  <2>3. QED
    BY <1>9, <2>1, <2>2
<1>10. r[m] = p[m]
  <2> HIDE DEF T
  <2>1. \A k \in 0..m : k \in T
    BY <1>1, <1>8, <1>9, EveryPlace
  <2>2. m \in 0..m
    BY <1>1
  <2>3. QED
    BY <2>1, <2>2 DEF T
<1> DEFINE U == {k \in 0..n : r[m+k] = p[m] \o q[k]}
<1>11. p[m] \in A /\ \A t, u, v \in A : (t \o u) \o v = t \o (u \o v) /\ t \o << >> = t
  <2>1. m \in 0..m
    BY <1>1
  <2>2. p[m] \in A
    BY <1>6, <2>1
  <2>3. QED
    BY <2>2
<1>12. 0 \in U
  <2>1. m + 0 = m /\ 0 \in 0..n
    BY <1>1
  <2>2. p[m] \o q[0] = p[m]
    BY <1>7, <1>11
  <2>3. QED
    BY <1>10, <2>1, <2>2
<1>13. ASSUME NEW k \in 1..n, k - 1 \in U PROVE k \in U
  <2>1. m + k \in 1..(m+n) /\ (m + k) - 1 = m + (k - 1) /\ k \in 0..n /\ k - 1 \in 0..n
    BY <1>1
  <2>2. r[m+k] = r[m + (k-1)] \o b[k]
    BY <1>1, <1>5, <2>1
  <2>3. r[m+(k-1)] = p[m] \o q[k-1]
    BY <1>13
  <2>4. q[k-1] \in A /\ b[k] \in A /\ q[k] = q[k-1] \o b[k]
    BY <1>1, <1>7, <2>1
  <2> HIDE DEF A
  <2>5. (p[m] \o q[k-1]) \o b[k] = p[m] \o q[k]
    <3>1. (p[m] \o q[k-1]) \o b[k] = p[m] \o (q[k-1] \o b[k])
      BY ZenonT(40), <1>11, <2>4
    <3>2. QED
      BY Zenon, <2>4, <3>1
  <2>6. r[m+k] = p[m] \o q[k]
    BY Zenon, <2>2, <2>3, <2>5
  <2>7. QED
    BY <2>1, <2>6
<1>14. r[m+n] = p[m] \o q[n]
  <2> HIDE DEF U
  <2>1. \A k \in 0..n : k \in U
    BY <1>1, <1>12, <1>13, EveryPlace
  <2>2. n \in 0..n
    BY <1>1
  <2>3. QED
    BY <2>1, <2>2 DEF U
<1>15. QED
  BY <1>1, <1>5, <1>6, <1>7, <1>14 DEF both, A

(* Places of a text, in ascending order.                                    *)
LEMMA PlacesAscend ==
  ASSUME NEW n \in Nat, NEW P, P \subseteq 1..n
  PROVE  LET at == Ascending(P)
             m == Cardinality(P)
         IN  /\ m \in Nat /\ DOMAIN at = 1..m
             /\ \A k \in 1..m : at[k] \in P /\ at[k] \in 1..n
             /\ \A p \in P : \E k \in 1..m : at[k] = p
             /\ \A j, k \in 1..m : j < k => at[j] < at[k]
<1> DEFINE at == Ascending(P)
           m == Cardinality(P)
           before == [i \in P |-> {j \in P : j < i}]
<1>1. \A p \in P : p \in Int
  OBVIOUS
<1>2. Ordering(P, before)
  BY <1>1 DEF Ordering
<1>3. IsFiniteSet(P)
  <2>1. IsFiniteSet(1..n)
    BY FS_Interval
  <2>2. QED
    BY <2>1, FS_Subset
<1>4. at = ByPlace(P, before)
  BY DEF Ascending
<1>5. \A e \in P : before[e] = {j \in P : j < e}
  OBVIOUS
<1> HIDE DEF before, at, m
<1>6. /\ m \in Nat /\ at \in [1..m -> P]
      /\ \A p \in P : \E k \in 1..m : at[k] = p
      /\ \A k \in 1..m : Cardinality(before[at[k]]) = k - 1
  <2>1. LET p == ByPlace(P, before)
            c == Cardinality(P)
        IN  /\ c \in Nat /\ p \in [1..c -> P]
            /\ \A s \in P : \E k \in 1..c : p[k] = s
            /\ \A k \in 1..c : Cardinality(before[p[k]]) = k - 1
    BY <1>2, <1>3, EachStandsOnce
  <2>2. QED
    BY <1>4, <2>1 DEF m
<1>7. ASSUME NEW j \in 1..m, NEW k \in 1..m, j < k PROVE at[j] < at[k]
  <2>1. at[j] \in P /\ at[k] \in P /\ at[j] \in Int /\ at[k] \in Int
    BY <1>1, <1>6
  <2>2. Cardinality(before[at[j]]) = j - 1 /\ Cardinality(before[at[k]]) = k - 1
    BY <1>6
  <2>3. ASSUME at[k] <= at[j] PROVE FALSE
    <3>1. before[at[k]] \subseteq before[at[j]]
      <4> DEFINE x == at[k]
                 y == at[j]
      <4>1. x \in P /\ y \in P /\ x \in Int /\ y \in Int /\ x <= y
        BY <2>1, <2>3
      <4> HIDE DEF x, y
      <4>2. before[x] = {q \in P : q < x} /\ before[y] = {q \in P : q < y}
        BY Zenon, <1>5, <4>1
      <4>3. \A q \in P : q < x => q < y
        BY <1>1, <4>1
      <4>4. before[x] \subseteq before[y]
        BY Zenon, <4>2, <4>3
      <4>5. QED
        BY <4>4 DEF x, y
    <3>2. before[at[j]] \subseteq P
      BY <1>5, <2>1
    <3>3. Cardinality(before[at[k]]) <= Cardinality(before[at[j]])
      <4>1. IsFiniteSet(before[at[j]])
        BY <1>3, <3>2, FS_Subset
      <4>2. QED
        BY <3>1, <4>1, FS_Subset
    <3>4. k - 1 <= j - 1
      BY Zenon, <2>2, <3>3
    <3>5. QED
      BY <1>6, <1>7, <3>4
  <2>4. QED
    BY <2>1, <2>3
<1>8. QED
  BY <1>6, <1>7 DEF at, m
=============================================================================
