---------------------------- MODULE ArrayProofs ----------------------------
(***************************************************************************)
(* What filter and sort return, for arrays of any length.                  *)
(***************************************************************************)
EXTENDS Arrays, FiniteSetTheorems, SequenceTheorems, TLAPS

-----------------------------------------------------------------------------
(* The members of a set in an order.  The number of members up to x is     *)
(* strictly monotone in x, so it is an injection of S into 1..|S|, and by  *)
(* counting a surjection: every place is some member's.                    *)

Place(S, R) == [x \in S |-> Cardinality(UpTo(S, R, x))]

LEMMA UpToIsFinite ==
    ASSUME NEW S, IsFiniteSet(S), NEW R, NEW x \in S, <<x, x>> \in R
    PROVE  /\ IsFiniteSet(UpTo(S, R, x))
           /\ Place(S, R)[x] \in 1..Cardinality(S)
<1>1. UpTo(S, R, x) \subseteq S /\ x \in UpTo(S, R, x)
  BY DEF UpTo
<1>2. /\ IsFiniteSet(UpTo(S, R, x))
      /\ Cardinality(UpTo(S, R, x)) <= Cardinality(S)
  BY <1>1, FS_Subset
<1>3. Cardinality(S) \in Nat /\ Cardinality(UpTo(S, R, x)) \in Nat
  BY <1>2, FS_CardinalityType
<1>4. Cardinality(UpTo(S, R, x)) # 0
  BY <1>1, <1>2, FS_EmptySet
<1> QED
  BY <1>2, <1>3, <1>4 DEF Place

LEMMA PlaceIsMonotone ==
    ASSUME NEW S, IsFiniteSet(S), NEW R, IsTotalOrder(S, R),
           NEW x \in S, NEW y \in S, x # y, <<x, y>> \in R
    PROVE  Place(S, R)[x] < Place(S, R)[y]
<1>1. UpTo(S, R, x) \subseteq UpTo(S, R, y)
  BY DEF UpTo, IsTotalOrder
<1>2. y \in UpTo(S, R, y) /\ y \notin UpTo(S, R, x)
  BY DEF UpTo, IsTotalOrder
<1>3. /\ IsFiniteSet(UpTo(S, R, y))
      /\ Place(S, R)[x] \in Nat /\ Place(S, R)[y] \in Nat
  <2>1. <<x, x>> \in R /\ <<y, y>> \in R
    BY DEF IsTotalOrder
  <2>2. Cardinality(S) \in Nat
    BY FS_CardinalityType
  <2> QED
    BY <2>1, <2>2, UpToIsFinite
<1>4. /\ Cardinality(UpTo(S, R, x)) <= Cardinality(UpTo(S, R, y))
      /\ Cardinality(UpTo(S, R, x)) # Cardinality(UpTo(S, R, y))
  <2> DEFINE A == UpTo(S, R, x)
             B == UpTo(S, R, y)
  <2>1. A \in SUBSET B /\ IsFiniteSet(B) /\ A # B
    BY <1>1, <1>2, <1>3
  <2> HIDE DEF A, B
  <2>2. Cardinality(A) <= Cardinality(B) /\ Cardinality(A) # Cardinality(B)
    BY <2>1, FS_Subset
  <2> QED
    BY <2>2 DEF A, B
<1> QED
  BY <1>3, <1>4 DEF Place

LEMMA PlaceIsTaken ==
    ASSUME NEW S, IsFiniteSet(S), NEW R, IsTotalOrder(S, R)
    PROVE  \A k \in 1..Cardinality(S) : \E x \in S : Place(S, R)[x] = k
<1> DEFINE T == 1..Cardinality(S)
           f == Place(S, R)
<1>1. Cardinality(S) \in Nat
  BY FS_CardinalityType
<1>2. IsFiniteSet(T) /\ Cardinality(T) = Cardinality(S)
  BY <1>1, FS_Interval
<1>3. \A x \in S : f[x] \in T
  BY UpToIsFinite DEF IsTotalOrder
<1>4. f \in [S -> T]
  BY <1>3 DEF Place
<1>5. \A x, y \in S : x # y => f[x] # f[y]
  <2> SUFFICES ASSUME NEW x \in S, NEW y \in S, x # y PROVE f[x] # f[y]
    OBVIOUS
  <2>1. f[x] \in Int /\ f[y] \in Int
    BY <1>1, <1>3
  <2>2. f[x] < f[y] \/ f[y] < f[x]
    BY PlaceIsMonotone DEF IsTotalOrder
  <2> QED
    BY <2>1, <2>2
<1> HIDE DEF T, f
<1>6. f \in Injection(S, T)
  BY <1>4, <1>5 DEF Injection, IsInjective
<1>7. f \in Surjection(S, T)
  BY <1>2, <1>6, FS_Injection
<1>8. \A k \in T : \E x \in S : f[x] = k
  BY <1>7 DEF Surjection
<1> QED
  BY <1>8 DEF T, f

\* Every member of S comes once, and each before those that follow it in R.
LEMMA InOrderLists ==
    ASSUME NEW S, IsFiniteSet(S), NEW R, IsTotalOrder(S, R)
    PROVE  /\ Cardinality(S) \in Nat
           /\ InOrder(S, R) \in [1..Cardinality(S) -> S]
           /\ \A x \in S : \E k \in 1..Cardinality(S) : InOrder(S, R)[k] = x
           /\ \A j, k \in 1..Cardinality(S) : j < k =>
                 /\ InOrder(S, R)[j] # InOrder(S, R)[k]
                 /\ <<InOrder(S, R)[j], InOrder(S, R)[k]>> \in R
<1> DEFINE at == InOrder(S, R)
           place == Place(S, R)
           n == Cardinality(S)
<1>1. n \in Nat
  BY FS_CardinalityType
<1>2. \A k \in 1..n : at[k] = CHOOSE x \in S : place[x] = k
  BY DEF InOrder, Place
<1>3. \A k \in 1..n : at[k] \in S /\ place[at[k]] = k
  <2> SUFFICES ASSUME NEW k \in 1..n PROVE at[k] \in S /\ place[at[k]] = k
    OBVIOUS
  <2>1. \E x \in S : place[x] = k
    BY PlaceIsTaken
  <2> HIDE DEF place, at
  <2> QED
    BY <1>2, <2>1
<1>4. at \in [1..n -> S]
  BY <1>3 DEF InOrder
<1>5. \A x, y \in S : x # y /\ <<x, y>> \in R => place[x] < place[y]
  BY PlaceIsMonotone
<1>6. \A x \in S : place[x] \in 1..n
  BY UpToIsFinite DEF IsTotalOrder
<1>7. \A x, y \in S : place[x] = place[y] => x = y
  <2> SUFFICES ASSUME NEW x \in S, NEW y \in S, place[x] = place[y], x # y PROVE FALSE
    OBVIOUS
  <2>1. place[x] < place[y] \/ place[y] < place[x]
    BY <1>5 DEF IsTotalOrder
  <2>2. place[x] \in Int
    BY <1>1, <1>6
  <2> HIDE DEF place
  <2> QED
    BY <2>1, <2>2
<1>8. \A x \in S : \E k \in 1..n : at[k] = x
  <2> SUFFICES ASSUME NEW x \in S PROVE \E k \in 1..n : at[k] = x
    OBVIOUS
  <2>1. place[x] \in 1..n
    BY <1>6
  <2>2. at[place[x]] \in S /\ place[at[place[x]]] = place[x]
    BY <1>3, <2>1
  <2>3. at[place[x]] = x
    BY <1>7, <2>2
  <2> QED
    BY <2>1, <2>3
<1>9. \A j, k \in 1..n : j < k => at[j] # at[k] /\ <<at[j], at[k]>> \in R
  <2> SUFFICES ASSUME NEW j \in 1..n, NEW k \in 1..n, j < k
               PROVE  at[j] # at[k] /\ <<at[j], at[k]>> \in R
    OBVIOUS
  <2>1. at[j] \in S /\ at[k] \in S /\ place[at[j]] = j /\ place[at[k]] = k
    BY <1>3
  <2> HIDE DEF at, place
  <2>2. at[j] # at[k]
    BY <2>1
  <2>3. ~ (<<at[k], at[j]>> \in R)
    <3> SUFFICES ASSUME <<at[k], at[j]>> \in R PROVE FALSE
      OBVIOUS
    <3>1. place[at[k]] < place[at[j]]
      BY <1>5, <2>1, <2>2
    <3> QED
      BY <1>1, <2>1, <3>1
  <2> QED
    BY <2>1, <2>2, <2>3 DEF IsTotalOrder
<1> QED
  BY <1>1, <1>4, <1>8, <1>9

-----------------------------------------------------------------------------
(* filter and sort.                                                        *)

LEMMA UpwardsIsTotal ==
    ASSUME NEW P, P \subseteq Int
    PROVE  IsTotalOrder(P, Upwards(P))
BY DEF IsTotalOrder, Upwards

LEMMA ByKeyIsTotal ==
    ASSUME NEW key, DOMAIN key \subseteq Int, \A i \in DOMAIN key : key[i] \in Int
    PROVE  IsTotalOrder(DOMAIN key, ByKey(key))
BY DEF IsTotalOrder, ByKey

LEMMA FunctionIsSeq ==
    ASSUME NEW S, NEW n \in Nat, NEW f \in [1..n -> S]
    PROVE  f \in Seq(S) /\ Len(f) = n
<1>1. f \in Seq(S)
  BY SeqDef
<1>2. DOMAIN f = 1..n
  OBVIOUS
<1> QED
  BY <1>1, <1>2, LenProperties

\* t has the entries of s at P, each once, in their order: the k-th is the at[k]-th.
KeepsOrder(t, s, P, at) ==
    /\ at \in [1..Cardinality(P) -> P]
    /\ DOMAIN t = 1..Cardinality(P)
    /\ \A k \in 1..Cardinality(P) : t[k] = s[at[k]]
    /\ \A i \in P : \E k \in 1..Cardinality(P) : at[k] = i
    /\ \A j, k \in 1..Cardinality(P) : j < k => at[j] < at[k]

\* t has the first n entries of s, each once, and their keys never fall.
OrdersKeys(t, s, n, key, at) ==
    /\ at \in [1..n -> 1..n]
    /\ DOMAIN t = 1..n
    /\ \A k \in 1..n : t[k] = s[at[k]]
    /\ \A i \in 1..n : \E k \in 1..n : at[k] = i
    /\ \A j, k \in 1..n : j < k => at[j] # at[k] /\ key[at[j]] <= key[at[k]]

\* The result of a filter has the entries that pass, each once, in their order.
LEMMA FilterKeepsOrder ==
    ASSUME NEW s, NEW P, P \subseteq Int, IsFiniteSet(P)
    PROVE  \E at : KeepsOrder(Filtered(s, P), s, P, at)
<1> DEFINE at == InOrder(P, Upwards(P))
           f == [k \in 1..Cardinality(P) |-> s[at[k]]]
<1>1. IsTotalOrder(P, Upwards(P))
  BY UpwardsIsTotal
<1>2. /\ at \in [1..Cardinality(P) -> P]
      /\ \A i \in P : \E k \in 1..Cardinality(P) : at[k] = i
      /\ \A j, k \in 1..Cardinality(P) : j < k =>
            at[j] # at[k] /\ <<at[j], at[k]>> \in Upwards(P)
  BY <1>1, InOrderLists
<1> HIDE DEF at
<1>3. \A j, k \in 1..Cardinality(P) : j < k => at[j] < at[k]
  <2> SUFFICES ASSUME NEW j \in 1..Cardinality(P), NEW k \in 1..Cardinality(P), j < k
               PROVE  at[j] < at[k]
    OBVIOUS
  <2>1. at[j] # at[k] /\ at[j] <= at[k] /\ at[j] \in Int /\ at[k] \in Int
    BY <1>2 DEF Upwards
  <2> QED
    BY <2>1
<1>4. Filtered(s, P) = f
  BY <1>2 DEF Filtered, at
<1>5. DOMAIN f = 1..Cardinality(P) /\ \A k \in 1..Cardinality(P) : f[k] = s[at[k]]
  OBVIOUS
<1> HIDE DEF f
<1> QED
  BY <1>2, <1>3, <1>4, <1>5 DEF KeepsOrder

LEMMA FilteredIsSeq ==
    ASSUME NEW S, NEW s, NEW P, P \subseteq Int, IsFiniteSet(P), \A i \in P : s[i] \in S
    PROVE  Filtered(s, P) \in Seq(S)
<1> DEFINE at == InOrder(P, Upwards(P))
           f == [k \in 1..Cardinality(P) |-> s[at[k]]]
<1>1. IsTotalOrder(P, Upwards(P))
  BY UpwardsIsTotal
<1>2. at \in [1..Cardinality(P) -> P] /\ Cardinality(P) \in Nat
  BY <1>1, InOrderLists
<1> HIDE DEF at
<1>3. Filtered(s, P) = f
  BY <1>2 DEF Filtered, at
<1>4. f \in [1..Cardinality(P) -> S]
  BY <1>2
<1> HIDE DEF f
<1> QED
  BY <1>2, <1>3, <1>4, FunctionIsSeq

\* The result of a sort has every entry once, and their keys never fall.
LEMMA SortOrdersKeys ==
    ASSUME NEW s, NEW n \in Nat, NEW key \in [1..n -> Int]
    PROVE  \E at : OrdersKeys(Sorted(s, key), s, n, key, at)
<1> DEFINE at == InOrder(1..n, ByKey(key))
           f == [k \in 1..n |-> s[at[k]]]
<1>1. DOMAIN key = 1..n
  OBVIOUS
<1>2. IsTotalOrder(1..n, ByKey(key))
  BY <1>1, ByKeyIsTotal
<1>3. IsFiniteSet(1..n) /\ Cardinality(1..n) = n
  BY FS_Interval
<1>4. /\ at \in [1..n -> 1..n]
      /\ \A i \in 1..n : \E k \in 1..n : at[k] = i
      /\ \A j, k \in 1..n : j < k => at[j] # at[k] /\ <<at[j], at[k]>> \in ByKey(key)
  <2> DEFINE I == 1..n
             R == ByKey(key)
  <2>1. IsFiniteSet(I) /\ Cardinality(I) = n /\ IsTotalOrder(I, R)
    BY <1>2, <1>3
  <2> HIDE DEF I, R
  <2> DEFINE c == Cardinality(I)
             o == InOrder(I, R)
             Lists(m) == /\ o \in [1..m -> I]
                         /\ \A i \in I : \E k \in 1..m : o[k] = i
                         /\ \A j, k \in 1..m : j < k =>
                               o[j] # o[k] /\ <<o[j], o[k]>> \in R
  <2>2. Lists(c)
    BY <2>1, InOrderLists
  <2>3. c = n
    BY <2>1
  <2> HIDE DEF c, o
  <2>4. Lists(n)
    BY <2>2, <2>3
  <2> QED
    BY <2>4 DEF I, R, o
<1> HIDE DEF at
<1>5. \A j, k \in 1..n : j < k => key[at[j]] <= key[at[k]]
  <2> SUFFICES ASSUME NEW j \in 1..n, NEW k \in 1..n, j < k
               PROVE  key[at[j]] <= key[at[k]]
    OBVIOUS
  <2>1. <<at[j], at[k]>> \in ByKey(key)
    BY <1>4
  <2>2. key[at[j]] < key[at[k]] \/ key[at[j]] = key[at[k]]
    BY <2>1 DEF ByKey
  <2>3. key[at[j]] \in Int /\ key[at[k]] \in Int
    BY <1>1, <1>4
  <2> QED
    BY <2>2, <2>3
<1>6. Sorted(s, key) = f
  <2>1. DOMAIN InOrder(1..n, ByKey(key)) = 1..n
    BY <1>4 DEF at
  <2> QED
    BY <1>1, <2>1 DEF Sorted, at
<1>7. DOMAIN f = 1..n /\ \A k \in 1..n : f[k] = s[at[k]]
  OBVIOUS
<1> HIDE DEF f
<1> QED
  BY <1>4, <1>5, <1>6, <1>7 DEF OrdersKeys
=============================================================================
