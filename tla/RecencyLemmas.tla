--------------------------- MODULE RecencyLemmas ---------------------------
(***************************************************************************)
(* What "ORDER BY submitted_at DESC LIMIT n" returns, for every finite set *)
(* of rows. Both tables of internal/storage are trimmed with a DELETE of   *)
(* the rows that are not among those.                                      *)
(***************************************************************************)
EXTENDS Naturals, FiniteSets, FiniteSetTheorems, WellFoundedInduction, TLAPS

\* The members of S later than p by the timestamps at, and those with less than n later.
Later(S, at, p)  == {v \in S : at[v] > at[p]}
MostRecent(S, at, n) == {u \in S : Cardinality(Later(S, at, u)) < n}

\* A nonempty set has a member that f maps to the least value.
LEMMA LeastMember ==
  ASSUME NEW T, T # {}, NEW f, \A x \in T : f[x] \in Nat
  PROVE  \E x \in T : \A y \in T : f[x] <= f[y]
  <1> DEFINE V == {f[x] : x \in T}
  <1>1. V \subseteq Nat /\ V # {}
    OBVIOUS
  <1>2. \E m \in V : \A k \in V : ~(<<k, m>> \in OpToRel(<, Nat))
    <2> HIDE DEF V
    <2> QED
      BY <1>1, NatLessThanWellFounded, WFMin
  <1>3. PICK x \in T : \A k \in V : ~(<<k, f[x]>> \in OpToRel(<, Nat))
    BY <1>2
  <1>4. ASSUME NEW y \in T PROVE f[x] <= f[y]
    <2>1. ~(<<f[y], f[x]>> \in OpToRel(<, Nat))
      BY <1>3
    <2>2. ~(f[y] < f[x])
      BY <2>1 DEF OpToRel
    <2> QED
      BY <2>2
  <1> QED
    BY <1>4

\* Any member of S that is not among the newest n has n of those after it.
LEMMA NewestAreMany ==
  ASSUME NEW S, IsFiniteSet(S), NEW at, \A v \in S : at[v] \in Nat, NEW n \in Nat,
         NEW p \in S, p \notin MostRecent(S, at, n)
  PROVE  Cardinality(Later(MostRecent(S, at, n), at, p)) >= n
  <1> DEFINE L == Later(S, at, p)
             K == Later(MostRecent(S, at, n), at, p)
             count == [u \in S |-> Cardinality(Later(S, at, u))]
  <1>1. \A u \in S : IsFiniteSet(Later(S, at, u)) /\ Cardinality(Later(S, at, u)) \in Nat
    BY FS_Subset, FS_CardinalityType DEF Later
  <1>2. K \subseteq L /\ IsFiniteSet(L) /\ IsFiniteSet(K) /\ Cardinality(K) \in Nat
    BY <1>1, FS_Subset, FS_CardinalityType DEF Later, MostRecent
  <1>3. Cardinality(L) >= n
    BY <1>1 DEF MostRecent
  <1> SUFFICES ASSUME Cardinality(K) < n PROVE FALSE
    BY <1>2
  <1>4. L \ K # {}
    <2>1. Cardinality(K) # Cardinality(L)
      BY <1>1, <1>2, <1>3
    <2> HIDE DEF L, K
    <2>2. ASSUME L \subseteq K PROVE FALSE
      <3>1. L = K
        BY <1>2, <2>2
      <3> QED
        BY <2>1, <3>1
    <2> QED
      BY <2>2
  <1>5. PICK u \in L \ K : \A v \in L \ K : count[u] <= count[v]
    <2>1. \A v \in L \ K : count[v] \in Nat
      BY <1>1 DEF Later
    <2> HIDE DEF L, K, count
    <2> QED
      BY <1>4, <2>1, LeastMember
  <1>6. u \in S /\ at[u] > at[p] /\ count[u] >= n
    <2>1. u \in S /\ at[u] > at[p]
      BY <1>5 DEF Later
    <2>2. u \notin MostRecent(S, at, n)
      BY <1>5, <2>1 DEF Later
    <2> QED
      BY <1>1, <2>1, <2>2 DEF MostRecent
  <1>7. ASSUME NEW v \in Later(S, at, u) PROVE v \in K
    <2>1. v \in S /\ at[v] > at[u] /\ at[v] > at[p]
      BY <1>6, <1>7 DEF Later
    <2>2. Later(S, at, v) \subseteq Later(S, at, u) /\ v \notin Later(S, at, v)
      BY <1>6, <2>1 DEF Later
    <2>3. count[v] < count[u]
      <3>1. /\ IsFiniteSet(Later(S, at, u))
            /\ Cardinality(Later(S, at, u)) \in Nat /\ Cardinality(Later(S, at, v)) \in Nat
        BY <1>1, <1>6, <2>1
      <3>2. /\ Cardinality(Later(S, at, v)) <= Cardinality(Later(S, at, u))
            /\ Cardinality(Later(S, at, v)) # Cardinality(Later(S, at, u))
        BY <1>7, <2>2, <3>1, FS_Subset
      <3> QED
        BY <1>6, <2>1, <3>1, <3>2
    <2>4. v \in L
      BY <2>1 DEF Later
    <2>5. count[v] \in Nat /\ count[u] \in Nat
      BY <1>1, <1>6, <2>1
    <2> HIDE DEF L, K, count
    <2> QED
      BY <1>5, <2>3, <2>4, <2>5
  <1>8. count[u] <= Cardinality(K)
    BY <1>2, <1>6, <1>7, FS_Subset
  <1> QED
    BY <1>1, <1>2, <1>6, <1>8

\* Members with distinct timestamps: no more than n of them are the newest n.
LEMMA NewestAreFew ==
  ASSUME NEW S, IsFiniteSet(S), NEW at, \A v \in S : at[v] \in Nat, NEW n \in Nat,
         \A u, v \in S : at[u] = at[v] => u = v
  PROVE  Cardinality(MostRecent(S, at, n)) <= n
  <1> DEFINE N == MostRecent(S, at, n)
  <1>1. N \subseteq S /\ IsFiniteSet(N) /\ Cardinality(N) \in Nat
    BY FS_Subset, FS_CardinalityType DEF MostRecent
  <1>2. CASE N = {}
    BY <1>2, FS_EmptySet
  <1>3. CASE N # {}
    <2>1. PICK u \in N : \A v \in N : at[u] <= at[v]
      <3>1. \A v \in N : at[v] \in Nat
        BY <1>1
      <3> HIDE DEF N
      <3> QED
        BY <1>3, <3>1, LeastMember
    <2>2. u \in S /\ Cardinality(Later(S, at, u)) < n
      BY <2>1 DEF MostRecent
    <2>3. N \ {u} \subseteq Later(S, at, u)
      BY <1>1, <2>1 DEF Later
    <2>4. IsFiniteSet(Later(S, at, u)) /\ Cardinality(Later(S, at, u)) \in Nat
      BY FS_Subset, FS_CardinalityType DEF Later
    <2>5. Cardinality(N \ {u}) = Cardinality(N) - 1
      <3> HIDE DEF N
      <3> QED
        BY <1>1, <2>1, FS_RemoveElement
    <2>6. Cardinality(N \ {u}) <= Cardinality(Later(S, at, u))
      BY <2>3, <2>4, FS_Subset
    <2>7. Cardinality(N) <= n
      <3> HIDE DEF N
      <3> QED
        BY <1>1, <2>2, <2>4, <2>5, <2>6
    <2> QED
      BY <2>7
  <1> QED
    BY <1>2, <1>3
=============================================================================
