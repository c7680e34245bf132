------------------------- MODULE SubsequenceProofs --------------------------
(* What Entries returns, for arrays of any length.                         *)
EXTENDS Subsequence, FiniteSetTheorems, WellFoundedInduction, TLAPS

\* A set of numbers that is not empty has a least one.
LEMMA LeastNumber ==
    ASSUME NEW T, T \subseteq Nat, T # {}
    PROVE  \E m \in T : \A k \in T : m <= k
<1> DEFINE R == OpToRel(<, Nat)
<1>1. \E m \in T : \A k \in T : ~(<<k, m>> \in R)
    BY NatLessThanWellFounded, WFMin, Zenon
<1>2. \A j, k \in Nat : k < j => <<k, j>> \in R
    BY Zenon DEF OpToRel
<1> HIDE DEF R
<1>3. PICK m \in T : \A k \in T : ~(<<k, m>> \in R)
    BY <1>1
<1>4. \A k \in T : ~(k < m)
    BY <1>2, <1>3, Zenon
<1>5. \A k \in T : m <= k
    BY <1>4
<1> QED
    BY <1>5

\* Positions are finitely many, and so are those before one of them.
LEMMA PositionsFinite ==
    ASSUME NEW n \in Nat, NEW at, at \subseteq 1..n
    PROVE  /\ IsFiniteSet(at) /\ Cardinality(at) \in 0..n
           /\ \A m : /\ IsFiniteSet({j \in at : j < m})
                     /\ Cardinality({j \in at : j < m}) \in 0..n
<1>1. IsFiniteSet(1..n) /\ Cardinality(1..n) = n
    BY FS_Interval
<1>2. \A T : T \subseteq 1..n => IsFiniteSet(T) /\ Cardinality(T) \in 0..n
  <2> SUFFICES ASSUME NEW T, T \subseteq 1..n
               PROVE  IsFiniteSet(T) /\ Cardinality(T) \in 0..n
      OBVIOUS
  <2>1. IsFiniteSet(T) /\ Cardinality(T) <= n
      BY <1>1, FS_Subset
  <2>2. Cardinality(T) \in Nat
      BY <2>1, FS_CardinalityType
  <2> QED
      BY <2>1, <2>2
<1>3. \A m : {j \in at : j < m} \subseteq 1..n
    OBVIOUS
<1> QED
    BY <1>2, <1>3, Zenon

\* For each k up to their number there is a position with k - 1 before it.
LEMMA NthExists ==
    ASSUME NEW n \in Nat, NEW at, at \subseteq 1..n, NEW k \in 1..Cardinality(at)
    PROVE  \E i \in at : Cardinality({j \in at : j < i}) = k - 1
<1> DEFINE Before(m) == {j \in at : j < m}
           T == {m \in Nat : Cardinality(Before(m)) >= k}
<1> HIDE DEF T
<1>0. /\ Cardinality(at) \in 0..n /\ k \in Nat /\ k >= 1
      /\ \A m : IsFiniteSet(Before(m)) /\ Cardinality(Before(m)) \in 0..n
  <2>1. Cardinality(at) \in 0..n
      BY PositionsFinite
  <2>2. \A m : IsFiniteSet(Before(m)) /\ Cardinality(Before(m)) \in 0..n
      BY PositionsFinite, Zenon
  <2> QED
      BY <2>1, <2>2
<1>a. \A j \in at : j \in Nat /\ j < n + 1 /\ ~(j < 0) /\ j # 0
    OBVIOUS
<1>1. n + 1 \in T
  <2>1. Before(n + 1) = at
      BY <1>a
  <2> QED
      BY <1>0, <2>1 DEF T
<1>2. PICK m \in T : \A l \in T : m <= l
  <2>1. T \subseteq Nat /\ T # {}
      BY <1>1 DEF T
  <2> QED
      BY <2>1, LeastNumber
<1>3. m \in Nat /\ Cardinality(Before(m)) >= k
    BY <1>2 DEF T
<1>4. m # 0
  <2>1. Before(0) = {}
      BY <1>a
  <2> QED
      BY <1>0, <1>3, <2>1, FS_EmptySet
<1>5. m - 1 \in Nat /\ m - 1 \notin T
    BY <1>2, <1>3, <1>4 DEF T
<1>6. Cardinality(Before(m - 1)) < k
    BY <1>0, <1>5 DEF T
<1>7. Before(m) = IF m - 1 \in at THEN Before(m - 1) \cup {m - 1} ELSE Before(m - 1)
  <2>1. \A j \in at : j < m <=> j < m - 1 \/ j = m - 1
      BY <1>a, <1>3, <1>4
  <2> QED
      BY <2>1, <1>5
<1>8. m - 1 \notin Before(m - 1)
    BY <1>5
<1>9. m - 1 \in at
    BY <1>3, <1>6, <1>7, <1>0
<1> HIDE DEF Before
<1>10. Cardinality(Before(m)) = Cardinality(Before(m - 1)) + 1
    BY <1>0, <1>7, <1>8, <1>9, FS_AddElement
<1>11. Cardinality(Before(m - 1)) = k - 1
    BY <1>0, <1>3, <1>6, <1>10
<1> QED
    BY <1>9, <1>11 DEF Before

\* The k-th position is one of them.
LEMMA NthIn ==
    ASSUME NEW n \in Nat, NEW at, at \subseteq 1..n, NEW k \in 1..Cardinality(at)
    PROVE  Nth(at, k) \in at
BY NthExists DEF Nth

\* Entries has an entry for every position, each one from there.
LEMMA EntriesFrom ==
    ASSUME NEW n \in Nat, NEW at, at \subseteq 1..n, NEW s
    PROVE  /\ Len(Entries(s, at)) = Cardinality(at)
           /\ Cardinality(at) \in 0..n
           /\ DOMAIN Entries(s, at) = 1..Cardinality(at)
           /\ \A k \in 1..Cardinality(at) : \E i \in at : Entries(s, at)[k] = s[i]
           /\ \A S : (\A i \in at : s[i] \in S) => Entries(s, at) \in Seq(S)
<1>1. Cardinality(at) \in 0..n
    BY PositionsFinite
<1>2. \A k \in 1..Cardinality(at) : Nth(at, k) \in at
    BY NthIn
<1> DEFINE e == Entries(s, at)
<1>3. /\ e = [k \in 1..Cardinality(at) |-> s[Nth(at, k)]]
      /\ DOMAIN e = 1..Cardinality(at)
    BY DEF Entries
<1>4. \A k \in 1..Cardinality(at) : e[k] = s[Nth(at, k)]
    BY <1>3
<1> HIDE DEF e
<1>5. \A S : (\A i \in at : s[i] \in S) => e \in Seq(S) /\ Len(e) = Cardinality(at)
  <2> SUFFICES ASSUME NEW S, \A i \in at : s[i] \in S
               PROVE  e \in Seq(S) /\ Len(e) = Cardinality(at)
      OBVIOUS
  <2>1. \A k \in 1..Cardinality(at) : s[Nth(at, k)] \in S
      BY <1>2
  <2> QED
      BY <1>1, <1>3, <2>1
<1>6. Len(e) = Cardinality(at)
  <2> DEFINE S == {s[i] : i \in at}
  <2>1. \A i \in at : s[i] \in S
      OBVIOUS
  <2> HIDE DEF S
  <2> QED
      BY <1>5, <2>1
<1>7. \A k \in 1..Cardinality(at) : \E i \in at : e[k] = s[i]
    BY <1>2, <1>4
<1> QED
    BY <1>1, <1>3, <1>5, <1>6, <1>7 DEF e

\* Where all positions are meant, nothing is left out.
LEMMA EntriesAll ==
    ASSUME NEW S, NEW s \in Seq(S)
    PROVE  Entries(s, 1..Len(s)) = s
<1> DEFINE n == Len(s)
<1>1. n \in Nat /\ Cardinality(1..n) = n
  <2>1. n \in Nat
      OBVIOUS
  <2> HIDE DEF n
  <2> QED
      BY <2>1, FS_Interval
<1>2. ASSUME NEW k \in 1..n PROVE Nth(1..n, k) = k
  <2>1. ASSUME NEW i \in 1..n PROVE Cardinality({j \in 1..n : j < i}) = i - 1
    <3>1. {j \in 1..n : j < i} = 1..(i - 1)
        BY <1>1
    <3>2. Cardinality(1..(i - 1)) = i - 1
        BY <1>1, FS_Interval
    <3> QED
        BY <3>1, <3>2
  <2>2. k \in 1..n /\ Cardinality({j \in 1..n : j < k}) = k - 1
      BY <2>1
  <2>3. Nth(1..n, k) \in 1..n /\ Cardinality({j \in 1..n : j < Nth(1..n, k)}) = k - 1
      BY <2>2 DEF Nth
  <2>4. Cardinality({j \in 1..n : j < Nth(1..n, k)}) = Nth(1..n, k) - 1
      BY <2>1, <2>3
  <2> QED
      BY <1>1, <2>3, <2>4
<1> QED
    BY <1>1, <1>2 DEF Entries
=============================================================================
