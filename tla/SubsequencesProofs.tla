-------------------------- MODULE SubsequencesProofs --------------------------
(***************************************************************************)
(* Keep(s, I) lists s at the positions I, each of them once and in their   *)
(* order, and LastOf(s, n) lists its last n elements, for every sequence,  *)
(* set of its positions and n.                                             *)
(***************************************************************************)
EXTENDS Subsequences, FiniteSetTheorems, WellFoundedInduction, TLAPS

\* A set of numbers has a least member.
LEMMA LeastMember ==
  ASSUME NEW T, T \subseteq Nat, T # {}
  PROVE  \E i \in T : \A j \in T : i <= j
  <1>1. PICK i \in T : \A j \in T : <<j, i>> \notin OpToRel(<, Nat)
    BY NatLessThanWellFounded, WFMin
  <1>2. \A j \in T : ~(j < i)
    BY <1>1 DEF OpToRel
  <1> QED
    BY <1>2

\* A set of numbers with a bound has a greatest member.
LEMMA GreatestMember ==
  ASSUME NEW m \in Nat, NEW T \in SUBSET (0..m), T # {}
  PROVE  \E i \in T : \A j \in T : j <= i
  <1> DEFINE D == {m - i : i \in T}
  <1>0. \A i \in T : i \in Nat /\ i <= m /\ m - i \in Nat
    OBVIOUS
  <1>1. D \subseteq Nat /\ D # {}
    BY <1>0
  <1>2. PICK d \in D : \A e \in D : d <= e
    BY <1>1, LeastMember
  <1>3. PICK i \in T : d = m - i
    BY <1>2
  <1>4. ASSUME NEW j \in T PROVE j <= i
    <2>1. m - j \in D /\ m - i <= m - j
      BY <1>2, <1>3
    <2> QED BY <1>0, <2>1
  <1> QED
    BY <1>4


\* Positions of a sequence, and those among them up to one, are finite sets.
LEMMA PositionsFinite ==
  ASSUME NEW m \in Nat, NEW I \in SUBSET (1..m)
  PROVE  /\ IsFiniteSet(I) /\ Cardinality(I) \in 0..m
         /\ \A J \in SUBSET I : IsFiniteSet(J) /\ Cardinality(J) \in 0..Cardinality(I)
  <1>1. IsFiniteSet(1..m) /\ Cardinality(1..m) = m
    BY FS_Interval
  <1>2. IsFiniteSet(I) /\ Cardinality(I) <= m
    BY <1>1, FS_Subset
  <1>3. \A J \in SUBSET I : IsFiniteSet(J) /\ Cardinality(J) <= Cardinality(I)
    BY <1>2, FS_Subset
  <1> QED BY <1>2, <1>3, FS_CardinalityType

\* Ranks are between 1 and the number of positions, and grow with the position.
LEMMA RanksGrow ==
  ASSUME NEW m \in Nat, NEW I \in SUBSET (1..m)
  PROVE  /\ \A i \in I : Rank(I, i) \in 1..Cardinality(I)
         /\ \A i, j \in I : i < j => Rank(I, i) < Rank(I, j)
  <1> DEFINE Upto(i) == {k \in I : k <= i}
  <1>0. Cardinality(I) \in 0..m /\ \A i \in I : i \in Nat
    BY PositionsFinite
  <1>1. ASSUME NEW i \in I
        PROVE  /\ IsFiniteSet(Upto(i)) /\ Upto(i) # {}
               /\ Cardinality(Upto(i)) \in 0..Cardinality(I)
    <2>1. Upto(i) \in SUBSET I
      OBVIOUS
    <2>2. i \in Upto(i)
      BY <1>0
    <2> QED BY <2>1, <2>2, PositionsFinite
  <1>2. \A i \in I : Cardinality(Upto(i)) \in 1..Cardinality(I)
    <2> HIDE DEF Upto
    <2> QED BY <1>0, <1>1, FS_EmptySet
  <1>3. ASSUME NEW i \in I, NEW j \in I, i < j
        PROVE  Cardinality(Upto(i)) < Cardinality(Upto(j))
    <2>1. Upto(i) \in SUBSET Upto(j) /\ j \in Upto(j) \ Upto(i)
      <3>1. /\ i \in Int /\ j \in Int /\ i < j
            /\ \A k \in I : k \in Int
        BY <1>0, <1>3
      <3>2. ASSUME NEW k \in Upto(i) PROVE k \in Upto(j)
        BY <3>1
      <3>3. j \in Upto(j) /\ j \notin Upto(i)
        BY <3>1
      <3> QED BY <3>2, <3>3
    <2>2. /\ Cardinality(Upto(i)) <= Cardinality(Upto(j))
          /\ Cardinality(Upto(i)) # Cardinality(Upto(j))
      BY <2>1, <1>1, FS_Subset
    <2> HIDE DEF Upto
    <2> QED BY <1>0, <1>1, <2>2
  <1> QED BY <1>2, <1>3 DEF Rank

\* Every number up to the number of positions is the rank of one of them.
LEMMA EveryRank ==
  ASSUME NEW m \in Nat, NEW I \in SUBSET (1..m), NEW n \in 1..Cardinality(I)
  PROVE  \E i \in I : Rank(I, i) = n
  <1> DEFINE c == Cardinality(I)
             rank == [i \in I |-> Rank(I, i)]
  <1>0. c \in 0..m /\ \A i \in I : i \in Nat
    BY PositionsFinite
  <1>1. c \in Nat /\ IsFiniteSet(1..c) /\ Cardinality(1..c) = c
    <2>1. c \in Int /\ 1 \in Int /\ c \in Nat
      BY <1>0
    <2> HIDE DEF c
    <2>2. IsFiniteSet(1..c) /\ Cardinality(1..c) = IF 1 > c THEN 0 ELSE c - 1 + 1
      BY <2>1, FS_Interval
    <2> QED BY <2>1, <2>2
  <1>2. rank \in [I -> 1..c] /\ \A i, j \in I : rank[i] = rank[j] => i = j
    <2>1. \A i \in I : Rank(I, i) \in 1..c
      BY RanksGrow
    <2>2. ASSUME NEW i \in I, NEW j \in I, i # j
          PROVE  Rank(I, i) # Rank(I, j)
      <3>1. i < j \/ j < i
        BY <1>0, <2>2
      <3>2. Rank(I, i) < Rank(I, j) \/ Rank(I, j) < Rank(I, i)
        BY <3>1, RanksGrow
      <3>3. Rank(I, i) \in Nat /\ Rank(I, j) \in Nat
        BY <1>1, <2>1
      <3> QED BY <3>2, <3>3
    <2> QED BY <2>1, <2>2
  <1>3. rank \in Injection(I, 1..c)
    BY <1>2 DEF Injection, IsInjective
  <1>4. rank \in Surjection(I, 1..c)
    BY <1>1, <1>3, FS_Injection
  <1> QED BY <1>4 DEF Surjection

\* The n-th position is one of them, and a later one is greater.
LEMMA NthGrows ==
  ASSUME NEW m \in Nat, NEW I \in SUBSET (1..m)
  PROVE  /\ \A n \in 1..Cardinality(I) : Nth(I, n) \in I
         /\ \A i \in I : Rank(I, i) \in 1..Cardinality(I) /\ Nth(I, Rank(I, i)) = i
         /\ \A n, k \in 1..Cardinality(I) : n < k => Nth(I, n) < Nth(I, k)
  <1>1. \A n \in 1..Cardinality(I) : Nth(I, n) \in I /\ Rank(I, Nth(I, n)) = n
    BY EveryRank DEF Nth
  <1>0. Cardinality(I) \in 0..m /\ \A i \in I : i \in Nat
    BY PositionsFinite
  <1> DEFINE c == Cardinality(I)
  <1>a. \A i \in I : Rank(I, i) \in 1..c
    BY RanksGrow
  <1>b. \A i, j \in I : i < j => Rank(I, i) < Rank(I, j)
    BY RanksGrow
  <1>3. \A i \in I : Rank(I, i) \in 1..c /\ Rank(I, i) \in Nat
    BY <1>0, <1>a
  <1>2. ASSUME NEW i \in I, NEW j \in I, Rank(I, i) = Rank(I, j)
        PROVE  i = j
    <2>1. ~(i < j) /\ ~(j < i)
      BY <1>b, <1>2, <1>3
    <2> QED BY <1>0, <2>1
  <1>4. ASSUME NEW n \in 1..Cardinality(I), NEW k \in 1..Cardinality(I), n < k
        PROVE  Nth(I, n) < Nth(I, k)
    <2>1. /\ Nth(I, n) \in I /\ Nth(I, n) \in Nat /\ Rank(I, Nth(I, n)) = n
          /\ Nth(I, k) \in I /\ Nth(I, k) \in Nat /\ Rank(I, Nth(I, k)) = k
      BY <1>0, <1>1
    <2>4. n \in Nat /\ k \in Nat
      BY <1>0
    <2>2. Nth(I, k) < Nth(I, n) => k < n
      BY <1>b, <2>1
    <2>3. Nth(I, n) # Nth(I, k)
      BY <1>4, <2>1, <2>4
    <2> QED BY <1>4, <2>1, <2>2, <2>3, <2>4
  <1> QED BY <1>1, <1>2, <1>3, <1>4

\* What is kept is a sequence of elements of s at the positions I, in their order: n |-> at[n]
\* is increasing and reaches every one of them.
THEOREM KeepLists ==
  ASSUME NEW S, NEW s \in Seq(S), NEW I \in SUBSET (DOMAIN s)
  PROVE  /\ Keep(s, I) \in Seq(S)
         /\ Len(Keep(s, I)) = Cardinality(I) /\ Cardinality(I) \in 0..Len(s)
         /\ \A n \in DOMAIN Keep(s, I) : Nth(I, n) \in I /\ Keep(s, I)[n] = s[Nth(I, n)]
         /\ \A n, k \in DOMAIN Keep(s, I) : n < k => Nth(I, n) < Nth(I, k)
         /\ \A i \in I : \E n \in DOMAIN Keep(s, I) : Nth(I, n) = i
  <1>1. Len(s) \in Nat /\ I \in SUBSET (1..Len(s))
    OBVIOUS
  <1>2. Cardinality(I) \in 0..Len(s)
    BY <1>1, PositionsFinite
  <1>3. \A n \in 1..Cardinality(I) : Nth(I, n) \in I
    BY <1>1, NthGrows
  <1>4. Keep(s, I) \in Seq(S) /\ Len(Keep(s, I)) = Cardinality(I)
    BY <1>1, <1>2, <1>3 DEF Keep
  <1>5. DOMAIN Keep(s, I) = 1..Cardinality(I)
    BY DEF Keep
  <1> QED BY <1>1, <1>2, <1>3, <1>4, <1>5, NthGrows DEF Keep

\* The same, said of the elements: what is kept is what s has at I, and no more often.
THEOREM KeepElements ==
  ASSUME NEW S, NEW s \in Seq(S), NEW I \in SUBSET (DOMAIN s)
  PROVE  /\ Keep(s, I) \in Seq(S) /\ Len(Keep(s, I)) <= Len(s)
         /\ \A n \in DOMAIN Keep(s, I) : \E i \in I : Keep(s, I)[n] = s[i]
         /\ \A i \in I : \E n \in DOMAIN Keep(s, I) : Keep(s, I)[n] = s[i]
         /\ \A P : (\A i, j \in I : s[i] \in P /\ s[j] \in P => i = j) =>
                   \A n, k \in DOMAIN Keep(s, I) :
                      Keep(s, I)[n] \in P /\ Keep(s, I)[k] \in P => n = k
  <1> DEFINE t == Keep(s, I)
             at == [n \in DOMAIN t |-> Nth(I, n)]
  <1>0. /\ t \in Seq(S) /\ Len(t) = Cardinality(I) /\ Cardinality(I) \in 0..Len(s)
        /\ \A n \in DOMAIN t : at[n] \in I /\ t[n] = s[at[n]]
        /\ \A n, k \in DOMAIN t : n < k => at[n] < at[k]
        /\ \A i \in I : \E n \in DOMAIN t : at[n] = i
    BY KeepLists
  <1> HIDE DEF t, at
  <1>1. t \in Seq(S) /\ Len(t) <= Len(s)
    BY <1>0
  <1>2. \A n, k \in DOMAIN t : at[n] = at[k] => n = k
    <2>1. \A n \in DOMAIN t : n \in Nat /\ at[n] \in Nat
      BY <1>0
    <2> QED BY <1>0, <2>1
  <1>3. /\ \A n \in DOMAIN t : \E i \in I : t[n] = s[i]
        /\ \A i \in I : \E n \in DOMAIN t : t[n] = s[i]
    BY <1>0
  <1>4. ASSUME NEW P, \A i, j \in I : s[i] \in P /\ s[j] \in P => i = j,
               NEW n \in DOMAIN t, NEW k \in DOMAIN t, t[n] \in P, t[k] \in P
        PROVE  n = k
    BY <1>0, <1>2, <1>4
  <1>5. t = Keep(s, I)
    BY DEF t
  <1> QED BY <1>1, <1>3, <1>4, <1>5

\* The last elements of a sequence are elements of it, each as often, and among them its last one.
THEOREM LastElements ==
    ASSUME NEW S, NEW s \in Seq(S), NEW n \in Nat \ {0}
    PROVE  /\ LastOf(s, n) \in Seq(S) /\ Len(LastOf(s, n)) <= n /\ Len(LastOf(s, n)) <= Len(s)
           /\ \A i \in DOMAIN LastOf(s, n) :
                 /\ i + (Len(s) - Len(LastOf(s, n))) \in DOMAIN s
                 /\ LastOf(s, n)[i] = s[i + (Len(s) - Len(LastOf(s, n)))]
           /\ s # <<>> => /\ Len(LastOf(s, n)) \in DOMAIN LastOf(s, n)
                          /\ LastOf(s, n)[Len(LastOf(s, n))] = s[Len(s)]
    <1>1. CASE Len(s) <= n
        BY <1>1 DEF LastOf
    <1>2. CASE Len(s) > n
        <2>1. LastOf(s, n) = SubSeq(s, Len(s) - n + 1, Len(s))
            BY <1>2 DEF LastOf
        <2>2. Len(s) - n + 1 \in 1..Len(s)
            BY <1>2
        <2>3. /\ LastOf(s, n) \in Seq(S) /\ Len(LastOf(s, n)) = n
              /\ \A i \in 1..n : LastOf(s, n)[i] = s[i + (Len(s) - n)]
            BY <2>1, <2>2
        <2> QED BY <1>2, <2>3
    <1> QED BY <1>1, <1>2

\* The values of a list of numbers have a bound.
LEMMA ValuesBounded ==
  ASSUME NEW n \in Nat, NEW f, \A i \in 1..n : f[i] \in Nat
  PROVE  \E m \in Nat : \A i \in 1..n : f[i] <= m
  <1> DEFINE Bad == {k \in 0..n : \A m \in Nat : \E i \in 1..k : ~(f[i] <= m)}
  <1>1. SUFFICES ASSUME n \in Bad PROVE FALSE
    OBVIOUS
  <1>2. Bad \subseteq Nat
    OBVIOUS
  <1>3. PICK k \in Bad : \A j \in Bad : k <= j
    BY <1>1, <1>2, LeastMember
  <1>4. k \in 1..n /\ k - 1 \in 0..n /\ k - 1 \notin Bad
    <2>1. 0 \notin Bad
      OBVIOUS
    <2>2. k \in 0..n /\ k # 0
      BY <2>1
    <2>3. k \in 1..n /\ k - 1 \in 0..n /\ ~(k <= k - 1)
      BY <2>2
    <2> HIDE DEF Bad
    <2> QED BY <1>3, <2>3
  <1>5. PICK m \in Nat : \A i \in 1..(k - 1) : f[i] <= m
    BY <1>4
  <1>6. f[k] \in Nat
    BY <1>4
  <1> DEFINE b == IF m <= f[k] THEN f[k] ELSE m
  <1>7. b \in Nat /\ m <= b /\ f[k] <= b
    BY <1>6
  <1> HIDE DEF b
  <1>8. \A i \in 1..k : f[i] <= b
    <2> TAKE i \in 1..k
    <2>1. CASE i = k
      BY <1>7, <2>1
    <2>2. CASE i \in 1..(k - 1)
      <3>1. f[i] \in Nat /\ f[i] <= m
        BY <1>4, <1>5, <2>2
      <3> QED BY <1>7, <3>1
    <2> QED BY <1>4, <2>1, <2>2
  <1>9. \E i \in 1..k : ~(f[i] <= b)
    BY <1>3, <1>7
  <1> QED BY <1>8, <1>9
=============================================================================
