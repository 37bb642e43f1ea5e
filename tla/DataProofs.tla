----------------------------- MODULE DataProofs -----------------------------
(***************************************************************************)
(* Proofs about what the data modules compute, for data of any size: the   *)
(* ring of any points, which Search halves (ConHash), the rows of any      *)
(* query and what its container holds afterwards (RawSet), the arguments   *)
(* of any query and its marks (SqlArgs).                                   *)
(***************************************************************************)
EXTENDS ConHash, RawSet, SqlArgs, FiniteSetTheorems, Loops

-----------------------------------------------------------------------------
(* The ring.  Add puts the points of each value behind those below it, so  *)
(* that the ring is in order (SortedRingsAre); on a ring in order halving  *)
(* ends at the owner (HalfFinds).  Before and after a change the owner of  *)
(* a key is the same unless it came or went (RingsAgree).                  *)

\* Points of nodes, and rings in the order of their values.
RingPoints == [node : Nodes, v : Values]
SortedRing(ring) == \A i, j \in 1 .. Len(ring) : i <= j => ring[i].v <= ring[j].v

\* The ring is in order, each of its points is one of its node's, and a node is
\* on it with all its points.
RingInv ==
    /\ points \in [Nodes -> SUBSET Values]
    /\ dums \in Seq(RingPoints)
    /\ SortedRing(dums)
    /\ \A p \in PointsOf(dums) : p.v \in points[p.node]
    /\ \A p \in PointsOf(dums) : \A v \in points[p.node] :
          [node |-> p.node, v |-> v] \in PointsOf(dums)

\* The sequences of a finite set hold each of its elements.
LEMMA SetToSeqsHolds ==
  ASSUME NEW T, IsFiniteSet(T), NEW f \in SetToSeqs(T)
  PROVE  f \in Seq(T) /\ PointsOf(f) = T
<1> DEFINE k == Cardinality(T)
           D == 1 .. k
<1>1. k \in Nat
  BY FS_CardinalityType
<1>2. IsFiniteSet(D) /\ Cardinality(D) = k
  <2>1. IsFiniteSet(1 .. k) /\ Cardinality(1 .. k) = IF 1 > k THEN 0 ELSE k - 1 + 1
    <3> HIDE DEF k
    <3> QED BY <1>1, FS_Interval
  <2> HIDE DEF k
  <2> QED BY <1>1, <2>1
<1>3. f \in [D -> T] /\ \A i, j \in D : i # j => f[i] # f[j]
  BY DEF SetToSeqs
<1> HIDE DEF k
<1>4. f \in Injection(D, T)
  BY <1>3 DEF Injection, IsInjective
<1> HIDE DEF D
<1>5. f \in Surjection(D, T)
  <2>1. Cardinality(D) = Cardinality(T) <=> f \in Surjection(D, T)
    BY <1>4, FS_Injection
  <2> QED BY <1>2, <2>1 DEF k
<1>6. \A t \in T : \E i \in D : f[i] = t
  BY <1>5 DEF Surjection
<1>7. f \in Seq(T) /\ Len(f) = k
  BY <1>1, <1>3 DEF D
<1> QED BY <1>3, <1>6, <1>7 DEF PointsOf, D

LEMMA PointsFinite ==
  ASSUME NEW S, NEW ring \in Seq(S)
  PROVE  IsFiniteSet(PointsOf(ring))
<1>1. Len(ring) \in Nat /\ IsFiniteSet(1 .. Len(ring))
  <2>1. Len(ring) \in Nat
    OBVIOUS
  <2> QED BY <2>1, FS_Interval
<1>2. ring \in Surjection(1 .. Len(ring), PointsOf(ring))
  BY DEF Surjection, PointsOf
<1> QED BY <1>1, <1>2, FS_Surjection

LEMMA ValuesFinite == IsFiniteSet(Values)
<1>1. MaxValue \in Int /\ 0 \in Int
  BY RingAssumption
<1> QED BY <1>1, FS_Interval DEF Values

LEMMA NodePointsFinite ==
  ASSUME NEW n, NEW P \in SUBSET Values
  PROVE  IsFiniteSet({[node |-> n, v |-> v] : v \in P})
<1> DEFINE T == {[node |-> n, v |-> v] : v \in P}
           f == [v \in P |-> [node |-> n, v |-> v]]
<1>1. IsFiniteSet(P)
  BY ValuesFinite, FS_Subset
<1>2. f \in [P -> T] /\ \A t \in T : \E v \in P : f[v] = t
  OBVIOUS
<1> HIDE DEF T, f
<1>3. f \in Surjection(P, T)
  BY <1>2 DEF Surjection
<1>4. IsFiniteSet(T)
  BY <1>1, <1>3, FS_Surjection
<1> QED BY <1>4 DEF T

\* What SortedRings has of the points below m.
Below(S, m, r) ==
    /\ r \in Seq(S) /\ SortedRing(r)
    /\ PointsOf(r) = {p \in S : p.v < m}

LEMMA BelowSteps ==
  ASSUME NEW S \in SUBSET RingPoints, IsFiniteSet(S), NEW i \in 1 .. MaxValue + 1,
         NEW below, Below(S, i - 1, below),
         NEW here \in SetToSeqs({p \in S : p.v = i - 1})
  PROVE  Below(S, i, below \o here)
<1> DEFINE T == {p \in S : p.v = i - 1}
<1>0. MaxValue \in Nat /\ \A p \in S : p.v \in Nat
  BY RingAssumption DEF RingPoints, Values
<1>1. below \in Seq(S) /\ SortedRing(below) /\ PointsOf(below) = {p \in S : p.v < i - 1}
  BY DEF Below
<1>2. here \in Seq(T) /\ PointsOf(here) = T
  <2>1. IsFiniteSet(T)
    BY FS_Subset
  <2> HIDE DEF T
  <2>2. here \in SetToSeqs(T)
    BY DEF T
  <2> QED BY <2>1, <2>2, SetToSeqsHolds
<1>3. here \in Seq(S)
  BY <1>2
<1> DEFINE a == Len(below)
           b == Len(here)
           r == below \o here
<1>4. /\ r \in Seq(S) /\ a \in Nat /\ b \in Nat /\ Len(r) = a + b
      /\ \A j \in 1 .. a : r[j] = below[j]
      /\ \A j \in 1 .. b : r[a + j] = here[j]
  BY <1>1, <1>3
<1>5. \A j \in 1 .. a : below[j] \in S /\ below[j].v < i - 1
  BY <1>1 DEF PointsOf
<1>6. \A j \in 1 .. b : here[j] \in S /\ here[j].v = i - 1
  BY <1>2 DEF PointsOf
<1> HIDE DEF r, a, b, T
<1>7. \A j \in 1 .. Len(r) : j \in 1 .. a \/ (j - a \in 1 .. b /\ a + (j - a) = j)
  BY <1>4
<1>8. SortedRing(r)
  <2> SUFFICES ASSUME NEW j \in 1 .. Len(r), NEW k \in 1 .. Len(r), j <= k
               PROVE  r[j].v <= r[k].v
    BY DEF SortedRing
  <2>1. CASE k \in 1 .. a
    <3>1. j \in 1 .. a
      BY <1>4, <2>1
    <3>2. below[j].v <= below[k].v
      BY <1>1, <2>1, <3>1 DEF SortedRing, a
    <3> QED BY <1>4, <2>1, <3>1, <3>2
  <2>2. CASE ~(k \in 1 .. a)
    <3>1. r[k].v = i - 1
      <4>1. k - a \in 1 .. b /\ r[k] = here[k - a]
        BY <1>4, <1>7, <2>2
      <4> QED BY <1>6, <4>1
    <3>2. CASE j \in 1 .. a
      <4>1. r[j].v < i - 1 /\ r[j] \in S
        BY <1>4, <1>5, <3>2
      <4>2. r[j].v \in Nat
        BY <1>0, <4>1
      <4> QED BY <3>1, <4>1, <4>2
    <3>3. CASE ~(j \in 1 .. a)
      <4>1. j - a \in 1 .. b /\ r[j] = here[j - a]
        BY <1>4, <1>7, <3>3
      <4>2. r[j].v = i - 1
        BY <1>6, <4>1
      <4> QED BY <3>1, <4>2
    <3> QED BY <3>2, <3>3
  <2> QED BY <2>1, <2>2
<1>9. PointsOf(r) = {p \in S : p.v < i}
  <2>1. ASSUME NEW j \in 1 .. Len(r) PROVE r[j] \in S /\ r[j].v < i
    <3>1. CASE j \in 1 .. a
      <4>1. r[j] \in S /\ r[j].v < i - 1
        BY <1>4, <1>5, <3>1
      <4>2. r[j].v \in Nat
        BY <1>0, <4>1
      <4> QED BY <4>1, <4>2
    <3>2. CASE ~(j \in 1 .. a)
      <4>1. j - a \in 1 .. b /\ r[j] = here[j - a]
        BY <1>4, <1>7, <3>2
      <4> QED BY <1>6, <4>1
    <3> QED BY <3>1, <3>2
  <2>2. ASSUME NEW p \in S, p.v < i PROVE \E j \in 1 .. Len(r) : r[j] = p
    <3>1. p.v < i - 1 \/ p.v = i - 1
      BY <1>0, <2>2
    <3>2. CASE p.v < i - 1
      <4>1. p \in PointsOf(below)
        BY <1>1, <3>2
      <4>2. PICK j \in 1 .. a : below[j] = p
        BY <4>1 DEF PointsOf, a
      <4>3. j \in 1 .. Len(r) /\ r[j] = p
        BY <1>4, <4>2
      <4> QED BY <4>3
    <3>3. CASE p.v = i - 1
      <4>1. p \in PointsOf(here)
        BY <1>2, <3>3 DEF T
      <4>2. PICK j \in 1 .. b : here[j] = p
        BY <4>1 DEF PointsOf, b
      <4>3. a + j \in 1 .. Len(r) /\ r[a + j] = p
        BY <1>4, <4>2
      <4> QED BY <4>3
    <3> QED BY <3>1, <3>2, <3>3
  <2> QED BY <2>1, <2>2 DEF PointsOf
<1> QED BY <1>4, <1>8, <1>9 DEF Below, r

LEMMA FollowedBy ==
  ASSUME NEW rings, NEW T, NEW r \in Followed(rings, T)
  PROVE  \E below \in rings, here \in SetToSeqs(T) : r = below \o here
BY DEF Followed

LEMMA FollowedIn ==
  ASSUME NEW X, NEW rings \in SUBSET Seq(X), NEW T,
         \A here \in SetToSeqs(T) : here \in Seq(X)
  PROVE  Followed(rings, T) \in SUBSET Seq(X)
<1> SUFFICES ASSUME NEW r \in Followed(rings, T) PROVE r \in Seq(X)
  OBVIOUS
<1>1. PICK below \in rings, here \in SetToSeqs(T) : r = below \o here
  BY FollowedBy
<1>2. below \in Seq(X) /\ here \in Seq(X)
  OBVIOUS
<1> QED BY <1>1, <1>2

\* A sorted ring holds the points it is made of, in order.
LEMMA SortedRingsAre ==
  ASSUME NEW S \in SUBSET RingPoints, IsFiniteSet(S), NEW ring \in SortedRings(S)
  PROVE  ring \in Seq(S) /\ SortedRing(ring) /\ PointsOf(ring) = S
<1> DEFINE n == MaxValue + 1
           At(i) == {p \in S : p.v = i - 1}
           Next1(R, i) == Followed(R, At(i))
           IsRings(rings) ==
             rings = [v \in 0 .. MaxValue + 1 |->
                        IF v = 0 THEN {<<>>}
                        ELSE Followed(rings[v - 1], {p \in S : p.v = v - 1})]
           D == SUBSET Seq(S)
           first == {<<>>}
           G == [i \in 1 .. n |-> [R \in D |-> Next1(R, i)]]
<1>0. n \in Nat /\ MaxValue \in Nat
  BY RingAssumption
<1>1. ASSUME NEW i \in 1 .. n, NEW R \in D PROVE Next1(R, i) \in D
  <2>1. IsFiniteSet(At(i))
    BY FS_Subset
  <2>2. \A here \in SetToSeqs(At(i)) : here \in Seq(At(i))
    <3> DEFINE T == At(i)
    <3> HIDE DEF T
    <3> SUFFICES \A here \in SetToSeqs(T) : here \in Seq(T)
      BY DEF T
    <3>1. IsFiniteSet(T)
      BY <2>1 DEF T
    <3> QED BY <3>1, SetToSeqsHolds
  <2>3. \A here \in SetToSeqs(At(i)) : here \in Seq(S)
    BY <2>2
  <2> DEFINE T == At(i)
  <2>4. (\A here \in SetToSeqs(T) : here \in Seq(S)) /\ R \in SUBSET Seq(S)
    BY <2>3
  <2> HIDE DEF T
  <2>5. Followed(R, T) \in SUBSET Seq(S)
    BY <2>4, FollowedIn
  <2> QED BY <2>5 DEF T
<1>2. PICK f \in [0 .. n -> D] : f[0] = first /\ \A i \in 1 .. n : f[i] = Next1(f[i - 1], i)
  <2>1. first \in D
    OBVIOUS
  <2>2. G \in [1 .. n -> [D -> D]]
    <3> HIDE DEF Next1, D, n
    <3> QED BY <1>1
  <2>3. \A i \in 1 .. n, R \in D : G[i][R] = Next1(R, i)
    <3> HIDE DEF Next1, D, n
    <3> QED OBVIOUS
  <2> HIDE DEF G, D, first, n, Next1
  <2>4. Steps(D, n, first, G)
    BY <1>0, <2>1, <2>2 DEF Steps
  <2>5. PICK f \in [0 .. n -> D] : f[0] = first /\ \A i \in 1 .. n : f[i] = G[i][f[i - 1]]
    BY <2>4, Recursion
  <2>6. \A i \in 1 .. n : i - 1 \in 0 .. n
    BY <1>0
  <2>7. \A i \in 1 .. n : f[i - 1] \in D
    BY <2>5, <2>6
  <2>8. ASSUME NEW i \in 1 .. n PROVE f[i] = Next1(f[i - 1], i)
    <3>1. f[i] = G[i][f[i - 1]] /\ f[i - 1] \in D
      BY <2>5, <2>7
    <3> QED BY <2>3, <3>1
  <2> QED BY <2>5, <2>8
<1>3. IsRings(f)
  <2>1. f = [v \in 0 .. n |-> f[v]]
    OBVIOUS
  <2>2. \A v \in 0 .. n : f[v] = IF v = 0 THEN {<<>>} ELSE Next1(f[v - 1], v)
    <3>1. \A v \in 0 .. n : v # 0 => v \in 1 .. n
      BY <1>0
    <3> HIDE DEF Next1
    <3> QED BY <1>2, <3>1
  <2> QED BY <2>1, <2>2
<1>4. SortedRings(S) = (CHOOSE rings : IsRings(rings))[MaxValue + 1]
  BY DEF SortedRings
<1> HIDE DEF IsRings
<1>5. PICK rings : IsRings(rings) /\ SortedRings(S) = rings[MaxValue + 1]
  BY <1>3, <1>4
<1>6. /\ rings[0] = {<<>>}
      /\ \A i \in 1 .. n : rings[i] = Next1(rings[i - 1], i)
  <2>1. \A v \in 0 .. MaxValue + 1 : rings[v] = IF v = 0 THEN {<<>>}
                        ELSE Followed(rings[v - 1], {p \in S : p.v = v - 1})
    BY <1>5 DEF IsRings
  <2>2. \A v \in 0 .. n : rings[v] = IF v = 0 THEN {<<>>} ELSE Next1(rings[v - 1], v)
    BY <2>1
  <2>4. 0 \in 0 .. n /\ \A i \in 1 .. n : i \in 0 .. n /\ i # 0
    BY <1>0
  <2> HIDE DEF Next1
  <2> QED BY <2>2, <2>4
<1> DEFINE T == {i \in 0 .. n : \A r \in rings[i] : Below(S, i, r)}
<1>7. 0 \in T
  <2>1. Below(S, 0, <<>>)
    <3>1. \A p \in S : ~(p.v < 0)
      BY <1>0 DEF RingPoints, Values
    <3>2. <<>> \in Seq(S) /\ Len(<<>>) = 0
      OBVIOUS
    <3> QED BY <3>1, <3>2 DEF Below, SortedRing, PointsOf
  <2> QED BY <1>0, <1>6, <2>1
<1>8. ASSUME NEW i \in 1 .. n, i - 1 \in T PROVE i \in T
  <2> SUFFICES ASSUME NEW r \in rings[i] PROVE Below(S, i, r)
    BY <1>0
  <2>1. PICK below \in rings[i - 1], here \in SetToSeqs(At(i)) : r = below \o here
    <3> DEFINE T1 == At(i)
               R1 == rings[i - 1]
    <3>1. r \in Followed(R1, T1)
      BY <1>6
    <3> HIDE DEF T1, R1
    <3>2. \E below \in R1, here \in SetToSeqs(T1) : r = below \o here
      BY <3>1, FollowedBy
    <3> QED BY <3>2 DEF T1, R1
  <2>2. Below(S, i - 1, below)
    BY <1>8
  <2>3. Below(S, i, below \o here)
    BY <2>1, <2>2, BelowSteps
  <2> QED BY <2>1, <2>3
<1> HIDE DEF T
<1>9. 0 .. n \subseteq T
  BY <1>0, <1>7, <1>8, UpTo
<1>10. Below(S, n, ring)
  <2>1. n \in T
    BY <1>0, <1>9
  <2> QED BY <1>5, <2>1 DEF T
<1>11. \A p \in S : p.v < n
  BY <1>0 DEF RingPoints, Values
<1> QED BY <1>10, <1>11 DEF Below

\* What the loop of Remove has kept of the first m points.
Kept(n, m, s) ==
    /\ s \in Seq(RingPoints)
    /\ \A k \in 1 .. Len(s) : \E j \in 1 .. m : s[k] = dums[j] /\ NotOf(n, dums[j])
    /\ \A j \in 1 .. m : NotOf(n, dums[j]) => \E k \in 1 .. Len(s) : s[k] = dums[j]
    /\ SortedRing(dums) => SortedRing(s)

LEMMA KeptSteps ==
  ASSUME NEW n, dums \in Seq(RingPoints), NEW i \in 1 .. Len(dums), NEW s, Kept(n, i - 1, s)
  PROVE  Kept(n, i, IF NotOf(n, dums[i]) THEN Append(s, dums[i]) ELSE s)
<1>0. Len(dums) \in Nat /\ dums[i] \in RingPoints
  OBVIOUS
<1>1. /\ s \in Seq(RingPoints)
      /\ \A k \in 1 .. Len(s) : \E j \in 1 .. i - 1 : s[k] = dums[j] /\ NotOf(n, dums[j])
      /\ \A j \in 1 .. i - 1 : NotOf(n, dums[j]) => \E k \in 1 .. Len(s) : s[k] = dums[j]
      /\ SortedRing(dums) => SortedRing(s)
  BY DEF Kept
<1>2. \A j \in 1 .. i : j = i \/ j \in 1 .. i - 1
  OBVIOUS
<1>3. \A j \in 1 .. i - 1 : j \in 1 .. i /\ j \in 1 .. Len(dums)
  BY <1>0
<1>4. CASE ~NotOf(n, dums[i])
  BY <1>1, <1>2, <1>3, <1>4 DEF Kept
<1>5. CASE NotOf(n, dums[i])
  <2> DEFINE r == Append(s, dums[i])
             l == Len(s)
  <2>1. /\ r \in Seq(RingPoints) /\ l \in Nat /\ Len(r) = l + 1
        /\ \A k \in 1 .. l : r[k] = s[k]
        /\ r[l + 1] = dums[i]
    BY <1>0, <1>1
  <2> HIDE DEF r
  <2>2. \A k \in 1 .. Len(r) : k = l + 1 \/ k \in 1 .. l
    BY <2>1
  <2>3. \A k \in 1 .. l : k \in 1 .. Len(r)
    BY <2>1
  <2>4. l + 1 \in 1 .. Len(r) /\ i \in 1 .. i
    BY <2>1
  <2>5. ASSUME NEW k \in 1 .. Len(r)
        PROVE  \E j \in 1 .. i : r[k] = dums[j] /\ NotOf(n, dums[j])
    <3>1. CASE k = l + 1
      BY <1>5, <2>1, <2>4, <3>1
    <3>2. CASE k \in 1 .. l
      <4> HIDE DEF l
      <4>1. PICK j \in 1 .. i - 1 : s[k] = dums[j] /\ NotOf(n, dums[j])
        BY <1>1, <3>2 DEF l
      <4> QED BY <1>3, <2>1, <3>2, <4>1
    <3> QED BY <2>2, <3>1, <3>2
  <2>6. ASSUME NEW j \in 1 .. i, NotOf(n, dums[j])
        PROVE  \E k \in 1 .. Len(r) : r[k] = dums[j]
    <3>1. CASE j = i
      BY <2>1, <2>4, <3>1
    <3>2. CASE j \in 1 .. i - 1
      <4>1. PICK k \in 1 .. l : s[k] = dums[j]
        BY <1>1, <2>6, <3>2
      <4> HIDE DEF l
      <4> QED BY <2>1, <2>3, <4>1
    <3> QED BY <1>2, <3>1, <3>2
  <2>7. ASSUME SortedRing(dums) PROVE SortedRing(r)
    <3> SUFFICES ASSUME NEW a \in 1 .. Len(r), NEW b \in 1 .. Len(r), a <= b
                 PROVE  r[a].v <= r[b].v
      BY DEF SortedRing
    <3>1. CASE b \in 1 .. l
      <4>1. a \in 1 .. l
        BY <2>1, <3>1
      <4>2. s[a].v <= s[b].v
        BY <1>1, <2>7, <3>1, <4>1 DEF SortedRing
      <4> HIDE DEF l
      <4> QED BY <2>1, <3>1, <4>1, <4>2
    <3>2. CASE b = l + 1
      <4>1. PICK j \in 1 .. i : r[a] = dums[j]
        BY <2>5
      <4>2. j \in 1 .. Len(dums) /\ j <= i
        BY <1>0
      <4>3. dums[j].v <= dums[i].v
        BY <2>7, <4>2 DEF SortedRing
      <4> HIDE DEF l
      <4> QED BY <2>1, <3>2, <4>1, <4>3
    <3> HIDE DEF l
    <3> QED BY <2>2, <3>1, <3>2
  <2> HIDE DEF l
  <2>8. Kept(n, i, r)
    BY <2>1, <2>5, <2>6, <2>7 DEF Kept
  <2> QED BY <1>5, <2>8 DEF r
<1> QED BY <1>4, <1>5

\* Remove leaves the points of the other nodes, in order.
LEMMA WithoutIs ==
  ASSUME NEW n, dums \in Seq(RingPoints), SortedRing(dums)
  PROVE  /\ Without(n) \in Seq(RingPoints) /\ SortedRing(Without(n))
         /\ PointsOf(Without(n)) = {p \in PointsOf(dums) : p.node # n}
<1> DEFINE l == Len(dums)
           D == Seq(RingPoints)
           first == <<>>
           More(s, i) == IF NotOf(n, dums[i]) THEN Append(s, dums[i]) ELSE s
           IsList(newList) ==
             newList = [index \in 0 .. Len(dums) |->
                          IF index = 0 THEN <<>>
                          ELSE IF NotOf(n, dums[index]) THEN Append(newList[index - 1], dums[index])
                          ELSE newList[index - 1]]
           G == [i \in 1 .. l |-> [s \in D |-> More(s, i)]]
<1>0. l \in Nat /\ first \in D /\ \A i \in 1 .. l : dums[i] \in RingPoints
  OBVIOUS
<1>1. \A i \in 1 .. l, s \in D : More(s, i) \in D
  BY <1>0
<1>2. PICK f \in [0 .. l -> D] : f[0] = first /\ \A i \in 1 .. l : f[i] = More(f[i - 1], i)
  <2> HIDE DEF More, D, l, first
  <2>1. G \in [1 .. l -> [D -> D]] /\ \A i \in 1 .. l, s \in D : G[i][s] = More(s, i)
    BY <1>1
  <2> HIDE DEF G
  <2>2. Steps(D, l, first, G)
    BY <1>0, <2>1 DEF Steps
  <2>3. PICK f \in [0 .. l -> D] : f[0] = first /\ \A i \in 1 .. l : f[i] = G[i][f[i - 1]]
    BY <2>2, Recursion
  <2>4. \A i \in 1 .. l : i - 1 \in 0 .. l
    BY <1>0
  <2>5. \A i \in 1 .. l : f[i - 1] \in D
    BY <2>3, <2>4
  <2>6. ASSUME NEW i \in 1 .. l PROVE f[i] = More(f[i - 1], i)
    <3>1. f[i] = G[i][f[i - 1]] /\ f[i - 1] \in D
      BY <2>3, <2>5
    <3> QED BY <2>1, <3>1
  <2> QED BY <2>3, <2>6
<1>3. IsList(f)
  <2>1. f = [v \in 0 .. l |-> f[v]]
    OBVIOUS
  <2>2. \A v \in 0 .. l : f[v] = IF v = 0 THEN <<>> ELSE More(f[v - 1], v)
    <3>1. \A v \in 0 .. l : v # 0 => v \in 1 .. l
      BY <1>0
    <3> HIDE DEF More, l
    <3> QED BY <1>2, <3>1
  <2> QED BY <2>1, <2>2
<1>4. Without(n) = (CHOOSE newList : IsList(newList))[l]
  BY DEF Without
<1> HIDE DEF IsList
<1>5. PICK list : IsList(list) /\ Without(n) = list[l]
  BY <1>3, <1>4
<1>6. list[0] = <<>> /\ \A i \in 1 .. l : list[i] = More(list[i - 1], i)
  <2>1. \A v \in 0 .. l : list[v] = IF v = 0 THEN <<>> ELSE More(list[v - 1], v)
    BY <1>5 DEF IsList
  <2>2. 0 \in 0 .. l /\ \A i \in 1 .. l : i \in 0 .. l /\ i # 0
    BY <1>0
  <2> HIDE DEF More
  <2> QED BY <2>1, <2>2
<1> DEFINE T == {i \in 0 .. l : Kept(n, i, list[i])}
<1>7. 0 \in T
  <2>1. Kept(n, 0, <<>>)
    <3>1. <<>> \in Seq(RingPoints) /\ Len(<<>>) = 0
      OBVIOUS
    <3> QED BY <3>1 DEF Kept, SortedRing
  <2> QED BY <1>0, <1>6, <2>1
<1>8. ASSUME NEW i \in 1 .. l, i - 1 \in T PROVE i \in T
  <2>1. Kept(n, i - 1, list[i - 1])
    BY <1>8
  <2>2. Kept(n, i, More(list[i - 1], i))
    BY <2>1, KeptSteps
  <2> QED BY <1>0, <1>6, <2>2
<1> HIDE DEF T
<1>9. 0 .. l \subseteq T
  BY <1>0, <1>7, <1>8, UpTo
<1>10. Kept(n, l, Without(n))
  <2>1. l \in T
    BY <1>0, <1>9
  <2> QED BY <1>5, <2>1 DEF T
<1> DEFINE s == Without(n)
<1> HIDE DEF s
<1>11. /\ s \in Seq(RingPoints) /\ SortedRing(s)
       /\ \A k \in 1 .. Len(s) : \E j \in 1 .. l : s[k] = dums[j] /\ NotOf(n, dums[j])
       /\ \A j \in 1 .. l : NotOf(n, dums[j]) => \E k \in 1 .. Len(s) : s[k] = dums[j]
  BY <1>10 DEF Kept, s
<1>12. ASSUME NEW p \in PointsOf(s) PROVE p \in PointsOf(dums) /\ p.node # n
  BY <1>11 DEF PointsOf, NotOf
<1>13. ASSUME NEW p \in PointsOf(dums), p.node # n PROVE p \in PointsOf(s)
  BY <1>11, <1>13 DEF PointsOf, NotOf
<1> QED BY <1>11, <1>12, <1>13 DEF s

\* One step of half on the pairs of indices of the ring: what it returns from
\* what it returns for shorter pairs.
PairsOf(ring) == (1 .. Len(ring)) \X (1 .. Len(ring))
MidOf(r) == r[1] + (r[2] - r[1]) \div 2
Narrower(value, ring, r) ==
    IF value > ring[MidOf(r)].v THEN <<MidOf(r), r[2]>> ELSE <<r[1], MidOf(r)>>
HalfOf(value, ring, h, r) ==
    IF r[2] - r[1] <= 1
    THEN IF ring[r[2]].v = value THEN ring[r[2]].node ELSE ring[r[1]].node
    ELSE h[Narrower(value, ring, r)]

LEMMA MidBetween ==
  ASSUME NEW b \in Nat, NEW e \in Nat, e - b > 1
  PROVE  b + (e - b) \div 2 \in Nat /\ b < b + (e - b) \div 2 /\ b + (e - b) \div 2 < e
<1>1. (e - b) \div 2 \in Nat /\ 0 < (e - b) \div 2 /\ (e - b) \div 2 < e - b
  OBVIOUS
<1> QED BY <1>1

LEMMA NarrowerIs ==
  ASSUME NEW value, NEW S, NEW ring \in Seq(S), NEW r \in PairsOf(ring), r[2] - r[1] > 1
  PROVE  LET next == Narrower(value, ring, r)
         IN  next \in PairsOf(ring) /\ next[2] - next[1] < r[2] - r[1] /\ next[1] < next[2]
<1> DEFINE b == r[1]
           e == r[2]
           m == MidOf(r)
<1>1. Len(ring) \in Nat /\ b \in 1 .. Len(ring) /\ e \in 1 .. Len(ring) /\ e - b > 1
  BY DEF PairsOf
<1>2. m \in Nat /\ b < m /\ m < e
  <2> HIDE DEF b, e
  <2>1. b \in Nat /\ e \in Nat /\ e - b > 1
    BY <1>1
  <2>2. b + (e - b) \div 2 \in Nat /\ b < b + (e - b) \div 2 /\ b + (e - b) \div 2 < e
    BY <2>1, MidBetween
  <2> QED BY <2>2 DEF MidOf, b, e
<1> HIDE DEF b, e, m
<1>3. m \in 1 .. Len(ring) /\ e - m < e - b /\ m - b < e - b
  BY <1>1, <1>2
<1>4. <<m, e>> \in PairsOf(ring) /\ <<b, m>> \in PairsOf(ring)
  BY <1>1, <1>3 DEF PairsOf
<1>5. Narrower(value, ring, r) = <<m, e>> \/ Narrower(value, ring, r) = <<b, m>>
  BY DEF Narrower, m, b, e
<1>6. CASE Narrower(value, ring, r) = <<m, e>>
  BY <1>2, <1>3, <1>4, <1>6 DEF b, e
<1>7. CASE Narrower(value, ring, r) = <<b, m>>
  BY <1>2, <1>3, <1>4, <1>7 DEF b, e
<1> QED BY <1>5, <1>6, <1>7

\* There is a function half as the code defines it: halving ends.
LEMMA HalfExists ==
  ASSUME NEW value, NEW S, NEW ring \in Seq(S)
  PROVE  \E h : h = [r \in PairsOf(ring) |-> HalfOf(value, ring, h, r)]
<1> DEFINE l == Len(ring)
           P == PairsOf(ring)
           N == {ring[i].node : i \in 1 .. l}
           D == [P -> N]
           F(h) == [r \in P |-> HalfOf(value, ring, h, r)]
           first == [r \in P |-> IF ring[r[2]].v = value THEN ring[r[2]].node ELSE ring[r[1]].node]
           G == [i \in 1 .. l + 1 |-> [h \in D |-> F(h)]]
<1>0. l \in Nat /\ l + 1 \in Nat /\ \A r \in P : r[1] \in 1 .. l /\ r[2] \in 1 .. l
  BY DEF PairsOf
<1>1. \A r \in P : r[2] - r[1] > 1 =>
         LET next == Narrower(value, ring, r)
         IN  next \in P /\ next[2] - next[1] < r[2] - r[1] /\ next[1] < next[2]
  BY NarrowerIs
<1>2. first \in D
  BY <1>0
<1>3. ASSUME NEW h \in D PROVE F(h) \in D
  <2> SUFFICES ASSUME NEW r \in P PROVE HalfOf(value, ring, h, r) \in N
    OBVIOUS
  <2>1. CASE r[2] - r[1] <= 1
    BY <1>0, <2>1 DEF HalfOf
  <2>2. CASE ~(r[2] - r[1] <= 1)
    <3>1. Narrower(value, ring, r) \in P
      BY <1>0, <1>1, <2>2
    <3>2. h[Narrower(value, ring, r)] \in N
      <4> HIDE DEF N
      <4> QED BY <3>1
    <3> QED BY <2>2, <3>2 DEF HalfOf
  <2> QED BY <2>1, <2>2
<1>4. PICK f \in [0 .. l + 1 -> D] : f[0] = first /\ \A i \in 1 .. l + 1 : f[i] = F(f[i - 1])
  <2> DEFINE n == l + 1
  <2> HIDE DEF F, D, l, first
  <2>1. G \in [1 .. n -> [D -> D]] /\ \A i \in 1 .. n, h \in D : G[i][h] = F(h)
    BY <1>3
  <2> HIDE DEF G
  <2>2. Steps(D, n, first, G)
    BY <1>0, <1>2, <2>1 DEF Steps
  <2> HIDE DEF n
  <2>3. PICK f \in [0 .. n -> D] : f[0] = first /\ \A i \in 1 .. n : f[i] = G[i][f[i - 1]]
    BY <2>2, Recursion
  <2>4. \A i \in 1 .. n : i - 1 \in 0 .. n
    BY <1>0 DEF n
  <2>5. \A i \in 1 .. n : f[i - 1] \in D
    BY <2>3, <2>4
  <2>6. ASSUME NEW i \in 1 .. n PROVE f[i] = F(f[i - 1])
    <3>1. f[i] = G[i][f[i - 1]] /\ f[i - 1] \in D
      BY <2>3, <2>5
    <3> QED BY <2>1, <3>1
  <2> QED BY <2>3, <2>6 DEF n
<1>5. \A i \in 1 .. l + 1, r \in P : f[i][r] = HalfOf(value, ring, f[i - 1], r)
  <2>1. \A h, r : r \in P => F(h)[r] = HalfOf(value, ring, h, r)
    OBVIOUS
  <2> HIDE DEF F
  <2> QED BY <1>4, <2>1
<1>6. \A r \in P : f[0][r] = IF ring[r[2]].v = value THEN ring[r[2]].node ELSE ring[r[1]].node
  BY <1>4
<1> HIDE DEF F, D, first, G, N
<1> DEFINE T == {i \in 0 .. l : \A r \in P : r[2] - r[1] <= i + 1 => f[i + 1][r] = f[i][r]}
<1>7. 0 \in T
  <2>1. ASSUME NEW r \in P, r[2] - r[1] <= 0 + 1 PROVE f[0 + 1][r] = f[0][r]
    <3>1. 1 \in 1 .. l + 1 /\ r[2] - r[1] <= 1 /\ 0 + 1 = 1 /\ 1 - 1 = 0
      BY <1>0, <2>1
    <3>2. f[1][r] = HalfOf(value, ring, f[1 - 1], r)
      BY <1>5, <3>1
    <3> QED BY <1>6, <3>1, <3>2 DEF HalfOf
  <2> QED BY <1>0, <2>1
<1>8. ASSUME NEW i \in 1 .. l, i - 1 \in T PROVE i \in T
  <2> SUFFICES ASSUME NEW r \in P, r[2] - r[1] <= i + 1 PROVE f[i + 1][r] = f[i][r]
    BY <1>0
  <2>0. i \in 1 .. l + 1 /\ i + 1 \in 1 .. l + 1 /\ (i + 1) - 1 = i /\ (i - 1) + 1 = i
    BY <1>0
  <2>1. f[i + 1][r] = HalfOf(value, ring, f[i], r) /\ f[i][r] = HalfOf(value, ring, f[i - 1], r)
    <3>1. f[i + 1][r] = HalfOf(value, ring, f[(i + 1) - 1], r)
      BY <1>5, <2>0
    <3>2. f[i][r] = HalfOf(value, ring, f[i - 1], r)
      BY <1>5, <2>0
    <3> QED BY <2>0, <3>1, <3>2
  <2>2. CASE r[2] - r[1] <= 1
    BY <2>1, <2>2 DEF HalfOf
  <2>3. CASE ~(r[2] - r[1] <= 1)
    <3> DEFINE next == Narrower(value, ring, r)
    <3>1. next \in P /\ next[2] - next[1] < r[2] - r[1]
      BY <1>0, <1>1, <2>3
    <3>2. next[2] - next[1] <= (i - 1) + 1
      <4>1. next[1] \in Int /\ next[2] \in Int /\ r[1] \in Int /\ r[2] \in Int
        BY <1>0, <3>1
      <4> HIDE DEF next
      <4> QED BY <3>1, <4>1
    <3>3. f[(i - 1) + 1][next] = f[i - 1][next]
      <4> HIDE DEF next
      <4> QED BY <1>8, <3>1, <3>2
    <3>4. f[i + 1][r] = f[i][next] /\ f[i][r] = f[i - 1][next]
      BY <2>1, <2>3 DEF HalfOf
    <3> QED BY <2>0, <3>3, <3>4
  <2> QED BY <2>2, <2>3
<1> HIDE DEF T
<1>9. 0 .. l \subseteq T
  BY <1>0, <1>7, <1>8, UpTo
<1>10. \A r \in P : f[l + 1][r] = f[l][r]
  <2>1. l \in T
    BY <1>0, <1>9
  <2>2. \A r \in P : r[2] - r[1] <= l + 1
    BY <1>0
  <2> QED BY <2>1, <2>2 DEF T
<1>11. f[l] = [r \in P |-> HalfOf(value, ring, f[l], r)]
  <2>1. l \in 0 .. l + 1 /\ l + 1 \in 1 .. l + 1 /\ (l + 1) - 1 = l
    BY <1>0
  <2>2. f[l] \in D
    BY <1>4, <2>1
  <2>3. f[l] = [r \in P |-> f[l][r]]
    BY <2>2 DEF D
  <2>4. \A r \in P : f[l + 1][r] = HalfOf(value, ring, f[l], r)
    <3>1. \A r \in P : f[l + 1][r] = HalfOf(value, ring, f[(l + 1) - 1], r)
      BY <1>5, <2>1
    <3> QED BY <2>1, <3>1
  <2>5. \A r \in P : f[l][r] = HalfOf(value, ring, f[l], r)
    BY <1>10, <2>4
  <2> HIDE DEF P
  <2> QED BY <2>3, <2>5
<1> QED BY <1>11

\* The index of the last point at or before the value.
Owner(ring, value, i) ==
    /\ i \in 1 .. Len(ring) /\ ring[i].v <= value
    /\ \A j \in 1 .. Len(ring) : ring[j].v <= value => ring[j].v <= ring[i].v

\* Halving finds it, when the first and the last point enclose the value.
LEMMA HalfFinds ==
  ASSUME NEW value \in Nat, NEW ring \in Seq(RingPoints), SortedRing(ring), ring # <<>>,
         ring[1].v <= value, value <= ring[Len(ring)].v
  PROVE  \E i : Owner(ring, value, i) /\ Half(value, ring) = ring[i].node
<1> DEFINE l == Len(ring)
           P == PairsOf(ring)
           IsHalf(half) ==
             half = [r \in (1 .. Len(ring)) \X (1 .. Len(ring)) |->
                       LET begin == r[1]
                           end   == r[2]
                           mid   == begin + (end - begin) \div 2
                       IN  IF end - begin <= 1
                           THEN IF ring[end].v = value THEN ring[end].node ELSE ring[begin].node
                           ELSE half[IF value > ring[mid].v THEN <<mid, end>> ELSE <<begin, mid>>]]
<1>0. l \in Nat \ {0} /\ \A i \in 1 .. l : ring[i] \in RingPoints /\ ring[i].v \in Nat
  <2>1. l \in Nat /\ \A i \in 1 .. l : ring[i] \in RingPoints
    OBVIOUS
  <2>2. l # 0
    OBVIOUS
  <2> QED BY <2>1, <2>2 DEF RingPoints, Values
<1>1. \A h : IsHalf(h) <=> h = [r \in P |-> HalfOf(value, ring, h, r)]
  BY DEF PairsOf, HalfOf, Narrower, MidOf
<1>2. \E h : IsHalf(h)
  <2>1. \E h : h = [r \in P |-> HalfOf(value, ring, h, r)]
    BY HalfExists
  <2> HIDE DEF IsHalf
  <2> QED BY <1>1, <2>1
<1>3. Half(value, ring) = (CHOOSE half : IsHalf(half))[<<1, l>>]
  BY DEF Half
<1> HIDE DEF IsHalf
<1>4. PICK h : IsHalf(h) /\ Half(value, ring) = h[<<1, l>>]
  BY <1>2, <1>3
<1>5. \A r \in P : h[r] = HalfOf(value, ring, h, r)
  <2>1. h = [r \in P |-> HalfOf(value, ring, h, r)]
    BY <1>1, <1>4
  <2> QED BY <2>1
<1> DEFINE Encloses(r) == /\ r \in P /\ r[1] <= r[2]
                          /\ ring[r[1]].v <= value /\ value <= ring[r[2]].v
           Found(r) == \E i : Owner(ring, value, i) /\ h[r] = ring[i].node
           T == {d \in 0 .. l : \A r : Encloses(r) /\ r[2] - r[1] <= d => Found(r)}
<1>6. ASSUME NEW r, Encloses(r), r[2] - r[1] <= 1 PROVE Found(r)
  <2>1. /\ r \in P /\ r[1] \in 1 .. l /\ r[2] \in 1 .. l
        /\ r[2] = r[1] \/ r[2] = r[1] + 1
    BY <1>6 DEF PairsOf
  <2>2. h[r] = IF ring[r[2]].v = value THEN ring[r[2]].node ELSE ring[r[1]].node
    BY <1>5, <1>6, <2>1 DEF HalfOf
  <2>3. CASE ring[r[2]].v = value
    <3>1. Owner(ring, value, r[2])
      BY <1>0, <2>1, <2>3 DEF Owner
    <3> QED BY <2>2, <2>3, <3>1
  <2>4. CASE ring[r[2]].v # value
    <3> DEFINE b == r[1]
               e == r[2]
    <3>0. /\ b \in 1 .. l /\ e \in 1 .. l
          /\ e = b \/ e = b + 1
          /\ ring[b].v <= value /\ value <= ring[e].v /\ ring[e].v # value
      BY <1>6, <2>1, <2>4
    <3>00. ring[e].v \in Nat /\ ring[b].v \in Nat
      BY <1>0, <3>0
    <3> HIDE DEF b, e
    <3>1. e = b + 1 /\ value < ring[e].v
      BY <3>0, <3>00
    <3>2. ASSUME NEW j \in 1 .. l, ring[j].v <= value PROVE ring[j].v <= ring[b].v
      <4>1. CASE j <= b
        BY <3>0, <4>1 DEF SortedRing
      <4>2. CASE ~(j <= b)
        <5>1. e <= j
          BY <3>0, <3>1, <4>2
        <5>2. ring[e].v <= ring[j].v /\ ring[j].v \in Nat
          BY <1>0, <3>0, <5>1 DEF SortedRing
        <5> QED BY <3>00, <3>1, <3>2, <5>2
      <4> QED BY <4>1, <4>2
    <3>3. Owner(ring, value, b)
      BY <3>0, <3>2 DEF Owner
    <3> QED BY <2>2, <2>4, <3>3 DEF b
  <2> QED BY <2>3, <2>4
<1>7. 0 \in T
  <2> SUFFICES ASSUME NEW r, Encloses(r), r[2] - r[1] <= 0 PROVE Found(r)
    BY <1>0
  <2>1. r[1] \in 1 .. l /\ r[2] \in 1 .. l
    BY DEF PairsOf
  <2>2. r[2] - r[1] <= 1
    BY <2>1
  <2> QED BY <1>6, <2>2
<1>8. ASSUME NEW d \in 1 .. l, d - 1 \in T PROVE d \in T
  <2> SUFFICES ASSUME NEW r, Encloses(r), r[2] - r[1] <= d PROVE Found(r)
    BY <1>0
  <2>0. r \in P /\ r[1] \in 1 .. l /\ r[2] \in 1 .. l
    BY DEF PairsOf
  <2>1. CASE r[2] - r[1] <= 1
    BY <1>6, <2>1
  <2>2. CASE ~(r[2] - r[1] <= 1)
    <3> DEFINE next == Narrower(value, ring, r)
    <3>1. next \in P /\ next[2] - next[1] < r[2] - r[1] /\ next[1] < next[2]
      BY <2>0, <2>2, NarrowerIs
    <3>2. next[1] \in 1 .. l /\ next[2] \in 1 .. l
      BY <3>1 DEF PairsOf
    <3>3. next[2] - next[1] <= d - 1 /\ next[1] <= next[2]
      <4> DEFINE x == next[2] - next[1]
                 y == r[2] - r[1]
      <4>1. x \in Int /\ y \in Int /\ x < y /\ next[1] \in Int /\ next[2] \in Int
        <5> DEFINE x1 == next[1]
                   x2 == next[2]
                   y1 == r[1]
                   y2 == r[2]
        <5>1. /\ x1 \in 1 .. l /\ x2 \in 1 .. l /\ y1 \in 1 .. l /\ y2 \in 1 .. l
              /\ x2 - x1 < y2 - y1
          BY <2>0, <3>1, <3>2
        <5> HIDE DEF x1, x2, y1, y2
        <5>2. x2 - x1 \in Int /\ y2 - y1 \in Int /\ x1 \in Int /\ x2 \in Int
          BY <1>0, <5>1
        <5> QED BY <5>1, <5>2 DEF x1, x2, y1, y2
      <4>2. next[1] <= next[2]
        <5> HIDE DEF next
        <5> QED BY <3>1, <4>1
      <4>3. y <= d
        OBVIOUS
      <4> HIDE DEF x, y
      <4>4. x <= d - 1
        BY <4>1, <4>3
      <4> QED BY <4>2, <4>4 DEF x
    <3>4. ring[next[1]].v <= value /\ value <= ring[next[2]].v
      <4> DEFINE m == MidOf(r)
      <4>1. CASE value > ring[m].v
        <5>1. next = <<m, r[2]>>
          BY <4>1 DEF Narrower
        <5>2. m \in 1 .. l
          BY <3>2, <5>1
        <5> HIDE DEF m, next
        <5>3. ring[m].v <= value
          BY <1>0, <4>1, <5>2
        <5> QED BY <5>1, <5>3
      <4>2. CASE ~(value > ring[m].v)
        <5>1. next = <<r[1], m>>
          BY <4>2 DEF Narrower
        <5>2. m \in 1 .. l
          BY <3>2, <5>1
        <5> HIDE DEF m, next
        <5>3. value <= ring[m].v
          BY <1>0, <4>2, <5>2
        <5> QED BY <5>1, <5>3
      <4> QED BY <4>1, <4>2
    <3>5. h[r] = h[next]
      BY <1>5, <2>0, <2>2 DEF HalfOf
    <3> HIDE DEF next
    <3>6. Encloses(next)
      BY <3>1, <3>3, <3>4
    <3> HIDE DEF Encloses
    <3>7. Found(next)
      BY <1>8, <3>3, <3>6
    <3> QED BY <3>5, <3>7
  <2> QED BY <2>1, <2>2
<1> HIDE DEF T
<1>9. 0 .. l \subseteq T
  BY <1>0, <1>7, <1>8, UpTo
<1>10. Encloses(<<1, l>>) /\ <<1, l>>[2] - <<1, l>>[1] <= l
  BY <1>0 DEF PairsOf
<1>11. l \in T
  BY <1>0, <1>9
<1>12. Found(<<1, l>>)
  <2> DEFINE r == <<1, l>>
  <2>1. Encloses(r) /\ r[2] - r[1] <= l
    BY <1>10
  <2> HIDE DEF r, Encloses, Found
  <2>2. Found(r)
    BY <1>11, <2>1 DEF T
  <2> QED BY <2>2 DEF r
<1> QED BY <1>4, <1>12

\* The point that owns a value between the first and the last of P.
Owns(P, value, p) ==
    p \in P /\ p.v <= value /\ \A q \in P : q.v <= value => q.v <= p.v

\* What Search finds on a ring in order.
LEMMA SearchIs ==
  ASSUME NEW value \in Values, NEW ring \in Seq(RingPoints), SortedRing(ring), ring # <<>>
  PROVE  /\ ring[1] \in PointsOf(ring) /\ ring[Len(ring)] \in PointsOf(ring)
         /\ \A p \in PointsOf(ring) : ring[1].v <= p.v /\ p.v <= ring[Len(ring)].v
         /\ (value < ring[1].v \/ value > ring[Len(ring)].v) => Search(value, ring) = ring[1].node
         /\ ~(value < ring[1].v \/ value > ring[Len(ring)].v) =>
               \E p : Owns(PointsOf(ring), value, p) /\ Search(value, ring) = p.node
<1> DEFINE l == Len(ring)
<1>1. value \in Nat /\ l \in Nat /\ \A i \in 1 .. l : ring[i] \in RingPoints /\ ring[i].v \in Nat
  <2>1. value \in Nat
    BY RingAssumption DEF Values
  <2>2. l \in Nat /\ \A i \in 1 .. l : ring[i] \in RingPoints
    OBVIOUS
  <2>3. \A p \in RingPoints : p.v \in Nat
    BY RingAssumption DEF RingPoints, Values
  <2> QED BY <2>1, <2>2, <2>3
<1>2. l # 0
  OBVIOUS
<1>3. 1 \in 1 .. l /\ l \in 1 .. l /\ \A i \in 1 .. l : 1 <= i /\ i <= l
  BY <1>1, <1>2
<1>4. \A i \in 1 .. l : ring[1].v <= ring[i].v /\ ring[i].v <= ring[l].v
  BY <1>3 DEF SortedRing
<1>5. ring[1].v \in Nat /\ ring[l].v \in Nat
  BY <1>1, <1>3
<1>6. ASSUME ~(value < ring[1].v \/ value > ring[l].v)
      PROVE  \E p : Owns(PointsOf(ring), value, p) /\ Search(value, ring) = p.node
  <2>1. ring[1].v <= value /\ value <= ring[l].v
    BY <1>1, <1>5, <1>6
  <2>2. PICK i : Owner(ring, value, i) /\ Half(value, ring) = ring[i].node
    BY <1>1, <2>1, HalfFinds
  <2>3. Search(value, ring) = ring[i].node
    BY <1>6, <2>2 DEF Search
  <2>4. Owns(PointsOf(ring), value, ring[i])
    BY <2>2 DEF Owns, Owner, PointsOf
  <2> QED BY <2>3, <2>4
<1>7. (value < ring[1].v \/ value > ring[l].v) => Search(value, ring) = ring[1].node
  BY DEF Search
<1> QED BY <1>3, <1>4, <1>6, <1>7 DEF PointsOf

\* SearchFindsOwner of any ring.
FindsOwner(ring) ==
    \A value \in Values :
        LET before == {p \in PointsOf(ring) : p.v <= value}
            above  == {p \in PointsOf(ring) : p.v > value}
            last   == {p \in before : \A q \in before : q.v <= p.v}
            first  == {p \in PointsOf(ring) : \A q \in PointsOf(ring) : p.v <= q.v}
            exact  == {p \in last : p.v = value}
            owners == IF before = {} \/ (above = {} /\ exact = {}) THEN first ELSE last
        IN  IF ring = <<>>
            THEN Search(value, ring) = Nowhere
            ELSE \E p \in owners : Search(value, ring) = p.node

\* On a ring in order Search finds the owner of every key.
LEMMA SortedFindsOwner ==
  ASSUME NEW ring \in Seq(RingPoints), SortedRing(ring)
  PROVE  FindsOwner(ring)
<1> SUFFICES ASSUME NEW value \in Values
             PROVE  LET before == {p \in PointsOf(ring) : p.v <= value}
                        above  == {p \in PointsOf(ring) : p.v > value}
                        last   == {p \in before : \A q \in before : q.v <= p.v}
                        first  == {p \in PointsOf(ring) : \A q \in PointsOf(ring) : p.v <= q.v}
                        exact  == {p \in last : p.v = value}
                        owners == IF before = {} \/ (above = {} /\ exact = {}) THEN first ELSE last
                    IN  IF ring = <<>>
                        THEN Search(value, ring) = Nowhere
                        ELSE \E p \in owners : Search(value, ring) = p.node
  BY DEF FindsOwner
<1> DEFINE P == PointsOf(ring)
           before == {p \in P : p.v <= value}
           above  == {p \in P : p.v > value}
           last   == {p \in before : \A q \in before : q.v <= p.v}
           first  == {p \in P : \A q \in P : p.v <= q.v}
           exact  == {p \in last : p.v = value}
           owners == IF before = {} \/ (above = {} /\ exact = {}) THEN first ELSE last
           l == Len(ring)
<1>1. CASE ring = <<>>
  BY <1>1 DEF Search
<1>2. CASE ring # <<>>
  <2>0. value \in Nat /\ \A p \in P : p.v \in Nat
    <3>1. \A p \in RingPoints : p.v \in Nat
      BY RingAssumption DEF RingPoints, Values
    <3>2. value \in Nat
      BY RingAssumption DEF Values
    <3>3. \A p \in P : p \in RingPoints
      BY DEF PointsOf
    <3> QED BY <3>1, <3>2, <3>3
  <2>1. /\ ring[1] \in P /\ ring[l] \in P
        /\ \A p \in P : ring[1].v <= p.v /\ p.v <= ring[l].v
        /\ (value < ring[1].v \/ value > ring[l].v) => Search(value, ring) = ring[1].node
        /\ ~(value < ring[1].v \/ value > ring[l].v) =>
              \E p : Owns(P, value, p) /\ Search(value, ring) = p.node
    BY <1>2, SearchIs
  <2> HIDE DEF P, l
  <2>2. CASE value < ring[1].v \/ value > ring[l].v
    <3>1. ring[1] \in first /\ Search(value, ring) = ring[1].node
      BY <2>1, <2>2
    <3>2. owners = first
      <4>1. CASE value < ring[1].v
        <5>1. \A p \in P : ~(p.v <= value)
          BY <2>0, <2>1, <4>1
        <5> QED BY <5>1
      <4>2. CASE value > ring[l].v
        <5>1. \A p \in P : ~(p.v > value) /\ p.v # value
          BY <2>0, <2>1, <4>2
        <5> QED BY <5>1
      <4> QED BY <2>2, <4>1, <4>2
    <3> HIDE DEF owners, first
    <3>3. \E p \in owners : Search(value, ring) = p.node
      BY <3>1, <3>2
    <3> QED BY <1>2, <3>3 DEF owners, first, P
  <2>3. CASE ~(value < ring[1].v \/ value > ring[l].v)
    <3>1. PICK p : Owns(P, value, p) /\ Search(value, ring) = p.node
      BY <2>1, <2>3
    <3>2. p \in last
      BY <3>1 DEF Owns
    <3>3. owners = last
      <4>1. before # {}
        BY <3>2
      <4>2. above # {} \/ exact # {}
        <5>1. CASE ring[l].v > value
          BY <2>1, <5>1
        <5>2. CASE ~(ring[l].v > value)
          <6>1. ring[l].v = value
            BY <2>0, <2>1, <2>3, <5>2
          <6>2. ring[l] \in last
            BY <2>1, <6>1
          <6> QED BY <6>1, <6>2
        <5> QED BY <5>1, <5>2
      <4> HIDE DEF before, above, exact, last, first
      <4> QED BY <4>1, <4>2
    <3> HIDE DEF owners, last
    <3>4. \E q \in owners : Search(value, ring) = q.node
      BY <3>1, <3>2, <3>3
    <3> QED BY <1>2, <3>4 DEF owners, last, P
  <2> QED BY <2>2, <2>3
<1> QED BY <1>1, <1>2

\* Two rings agree on a key whose node on the one is on the other, when the
\* other lacks no point of that node and the key is above neither's last point.
LEMMA RingsAgree ==
  ASSUME NEW value \in Values,
         NEW big \in Seq(RingPoints), SortedRing(big), big # <<>>,
         NEW small \in Seq(RingPoints), SortedRing(small), small # <<>>,
         PointsOf(small) \subseteq PointsOf(big),
         \A p \in PointsOf(big) : p.node = Search(value, big) => p \in PointsOf(small),
         \A p, q \in PointsOf(small) : p.v = q.v => p.node = q.node,
         ~(value > big[Len(big)].v), ~(value > small[Len(small)].v)
  PROVE  Search(value, big) = Search(value, small)
<1> DEFINE A == PointsOf(big)
           B == PointsOf(small)
           from == Search(value, big)
           to == Search(value, small)
<1>0. value \in Nat /\ \A p \in A : p.v \in Nat
  <2>1. \A p \in RingPoints : p.v \in Nat
    BY RingAssumption DEF RingPoints, Values
  <2>2. value \in Nat
    BY RingAssumption DEF Values
  <2>3. \A p \in A : p \in RingPoints
    BY DEF PointsOf
  <2> QED BY <2>1, <2>2, <2>3
<1>1. /\ big[1] \in A /\ \A p \in A : big[1].v <= p.v
      /\ value < big[1].v => from = big[1].node
      /\ ~(value < big[1].v) => \E p : Owns(A, value, p) /\ from = p.node
  BY SearchIs
<1>2. /\ small[1] \in B /\ \A p \in B : small[1].v <= p.v
      /\ value < small[1].v => to = small[1].node
      /\ ~(value < small[1].v) => \E p : Owns(B, value, p) /\ to = p.node
  BY SearchIs
<1>3. /\ B \subseteq A
      /\ \A p \in A : p.node = from => p \in B
      /\ \A p, q \in B : p.v = q.v => p.node = q.node
  OBVIOUS
<1> HIDE DEF A, B, from, to
<1>4. CASE value < big[1].v
  <2>1. value < small[1].v /\ big[1] \in B
    BY <1>0, <1>1, <1>2, <1>3, <1>4
  <2>2. big[1].v = small[1].v
    <3>1. big[1].v <= small[1].v /\ small[1].v <= big[1].v
      BY <1>1, <1>2, <1>3, <2>1
    <3> QED BY <1>0, <1>1, <1>2, <1>3, <3>1
  <2> QED BY <1>1, <1>2, <1>3, <1>4, <2>1, <2>2 DEF from, to
<1>5. CASE ~(value < big[1].v)
  <2>1. PICK p : Owns(A, value, p) /\ from = p.node
    BY <1>1, <1>5
  <2>2. p \in B /\ p.v <= value /\ \A q \in A : q.v <= value => q.v <= p.v
    BY <1>3, <2>1 DEF Owns
  <2>3. ~(value < small[1].v)
    <3>1. small[1].v <= p.v /\ small[1].v \in Nat /\ p.v \in Nat
      BY <1>0, <1>2, <1>3, <2>2
    <3> QED BY <1>0, <2>2, <3>1
  <2>4. PICK q : Owns(B, value, q) /\ to = q.node
    BY <1>2, <2>3
  <2>5. q \in B /\ q.v <= value /\ \A r \in B : r.v <= value => r.v <= q.v
    BY <2>4 DEF Owns
  <2>6. q.v = p.v
    <3>1. q.v <= p.v /\ p.v <= q.v /\ q.v \in Nat /\ p.v \in Nat
      BY <1>0, <1>3, <2>2, <2>5
    <3> QED BY <3>1
  <2> QED BY <1>3, <2>1, <2>2, <2>4, <2>5, <2>6 DEF from, to
<1> QED BY <1>4, <1>5

\* Add: the points of the other nodes and those of the new one, in order; a node
\* that is on the ring has its points there already.
LEMMA AddSteps ==
  ASSUME RingInv, NEW n \in Nodes, Add(n)
  PROVE  /\ points' = [points EXCEPT ![n] = points'[n]] /\ points'[n] \in SUBSET Values
         /\ dums' \in Seq(RingPoints) /\ SortedRing(dums')
         /\ PointsOf(dums') = {p \in PointsOf(dums) : p.node # n}
                                  \cup {[node |-> n, v |-> v] : v \in points'[n]}
         /\ (\E p \in PointsOf(dums) : p.node = n) =>
               points' = points /\ PointsOf(dums') = PointsOf(dums)
<1>1. PICK P \in SUBSET Values :
         Cardinality(P) = Replicas /\ points[n] \in {{}, P} /\ points' = [points EXCEPT ![n] = P]
  BY DEF Add, Create
<1>2. points'[n] = P
  BY <1>1 DEF RingInv
<1> DEFINE N == {[node |-> n, v |-> v] : v \in P}
           W == PointsOf(Without(n))
           S == W \cup N
<1>3. W = {p \in PointsOf(dums) : p.node # n} /\ Without(n) \in Seq(RingPoints)
  BY WithoutIs DEF RingInv
<1>4. W \in SUBSET RingPoints /\ N \in SUBSET RingPoints
  <2>1. \A p \in PointsOf(dums) : p \in RingPoints
    BY DEF RingInv, PointsOf
  <2>2. N \in SUBSET RingPoints
    BY DEF RingPoints
  <2> HIDE DEF N
  <2> QED BY <1>3, <2>1, <2>2
<1>5. IsFiniteSet(S)
  <2>1. IsFiniteSet(W)
    BY <1>3, PointsFinite
  <2>2. IsFiniteSet(N)
    BY NodePointsFinite
  <2> HIDE DEF W, N
  <2> QED BY <2>1, <2>2, FS_Union
<1>6. dums' \in SortedRings(S)
  BY <1>2 DEF Add, NewPoints
<1> HIDE DEF S
<1>7. dums' \in Seq(S) /\ SortedRing(dums') /\ PointsOf(dums') = S
  BY <1>4, <1>5, <1>6, SortedRingsAre DEF S
<1>8. dums' \in Seq(RingPoints)
  BY <1>4, <1>7 DEF S
<1>9. ASSUME NEW p \in PointsOf(dums), p.node = n
      PROVE  points' = points /\ S = PointsOf(dums)
  <2>1. p.v \in points[n] /\ \A v \in points[n] : [node |-> n, v |-> v] \in PointsOf(dums)
    BY <1>9 DEF RingInv
  <2>2. P = points[n]
    BY <1>1, <2>1
  <2>3. points' = points
    BY <1>1, <2>2 DEF RingInv
  <2>4. \A q \in PointsOf(dums) : q.node = n => q \in N
    <3>1. \A q \in PointsOf(dums) : q \in RingPoints /\ q.v \in points[q.node]
      BY DEF RingInv, PointsOf
    <3> QED BY <2>2, <3>1 DEF RingPoints
  <2>5. N \subseteq PointsOf(dums)
    BY <2>1, <2>2
  <2> HIDE DEF N, W
  <2> QED BY <1>3, <2>3, <2>4, <2>5 DEF S
<1> QED BY <1>1, <1>2, <1>3, <1>7, <1>8, <1>9 DEF S

LEMMA RemoveSteps ==
  ASSUME RingInv, NEW n \in Nodes, RemoveAddr(n)
  PROVE  /\ points' = points
         /\ dums' \in Seq(RingPoints) /\ SortedRing(dums')
         /\ PointsOf(dums') = {p \in PointsOf(dums) : p.node # n}
BY WithoutIs DEF RingInv, RemoveAddr

LEMMA RingInitInv == RingInit => RingInv
<1> SUFFICES ASSUME RingInit PROVE RingInv
  OBVIOUS
<1>1. dums \in Seq(RingPoints) /\ Len(dums) = 0
  BY DEF RingInit
<1> QED BY <1>1 DEF RingInit, RingInv, SortedRing, PointsOf

LEMMA RingNextInv ==
  ASSUME RingInv, [RingNext]_ringVars
  PROVE  RingInv'
<1> USE DEF RingInv
<1>1. ASSUME NEW n \in Nodes, Add(n) PROVE RingInv'
  <2> DEFINE P == points'[n]
  <2>1. /\ points' = [points EXCEPT ![n] = P] /\ P \in SUBSET Values
        /\ dums' \in Seq(RingPoints) /\ SortedRing(dums')
        /\ PointsOf(dums') = {p \in PointsOf(dums) : p.node # n}
                                 \cup {[node |-> n, v |-> v] : v \in P}
    BY <1>1, AddSteps
  <2> HIDE DEF P
  <2>2. points' \in [Nodes -> SUBSET Values]
    BY <2>1
  <2>3. \A p \in PointsOf(dums) : p \in RingPoints
    BY DEF PointsOf
  <2>4. \A p \in PointsOf(dums') : p.v \in points'[p.node]
    BY <2>1, <2>3 DEF RingPoints
  <2>5. \A p \in PointsOf(dums') : \A v \in points'[p.node] :
           [node |-> p.node, v |-> v] \in PointsOf(dums')
    <3> SUFFICES ASSUME NEW p \in PointsOf(dums'), NEW v \in points'[p.node]
                 PROVE  [node |-> p.node, v |-> v] \in PointsOf(dums')
      OBVIOUS
    <3>1. CASE p.node = n
      <4>1. v \in P
        BY <2>1, <3>1
      <4> QED BY <2>1, <3>1, <4>1
    <3>2. CASE p.node # n
      <4>1. p \in PointsOf(dums)
        BY <2>1, <3>2
      <4>2. p.node \in Nodes
        BY <2>3, <4>1 DEF RingPoints
      <4>3. v \in points[p.node]
        BY <2>1, <3>2, <4>2
      <4>4. [node |-> p.node, v |-> v] \in PointsOf(dums)
        BY <4>1, <4>3
      <4> DEFINE q == [node |-> p.node, v |-> v]
      <4>5. q \in PointsOf(dums) /\ q.node # n
        BY <3>2, <4>4
      <4> HIDE DEF q
      <4>6. q \in PointsOf(dums')
        BY <2>1, <4>5
      <4> QED BY <4>6 DEF q
    <3> QED BY <3>1, <3>2
  <2> QED BY <2>1, <2>2, <2>4, <2>5
<1>2. ASSUME NEW n \in Nodes, RemoveAddr(n) PROVE RingInv'
  <2>1. /\ points' = points
        /\ dums' \in Seq(RingPoints) /\ SortedRing(dums')
        /\ PointsOf(dums') = {p \in PointsOf(dums) : p.node # n}
    BY <1>2, RemoveSteps
  <2> QED BY <2>1
<1>3. ASSUME UNCHANGED ringVars PROVE RingInv'
  BY <1>3 DEF ringVars, SortedRing, PointsOf
<1> QED BY <1>1, <1>2, <1>3 DEF RingNext

\* Points of equal value are the same node's, when no two nodes collide.
LEMMA NoCollisionSame ==
  ASSUME RingInv, NoCollision, NEW p \in PointsOf(dums), NEW q \in PointsOf(dums), p.v = q.v
  PROVE  p.node = q.node
<1>1. p \in RingPoints /\ q \in RingPoints /\ p.v \in points[p.node] /\ q.v \in points[q.node]
  BY DEF RingInv, PointsOf
<1>2. p.v \in Values /\ p.node \in Nodes /\ q.node \in Nodes
  BY <1>1 DEF RingPoints
<1> QED BY <1>1, <1>2 DEF NoCollision, Collides

LEMMA FewMove ==
  ASSUME RingInv, RingInv', RingNext, NoCollision
  PROVE  OthersStay
<1> SUFFICES ASSUME NEW value \in Values, dums # <<>>, dums' # <<>>,
                    Search(value, dums) \in OnRing', Search(value, dums') \in OnRing,
                    ~(value > dums[Len(dums)].v), ~(value > dums'[Len(dums')].v)
             PROVE  Search(value, dums) = Search(value, dums')
  BY Zenon DEF OthersStay
<1> DEFINE A == PointsOf(dums)
           B == PointsOf(dums')
           from == Search(value, dums)
           to == Search(value, dums')
<1>1. /\ dums \in Seq(RingPoints) /\ SortedRing(dums)
      /\ dums' \in Seq(RingPoints) /\ SortedRing(dums')
  BY DEF RingInv
<1>2. (\E p \in B : p.node = from) /\ (\E p \in A : p.node = to)
  BY DEF OnRing, PointsOf
<1>3. \A p, q \in A : p.v = q.v => p.node = q.node
  BY NoCollisionSame
<1>4. ASSUME B \subseteq A, \A p \in A : p.node = from => p \in B PROVE from = to
  <2>1. \A p, q \in PointsOf(dums') : p.v = q.v => p.node = q.node
    BY <1>3, <1>4
  <2> QED BY <1>1, <1>4, <2>1, RingsAgree
<1>5. ASSUME A \subseteq B, \A p \in B : p.node = to => p \in A PROVE to = from
  BY <1>1, <1>3, <1>5, RingsAgree
<1>6. ASSUME NEW n \in Nodes, Add(n) PROVE from = to
  <2>1. /\ B = {p \in A : p.node # n} \cup {[node |-> n, v |-> v] : v \in points'[n]}
        /\ (\E p \in A : p.node = n) => B = A
    BY <1>6, AddSteps
  <2> HIDE DEF A, B, from, to
  <2>2. CASE \E p \in A : p.node = n
    BY <1>4, <2>1, <2>2
  <2>3. CASE ~\E p \in A : p.node = n
    <3>1. A \subseteq B
      BY <2>1, <2>3
    <3>2. to # n
      BY <1>2, <2>3
    <3>3. \A p \in B : p.node = to => p \in A
      BY <2>1, <3>2
    <3> QED BY <1>5, <3>1, <3>3
  <2> QED BY <2>2, <2>3
<1>7. ASSUME NEW n \in Nodes, RemoveAddr(n) PROVE from = to
  <2>1. B = {p \in A : p.node # n}
    BY <1>7, RemoveSteps
  <2> HIDE DEF A, B, from, to
  <2>2. from # n
    BY <1>2, <2>1
  <2>3. B \subseteq A /\ \A p \in A : p.node = from => p \in B
    BY <2>1, <2>2
  <2> QED BY <1>4, <2>3
<1> QED BY <1>6, <1>7 DEF RingNext

\* Search finds the owner of every key after each change (hash.go Add, Remove,
\* Search, half), and only keys of nodes that came or went, or above the last
\* point, move.
THEOREM RingFewKeysMove == RingSpec => FewKeysMove
<1> DEFINE Few == dums' # dums => SearchFindsOwner' /\ (NoCollision => OthersStay)
<1>1. RingInit => RingInv
  BY RingInitInv
<1>2. RingInv /\ [RingNext]_ringVars => RingInv'
  BY RingNextInv
<1>3. RingInv /\ RingInv' /\ [RingNext]_ringVars => [Few]_ringVars
  <2> SUFFICES ASSUME RingInv, RingInv', RingNext PROVE Few
    OBVIOUS
  <2>1. FindsOwner(dums')
    BY SortedFindsOwner DEF RingInv
  <2>2. SearchFindsOwner'
    BY <2>1 DEF SearchFindsOwner, FindsOwner
  <2>3. NoCollision => OthersStay
    BY FewMove
  <2> QED BY <2>2, <2>3
<1> QED BY <1>1, <1>2, <1>3, PTL DEF RingSpec, FewKeysMove

\* The ring is in order and whole (hash.go Add, Remove).
THEOREM RingInvariant == RingSpec => []RingInv
BY RingInitInv, RingNextInv, PTL DEF RingSpec

-----------------------------------------------------------------------------
(* The rows of a query.                                                    *)

\* What a row is in a list of each kind.
OfRow(k, row) ==
    CASE k = "rows" -> SetFields(Fresh, row)
      [] k = "lists" -> SetFieldValue("int", row[Columns[1]])
      [] k = "values" -> ParamsOf(row)

Lists == {"rows", "lists", "values"}
Results == {OfRow(k, row) : k \in Lists, row \in Rows}

\* What has been built is the rows read, in their order.
ListOfRead ==
    /\ filling \in Seq(Results) /\ Len(filling) = Len(read)
    /\ \A i \in 1 .. Len(read) : filling[i] = OfRow(container, read[i])

\* What has been built maps the key of each row read to the value of the last.
MapOfRead ==
    /\ DOMAIN filling = {KeyOf(read[i]) : i \in DOMAIN read}
    /\ \A i \in DOMAIN read :
        (\A j \in i + 1 .. Len(read) : KeyOf(read[j]) # KeyOf(read[i])) =>
            filling[KeyOf(read[i])] = Param(read[i]["user_id"])

RawTypeOK ==
    /\ container \in Containers /\ phase \in {"idle", "open", "returned"}
    /\ read \in Seq(Rows) /\ cnt \in Nat

\* While the rows are open the container is as it was, or emptied for rows
\* that are already read.
OpenInv ==
    /\ err = "nil" /\ cnt = Len(read)
    /\ dest = former \/ (container = "rows" /\ cnt > 0 /\ dest = << >>)
    /\ container = "row" => cnt = 0
    /\ container \in Lists => ListOfRead
    /\ container = "map" => MapOfRead

RawInv == RawTypeOK /\ (phase = "open" => OpenInv) /\ ResultIsOwn

LEMMA ColumnsOfFields ==
  /\ DOMAIN Columns = {1, 2} /\ Columns[1] = "id" /\ Columns[2] = "user_id"
  /\ FieldNames = {"id", "userid", "user_id"}
  /\ Column("user_id") = 0 /\ Column("id") # 0 /\ Column("userid") # 0
<1>1. /\ DOMAIN Columns = {1, 2} /\ Columns[1] = "id" /\ Columns[2] = "user_id" /\ Len(Columns) = 2
      /\ Strip["id"] = "id" /\ Strip["user_id"] = "userid"
  BY DEF Columns, Strip
<1>2. FieldNames = {"id", "userid", "user_id"}
  BY DEF FieldNames, Fields
<1>3. ASSUME NEW f, NEW n \in {1, 2}, {i \in 1 .. Len(Columns) : Strip[Columns[i]] = f} = {n}
      PROVE  Column(f) = n
  <2>1. Max({n}) = n
    BY DEF Max
  <2>2. Column(f) = IF {n} # {} THEN Max({n}) ELSE 0
    BY <1>3 DEF Column, SelectLastInSeq
  <2> QED BY <2>1, <2>2
<1>4. {i \in 1 .. Len(Columns) : Strip[Columns[i]] = "user_id"} = {}
  BY <1>1
<1>5. Column("user_id") = 0
  BY <1>4 DEF Column, SelectLastInSeq
<1>6. {i \in 1 .. Len(Columns) : Strip[Columns[i]] = "id"} = {1}
  BY <1>1
<1>7. {i \in 1 .. Len(Columns) : Strip[Columns[i]] = "userid"} = {2}
  BY <1>1
<1> QED BY <1>1, <1>2, <1>3, <1>5, <1>6, <1>7

LEMMA RawStarts == RawInit => RawInv
  BY DEF RawInit, RawInv, RawTypeOK, ResultIsOwn

\* A call begins, or cannot be made.
LEMMA QueryKeeps == ASSUME RawInv, Query \/ QueryFails PROVE RawInv'
<1>1. RawTypeOK'
  <2>1. /\ container' = container /\ read' = << >> /\ cnt' = 0 /\ phase' \in {"open", "returned"}
        /\ container \in Containers
    BY DEF RawInv, RawTypeOK, Query, QueryFails
  <2> QED BY <2>1 DEF RawTypeOK
<1>2. CASE Query
  <2>1. ListOfRead'
    BY <1>2 DEF Query, ListOfRead
  <2>2. MapOfRead'
    BY <1>2 DEF Query, MapOfRead
  <2>3. OpenInv'
    BY <1>2, <2>1, <2>2 DEF Query, OpenInv
  <2> QED BY <1>1, <1>2, <2>3 DEF Query, RawInv, ResultIsOwn
<1>3. CASE QueryFails
  BY <1>1, <1>3 DEF QueryFails, RawInv, ResultIsOwn
<1> QED BY <1>2, <1>3

\* QueryRow has its row: the fields no column is for keep what they held.
LEMMA RowKeeps == ASSUME RawInv, phase = "open", NEW row \in Rows, QueryRow(row) PROVE RawInv'
<1>1. container = "row" /\ dest' = SetFields(former, row) /\ err' = "nil" /\ read' = << row >>
  BY DEF QueryRow, ReadingRows, RawInv, OpenInv
<1>2. RawTypeOK'
  BY DEF RawInv, RawTypeOK, QueryRow
<1>3. ASSUME NEW f \in FieldNames
      PROVE  SetFields(former, row)[f] =
                IF f = "user_id" THEN former[f] ELSE SetFields(Fresh, row)[f]
  <2>1. /\ SetFields(former, row)[f] = IF Column(f) = 0 THEN former[f]
                ELSE SetFieldValue(Fields[f], row[Columns[Column(f)]])
        /\ SetFields(Fresh, row)[f] = IF Column(f) = 0 THEN Fresh[f]
                ELSE SetFieldValue(Fields[f], row[Columns[Column(f)]])
    BY DEF SetFields
  <2> QED BY <2>1, ColumnsOfFields
<1>4. ResultIsOwn'
  <2>1. read'[1] = row /\ container' = "row" /\ former' = former
    BY <1>1 DEF QueryRow
  <2> QED BY <1>1, <1>3, <2>1 DEF ResultIsOwn
<1> QED BY <1>2, <1>4 DEF RawInv, QueryRow

\* A row for a list.
LEMMA ListKeeps ==
  ASSUME RawInv, phase = "open", NEW row \in Rows, container \in Lists,
         QueryRows(row) \/ LoopSetRefs(row) \/ ReadValues(row),
         read' = Append(read, row), cnt' = cnt + 1
  PROVE  RawInv'
<1>1. /\ UNCHANGED <<container, phase, former, err, calls>>
      /\ dest' = dest \/ (container = "rows" /\ dest' = << >>)
  BY DEF QueryRows, LoopSetRefs, ReadValues, ReadingRows
<1>2. filling \in Seq(Results) /\ Len(filling) = Len(read) /\ cnt = Len(read) /\ read \in Seq(Rows)
  BY DEF RawInv, OpenInv, ListOfRead, RawTypeOK
<1>3. filling' = Append(filling, OfRow(container, row))
  <2>1. CASE QueryRows(row)
    BY <2>1 DEF QueryRows, ReadingRows, OfRow
  <2>2. CASE LoopSetRefs(row)
    <3>1. cnt = 0 => filling = << >>
      BY <1>2
    <3>2. container = "lists" /\ filling' = filling \o << SetFieldValue("int", row[Columns[1]]) >>
      BY <2>2, <3>1 DEF LoopSetRefs, ReadingRows
    <3>3. OfRow("lists", row) = SetFieldValue("int", row[Columns[1]])
      BY DEF OfRow
    <3> QED BY <1>2, <3>2, <3>3
  <2>3. CASE ReadValues(row)
    BY <2>3 DEF ReadValues, ReadingRows, OfRow
  <2> QED BY <2>1, <2>2, <2>3
<1>4. OfRow(container, row) \in Results
  BY DEF Results
<1>5. ListOfRead'
  <2> DEFINE x == OfRow(container, row)
  <2>1. /\ filling' \in Seq(Results) /\ Len(filling') = Len(filling) + 1
        /\ \A i \in 1 .. Len(filling) : filling'[i] = filling[i]
        /\ filling'[Len(filling) + 1] = x
    <3> HIDE DEF x
    <3> QED BY <1>2, <1>3, <1>4 DEF x
  <2>2. /\ Len(read') = Len(read) + 1 /\ \A i \in 1 .. Len(read) : read'[i] = read[i]
        /\ read'[Len(read) + 1] = row
    BY <1>2
  <2>3. \A i \in 1 .. Len(read) : filling[i] = OfRow(container, read[i])
    BY DEF RawInv, OpenInv, ListOfRead
  <2>4. ASSUME NEW i \in 1 .. Len(read') PROVE filling'[i] = OfRow(container, read'[i])
    <3>1. i \in 1 .. Len(read) \/ i = Len(read) + 1
      BY <1>2, <2>2
    <3> HIDE DEF x
    <3> QED BY <1>2, <2>1, <2>2, <2>3, <3>1 DEF x
  <2>5. container' = container /\ \A k, r : OfRow(k, r)' = OfRow(k, r)
    BY <1>1 DEF OfRow, SetFields, Fresh, ParamsOf, Param, SetFieldValue
  <2>6. Results' = Results
    BY <2>5 DEF Results
  <2> QED BY <1>2, <2>1, <2>2, <2>4, <2>5, <2>6 DEF ListOfRead
<1>6. RawTypeOK'
  BY <1>1, <1>2 DEF RawInv, RawTypeOK
<1>7. OpenInv'
  <2>1. cnt' = Len(read') /\ cnt' > 0
    BY <1>2
  <2> QED BY <1>1, <1>5, <2>1 DEF RawInv, OpenInv, Lists
<1> QED BY <1>1, <1>6, <1>7 DEF RawInv, ResultIsOwn

\* A row for a map.
LEMMA MapKeeps ==
  ASSUME RawInv, phase = "open", NEW row \in Rows, QueryRowsTo(row),
         read' = Append(read, row), cnt' = cnt + 1
  PROVE  RawInv'
<1>1. UNCHANGED <<container, phase, dest, former, err, calls>> /\ container = "map"
  BY DEF QueryRowsTo, ReadingRows
<1>2. MapOfRead /\ cnt = Len(read) /\ read \in Seq(Rows) /\ dest = former
  BY <1>1 DEF RawInv, OpenInv, RawTypeOK
<1>3. /\ read' \in Seq(Rows) /\ Len(read') = Len(read) + 1 /\ read'[Len(read) + 1] = row
      /\ \A i \in 1 .. Len(read) : read'[i] = read[i]
      /\ DOMAIN read' = 1 .. Len(read) + 1 /\ DOMAIN read = 1 .. Len(read) /\ Len(read) \in Nat
  BY <1>2
<1>4. /\ DOMAIN filling' = DOMAIN filling \cup {KeyOf(row)}
      /\ filling'[KeyOf(row)] = Param(row["user_id"])
      /\ \A k \in DOMAIN filling \ {KeyOf(row)} : filling'[k] = filling[k]
  BY ColumnsOfFields DEF QueryRowsTo
<1>5. MapOfRead'
  <2>1. DOMAIN filling' = {KeyOf(read'[i]) : i \in DOMAIN read'}
    BY <1>2, <1>3, <1>4 DEF MapOfRead
  <2>2. ASSUME NEW i \in DOMAIN read',
               \A j \in i + 1 .. Len(read') : KeyOf(read'[j]) # KeyOf(read'[i])
        PROVE  filling'[KeyOf(read'[i])] = Param(read'[i]["user_id"])
    <3>1. CASE i = Len(read) + 1
      BY <1>3, <1>4, <3>1
    <3>2. CASE i # Len(read) + 1
      <4>1. i \in 1 .. Len(read) /\ read'[i] = read[i] /\ Len(read) + 1 \in i + 1 .. Len(read')
        BY <1>3, <3>2
      <4>2. KeyOf(row) # KeyOf(read[i])
        BY <1>3, <2>2, <4>1
      <4>3. \A j \in i + 1 .. Len(read) : KeyOf(read[j]) # KeyOf(read[i])
        <5> SUFFICES ASSUME NEW j \in i + 1 .. Len(read) PROVE KeyOf(read[j]) # KeyOf(read[i])
          OBVIOUS
        <5>1. j \in i + 1 .. Len(read') /\ j \in 1 .. Len(read)
          BY <1>3, <4>1
        <5> QED BY <1>3, <2>2, <4>1, <5>1
      <4>4. filling[KeyOf(read[i])] = Param(read[i]["user_id"]) /\ KeyOf(read[i]) \in DOMAIN filling
        BY <1>2, <1>3, <4>1, <4>3 DEF MapOfRead
      <4> QED BY <1>4, <4>1, <4>2, <4>4
    <3> QED BY <3>1, <3>2
  <2>3. \A r : KeyOf(r)' = KeyOf(r)
    BY DEF KeyOf
  <2> QED BY <2>1, <2>2, <2>3 DEF MapOfRead
<1>6. RawTypeOK' /\ OpenInv'
  <2>1. cnt' = Len(read') /\ cnt' \in Nat
    BY <1>2, <1>3
  <2> QED BY <1>1, <1>2, <1>3, <1>5, <2>1 DEF RawInv, RawTypeOK, OpenInv, Lists
<1> QED BY <1>1, <1>6 DEF RawInv, ResultIsOwn

LEMMA ScanFailsKeeps == ASSUME RawInv, ScanFails PROVE RawInv'
<1>1. RawTypeOK'
  BY DEF RawInv, RawTypeOK, ScanFails
<1>2. dest \in {former, EmptyOf(container)}
  BY DEF RawInv, OpenInv, ScanFails, EmptyOf
<1>3. (phase = "returned" /\ err # "nil" => dest \in {former, EmptyOf(container)})'
  BY <1>2 DEF ScanFails, EmptyOf
<1> QED BY <1>1, <1>3 DEF ScanFails, RawInv, ResultIsOwn

LEMMA NextEndsKeeps == ASSUME RawInv, NextEnds PROVE RawInv'
<1>1. /\ phase = "open" /\ OpenInv /\ phase' = "returned"
      /\ UNCHANGED <<container, former, filling, read, cnt, calls>> /\ container \in Containers
  BY DEF RawInv, RawTypeOK, NextEnds
<1>2. RawTypeOK'
  BY <1>1 DEF RawInv, RawTypeOK
<1>3. CASE container = "row"
  BY <1>1, <1>2, <1>3 DEF NextEnds, OpenInv, RawInv, ResultIsOwn
<1>4. CASE container \in Lists
  <2>1. err' = "nil" /\ (cnt > 0 => dest' = filling) /\ ListOfRead
    BY <1>1, <1>4 DEF NextEnds, OpenInv, Lists, SetRows, SetValues
  <2>2. /\ filling \in Seq(Results) /\ DOMAIN read = 1 .. Len(read)
        /\ DOMAIN filling = 1 .. Len(read)
    BY <2>1 DEF ListOfRead, RawInv, RawTypeOK
  <2>3. filling = [i \in DOMAIN read |-> OfRow(container, read[i])]
    BY <2>1, <2>2 DEF ListOfRead
  <2>4. /\ container = "rows" => filling = Mapped(LAMBDA row : SetFields(Fresh, row))
        /\ container = "lists" => filling = Mapped(LAMBDA row : SetFieldValue("int", row["id"]))
        /\ container = "values" => filling = Mapped(ParamsOf)
    BY <2>3, ColumnsOfFields DEF Mapped, OfRow
  <2>5. container \in {"rows", "lists", "values"}
    BY <1>4 DEF Lists
  <2> QED BY <1>1, <1>2, <2>1, <2>4, <2>5 DEF RawInv, ResultIsOwn, Mapped
<1>5. CASE container = "map"
  <2>1. err' = "nil" /\ dest' = filling /\ MapOfRead
    BY <1>1, <1>5 DEF NextEnds, OpenInv, SetMap
  <2>2. \A r : KeyOf(r)' = KeyOf(r) /\ Param(r)' = Param(r)
    BY DEF KeyOf, Param
  <2> QED BY <1>1, <1>2, <1>5, <2>1, <2>2 DEF RawInv, ResultIsOwn, MapOfRead
<1> QED BY <1>1, <1>3, <1>4, <1>5 DEF Containers, Lists

\* What a query returns is of its rows (gt_model.go QueryRow, QueryRows,
\* readValues, queryRowsTo), whatever the container held.
THEOREM RawResultIsOwn == RawSpec => []ResultIsOwn
<1>1. ASSUME RawInv, [RawNext]_rawVars PROVE RawInv'
  <2>1. CASE NextRow
    <3>1. PICK row \in Rows : \/ QueryRow(row)
                              \/ /\ QueryRows(row) \/ LoopSetRefs(row) \/ ReadValues(row) \/ QueryRowsTo(row)
                                 /\ read' = Append(read, row) /\ cnt' = cnt + 1
      BY <2>1 DEF NextRow
    <3>2. phase = "open"
      BY <2>1 DEF NextRow
    <3>3. QueryRows(row) \/ LoopSetRefs(row) \/ ReadValues(row) => container \in Lists
      BY DEF QueryRows, LoopSetRefs, ReadValues, ReadingRows, Lists
    <3> QED BY <1>1, <3>1, <3>2, <3>3, RowKeeps, ListKeeps, MapKeeps
  <2>2. CASE UNCHANGED rawVars
    <3>1. RawTypeOK' /\ ResultIsOwn'
      BY <1>1, <2>2 DEF rawVars, RawInv, RawTypeOK, ResultIsOwn, Mapped
    <3>2. MapOfRead' <=> MapOfRead
      BY <2>2 DEF rawVars, MapOfRead
    <3>3. ListOfRead' <=> ListOfRead
      BY <2>2 DEF rawVars, ListOfRead, Results, OfRow
    <3>4. OpenInv' <=> OpenInv
      BY <2>2, <3>2, <3>3 DEF rawVars, OpenInv
    <3> QED BY <1>1, <2>2, <3>1, <3>4 DEF rawVars, RawInv
  <2> QED BY <1>1, <2>1, <2>2, QueryKeeps, ScanFailsKeeps, NextEndsKeeps DEF RawNext
<1>2. RawInv => ResultIsOwn
  BY DEF RawInv
<1> QED BY <1>1, <1>2, RawStarts, PTL DEF RawSpec

-----------------------------------------------------------------------------
(* The arguments of a query.                                               *)

\* What Usable allows: plain values, and slices of them.
Plains == {Scalar(1), Scalar(2), Scalar(3), NilArg, Ptr(<<Scalar(3)>>)}
Leafs  == {Scalar(1), Scalar(2), Scalar(3), NilArg}
Worked == Plains \cup {Slice(s) : s \in Seq(Plains \ {NilArg})}

AllUsable == \A i \in 1 .. Len(args) : Usable(args[i])

\* The arguments a list of values makes in the end.
LeavesOf(list) == FlattenSeq([i \in 1 .. Len(list) |-> Leaves(list[i])])

\* What is flattened and what is still to be looked at make all arguments.
ArgsInv ==
    /\ args \in Seq(ArgValues) /\ formatted \in BOOLEAN
    /\ AllUsable =>
        /\ todo \in Seq(Worked) /\ params \in Seq(Leafs)
        /\ outcome \in {"flattening", "sent"} /\ (outcome = "sent" => todo = << >>)
        /\ Cat(params, LeavesOf(todo)) = LeavesOf(args)

LEMMA PlainFacts ==
  ASSUME NEW v \in Plains
  PROVE  /\ Plain(v) /\ ~Sliced(v) /\ v.kind \in {"scalar", "nil", "ptr"} /\ Leaf(v) \in Leafs
         /\ v.kind = "ptr" => v.of = <<Scalar(3)>> /\ Leaf(v) = Scalar(3)
         /\ v.kind # "ptr" => Leaf(v) = v
         /\ Leaves(v) = << Leaf(v) >>
<1>1. CASE v \in Leafs
  <2>1. v.kind \in {"scalar", "nil"}
    BY <1>1 DEF Leafs, Scalar, NilArg
  <2> QED BY <1>1, <2>1 DEF Plain, Sliced, Leaf, Leaves
<1>2. CASE v = Ptr(<<Scalar(3)>>)
  <2>1. v.kind = "ptr" /\ v.of = <<Scalar(3)>>
    BY <1>2 DEF Ptr
  <2>2. v.of[1] = Scalar(3) /\ Scalar(3) \in Leafs
    BY <2>1 DEF Leafs
  <2> QED BY <2>1, <2>2 DEF Plain, Sliced, Leaf, Leaves
<1> QED BY <1>1, <1>2 DEF Plains, Leafs

LEMMA ElementFacts ==
  ASSUME NEW v \in Elements, Plain(v)
  PROVE  v \in Plains
<1>1. /\ Bytes(Two).kind = "bytes" /\ Ptr(<< >>).kind = "ptr" /\ Ptr(<< >>).of = << >>
      /\ << >> # <<Scalar(3)>>
  BY DEF Bytes, Ptr
<1>2. v # Bytes(Two) /\ v # Ptr(<< >>)
  BY <1>1 DEF Plain
<1> QED BY <1>2 DEF Elements, Plains

LEMMA UsableFacts ==
  ASSUME NEW v \in ArgValues, Usable(v)
  PROVE  /\ Sliced(v) => v.of \in Seq(Plains) /\ Len(v.of) \in Nat
         /\ ~Sliced(v) => v \in Plains
         /\ ~formatted => v \in Worked
<1>1. CASE v \in {Slice(s) : s \in UNION {[1 .. n -> Elements] : n \in 0 .. 2}}
  <2> DEFINE lists == UNION {[1 .. n -> Elements] : n \in 0 .. 2}
  <2>0. ASSUME NEW l \in lists PROVE l \in Seq(Elements)
    <3>1. PICK T \in {[1 .. n -> Elements] : n \in 0 .. 2} : l \in T
      OBVIOUS
    <3>2. PICK n \in 0 .. 2 : T = [1 .. n -> Elements]
      BY <3>1
    <3> QED BY <3>1, <3>2
  <2> HIDE DEF lists
  <2>1. PICK s \in lists : v = Slice(s)
    BY <1>1 DEF lists
  <2>2. v.kind = "slice" /\ v.of = s /\ s \in Seq(Elements) /\ Sliced(v) /\ ~Plain(v)
    BY <2>0, <2>1 DEF Slice, Sliced, Plain
  <2>3. \A i \in 1 .. Len(s) : s[i] \in Plains /\ (s[i] # NilArg \/ formatted)
    BY <2>2, ElementFacts DEF Usable
  <2>4. s \in Seq(Plains) /\ (~formatted => s \in Seq(Plains \ {NilArg}))
    BY <2>2, <2>3
  <2> QED BY <2>1, <2>2, <2>4 DEF Worked
<1>2. CASE v \in {Bytes(Two), Bytes(<< >>)}
  <2>1. v.kind = "bytes" /\ v.of \in {Two, << >>} /\ Sliced(v) /\ ~Plain(v)
    BY <1>2 DEF Bytes, Sliced, Plain
  <2>2. Two \in Seq(Plains)
    BY DEF Two, Plains
  <2>3. formatted
    BY <2>1 DEF Usable
  <2>4. << >> \in Seq(Plains)
    OBVIOUS
  <2>5. v.of \in Seq(Plains)
    BY <2>1, <2>2, <2>4
  <2> QED BY <2>1, <2>3, <2>5
<1>3. CASE v \in {Struct, Ptr(<<Bytes(Two)>>), Ptr(<<Slice(Two)>>)}
  <2>1. /\ <<Bytes(Two)>>[1] # Scalar(3) /\ <<Slice(Two)>>[1] # Scalar(3)
    BY DEF Bytes, Slice, Scalar
  <2>2. <<Bytes(Two)>> # <<Scalar(3)>> /\ <<Slice(Two)>> # <<Scalar(3)>>
    BY <2>1
  <2>3. v.kind \in {"struct", "ptr"} /\ (v.kind = "ptr" => v.of \in {<<Bytes(Two)>>, <<Slice(Two)>>})
    BY <1>3 DEF Struct, Ptr
  <2> QED BY <2>2, <2>3 DEF Usable, Plain
<1>4. CASE v \in Elements /\ v # Bytes(Two)
  <2>1. v.kind \notin {"slice", "bytes"}
    BY <1>4 DEF Elements, Scalar, NilArg, Ptr
  <2>2. Plain(v)
    BY <2>1 DEF Usable
  <2> QED BY <1>4, <2>1, <2>2, ElementFacts DEF Sliced, Worked
<1> QED BY <1>1, <1>2, <1>3, <1>4 DEF ArgValues

LEMMA WorkedFacts ==
  ASSUME NEW v \in Worked
  PROVE  /\ v \in Plains \/ (v.kind = "slice" /\ v.of \in Seq(Plains \ {NilArg}))
         /\ Leaves(v) \in Seq(Leafs)
<1>1. CASE v \in Plains
  <2>1. Leaves(v) = << Leaf(v) >> /\ Leaf(v) \in Leafs
    BY <1>1, PlainFacts
  <2> QED BY <1>1, <2>1
<1>2. CASE v \notin Plains
  <2>1. PICK s \in Seq(Plains \ {NilArg}) : v = Slice(s)
    BY <1>2 DEF Worked
  <2>2. v.kind = "slice" /\ v.of = s /\ Sliced(v)
    BY <2>1 DEF Slice, Sliced
  <2>3. \A i \in 1 .. Len(s) : Leaf(s[i]) \in Leafs
    BY PlainFacts
  <2>4. Leaves(v) = [i \in 1 .. Len(s) |-> Leaf(s[i])] /\ Len(s) \in Nat
    BY <2>2 DEF Leaves
  <2> QED BY <2>2, <2>3, <2>4
<1> QED BY <1>1, <1>2

LEMMA LeavesTyped ==
  ASSUME NEW list \in Seq(Worked)
  PROVE  /\ [i \in 1 .. Len(list) |-> Leaves(list[i])] \in Seq(Seq(Leafs))
         /\ LeavesOf(list) \in Seq(Leafs)
<1> DEFINE L == [i \in 1 .. Len(list) |-> Leaves(list[i])]
<1>1. L \in Seq(Seq(Leafs))
  <2>1. Len(list) \in Nat /\ \A i \in 1 .. Len(list) : Leaves(list[i]) \in Seq(Leafs)
    BY WorkedFacts
  <2> QED BY <2>1
<1>2. FlattenSeq(L) \in Seq(Leafs)
  <2>1. Len(L) \in Nat
    BY <1>1
  <2> HIDE DEF L
  <2>2. Len(L) \in 0 .. Len(L)
    BY <2>1
  <2> QED BY <1>1, <2>2, FlattenSteps
<1> QED BY <1>1, <1>2 DEF LeavesOf

LEMMA LeavesOfConcat ==
  ASSUME NEW a \in Seq(Worked), NEW b \in Seq(Worked)
  PROVE  LeavesOf(Cat(a, b)) = Cat(LeavesOf(a), LeavesOf(b))
<1> DEFINE L(list) == [i \in 1 .. Len(list) |-> Leaves(list[i])]
<1>1. L(a) \in Seq(Seq(Leafs)) /\ L(b) \in Seq(Seq(Leafs))
  BY LeavesTyped
<1>2. L(Cat(a, b)) = Cat(L(a), L(b))
  <2>1. /\ Len(a) \in Nat /\ Len(b) \in Nat /\ Len(Cat(a, b)) = Len(a) + Len(b)
        /\ \A i \in 1 .. Len(a) : Cat(a, b)[i] = a[i]
        /\ \A i \in 1 .. Len(b) : Cat(a, b)[Len(a) + i] = b[i]
    BY DEF Cat
  <2>2. /\ Len(L(a)) = Len(a) /\ Len(L(b)) = Len(b) /\ Len(L(Cat(a, b))) = Len(Cat(a, b))
        /\ L(a) \in Seq(Seq(Leafs)) /\ L(b) \in Seq(Seq(Leafs))
    BY <1>1, <2>1
  <2>3. ASSUME NEW i \in 1 .. Len(a) + Len(b) PROVE Cat(L(a), L(b))[i] = Leaves(Cat(a, b)[i])
    <3>1. CASE i \in 1 .. Len(a)
      BY <2>1, <2>2, <3>1 DEF Cat
    <3>2. CASE i \notin 1 .. Len(a)
      <4>1. PICK j \in 1 .. Len(b) : i = Len(a) + j
        <5>1. i - Len(a) \in 1 .. Len(b) /\ i = Len(a) + (i - Len(a))
          BY <2>1, <3>2
        <5> QED BY <5>1
      <4>2. Cat(L(a), L(b))[Len(L(a)) + j] = L(b)[j]
        <5>1. j \in 1 .. Len(L(b))
          BY <2>2
        <5> DEFINE x == L(a)
                   y == L(b)
        <5>2. x \in Seq(Seq(Leafs)) /\ y \in Seq(Seq(Leafs)) /\ j \in 1 .. Len(y)
          BY <2>2, <5>1
        <5> HIDE DEF x, y, L
        <5>3. Cat(x, y)[Len(x) + j] = y[j]
          BY <5>2, CatIs
        <5> QED BY <5>3 DEF x, y
      <4> QED BY <2>1, <2>2, <4>1, <4>2
    <3> QED BY <3>1, <3>2
  <2>4. Cat(L(a), L(b)) \in Seq(Seq(Leafs)) /\ Len(Cat(L(a), L(b))) = Len(a) + Len(b)
    <3> DEFINE x == L(a)
               y == L(b)
    <3>1. x \in Seq(Seq(Leafs)) /\ y \in Seq(Seq(Leafs)) /\ Len(x) = Len(a) /\ Len(y) = Len(b)
      BY <2>2
    <3> HIDE DEF x, y, L
    <3>2. Cat(x, y) \in Seq(Seq(Leafs)) /\ Len(Cat(x, y)) = Len(a) + Len(b)
      <4>1. Cat(x, y) \in Seq(Seq(Leafs)) /\ Len(Cat(x, y)) = Len(x) + Len(y)
        BY <3>1, CatIs
      <4> QED BY <3>1, <4>1
    <3> QED BY <3>2 DEF x, y
  <2>5. Cat(L(a), L(b)) = [i \in 1 .. Len(a) + Len(b) |-> Leaves(Cat(a, b)[i])]
    <3> HIDE DEF L
    <3> QED BY <2>3, <2>4
  <2> QED BY <2>1, <2>5
<1> HIDE DEF L
<1>3. FlattenSeq(Cat(L(a), L(b))) = Cat(FlattenSeq(L(a)), FlattenSeq(L(b)))
  BY <1>1, FlattenConcat
<1>4. \A list : LeavesOf(list) = FlattenSeq(L(list))
  BY DEF LeavesOf, L
<1> QED BY <1>2, <1>3, <1>4

\* Plain values give one argument each.
LEMMA LeavesOfPlain ==
  ASSUME NEW list \in Seq(Plains)
  PROVE  /\ LeavesOf(list) \in Seq(Leafs) /\ Len(LeavesOf(list)) = Len(list)
         /\ LeavesOf(list) = [i \in 1 .. Len(list) |-> Leaf(list[i])]
<1> DEFINE e == [i \in 1 .. Len(list) |-> Leaf(list[i])]
<1>1. Len(list) \in Nat /\ \A i \in 1 .. Len(list) : Leaf(list[i]) \in Leafs
  BY PlainFacts
<1>2. e \in Seq(Leafs) /\ Len(e) = Len(list)
  BY <1>1
<1>3. [i \in 1 .. Len(list) |-> Leaves(list[i])] = [i \in 1 .. Len(e) |-> << e[i] >>]
  <2>1. \A i \in 1 .. Len(list) : Leaves(list[i]) = << Leaf(list[i]) >>
    BY PlainFacts
  <2> QED BY <1>2, <2>1
<1>4. FlattenSeq([i \in 1 .. Len(e) |-> << e[i] >>]) = e
  <2> HIDE DEF e
  <2> QED BY <1>2, FlattenSingles
<1> HIDE DEF e
<1>5. LeavesOf(list) = e
  BY <1>3, <1>4 DEF LeavesOf
<1> QED BY <1>2, <1>5 DEF e

\* A slice without a nil is what the loop over it makes of it.
LEMMA NotNilOf ==
  ASSUME NEW S, NEW list \in Seq(S \ {NilArg})
  PROVE  NotNil(list) = list
<1> DEFINE IsKept(f) ==
             f = [n \in 0 .. Len(list) |->
                    IF n = 0 THEN << >>
                    ELSE IF list[n] = NilArg THEN f[n - 1] ELSE Append(f[n - 1], list[n])]
<1>0. Len(list) \in Nat /\ \A i \in 1 .. Len(list) : list[i] \in S /\ list[i] # NilArg
  OBVIOUS
<1>1. \E f : IsKept(f)
  <2> DEFINE g == [n \in 0 .. Len(list) |-> [i \in 1 .. n |-> list[i]]]
  <2>1. ASSUME NEW n \in 0 .. Len(list)
        PROVE  g[n] = IF n = 0 THEN << >>
                      ELSE IF list[n] = NilArg THEN g[n - 1] ELSE Append(g[n - 1], list[n])
    <3>1. CASE n = 0
      BY <3>1
    <3>2. CASE n # 0
      <4>1. n \in 1 .. Len(list) /\ n - 1 \in 0 .. Len(list) /\ n - 1 \in Nat
        BY <1>0, <3>2
      <4>2. g[n] = [i \in 1 .. n |-> list[i]] /\ g[n - 1] = [i \in 1 .. n - 1 |-> list[i]]
        BY <4>1
      <4>3. [i \in 1 .. n |-> list[i]] = Append([i \in 1 .. n - 1 |-> list[i]], list[n])
        <5> DEFINE p == [i \in 1 .. n - 1 |-> list[i]]
        <5>1. p \in Seq(S) /\ Len(p) = n - 1 /\ \A i \in 1 .. n - 1 : p[i] = list[i]
          BY <1>0, <4>1
        <5> HIDE DEF p
        <5>2. /\ Append(p, list[n]) \in Seq(S) /\ Len(Append(p, list[n])) = n
              /\ Append(p, list[n])[n] = list[n]
              /\ \A i \in 1 .. n - 1 : Append(p, list[n])[i] = list[i]
          BY <1>0, <4>1, <5>1
        <5>3. \A i \in 1 .. n : i = n \/ i \in 1 .. n - 1
          BY <4>1
        <5>4. \A i \in 1 .. n : Append(p, list[n])[i] = list[i]
          BY <5>2, <5>3
        <5>5. Append(p, list[n]) = [i \in 1 .. n |-> list[i]]
          BY <5>2, <5>4
        <5> QED BY <5>5 DEF p
      <4> HIDE DEF g
      <4> QED BY <1>0, <3>2, <4>1, <4>2, <4>3
    <3> QED BY <3>1, <3>2
  <2>2. IsKept(g)
    <3> HIDE DEF g
    <3>1. g = [n \in 0 .. Len(list) |-> g[n]]
      BY DEF g
    <3> QED BY <2>1, <3>1
  <2> QED BY <2>2
<1>2. NotNil(list) = (CHOOSE f : IsKept(f))[Len(list)]
  BY DEF NotNil
<1> HIDE DEF IsKept
<1>3. PICK k : IsKept(k) /\ NotNil(list) = k[Len(list)]
  BY <1>1, <1>2
<1>4. /\ k[0] = << >>
      /\ \A n \in 1 .. Len(list) : k[n] = Append(k[n - 1], list[n])
  <2>1. \A n \in 0 .. Len(list) :
          k[n] = IF n = 0 THEN << >>
                 ELSE IF list[n] = NilArg THEN k[n - 1] ELSE Append(k[n - 1], list[n])
    BY <1>3 DEF IsKept
  <2>2. 0 \in 0 .. Len(list) /\ \A n \in 1 .. Len(list) : n \in 0 .. Len(list) /\ n # 0
    BY <1>0
  <2> QED BY <1>0, <2>1, <2>2
<1> DEFINE T == {n \in 0 .. Len(list) : k[n] \in Seq(S) /\ Len(k[n]) = n
                                          /\ \A i \in 1 .. n : k[n][i] = list[i]}
<1>5. 0 \in T
  <2>1. k[0] = << >>
    BY <1>4
  <2>2. k[0] \in Seq(S) /\ Len(k[0]) = 0
    BY <2>1
  <2>3. 0 \in 0 .. Len(list) /\ \A i \in 1 .. 0 : k[0][i] = list[i]
    BY <1>0
  <2> QED BY <2>2, <2>3
<1>6. ASSUME NEW n \in 1 .. Len(list), n - 1 \in T PROVE n \in T
  <2>1. /\ k[n - 1] \in Seq(S) /\ Len(k[n - 1]) = n - 1
        /\ \A i \in 1 .. n - 1 : k[n - 1][i] = list[i]
    BY <1>6
  <2>2. k[n] \in Seq(S) /\ Len(k[n]) = n /\ k[n][n] = list[n]
        /\ \A i \in 1 .. n - 1 : k[n][i] = k[n - 1][i]
    <3> DEFINE p == k[n - 1]
               x == list[n]
    <3>1. k[n] = Append(p, x) /\ p \in Seq(S) /\ Len(p) = n - 1 /\ x \in S
      BY <1>0, <1>4, <2>1
    <3> HIDE DEF p, x
    <3>2. Append(p, x) \in Seq(S) /\ Len(Append(p, x)) = Len(p) + 1
          /\ Append(p, x)[Len(p) + 1] = x
          /\ \A i \in 1 .. Len(p) : Append(p, x)[i] = p[i]
      BY <3>1
    <3>3. Len(p) + 1 = n
      BY <3>1
    <3> QED BY <3>1, <3>2, <3>3 DEF p, x
  <2>3. \A i \in 1 .. n : i = n \/ i \in 1 .. n - 1
    BY <1>0
  <2>4. \A i \in 1 .. n : k[n][i] = list[i]
    BY <2>1, <2>2, <2>3
  <2>5. n \in 0 .. Len(list)
    BY <1>0
  <2> QED BY <2>2, <2>4, <2>5
<1> HIDE DEF T
<1>7. 0 .. Len(list) \subseteq T
  BY <1>0, <1>5, <1>6, UpTo
<1>8. /\ k[Len(list)] \in Seq(S) /\ Len(k[Len(list)]) = Len(list)
      /\ \A i \in 1 .. Len(list) : k[Len(list)][i] = list[i]
  <2>1. Len(list) \in T
    BY <1>0, <1>7
  <2> QED BY <2>1 DEF T
<1>9. list \in Seq(S)
  OBVIOUS
<1> QED BY <1>3, <1>8, <1>9, SeqEqual

LEMMA NoLeaves == LeavesOf(<< >>) = << >>
BY DEF LeavesOf, FlattenSeq

\* One value's leaves.
LEMMA LeavesOfOne ==
  ASSUME NEW v \in Worked
  PROVE  LeavesOf(<< v >>) = Leaves(v)
<1> DEFINE L == [i \in 1 .. Len(<< v >>) |-> Leaves(<< v >>[i])]
<1>1. L \in Seq(Seq(Leafs)) /\ Len(L) = 1 /\ L[1] = Leaves(v) /\ Leaves(v) \in Seq(Leafs)
  BY WorkedFacts
<1> HIDE DEF L
<1>2. PICK f : /\ f[0] = << >> /\ f[Len(L)] = FlattenSeq(L)
               /\ \A i \in 1 .. Len(L) : f[i] = Cat(f[i - 1], L[i])
               /\ \A i \in 0 .. Len(L) : f[i] \in Seq(Leafs)
  BY <1>1, FlattenSteps
<1>3. FlattenSeq(L) = Cat(<< >>, Leaves(v))
  BY <1>1, <1>2
<1>4. Cat(<< >>, Leaves(v)) = Leaves(v)
  BY <1>1 DEF Cat
<1> QED BY <1>3, <1>4 DEF L, LeavesOf

LEMMA HeadAndTail ==
  ASSUME NEW S, NEW list \in Seq(S), list # << >>
  PROVE  Head(list) \in S /\ Tail(list) \in Seq(S) /\ list = Cat(<< Head(list) >>, Tail(list))
<1>1. Head(list) \in S /\ Tail(list) \in Seq(S)
  OBVIOUS
<1>2. list = << Head(list) >> \o Tail(list)
  OBVIOUS
<1> QED BY <1>1, <1>2 DEF Cat

\* The front of the work is taken apart, or has its argument appended.
LEMMA WorkGoesOn ==
  ASSUME ArgsInv, AllUsable, todo # << >>, NEW front \in Seq(Worked), NEW done \in Seq(Leafs),
         todo' = Cat(front, Tail(todo)), params' = Cat(params, done),
         Leaves(Head(todo)) = Cat(done, LeavesOf(front)),
         UNCHANGED <<args, formatted, outcome>>
  PROVE  ArgsInv'
<1>1. /\ Head(todo) \in Worked /\ Tail(todo) \in Seq(Worked) /\ params \in Seq(Leafs)
      /\ todo = Cat(<< Head(todo) >>, Tail(todo)) /\ << Head(todo) >> \in Seq(Worked)
      /\ outcome = "flattening" /\ Cat(params, LeavesOf(todo)) = LeavesOf(args)
  BY HeadAndTail DEF ArgsInv
<1> DEFINE rest == LeavesOf(Tail(todo))
           more == LeavesOf(front)
<1>2. rest \in Seq(Leafs) /\ more \in Seq(Leafs)
  BY <1>1, LeavesTyped
<1>3. LeavesOf(todo) = Cat(Cat(done, more), rest)
  <2>1. LeavesOf(Cat(<< Head(todo) >>, Tail(todo))) = Cat(LeavesOf(<< Head(todo) >>), rest)
    BY <1>1, LeavesOfConcat
  <2>2. LeavesOf(<< Head(todo) >>) = Leaves(Head(todo))
    BY <1>1, LeavesOfOne
  <2> QED BY <1>1, <2>1, <2>2
<1>4. LeavesOf(todo') = Cat(more, rest)
  BY <1>1, LeavesOfConcat
<1> HIDE DEF rest, more
<1>5. Cat(params', LeavesOf(todo')) = LeavesOf(args)
  <2>1. Cat(Cat(done, more), rest) = Cat(done, Cat(more, rest))
    BY <1>2, CatAssociates
  <2>2. Cat(more, rest) \in Seq(Leafs)
    BY <1>2, CatIs
  <2>3. Cat(Cat(params, done), Cat(more, rest)) = Cat(params, Cat(done, Cat(more, rest)))
    BY <1>1, <2>2, CatAssociates
  <2> QED BY <1>1, <1>3, <1>4, <2>1, <2>3
<1>6. todo' \in Seq(Worked) /\ params' \in Seq(Leafs)
  BY <1>1, CatIs
<1>7. \A list : LeavesOf(list)' = LeavesOf(list')
  OBVIOUS
<1> QED BY <1>1, <1>5, <1>6, <1>7 DEF ArgsInv, AllUsable, Usable

LEMMA ArgsStart == ArgsInit => ArgsInv
<1> SUFFICES ASSUME ArgsInit PROVE ArgsInv
  OBVIOUS
<1> DEFINE lists == UNION {[1 .. n -> ArgValues] : n \in 0 .. MaxArgs}
<1>1. args \in Seq(ArgValues)
  <2>1. ASSUME NEW l \in lists PROVE l \in Seq(ArgValues)
    <3>1. PICK T \in {[1 .. n -> ArgValues] : n \in 0 .. MaxArgs} : l \in T
      OBVIOUS
    <3>2. PICK n \in 0 .. MaxArgs : T = [1 .. n -> ArgValues]
      BY <3>1
    <3>3. n \in Nat
      BY ArgsAssumption
    <3> QED BY <3>1, <3>2, <3>3
  <2>2. args \in lists
    BY DEF ArgsInit
  <2> HIDE DEF lists
  <2> QED BY <2>1, <2>2
<1>2. /\ formatted \in BOOLEAN /\ params = << >> /\ outcome = "flattening"
      /\ todo = IF formatted THEN FormatIn(args) ELSE args
  BY DEF ArgsInit
<1>3. ASSUME AllUsable
      PROVE  todo \in Seq(Worked) /\ LeavesOf(todo) \in Seq(Leafs) /\ LeavesOf(todo) = LeavesOf(args)
  <2>0. Len(args) \in Nat /\ \A i \in 1 .. Len(args) : args[i] \in ArgValues /\ Usable(args[i])
    BY <1>1, <1>3 DEF AllUsable
  <2>1. CASE ~formatted
    <3>1. \A i \in 1 .. Len(args) : args[i] \in Worked
      BY <2>0, <2>1, UsableFacts
    <3>2. args \in Seq(Worked)
      BY <1>1, <3>1
    <3> QED BY <1>2, <2>1, <3>2, LeavesTyped
  <2>2. CASE formatted
    <3> DEFINE X == [i \in 1 .. Len(args) |-> IF Sliced(args[i]) THEN args[i].of ELSE << args[i] >>]
               Y == [i \in 1 .. Len(args) |-> Leaves(args[i])]
               m == [v \in Plains |-> Leaf(v)]
    <3>1. m \in [Plains -> Leafs]
      BY PlainFacts
    <3>2. ASSUME NEW i \in 1 .. Len(args)
          PROVE  /\ X[i] \in Seq(Plains) /\ Y[i] \in Seq(Leafs) /\ Len(Y[i]) = Len(X[i])
                 /\ \A j \in 1 .. Len(X[i]) : Y[i][j] = m[X[i][j]]
      <4>1. CASE Sliced(args[i])
        <5> DEFINE s == args[i].of
        <5>1. s \in Seq(Plains) /\ Len(s) \in Nat /\ X[i] = s
          BY <2>0, <4>1, UsableFacts
        <5>2. Y[i] = [j \in 1 .. Len(s) |-> Leaf(s[j])]
          BY <4>1 DEF Leaves
        <5> HIDE DEF s, X, Y
        <5>3. \A j \in 1 .. Len(s) : s[j] \in Plains /\ Leaf(s[j]) \in Leafs /\ m[s[j]] = Leaf(s[j])
          BY <5>1, PlainFacts
        <5> HIDE DEF m
        <5>4. Y[i] \in Seq(Leafs) /\ Len(Y[i]) = Len(s)
          BY <5>1, <5>2, <5>3
        <5>5. \A j \in 1 .. Len(s) : Y[i][j] = m[s[j]]
          BY <5>2, <5>3
        <5> QED BY <5>1, <5>4, <5>5
      <4>2. CASE ~Sliced(args[i])
        <5> DEFINE v == args[i]
        <5>1. v \in Plains /\ X[i] = << v >>
          BY <2>0, <4>2, UsableFacts
        <5>2. Y[i] = << Leaf(v) >> /\ Leaf(v) \in Leafs /\ m[v] = Leaf(v)
          BY <5>1, PlainFacts
        <5> HIDE DEF v, X, Y, m
        <5> QED BY <5>1, <5>2
      <4> QED BY <4>1, <4>2
    <3>3. X \in Seq(Seq(Plains)) /\ Y \in Seq(Seq(Leafs)) /\ Len(X) = Len(args) /\ Len(Y) = Len(args)
      <4>1. /\ X = [i \in 1 .. Len(args) |-> X[i]] /\ Y = [i \in 1 .. Len(args) |-> Y[i]]
        OBVIOUS
      <4> HIDE DEF X, Y
      <4> QED BY <2>0, <3>2, <4>1
    <3>4. todo = FlattenSeq(X) /\ LeavesOf(args) = FlattenSeq(Y)
      BY <1>2, <2>2 DEF FormatIn, LeavesOf
    <3> HIDE DEF X, Y, m
    <3>5. /\ FlattenSeq(X) \in Seq(Plains) /\ FlattenSeq(Y) \in Seq(Leafs)
          /\ Len(FlattenSeq(Y)) = Len(FlattenSeq(X))
          /\ \A j \in 1 .. Len(FlattenSeq(X)) : FlattenSeq(Y)[j] = m[FlattenSeq(X)[j]]
      <4>1. Mapping(m, X, Y)
        BY <3>2, <3>3 DEF Mapping
      <4> QED BY <3>1, <3>3, <4>1, FlattenMap
    <3>6. /\ todo \in Seq(Plains) /\ LeavesOf(args) \in Seq(Leafs) /\ Len(LeavesOf(args)) = Len(todo)
          /\ \A j \in 1 .. Len(todo) : LeavesOf(args)[j] = Leaf(todo[j])
      <4>1. \A v \in Plains : m[v] = Leaf(v)
        BY DEF m
      <4> QED BY <3>4, <3>5, <4>1
    <3>7. LeavesOf(args) = [j \in 1 .. Len(todo) |-> Leaf(todo[j])]
      BY <3>6
    <3>8. todo \in Seq(Worked)
      BY <3>6 DEF Worked
    <3> QED BY <3>6, <3>7, <3>8, LeavesOfPlain
  <2> QED BY <2>1, <2>2
<1>4. ASSUME AllUsable PROVE Cat(params, LeavesOf(todo)) = LeavesOf(args) /\ params \in Seq(Leafs)
  BY <1>2, <1>3, <1>4 DEF Cat
<1> QED BY <1>1, <1>2, <1>3, <1>4 DEF ArgsInv

\* One value of the work, when all the arguments are usable.
LEMMA FrontKeeps ==
  ASSUME ArgsInv, AllUsable, Keep \/ Follow \/ SkipBytes \/ Flatten \/ UnknownStruct
  PROVE  ArgsInv'
<1> DEFINE v == Head(todo)
<1>1. todo # << >>
  BY DEF Keep, Follow, SkipBytes, Flatten, UnknownStruct, Facing
<1>2. v \in Worked /\ Tail(todo) \in Seq(Worked) /\ params \in Seq(Leafs)
  BY <1>1, HeadAndTail DEF ArgsInv
<1>3. \/ v \in Plains /\ v.kind \in {"scalar", "nil", "ptr"}
      \/ v.kind = "slice" /\ v.of \in Seq(Plains \ {NilArg})
  BY <1>2, WorkedFacts, PlainFacts
<1>4. ~SkipBytes /\ ~UnknownStruct
  BY <1>3 DEF SkipBytes, UnknownStruct, Facing
<1>5. CASE Keep
  <2>1. v \in Plains /\ Leaf(v) = v /\ v \in Leafs /\ Leaves(v) = << v >>
    BY <1>3, <1>5, PlainFacts DEF Keep, Facing
  <2>2. /\ todo' = Cat(<< >>, Tail(todo)) /\ params' = Cat(params, << v >>)
        /\ UNCHANGED <<args, formatted, outcome>>
    BY <1>2, <1>5, <2>1 DEF Keep, Cat
  <2>3. Leaves(v) = Cat(<< v >>, LeavesOf(<< >>)) /\ << v >> \in Seq(Leafs) /\ << >> \in Seq(Worked)
    <3>1. << v >> \in Seq(Leafs)
      BY <2>1
    <3>2. Cat(<< v >>, << >>) = << v >>
      BY <3>1, CatEmpty
    <3> QED BY <2>1, <3>1, <3>2, NoLeaves
  <2> QED BY <1>1, <2>2, <2>3, WorkGoesOn
<1>6. CASE Follow
  <2>1. v.of = <<Scalar(3)>> /\ Leaves(v) = <<Scalar(3)>>
    BY <1>3, <1>6, PlainFacts DEF Follow, Facing
  <2>2. /\ todo' = Cat(<<Scalar(3)>>, Tail(todo)) /\ UNCHANGED <<args, formatted, outcome>>
        /\ params' = params
    <3>1. v.of # << >>
      BY <2>1
    <3>2. todo' = v.of \o Tail(todo)
      BY <1>6, <3>1 DEF Follow
    <3> QED BY <1>6, <2>1, <3>1, <3>2 DEF Follow, Cat
  <2>3. Scalar(3) \in Plains /\ Scalar(3) \in Worked /\ <<Scalar(3)>> \in Seq(Worked)
    BY DEF Plains, Worked
  <2>4. Scalar(3).kind = "scalar"
    BY DEF Scalar
  <2>5. LeavesOf(<<Scalar(3)>>) = <<Scalar(3)>>
    BY <2>3, <2>4, LeavesOfOne, PlainFacts
  <2>6. params' = Cat(params, << >>) /\ Leaves(v) = Cat(<< >>, LeavesOf(<<Scalar(3)>>))
        /\ << >> \in Seq(Leafs)
    BY <1>2, <2>1, <2>2, <2>5 DEF Cat
  <2> QED BY <1>1, <2>2, <2>3, <2>6, WorkGoesOn
<1>7. CASE Flatten
  <2> DEFINE s == v.of
  <2>1. v.kind = "slice" /\ s \in Seq(Plains \ {NilArg}) /\ Sliced(v)
    <3>1. v.kind = "slice"
      BY <1>7 DEF Flatten, Facing
    <3> QED BY <1>3, <3>1 DEF Sliced
  <2>2. NotNil(s) = s
    BY <2>1, NotNilOf
  <2>3. /\ todo' = Cat(s, Tail(todo)) /\ UNCHANGED <<args, formatted, outcome>> /\ params' = params
    BY <1>7, <2>2 DEF Flatten, Cat
  <2>4. s \in Seq(Plains) /\ s \in Seq(Worked)
    BY <2>1 DEF Worked
  <2>5. Leaves(v) = LeavesOf(s) /\ LeavesOf(s) \in Seq(Leafs)
    BY <2>1, <2>4, LeavesOfPlain DEF Leaves
  <2>6. params' = Cat(params, << >>) /\ Leaves(v) = Cat(<< >>, LeavesOf(s)) /\ << >> \in Seq(Leafs)
    BY <1>2, <2>3, <2>5 DEF Cat
  <2> HIDE DEF s
  <2> QED BY <1>1, <2>3, <2>4, <2>6, WorkGoesOn
<1> QED BY <1>4, <1>5, <1>6, <1>7

\* A usable argument has as many leaves as FormatMark has written marks for it.
LEMMA MarksOfOne ==
  ASSUME NEW v \in ArgValues, Usable(v)
  PROVE  Len(Leaves(v)) = FormatMark(v)
<1>1. CASE Sliced(v)
  BY <1>1, UsableFacts DEF Leaves, FormatMark
<1>2. CASE ~Sliced(v)
  BY <1>2 DEF Leaves, FormatMark
<1> QED BY <1>1, <1>2

LEMMA InvMatches == ArgsInv => MarksMatchArgs
<1> SUFFICES ASSUME ArgsInv, outcome # "flattening", AllUsable
             PROVE  /\ outcome = "sent"
                    /\ \A i \in 1 .. Len(args) : Len(Leaves(args[i])) = FormatMark(args[i])
                    /\ params = FlattenSeq([i \in 1 .. Len(args) |-> Leaves(args[i])])
  BY DEF MarksMatchArgs, AllUsable
<1>1. outcome = "sent" /\ todo = << >> /\ params \in Seq(Leafs)
  BY DEF ArgsInv
<1>2. params = LeavesOf(args)
  BY <1>1, NoLeaves, CatEmpty DEF ArgsInv
<1>3. \A i \in 1 .. Len(args) : args[i] \in ArgValues /\ Usable(args[i])
  BY DEF ArgsInv, AllUsable
<1> QED BY <1>1, <1>2, <1>3, MarksOfOne DEF LeavesOf

\* One argument for each mark, in their order (framework/model/db.go
\* getFlatParams, com_model.go FormatIn), for argument lists of any length.
THEOREM ArgsMarksMatch == ArgsSpec => []MarksMatchArgs
<1>1. ASSUME ArgsInv, [ArgsNext]_argsVars PROVE ArgsInv'
  <2>0. args' = args /\ formatted' = formatted
    BY <1>1 DEF ArgsNext, argsVars, Keep, Follow, SkipBytes, Flatten, UnknownStruct, Sends
  <2>1. CASE ~AllUsable
    BY <1>1, <2>0, <2>1 DEF ArgsInv, AllUsable, Usable
  <2>2. CASE AllUsable /\ Sends
    BY <1>1, <2>0, <2>2 DEF ArgsInv, Sends, AllUsable, Usable, LeavesOf
  <2>3. CASE UNCHANGED argsVars
    BY <1>1, <2>3 DEF ArgsInv, argsVars, AllUsable, Usable, LeavesOf
  <2> QED BY <1>1, <2>1, <2>2, <2>3, FrontKeeps DEF ArgsNext
<1> QED BY <1>1, ArgsStart, InvMatches, PTL DEF ArgsSpec
=============================================================================
