-------------------------------- MODULE Loops --------------------------------
(***************************************************************************)
(* Lemmas about loops: induction and recursion up to a number of turns,    *)
(* and the sequences a loop puts together.                                 *)
(***************************************************************************)
EXTENDS Integers, Sequences, SequencesExt, SequenceTheorems, WellFoundedInduction, TLAPS

\* A set of naturals has a least element: the order of the naturals is
\* well-founded.
LEMMA Least ==
  ASSUME NEW T \in SUBSET Nat, T # {}
  PROVE  \E m \in T : \A k \in T : m <= k
<1> DEFINE R == OpToRel(<, Nat)
<1>1. IsWellFoundedOn(R, Nat)
  BY NatLessThanWellFounded
<1>2. \A x, y \in Nat : <<x, y>> \in R <=> x < y
  BY DEF OpToRel
<1> HIDE DEF R
<1>3. \E x \in T : \A y \in T : <<y, x>> \notin R
  BY <1>1, WFMin
<1>4. PICK m \in T : \A k \in T : <<k, m>> \notin R
  BY <1>3
<1>5. \A k \in T : ~(k < m)
  BY <1>2, <1>4
<1> QED BY <1>5

\* Induction up to n: a set of naturals instead of a predicate.
LEMMA UpTo ==
  ASSUME NEW n \in Nat, NEW T, 0 \in T, \A i \in 1 .. n : i - 1 \in T => i \in T
  PROVE  0 .. n \subseteq T
<1> SUFFICES ASSUME (0 .. n) \ T # {} PROVE FALSE
  OBVIOUS
<1>0. (0 .. n) \ T \in SUBSET Nat
  OBVIOUS
<1>1. PICK m \in (0 .. n) \ T : \A k \in (0 .. n) \ T : m <= k
  BY <1>0, Least
<1>2. m \in 1 .. n /\ m - 1 \in 0 .. n /\ ~(m <= m - 1)
  BY <1>1
<1> QED BY <1>1, <1>2

\* n steps over D from a first value: G[i] makes the i-th value of the one before.
Steps(D, n, first, G) == n \in Nat /\ first \in D /\ G \in [1 .. n -> [D -> D]]

\* Recursion up to n: a function whose next value is G's of the last one.  A
\* definition f[i \in 0 .. n] == ... only means its equation when there is such
\* a function.
LEMMA Recursion ==
  ASSUME NEW D, NEW n, NEW first, NEW G, Steps(D, n, first, G)
  PROVE  \E f \in [0 .. n -> D] : f[0] = first /\ \A i \in 1 .. n : f[i] = G[i][f[i - 1]]
<1>0. n \in Nat /\ first \in D /\ G \in [1 .. n -> [D -> D]]
  BY DEF Steps
<1> DEFINE Made(f, m) == f[0] = first /\ \A i \in 1 .. m : f[i] = G[i][f[i - 1]]
           T == {m \in 0 .. n : \E f \in [0 .. m -> D] : Made(f, m)}
<1>1. 0 \in T
  <2>1. [i \in 0 .. 0 |-> first] \in [0 .. 0 -> D] /\ Made([i \in 0 .. 0 |-> first], 0)
    BY <1>0
  <2> HIDE DEF Made
  <2> QED BY <1>0, <2>1
<1>2. ASSUME NEW m \in 1 .. n, m - 1 \in T PROVE m \in T
  <2>1. PICK f \in [0 .. m - 1 -> D] : Made(f, m - 1)
    BY <1>2
  <2> DEFINE new == G[m][f[m - 1]]
             g == [i \in 0 .. m |-> IF i = m THEN new ELSE f[i]]
  <2>2. new \in D
    BY <1>0, m - 1 \in 0 .. m - 1, G[m] \in [D -> D]
  <2>3. g \in [0 .. m -> D] /\ g[m] = new /\ \A i \in 0 .. m - 1 : g[i] = f[i]
    <3> HIDE DEF new
    <3>1. \A i \in 0 .. m : i # m => i \in 0 .. m - 1 /\ f[i] \in D
      BY <1>0
    <3>2. \A i \in 0 .. m - 1 : i \in 0 .. m /\ i # m
      BY <1>0
    <3>3. m \in 0 .. m
      BY <1>0
    <3> QED BY <2>2, <3>1, <3>2, <3>3
  <2>4. ASSUME NEW i \in 1 .. m PROVE g[i] = G[i][g[i - 1]]
    <3>1. CASE i = m
      <4>1. m - 1 \in 0 .. m - 1
        BY <1>0
      <4> HIDE DEF g
      <4> QED BY <2>3, <3>1, <4>1
    <3>2. CASE i # m
      <4>1. i \in 1 .. m - 1 /\ i \in 0 .. m - 1 /\ i - 1 \in 0 .. m - 1
        BY <3>2
      <4> HIDE DEF g, new
      <4> QED BY <2>1, <2>3, <4>1
    <3> QED BY <3>1, <3>2
  <2>5. g[0] = first /\ m \in 0 .. n
    <3>1. 0 \in 0 .. m - 1
      BY <1>0
    <3> HIDE DEF g, new
    <3> QED BY <1>0, <2>1, <2>3, <3>1
  <2> HIDE DEF g, new
  <2>6. Made(g, m)
    BY <2>4, <2>5
  <2> HIDE DEF Made
  <2> QED BY <2>3, <2>5, <2>6
<1> HIDE DEF T
<1>3. 0 .. n \subseteq T
  BY <1>0, <1>1, <1>2, UpTo
<1>4. n \in T
  BY <1>0, <1>3
<1> QED BY <1>4 DEF T

-----------------------------------------------------------------------------
(* Sequences that a loop puts together.                                    *)

\* Concatenation, by name: a proof that only needs to know that two sequences
\* are joined in the same way does not look into it.
Cat(a, b) == a \o b

LEMMA CatIs ==
  ASSUME NEW S, NEW a \in Seq(S), NEW b \in Seq(S)
  PROVE  /\ Cat(a, b) \in Seq(S) /\ Len(Cat(a, b)) = Len(a) + Len(b)
         /\ \A i \in 1 .. Len(a) : Cat(a, b)[i] = a[i]
         /\ \A i \in 1 .. Len(b) : Cat(a, b)[Len(a) + i] = b[i]
BY DEF Cat

LEMMA CatEmpty == ASSUME NEW S, NEW a \in Seq(S) PROVE Cat(a, << >>) = a
BY DEF Cat

LEMMA CatAssociates ==
  ASSUME NEW S, NEW a \in Seq(S), NEW b \in Seq(S), NEW c \in Seq(S)
  PROVE  Cat(Cat(a, b), c) = Cat(a, Cat(b, c))
BY DEF Cat

\* FlattenSeq, one element at a time.
LEMMA FlattenSteps ==
  ASSUME NEW S, NEW s \in Seq(Seq(S))
  PROVE  \E f : /\ f[0] = << >> /\ f[Len(s)] = FlattenSeq(s)
                /\ \A i \in 1 .. Len(s) : f[i] = Cat(f[i - 1], s[i])
                /\ \A i \in 0 .. Len(s) : f[i] \in Seq(S)
<1> DEFINE IsFlatten(h) ==
             h = [i \in 1 .. Len(s) |-> IF i = 1 THEN s[i] ELSE h[i - 1] \o s[i]]
<1>0. Len(s) \in Nat /\ << >> \in Seq(S) /\ \A i \in 1 .. Len(s) : s[i] \in Seq(S)
  OBVIOUS
<1>1. PICK f \in [0 .. Len(s) -> Seq(S)] :
         f[0] = << >> /\ \A i \in 1 .. Len(s) : f[i] = Cat(f[i - 1], s[i])
  <2> DEFINE G == [i \in 1 .. Len(s) |-> [x \in Seq(S) |-> Cat(x, s[i])]]
  <2>1. \A i \in 1 .. Len(s), x \in Seq(S) : Cat(x, s[i]) \in Seq(S)
    BY <1>0, CatIs
  <2>2. G \in [1 .. Len(s) -> [Seq(S) -> Seq(S)]]
    BY <2>1
  <2>3. \A i \in 1 .. Len(s), x \in Seq(S) : G[i][x] = Cat(x, s[i])
    OBVIOUS
  <2> HIDE DEF G
  <2>4. \E f \in [0 .. Len(s) -> Seq(S)] :
           f[0] = << >> /\ \A i \in 1 .. Len(s) : f[i] = G[i][f[i - 1]]
    <3> DEFINE D == Seq(S)
               n == Len(s)
               first == << >>
    <3>1. n \in Nat /\ first \in D /\ G \in [1 .. n -> [D -> D]]
      BY <1>0, <2>2
    <3> HIDE DEF D, n, first
    <3>3. Steps(D, n, first, G)
      BY <3>1 DEF Steps
    <3>2. \E f \in [0 .. n -> D] : f[0] = first /\ \A i \in 1 .. n : f[i] = G[i][f[i - 1]]
      BY <3>3, Recursion
    <3> QED BY <3>2 DEF D, n, first
  <2>5. PICK f \in [0 .. Len(s) -> Seq(S)] :
           f[0] = << >> /\ \A i \in 1 .. Len(s) : f[i] = G[i][f[i - 1]]
    BY <2>4
  <2>6. \A i \in 1 .. Len(s) : i - 1 \in 0 .. Len(s) /\ f[i - 1] \in Seq(S)
    <3>1. \A i \in 1 .. Len(s) : i - 1 \in 0 .. Len(s)
      BY <1>0
    <3> DEFINE D == Seq(S)
    <3>2. \A i \in 0 .. Len(s) : f[i] \in D
      OBVIOUS
    <3> HIDE DEF D
    <3>3. \A i \in 1 .. Len(s) : f[i - 1] \in D
      BY <3>1, <3>2
    <3> QED BY <3>1, <3>3 DEF D
  <2>7. ASSUME NEW i \in 1 .. Len(s) PROVE f[i] = Cat(f[i - 1], s[i])
    <3>1. f[i] = G[i][f[i - 1]] /\ f[i - 1] \in Seq(S)
      BY <2>5, <2>6
    <3> QED BY <2>3, <3>1
  <2> QED BY <2>5, <2>7
<1>6. 1 \in 1 .. Len(s) => f[1] = s[1]
  <2> SUFFICES ASSUME 1 \in 1 .. Len(s) PROVE f[1] = s[1]
    OBVIOUS
  <2>1. f[1] = Cat(f[1 - 1], s[1]) /\ 1 - 1 = 0
    BY <1>1
  <2>2. f[1] = << >> \o s[1]
    BY <1>1, <2>1 DEF Cat
  <2>3. s[1] \in Seq(S)
    BY <1>0
  <2> HIDE DEF IsFlatten
  <2>4. << >> \o s[1] = s[1]
    BY <2>3
  <2> QED BY <2>2, <2>4
<1>2. \E h : IsFlatten(h)
  <2> DEFINE h == [i \in 1 .. Len(s) |-> f[i]]
  <2>2. ASSUME NEW i \in 1 .. Len(s)
        PROVE  h[i] = IF i = 1 THEN s[i] ELSE h[i - 1] \o s[i]
    <3>1. CASE i = 1
      BY <1>6, <3>1
    <3>2. CASE i # 1
      <4>1. i - 1 \in 1 .. Len(s)
        BY <1>0, <3>2
      <4>2. h[i - 1] = f[i - 1] /\ h[i] = f[i]
        BY <4>1
      <4> HIDE DEF h
      <4> QED BY <1>1, <3>2, <4>2 DEF Cat
    <3> QED BY <3>1, <3>2
  <2>3. h = [i \in 1 .. Len(s) |-> h[i]]
    OBVIOUS
  <2> HIDE DEF h
  <2>4. IsFlatten(h)
    BY <2>2, <2>3
  <2> HIDE DEF IsFlatten
  <2> QED BY <2>4
<1>3. Len(s) # 0 => FlattenSeq(s) = (CHOOSE h : IsFlatten(h))[Len(s)]
  BY DEF FlattenSeq
<1>4. Len(s) = 0 => FlattenSeq(s) = << >>
  BY DEF FlattenSeq
<1> HIDE DEF IsFlatten
<1>5. PICK h : IsFlatten(h) /\ (Len(s) # 0 => FlattenSeq(s) = h[Len(s)])
  BY <1>2, <1>3
<1>9. \A i \in 1 .. Len(s) : h[i] = IF i = 1 THEN s[i] ELSE h[i - 1] \o s[i]
  BY <1>5 DEF IsFlatten
<1> DEFINE T == {i \in 0 .. Len(s) : i # 0 => h[i] = f[i]}
<1>7. 0 .. Len(s) \subseteq T
  <2>1. 0 \in T
    BY <1>0
  <2>2. ASSUME NEW i \in 1 .. Len(s), i - 1 \in T PROVE i \in T
    <3>1. CASE i = 1
      <4>1. h[i] = f[i] /\ i \in 0 .. Len(s)
        BY <1>0, <1>6, <1>9, <3>1
      <4> QED BY <4>1
    <3>2. CASE i # 1
      <4>1. h[i - 1] = f[i - 1]
        BY <2>2, <3>2
      <4>2. h[i] = h[i - 1] \o s[i] /\ f[i] = f[i - 1] \o s[i]
        BY <1>1, <1>9, <3>2 DEF Cat
      <4>3. i \in 0 .. Len(s)
        BY <1>0
      <4>4. h[i] = f[i]
        <5> HIDE DEF T
        <5> QED BY <4>1, <4>2
      <4> QED BY <4>3, <4>4
    <3> QED BY <3>1, <3>2
  <2> HIDE DEF T
  <2> QED BY <1>0, <2>1, <2>2, UpTo
<1>8. f[Len(s)] = FlattenSeq(s)
  <2>1. Len(s) \in T
    BY <1>0, <1>7
  <2> QED BY <1>0, <1>1, <1>4, <1>5, <2>1
<1> QED BY <1>1, <1>8

\* What a loop over the lists t has built after each of n, from p on.
Built(S, t, n, p, g) ==
    /\ p \in Seq(S) /\ g[0] = p
    /\ \A i \in 1 .. n : t[i] \in Seq(S) /\ g[i - 1] \in Seq(S) /\ g[i] = Cat(g[i - 1], t[i])

\* What a loop adds to a list does not depend on what was there before.
LEMMA AfterPrefix ==
  ASSUME NEW S, NEW t, NEW n \in Nat, NEW p, NEW g, NEW h,
         Built(S, t, n, << >>, g), Built(S, t, n, p, h)
  PROVE  \A i \in 0 .. n : h[i] = Cat(p, g[i])
<1> DEFINE T == {i \in 0 .. n : h[i] = Cat(p, g[i])}
<1>0. p \in Seq(S)
  BY DEF Built
<1>1. 0 \in T
  <2>1. Cat(p, << >>) = p
    BY <1>0, CatEmpty
  <2> QED BY <2>1 DEF Built
<1>2. ASSUME NEW i \in 1 .. n, i - 1 \in T PROVE i \in T
  <2>1. /\ h[i] = Cat(Cat(p, g[i - 1]), t[i]) /\ t[i] \in Seq(S) /\ g[i - 1] \in Seq(S)
        /\ g[i] = Cat(g[i - 1], t[i])
    BY <1>2 DEF Built
  <2>2. h[i] = Cat(p, g[i])
    BY <1>0, <2>1, CatAssociates
  <2> QED BY <2>2
<1> HIDE DEF T
<1>3. 0 .. n \subseteq T
  BY <1>1, <1>2, UpTo
<1> QED BY <1>3 DEF T

\* The sequences of two lists, one list after the other.
LEMMA FlattenConcat ==
  ASSUME NEW S, NEW s \in Seq(Seq(S)), NEW t \in Seq(Seq(S))
  PROVE  FlattenSeq(Cat(s, t)) = Cat(FlattenSeq(s), FlattenSeq(t))
<1>1. PICK f : /\ f[0] = << >> /\ f[Len(s)] = FlattenSeq(s)
               /\ \A i \in 1 .. Len(s) : f[i] = Cat(f[i - 1], s[i])
               /\ \A i \in 0 .. Len(s) : f[i] \in Seq(S)
  BY FlattenSteps
<1>2. PICK g : /\ g[0] = << >> /\ g[Len(t)] = FlattenSeq(t)
               /\ \A i \in 1 .. Len(t) : g[i] = Cat(g[i - 1], t[i])
               /\ \A i \in 0 .. Len(t) : g[i] \in Seq(S)
  BY FlattenSteps
<1> DEFINE st == Cat(s, t)
<1>3. st \in Seq(Seq(S))
  BY CatIs
<1>5. /\ Len(s) \in Nat /\ Len(t) \in Nat /\ Len(st) = Len(s) + Len(t)
      /\ \A i \in 1 .. Len(s) : st[i] = s[i]
      /\ \A i \in 1 .. Len(t) : st[Len(s) + i] = t[i]
      /\ \A i \in 1 .. Len(t) : t[i] \in Seq(S)
  BY DEF Cat
<1> HIDE DEF st
<1>4. PICK h : /\ h[0] = << >> /\ h[Len(st)] = FlattenSeq(st)
               /\ \A i \in 1 .. Len(st) : h[i] = Cat(h[i - 1], st[i])
               /\ \A i \in 0 .. Len(st) : h[i] \in Seq(S)
  BY <1>3, FlattenSteps
<1>6. 0 .. Len(s) \subseteq {i \in 0 .. Len(s) : h[i] = f[i]}
  <2> DEFINE T == {i \in 0 .. Len(s) : h[i] = f[i]}
  <2>1. 0 \in T
    BY <1>1, <1>4, <1>5
  <2>2. \A i \in 1 .. Len(s) : i - 1 \in T => i \in T
    <3> SUFFICES ASSUME NEW i \in 1 .. Len(s), h[i - 1] = f[i - 1] PROVE i \in T
      OBVIOUS
    <3>1. i \in 0 .. Len(s) /\ i \in 1 .. Len(st) /\ st[i] = s[i]
      BY <1>5
    <3> QED BY <1>1, <1>4, <3>1
  <2> HIDE DEF T
  <2>3. 0 .. Len(s) \subseteq T
    BY <1>5, <2>1, <2>2, UpTo
  <2> QED BY <2>3 DEF T
<1>7. h[Len(s)] = f[Len(s)] /\ f[Len(s)] \in Seq(S)
  BY <1>1, <1>5, <1>6
<1>8. \A i \in 0 .. Len(t) : h[Len(s) + i] = Cat(f[Len(s)], g[i])
  <2> DEFINE k == [i \in 0 .. Len(t) |-> h[Len(s) + i]]
  <2>1. k[0] = f[Len(s)]
    <3>1. 0 \in 0 .. Len(t) /\ Len(s) + 0 = Len(s)
      BY <1>5
    <3> QED BY <1>7, <3>1
  <2>2. ASSUME NEW i \in 1 .. Len(t)
        PROVE  /\ t[i] \in Seq(S) /\ g[i - 1] \in Seq(S)
               /\ g[i] = Cat(g[i - 1], t[i]) /\ k[i] = Cat(k[i - 1], t[i]) /\ k[i - 1] \in Seq(S)
    <3>1. /\ Len(s) + i \in 1 .. Len(st) /\ (Len(s) + i) - 1 = Len(s) + (i - 1)
          /\ i \in 0 .. Len(t) /\ i - 1 \in 0 .. Len(t)
      BY <1>5
    <3>2. h[Len(s) + i] = Cat(h[Len(s) + (i - 1)], t[i])
      BY <1>4, <1>5, <3>1
    <3>3. Len(s) + (i - 1) \in 0 .. Len(st) /\ h[Len(s) + (i - 1)] \in Seq(S)
      BY <1>4, <1>5
    <3> QED BY <1>2, <1>5, <3>1, <3>2, <3>3
  <2>3. \A i \in 0 .. Len(t) : k[i] = h[Len(s) + i]
    OBVIOUS
  <2> HIDE DEF k
  <2>4. \A i \in 0 .. Len(t) : k[i] = Cat(f[Len(s)], g[i])
    <3> DEFINE p == f[Len(s)]
               n == Len(t)
    <3>1. n \in Nat /\ p \in Seq(S) /\ k[0] = p /\ g[0] = << >> /\ << >> \in Seq(S)
      BY <1>2, <1>5, <1>7, <2>1
    <3>5. \A i \in 1 .. n : /\ t[i] \in Seq(S) /\ g[i - 1] \in Seq(S) /\ k[i - 1] \in Seq(S)
                            /\ g[i] = Cat(g[i - 1], t[i]) /\ k[i] = Cat(k[i - 1], t[i])
      BY <2>2
    <3> HIDE DEF p, n
    <3>2. Built(S, t, n, << >>, g)
      BY <3>1, <3>5 DEF Built
    <3>4. Built(S, t, n, p, k)
      BY <3>1, <3>5 DEF Built
    <3>3. \A i \in 0 .. n : k[i] = Cat(p, g[i])
      BY <3>1, <3>2, <3>4, AfterPrefix
    <3> QED BY <3>3 DEF p, n
  <2> QED BY <2>3, <2>4
<1>9. h[Len(s) + Len(t)] = Cat(f[Len(s)], g[Len(t)])
  <2>1. Len(t) \in 0 .. Len(t)
    BY <1>5
  <2> QED BY <1>8, <2>1
<1> QED BY <1>1, <1>2, <1>4, <1>5, <1>9 DEF st

\* Sequences of one element each.
LEMMA FlattenSingles ==
  ASSUME NEW S, NEW e \in Seq(S)
  PROVE  FlattenSeq([i \in 1 .. Len(e) |-> << e[i] >>]) = e
<1> DEFINE s == [i \in 1 .. Len(e) |-> << e[i] >>]
<1>0. Len(e) \in Nat /\ \A i \in 1 .. Len(e) : e[i] \in S /\ << e[i] >> \in Seq(S)
  OBVIOUS
<1>1. s \in Seq(Seq(S)) /\ Len(s) = Len(e) /\ \A i \in 1 .. Len(e) : s[i] = << e[i] >>
  BY <1>0
<1> HIDE DEF s
<1>2. PICK f : /\ f[0] = << >> /\ f[Len(s)] = FlattenSeq(s)
               /\ \A i \in 1 .. Len(s) : f[i] = Cat(f[i - 1], s[i])
               /\ \A i \in 0 .. Len(s) : f[i] \in Seq(S)
  BY <1>1, FlattenSteps
<1>3. 0 .. Len(e) \subseteq {i \in 0 .. Len(e) : Len(f[i]) = i /\ \A j \in 1 .. i : f[i][j] = e[j]}
  <2> DEFINE T == {i \in 0 .. Len(e) : Len(f[i]) = i /\ \A j \in 1 .. i : f[i][j] = e[j]}
  <2>1. 0 \in T
    BY <1>0, <1>2
  <2>2. \A i \in 1 .. Len(e) : i - 1 \in T => i \in T
    <3> SUFFICES ASSUME NEW i \in 1 .. Len(e), i - 1 \in T PROVE i \in T
      OBVIOUS
    <3>1. i \in 0 .. Len(e) /\ i - 1 \in 0 .. Len(e) /\ i \in 1 .. Len(s)
      BY <1>0, <1>1
    <3>2. f[i - 1] \in Seq(S) /\ Len(f[i - 1]) = i - 1 /\ \A j \in 1 .. i - 1 : f[i - 1][j] = e[j]
      BY <1>2, <1>1, <3>1
    <3>3. f[i] = Cat(f[i - 1], << e[i] >>)
      BY <1>1, <1>2, <3>1
    <3>4. Len(f[i]) = i /\ f[i][i] = e[i] /\ \A j \in 1 .. i - 1 : f[i][j] = f[i - 1][j]
      BY <1>0, <3>1, <3>2, <3>3 DEF Cat
    <3>5. \A j \in 1 .. i : f[i][j] = e[j]
      <4>1. \A j \in 1 .. i : j = i \/ j \in 1 .. i - 1
        BY <3>1
      <4> QED BY <3>2, <3>4, <4>1
    <3> QED BY <3>1, <3>4, <3>5
  <2> HIDE DEF T
  <2>3. 0 .. Len(e) \subseteq T
    BY <1>0, <2>1, <2>2, UpTo
  <2> QED BY <2>3 DEF T
<1>4. FlattenSeq(s) \in Seq(S) /\ Len(FlattenSeq(s)) = Len(e) /\ \A j \in 1 .. Len(e) : FlattenSeq(s)[j] = e[j]
  <2>1. Len(e) \in 0 .. Len(e)
    BY <1>0
  <2>2. Len(f[Len(e)]) = Len(e) /\ \A j \in 1 .. Len(e) : f[Len(e)][j] = e[j]
    BY <1>3, <2>1
  <2> QED BY <1>1, <1>2, <2>1, <2>2
<1>5. FlattenSeq(s) = e
  BY <1>4, SeqEqual
<1> QED BY <1>5 DEF s

\* The lists of t are those of s with m applied to every element.
Mapping(m, s, t) ==
    /\ Len(t) = Len(s)
    /\ \A i \in 1 .. Len(s) : /\ Len(t[i]) = Len(s[i])
                              /\ \A j \in 1 .. Len(s[i]) : t[i][j] = m[s[i][j]]

\* A function applied to every element, before or after flattening.
LEMMA FlattenMap ==
  ASSUME NEW S, NEW R, NEW m \in [S -> R], NEW s \in Seq(Seq(S)),
         NEW t \in Seq(Seq(R)), Mapping(m, s, t)
  PROVE  /\ FlattenSeq(s) \in Seq(S) /\ FlattenSeq(t) \in Seq(R)
         /\ Len(FlattenSeq(t)) = Len(FlattenSeq(s))
         /\ \A j \in 1 .. Len(FlattenSeq(s)) : FlattenSeq(t)[j] = m[FlattenSeq(s)[j]]
<1>1. PICK f : /\ f[0] = << >> /\ f[Len(s)] = FlattenSeq(s)
               /\ \A i \in 1 .. Len(s) : f[i] = Cat(f[i - 1], s[i])
               /\ \A i \in 0 .. Len(s) : f[i] \in Seq(S)
  BY FlattenSteps
<1>2. PICK g : /\ g[0] = << >> /\ g[Len(t)] = FlattenSeq(t)
               /\ \A i \in 1 .. Len(t) : g[i] = Cat(g[i - 1], t[i])
               /\ \A i \in 0 .. Len(t) : g[i] \in Seq(R)
  BY FlattenSteps
<1>3. /\ Len(s) \in Nat /\ Len(t) = Len(s)
      /\ \A i \in 1 .. Len(s) : s[i] \in Seq(S) /\ t[i] \in Seq(R)
  BY DEF Mapping
<1> DEFINE Like(u, v) == Len(v) = Len(u) /\ \A j \in 1 .. Len(u) : v[j] = m[u[j]]
<1>4. ASSUME NEW a \in Seq(S), NEW b \in Seq(S), NEW c \in Seq(R), NEW d \in Seq(R),
             Like(a, c), Like(b, d)
      PROVE  Like(Cat(a, b), Cat(c, d))
  <2>0. Len(c) = Len(a) /\ Len(d) = Len(b)
    BY <1>4
  <2>1. Len(Cat(c, d)) = Len(Cat(a, b)) /\ Len(a) \in Nat /\ Len(b) \in Nat /\ Len(Cat(a, b)) = Len(a) + Len(b)
    <3> HIDE DEF Like
    <3>1. Len(Cat(c, d)) = Len(c) + Len(d) /\ Len(Cat(a, b)) = Len(a) + Len(b)
      BY CatIs
    <3> QED BY <2>0, <3>1
  <2>2. ASSUME NEW j \in 1 .. Len(Cat(a, b)) PROVE Cat(c, d)[j] = m[Cat(a, b)[j]]
    <3>1. CASE j <= Len(a)
      <4>1. j \in 1 .. Len(a)
        BY <2>1, <3>1
      <4>2. Cat(a, b)[j] = a[j] /\ Cat(c, d)[j] = c[j]
        <5> HIDE DEF Like
        <5> QED BY <2>0, <4>1 DEF Cat
      <4> QED BY <1>4, <4>1, <4>2
    <3>2. CASE ~(j <= Len(a))
      <4>1. j - Len(a) \in 1 .. Len(b) /\ Len(a) + (j - Len(a)) = j
        BY <2>1, <3>2
      <4>2. /\ Cat(a, b)[j] = b[j - Len(a)] /\ Cat(c, d)[j] = d[j - Len(a)]
        <5>1. j - Len(a) \in 1 .. Len(d) /\ Len(c) + (j - Len(a)) = j
          BY <2>0, <4>1
        <5> HIDE DEF Like
        <5>2. /\ \A k \in 1 .. Len(b) : Cat(a, b)[Len(a) + k] = b[k]
              /\ \A k \in 1 .. Len(d) : Cat(c, d)[Len(c) + k] = d[k]
          <6>1. \A k \in 1 .. Len(b) : Cat(a, b)[Len(a) + k] = b[k]
            BY CatIs
          <6>2. \A k \in 1 .. Len(d) : Cat(c, d)[Len(c) + k] = d[k]
            BY CatIs
          <6> QED BY <6>1, <6>2
        <5>3. /\ Cat(a, b)[Len(a) + (j - Len(a))] = b[j - Len(a)]
              /\ Cat(c, d)[Len(c) + (j - Len(a))] = d[j - Len(a)]
          BY <4>1, <5>1, <5>2
        <5> QED BY <4>1, <5>1, <5>3
      <4> QED BY <1>4, <4>1, <4>2
    <3> QED BY <3>1, <3>2
  <2> QED BY <2>1, <2>2
<1>5. 0 .. Len(s) \subseteq {i \in 0 .. Len(s) : Like(f[i], g[i])}
  <2> DEFINE T == {i \in 0 .. Len(s) : Like(f[i], g[i])}
  <2>1. 0 \in T
    BY <1>1, <1>2, <1>3
  <2>2. \A i \in 1 .. Len(s) : i - 1 \in T => i \in T
    <3> SUFFICES ASSUME NEW i \in 1 .. Len(s), i - 1 \in T PROVE i \in T
      OBVIOUS
    <3>1. i \in 0 .. Len(s) /\ i - 1 \in 0 .. Len(s) /\ i \in 1 .. Len(t)
      BY <1>3
    <3>2. /\ f[i - 1] \in Seq(S) /\ g[i - 1] \in Seq(R) /\ s[i] \in Seq(S) /\ t[i] \in Seq(R)
          /\ f[i] = Cat(f[i - 1], s[i]) /\ g[i] = Cat(g[i - 1], t[i])
      BY <1>1, <1>2, <1>3, <3>1
    <3>3. Like(f[i - 1], g[i - 1])
      OBVIOUS
    <3>4. Like(s[i], t[i])
      BY DEF Mapping
    <3> HIDE DEF Like
    <3>5. Like(f[i], g[i])
      BY <1>4, <3>2, <3>3, <3>4
    <3> QED BY <3>1, <3>5
  <2> HIDE DEF T
  <2>3. 0 .. Len(s) \subseteq T
    BY <1>3, <2>1, <2>2, UpTo
  <2> QED BY <2>3 DEF T
<1>6. Like(f[Len(s)], g[Len(s)])
  <2>1. Len(s) \in 0 .. Len(s)
    BY <1>3
  <2> HIDE DEF Like
  <2> QED BY <1>5, <2>1
<1>7. f[Len(s)] \in Seq(S) /\ g[Len(t)] \in Seq(R) /\ Len(t) = Len(s)
  <2>1. Len(s) \in 0 .. Len(s) /\ Len(t) \in 0 .. Len(t) /\ Len(t) = Len(s)
    BY <1>3
  <2> QED BY <1>1, <1>2, <2>1
<1> QED BY <1>1, <1>2, <1>6, <1>7
=============================================================================
