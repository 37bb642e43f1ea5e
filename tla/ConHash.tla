------------------------------ MODULE ConHash ------------------------------
(***************************************************************************)
(* The hash ring on which a service's nodes lie (framework/hash.go): every *)
(* node has points on the ring, sorted by their value, and Search finds    *)
(* the node of a key by halving.                                           *)
(***************************************************************************)
EXTENDS Integers, Sequences, FiniteSets, SequencesExt

CONSTANTS
    Nodes,      \* physical addresses
    MaxValue,   \* values run over 0 .. MaxValue (uint32)
    Replicas    \* points of one node (512)

ASSUME RingAssumption == MaxValue \in Nat /\ Replicas \in Nat \ {0}

VARIABLES
    points,     \* the values crc32 gives a node's points, {} before its first Add
    dums        \* ConHash.dums: the ring, a sequence of [node, v]

ringVars == <<points, dums>>

Values == 0 .. MaxValue
Nowhere == "nil"

RingInit ==
    /\ points = [n \in Nodes |-> {}]
    /\ dums = <<>>

-----------------------------------------------------------------------------
(* Search and half.                                                        *)

Half(value, ring) ==
    LET half[r \in (1 .. Len(ring)) \X (1 .. Len(ring))] ==
            LET begin == r[1]
                end   == r[2]
                mid   == begin + (end - begin) \div 2
            IN  IF end - begin <= 1
                THEN IF ring[end].v = value THEN ring[end].node ELSE ring[begin].node
                ELSE half[IF value > ring[mid].v THEN <<mid, end>> ELSE <<begin, mid>>]
    IN  half[<<1, Len(ring)>>]

Search(value, ring) ==
    IF ring = <<>> THEN Nowhere
    ELSE IF value < ring[1].v \/ value > ring[Len(ring)].v THEN ring[1].node
    ELSE Half(value, ring)

-----------------------------------------------------------------------------
(* Add and Remove.                                                         *)

PointsOf(ring) == {ring[i] : i \in 1 .. Len(ring)}

\* sort.Sort is not stable: points of equal value come in any order.
Followed(rings, T) == UNION {{below \o here : here \in SetToSeqs(T)} : below \in rings}

SortedRings(S) ==
    LET rings[v \in 0 .. MaxValue + 1] ==      \* of the points below v
            IF v = 0 THEN {<<>>}
            ELSE Followed(rings[v - 1], {p \in S : p.v = v - 1})
    IN  rings[MaxValue + 1]

NotOf(n, p) == p.node # n

\* The loop of Remove over the ring, and the new list.
Without(n) ==
    LET newList[index \in 0 .. Len(dums)] ==
            IF index = 0 THEN <<>>
            ELSE IF NotOf(n, dums[index]) THEN Append(newList[index - 1], dums[index])
            ELSE newList[index - 1]
    IN  newList[Len(dums)]

\* create hashes the names of the points: any values (two of one node never meet
\* here), but always the same ones.
Create(n) ==
    \E P \in SUBSET Values :
        /\ Cardinality(P) = Replicas
        /\ points[n] \in {{}, P}
        /\ points' = [points EXCEPT ![n] = P]

NewPoints(n) == {[node |-> n, v |-> v] : v \in points'[n]}

\* Mutant: the new points are appended and the ring is not sorted again.
AddUnsorted(n) ==
    /\ Create(n)
    /\ dums' = Without(n) \o SetToSeq(NewPoints(n))

Add(n) ==
    /\ Create(n)
    /\ dums' \in SortedRings(PointsOf(Without(n)) \cup NewPoints(n))

RemoveAddr(n) ==
    /\ dums' = Without(n)
    /\ UNCHANGED points

RingNext == \E n \in Nodes : Add(n) \/ RemoveAddr(n)

RingSpec == RingInit /\ [][RingNext]_ringVars

-----------------------------------------------------------------------------
OnRing == {dums[i].node : i \in 1 .. Len(dums)}

\* What Search computes by halving: a key belongs to the last point at or
\* before it, and to the first point of all when there is none, or when the
\* key lies above the last point.
SearchFindsOwner ==
    \A value \in Values :
        LET before == {p \in PointsOf(dums) : p.v <= value}
            above  == {p \in PointsOf(dums) : p.v > value}
            last   == {p \in before : \A q \in before : q.v <= p.v}
            first  == {p \in PointsOf(dums) : \A q \in PointsOf(dums) : p.v <= q.v}
            exact  == {p \in last : p.v = value}
            owners == IF before = {} \/ (above = {} /\ exact = {}) THEN first ELSE last
        IN  IF dums = <<>>
            THEN Search(value, dums) = Nowhere
            ELSE \E p \in owners : Search(value, dums) = p.node

\* Two nodes share a value: which of them owns it changes when points are sorted.
Collides(value) ==
    \E m, n \in Nodes : m # n /\ value \in points[m] /\ value \in points[n]

NoCollision == \A v \in Values : ~Collides(v)

\* When a node leaves the ring the keys of other nodes stay where they are,
\* but for those above what is now the last point; when a node joins, the
\* keys that move go to it, but for those that were above the last point.
OthersStay ==
    \A value \in Values :
        LET from == Search(value, dums)
            to   == Search(value, dums')
        IN  (from # to /\ dums # <<>> /\ dums' # <<>>) =>
                \/ from \notin OnRing'
                \/ to \notin OnRing
                \/ value > dums[Len(dums)].v
                \/ value > dums'[Len(dums')].v

\* A change of the ring leaves it in order, so that Search finds the owner of
\* every key, and, no two nodes sharing a value, moves few keys.
FewKeysMove ==
    [][dums' # dums => SearchFindsOwner' /\ (NoCollision => OthersStay)]_ringVars
=============================================================================
