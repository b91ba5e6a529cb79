---------------------------- MODULE DListProofs -----------------------------
(***************************************************************************)
(* The chain of blocks is a deque, for every block size, every set of      *)
(* strings and indices, and however many nodes there are.                  *)
(***************************************************************************)
EXTENDS DList, ListLemmas

Offsets == 0..(kBlockSize - 1)

Node == [data : [Offsets -> Val \cup {NoElem}], occupied : Int]

Iterator == [node : Int, ptr : Offsets \cup {nullptr}]

TypeOK ==
    /\ head \in Int /\ tail \in Int /\ n_nodes \in Int
    /\ nodes \in [head..tail -> Node]
    /\ begin \in Iterator /\ end \in Iterator
    /\ len \in Nat

IInv == TypeOK /\ ChainInv
-----------------------------------------------------------------------------
(* Places *)

\* A place determines its node and its offset there.
LEMMA PlaceDivMod ==
    ASSUME NEW n \in Int, NEW o \in Offsets
    PROVE  /\ (n * kBlockSize + o) \in Int
           /\ (n * kBlockSize + o) \div kBlockSize = n
           /\ (n * kBlockSize + o) % kBlockSize = o
BY BlockAssumption DEF Offsets

LEMMA PlaceOf ==
    ASSUME NEW p \in Int
    PROVE  /\ p \div kBlockSize \in Int /\ p % kBlockSize \in Offsets
           /\ p = (p \div kBlockSize) * kBlockSize + (p % kBlockSize)
BY BlockAssumption DEF Offsets

\* Nodes are in the order of their places.
LEMMA NodesAscend ==
    ASSUME NEW p \in Int, NEW q \in Int, p <= q
    PROVE  p \div kBlockSize <= q \div kBlockSize
BY BlockAssumption

\* The node and the offset of an iterator that points to an element.
LEMMA IteratorPlace ==
    ASSUME NEW at, at.node \in Int, at.ptr \in Offsets
    PROVE  /\ Place(at) \in Int /\ Place(at) \div kBlockSize = at.node
           /\ Place(at) % kBlockSize = at.ptr
BY PlaceDivMod DEF Place

\* The places beside an iterator's.
After(at) ==
    IF at.ptr = kBlockSize - 1 THEN [node |-> at.node + 1, ptr |-> 0]
    ELSE [node |-> at.node, ptr |-> at.ptr + 1]

Before(at) ==
    IF at.ptr = 0 THEN [node |-> at.node - 1, ptr |-> kBlockSize - 1]
    ELSE [node |-> at.node, ptr |-> at.ptr - 1]

LEMMA Beside ==
    ASSUME NEW at, at.node \in Int, at.ptr \in Offsets
    PROVE  /\ After(at).node \in Int /\ After(at).ptr \in Offsets /\ After(at) \in Iterator
           /\ Place(After(at)) = Place(at) + 1
           /\ Before(at).node \in Int /\ Before(at).ptr \in Offsets /\ Before(at) \in Iterator
           /\ Place(Before(at)) = Place(at) - 1
<1> DEFINE n == at.node
           o == at.ptr
<1>1. n \in Int /\ o \in Int /\ o >= 0 /\ o < kBlockSize /\ kBlockSize \in Nat
    BY BlockAssumption DEF Offsets
<1>2. n * kBlockSize \in Int
    BY <1>1
<1>3. (n + 1) * kBlockSize = n * kBlockSize + kBlockSize
    BY <1>1
<1>4. (n - 1) * kBlockSize = n * kBlockSize - kBlockSize
    BY <1>1
<1>5. Place(After(at)) = Place(at) + 1
    <2>1. CASE o = kBlockSize - 1
        <3>1. Place(After(at)) = (n + 1) * kBlockSize + 0
            BY <2>1 DEF Place, After
        <3>2. Place(at) = n * kBlockSize + (kBlockSize - 1)
            BY <2>1 DEF Place
        <3> QED
            BY <1>1, <1>2, <1>3, <3>1, <3>2
    <2>2. CASE o # kBlockSize - 1
        <3>1. Place(After(at)) = n * kBlockSize + (o + 1)
            BY <2>2 DEF Place, After
        <3> QED
            BY <1>1, <1>2, <3>1 DEF Place
    <2> QED
        BY <2>1, <2>2
<1>6. Place(Before(at)) = Place(at) - 1
    <2>1. CASE o = 0
        <3>1. Place(Before(at)) = (n - 1) * kBlockSize + (kBlockSize - 1)
            BY <2>1 DEF Place, Before
        <3>2. Place(at) = n * kBlockSize + 0
            BY <2>1 DEF Place
        <3> QED
            BY <1>1, <1>2, <1>4, <3>1, <3>2
    <2>2. CASE o # 0
        <3>1. Place(Before(at)) = n * kBlockSize + (o - 1)
            BY <2>2 DEF Place, Before
        <3> QED
            BY <1>1, <1>2, <3>1 DEF Place
    <2> QED
        BY <2>1, <2>2
<1>7. /\ After(at).node \in Int /\ After(at).ptr \in Offsets /\ After(at) \in Iterator
      /\ Before(at).node \in Int /\ Before(at).ptr \in Offsets /\ Before(at) \in Iterator
    BY <1>1 DEF After, Before, Offsets, Iterator
<1> QED
    BY <1>5, <1>6, <1>7

\* Where the elements of a non-empty list are.
LEMMA Ends ==
    ASSUME IInv, ~Empty
    PROVE  /\ Place(begin) \in Int /\ Place(end) \in Int /\ Place(begin) <= Place(end)
           /\ begin.node \in Int /\ end.node \in Int
           /\ begin.ptr \in Offsets /\ end.ptr \in Offsets
           /\ Place(begin) \div kBlockSize = begin.node /\ Place(begin) % kBlockSize = begin.ptr
           /\ Place(end) \div kBlockSize = end.node /\ Place(end) % kBlockSize = end.ptr
           /\ begin.node <= end.node
           /\ len = Place(end) - Place(begin) + 1
           /\ Live = Place(begin)..Place(end)
<1>1. /\ begin.node \in Int /\ end.node \in Int
      /\ begin.ptr \in Offsets /\ end.ptr \in Offsets
      /\ len = Place(end) - Place(begin) + 1
    BY DEF IInv, TypeOK, ChainInv, Iterator, Offsets
<1>2. len \in Nat /\ len # 0
    BY DEF IInv, TypeOK, Empty
<1>3. /\ Place(begin) \in Int /\ Place(begin) \div kBlockSize = begin.node
      /\ Place(begin) % kBlockSize = begin.ptr
    BY <1>1, IteratorPlace
<1>4. /\ Place(end) \in Int /\ Place(end) \div kBlockSize = end.node
      /\ Place(end) % kBlockSize = end.ptr
    BY <1>1, IteratorPlace
<1>5. Place(begin) <= Place(end)
    BY <1>1, <1>2, <1>3, <1>4
<1>6. begin.node <= end.node
    BY <1>3, <1>4, <1>5, NodesAscend
<1> QED
    BY <1>1, <1>3, <1>4, <1>5, <1>6 DEF Live

\* The live places are finitely many, and lie in nodes of the chain.
LEMMA LivePlaces ==
    ASSUME IInv
    PROVE  /\ Live \in SUBSET Int /\ IsFiniteSet(Live)
           /\ \A p \in Live : p \div kBlockSize \in head..tail
<1>1. CASE Empty
    BY <1>1, FS_EmptySet DEF Live
<1>2. CASE ~Empty
    <2>1. IsFiniteSet(Live) /\ Live \in SUBSET Int
        BY <1>2, Ends, FS_Interval
    <2>2. ASSUME NEW p \in Live PROVE p \div kBlockSize \in head..tail
        <3>1. p \in Int /\ Place(begin) <= p /\ p <= Place(end)
            BY <1>2, Ends
        <3>2. p \div kBlockSize \in Int /\ begin.node <= p \div kBlockSize /\ p \div kBlockSize <= end.node
            BY <1>2, <3>1, Ends, NodesAscend, PlaceOf
        <3>3. head <= begin.node /\ end.node <= tail /\ head \in Int /\ tail \in Int
            BY DEF IInv, TypeOK, ChainInv
        <3> QED
            BY <1>2, <3>2, <3>3, Ends
    <2> QED
        BY <2>1, <2>2
<1> QED
    BY <1>1, <1>2

-----------------------------------------------------------------------------
(* Nodes and the places that are live *)

PlacesIn(live, n) == {p \in live : p \div kBlockSize = n}

\* The last conjunct of ChainInv, for any nodes and live places.
Matches(ns, h, t, live) ==
    \A n \in h..t :
        /\ ns[n].occupied = Cardinality(PlacesIn(live, n))
        /\ \A o \in Offsets :
              ns[n].data[o] \in IF n * kBlockSize + o \in live THEN Val ELSE {NoElem}

LEMMA CountIsNat ==
    ASSUME NEW live, IsFiniteSet(live), NEW n
    PROVE  IsFiniteSet(PlacesIn(live, n)) /\ Cardinality(PlacesIn(live, n)) \in Nat
BY FS_Subset, FS_CardinalityType DEF PlacesIn

\* One place is added to the live ones, or taken from them.
LEMMA OneMorePlace ==
    ASSUME NEW live \in SUBSET Int, IsFiniteSet(live), NEW p \in Int, NEW n \in Int
    PROVE  /\ p \notin live => Cardinality(PlacesIn(live \cup {p}, n)) =
                Cardinality(PlacesIn(live, n)) + IF p \div kBlockSize = n THEN 1 ELSE 0
           /\ p \in live => Cardinality(PlacesIn(live \ {p}, n)) =
                Cardinality(PlacesIn(live, n)) - IF p \div kBlockSize = n THEN 1 ELSE 0
<1> DEFINE S == PlacesIn(live, n)
<1>1. IsFiniteSet(S) /\ Cardinality(S) \in Nat
    BY CountIsNat
<1>2. ASSUME p \notin live
      PROVE  Cardinality(PlacesIn(live \cup {p}, n)) =
                Cardinality(S) + IF p \div kBlockSize = n THEN 1 ELSE 0
    <2>1. CASE p \div kBlockSize = n
        <3>1. PlacesIn(live \cup {p}, n) = S \cup {p} /\ p \notin S
            BY <1>2, <2>1 DEF PlacesIn
        <3> QED
            BY Zenon, <1>1, <2>1, <3>1, FS_AddElement
    <2>2. CASE p \div kBlockSize # n
        <3>1. PlacesIn(live \cup {p}, n) = S
            BY <2>2 DEF PlacesIn
        <3> QED
            BY <1>1, <2>2, <3>1
    <2> QED
        BY <2>1, <2>2
<1>3. ASSUME p \in live
      PROVE  Cardinality(PlacesIn(live \ {p}, n)) =
                Cardinality(S) - IF p \div kBlockSize = n THEN 1 ELSE 0
    <2>1. CASE p \div kBlockSize = n
        <3>1. PlacesIn(live \ {p}, n) = S \ {p} /\ p \in S
            BY <1>3, <2>1 DEF PlacesIn
        <3>2. Cardinality(S \ {p}) = Cardinality(S) - 1
            BY Zenon, <1>1, <3>1, FS_RemoveElement
        <3> HIDE DEF S
        <3> QED
            BY Zenon, <2>1, <3>1, <3>2
    <2>2. CASE p \div kBlockSize # n
        <3>1. PlacesIn(live \ {p}, n) = S
            BY <2>2 DEF PlacesIn
        <3> QED
            BY <1>1, <2>2, <3>1
    <2> QED
        BY <2>1, <2>2
<1> QED
    BY <1>1, <1>2, <1>3
\* What Matches says of one node.
LEMMA MatchesAt ==
    ASSUME NEW ns, NEW h \in Int, NEW t \in Int, NEW live, Matches(ns, h, t, live),
           NEW n \in h..t
    PROVE  /\ ns[n].occupied = Cardinality(PlacesIn(live, n))
           /\ \A o \in Offsets :
                 ns[n].data[o] \in IF n * kBlockSize + o \in live THEN Val ELSE {NoElem}
BY DEF Matches

\* The string at a place.
CellIn(ns, p) == ns[p \div kBlockSize].data[p % kBlockSize]

\* A node with one string of its buffer replaced.
NodeWith(nd, ptr, s, k) == [data |-> [nd.data EXCEPT ![ptr] = s], occupied |-> k]

LEMMA NodeWithOne ==
    ASSUME NEW nd \in Node, NEW ptr \in Offsets, NEW s \in Val \cup {NoElem}, NEW k \in Int
    PROVE  /\ NodeWith(nd, ptr, s, k) \in Node
           /\ NodeWith(nd, ptr, s, k).occupied = k
           /\ \A o \in Offsets :
                 NodeWith(nd, ptr, s, k).data[o] = IF o = ptr THEN s ELSE nd.data[o]
BY DEF Node, NodeWith

\* ns, a chain from h to t, has the live elements of the chain and v at one more
\* place.
GainsAt(ns, h, t, live, p, v) ==
    /\ ns \in [h..t -> Node]
    /\ Matches(ns, h, t, live \cup {p})
    /\ CellIn(ns, p) = v
    /\ \A q \in live : CellIn(ns, q) = CellIn(nodes, q)

\* Writing an element at a free place of the chain, or of a chain made longer
\* for it.
LEMMA WrittenMatches ==
    ASSUME NEW live \in SUBSET Int, IsFiniteSet(live), TypeOK,
           Matches(nodes, head, tail, live), \A p \in live : p \div kBlockSize \in head..tail,
           NEW h \in Int, NEW t \in Int, h <= head, tail <= t,
           NEW at, at.node \in h..t, at.ptr \in Offsets, Place(at) \notin live, NEW v \in Val
    PROVE  GainsAt(Written(h, t, at, v), h, t, live, Place(at), v)
<1> DEFINE old(n) == IF n \in head..tail THEN nodes[n] ELSE NewNode
           new == Written(h, t, at, v)
           p == Place(at)
<1>1. NewNode \in Node
    BY DEF NewNode, Node, Offsets
<1>2. ASSUME NEW n \in h..t PROVE old(n) \in Node
    BY <1>1 DEF TypeOK
<1>3. ASSUME NEW n \in h..t
      PROVE  /\ old(n).occupied = Cardinality(PlacesIn(live, n))
             /\ \A o \in Offsets :
                   old(n).data[o] \in IF n * kBlockSize + o \in live THEN Val ELSE {NoElem}
    <2>1. CASE n \in head..tail
        BY <2>1, MatchesAt DEF TypeOK
    <2>2. CASE n \notin head..tail
        <3>1. PlacesIn(live, n) = {}
            BY Zenon, <2>2 DEF PlacesIn
        <3>2. ASSUME NEW o \in Offsets PROVE n * kBlockSize + o \notin live
            BY <2>2, PlaceDivMod
        <3> QED
            BY <2>2, <3>1, <3>2, FS_EmptySet DEF NewNode, Offsets
    <2> QED
        BY <2>1, <2>2
<1>4. ASSUME NEW n \in h..t
      PROVE  /\ new[n] \in Node
             /\ new[n].occupied = old(n).occupied + IF n = at.node THEN 1 ELSE 0
             /\ \A o \in Offsets : new[n].data[o] =
                   IF n = at.node /\ o = at.ptr THEN v ELSE old(n).data[o]
    <2>1. PICK nd \in Node : nd = old(n)
        BY <1>2
    <2>2. nd.occupied \in Int
        BY <2>1 DEF Node
    <2>3. CASE n # at.node
        <3>1. new[n] = nd
            BY <2>1, <2>3 DEF Written
        <3> HIDE DEF new, old
        <3> QED
            BY <2>1, <2>2, <2>3, <3>1
    <2>4. CASE n = at.node
        <3> DEFINE w == NodeWith(nd, at.ptr, v, nd.occupied + 1)
        <3>1. new[n] = w
            BY <2>1, <2>4 DEF Written, NodeWith
        <3>2. nd.occupied + 1 \in Int
            BY <2>2
        <3>3. /\ w \in Node /\ w.occupied = nd.occupied + 1
              /\ \A o \in Offsets : w.data[o] = IF o = at.ptr THEN v ELSE nd.data[o]
            BY <3>2, NodeWithOne
        <3> HIDE DEF new, old, w
        <3>4. new[n].occupied = old(n).occupied + IF n = at.node THEN 1 ELSE 0
            BY <2>1, <2>4, <3>1, <3>3
        <3>5. ASSUME NEW o \in Offsets
              PROVE  new[n].data[o] = IF n = at.node /\ o = at.ptr THEN v ELSE old(n).data[o]
            BY Zenon, <2>1, <2>4, <3>1, <3>3
        <3> QED
            BY Zenon, <3>1, <3>3, <3>4, <3>5
    <2> QED
        BY <2>3, <2>4
<1>5. new \in [h..t -> Node]
    BY Zenon, <1>4 DEF Written
<1>6. p \in Int /\ p \div kBlockSize = at.node
    BY IteratorPlace
<1>7. Matches(new, h, t, live \cup {p})
    <2>1. ASSUME NEW n \in h..t
          PROVE  new[n].occupied = Cardinality(PlacesIn(live \cup {p}, n))
        <3>1. Cardinality(PlacesIn(live \cup {p}, n)) =
                Cardinality(PlacesIn(live, n)) + IF p \div kBlockSize = n THEN 1 ELSE 0
            BY <1>6, OneMorePlace
        <3>2. Cardinality(PlacesIn(live, n)) \in Nat
            BY CountIsNat
        <3> HIDE DEF new, old, p
        <3> QED
            BY <1>3, <1>4, <1>6, <3>1, <3>2
    <2>2. ASSUME NEW n \in h..t, NEW o \in Offsets
          PROVE  new[n].data[o] \in IF n * kBlockSize + o \in live \cup {p} THEN Val ELSE {NoElem}
        <3>1. n * kBlockSize + o = p <=> n = at.node /\ o = at.ptr
            BY <1>6, PlaceDivMod, IteratorPlace DEF Place
        <3> HIDE DEF new, old, p
        <3> QED
            BY <1>3, <1>4, <3>1
    <2> HIDE DEF new, p
    <2> QED
        BY Zenon, <2>1, <2>2 DEF Matches
<1>8. CellIn(new, p) = v
    <2>1. p \div kBlockSize = at.node /\ p % kBlockSize = at.ptr
        BY IteratorPlace
    <2> HIDE DEF new, old, p
    <2> QED
        BY <1>4, <2>1 DEF CellIn
<1>9. ASSUME NEW q \in live PROVE CellIn(new, q) = CellIn(nodes, q)
    <2>1. PICK n \in head..tail : n = q \div kBlockSize
        OBVIOUS
    <2>2. PICK o \in Offsets : o = q % kBlockSize
        BY PlaceOf
    <2>3. q = n * kBlockSize + o
        BY <2>1, <2>2, PlaceOf
    <2>4. ~(n = at.node /\ o = at.ptr)
        BY <2>3 DEF Place
    <2>5. n \in h..t
        BY DEF TypeOK
    <2>6. new[n].data[o] = nodes[n].data[o]
        <3>1. new[n].data[o] = old(n).data[o]
            <4> HIDE DEF new, old, p
            <4> QED
                BY <1>4, <2>4, <2>5
        <3> QED
            BY <3>1
    <2> HIDE DEF new
    <2> QED
        BY <2>1, <2>2, <2>6 DEF CellIn
<1> QED
    BY <1>5, <1>7, <1>8, <1>9 DEF GainsAt

\* Moving an element out.
LEMMA VacatedMatches ==
    ASSUME NEW live \in SUBSET Int, IsFiniteSet(live), TypeOK,
           Matches(nodes, head, tail, live),
           NEW at, at.node \in head..tail, at.ptr \in Offsets, Place(at) \in live
    PROVE  /\ Vacated(at) \in [head..tail -> Node]
           /\ Matches(Vacated(at), head, tail, live \ {Place(at)})
           /\ \A p \in live \ {Place(at)} :
                 p \div kBlockSize \in head..tail => CellIn(Vacated(at), p) = CellIn(nodes, p)
<1> DEFINE new == Vacated(at)
           p == Place(at)
<1>1. nodes \in [head..tail -> Node] /\ head \in Int /\ tail \in Int
    BY DEF TypeOK
<1>2. ASSUME NEW n \in head..tail
      PROVE  /\ new[n] \in Node
             /\ new[n].occupied = nodes[n].occupied - IF n = at.node THEN 1 ELSE 0
             /\ \A o \in Offsets : new[n].data[o] =
                   IF n = at.node /\ o = at.ptr THEN NoElem ELSE nodes[n].data[o]
    <2>1. PICK nd \in Node : nd = nodes[n]
        BY <1>1
    <2>2. nd.occupied \in Int
        BY <2>1 DEF Node
    <2>3. CASE n # at.node
        <3>1. new[n] = nd
            BY <1>1, <2>1, <2>3 DEF Vacated
        <3> HIDE DEF new
        <3> QED
            BY <2>1, <2>2, <2>3, <3>1
    <2>4. CASE n = at.node
        <3>1. new[n] = NodeWith(nd, at.ptr, NoElem, nd.occupied - 1)
            BY <1>1, <2>1, <2>4 DEF Vacated, NodeWith
        <3>2. PICK k \in Int : k = nd.occupied - 1
            BY <2>2
        <3>3. PICK s \in Val \cup {NoElem} : s = NoElem
            OBVIOUS
        <3>4. new[n] = NodeWith(nd, at.ptr, s, k)
            BY <3>1, <3>2, <3>3
        <3>5. /\ NodeWith(nd, at.ptr, s, k) \in Node
              /\ NodeWith(nd, at.ptr, s, k).occupied = k
              /\ \A o \in Offsets :
                    NodeWith(nd, at.ptr, s, k).data[o] = IF o = at.ptr THEN s ELSE nd.data[o]
            BY NodeWithOne
        <3> HIDE DEF new
        <3> QED
            BY <2>1, <2>2, <2>4, <3>2, <3>3, <3>4, <3>5
    <2> QED
        BY <2>3, <2>4
<1>3. new \in [head..tail -> Node]
    BY SMTT(20), <1>1, <1>2 DEF Vacated
<1>4. p \in Int /\ p \div kBlockSize = at.node
    BY <1>1, IteratorPlace
<1>5. Matches(new, head, tail, live \ {p})
    <2>1. ASSUME NEW n \in head..tail
          PROVE  new[n].occupied = Cardinality(PlacesIn(live \ {p}, n))
        <3>1. Cardinality(PlacesIn(live \ {p}, n)) =
                Cardinality(PlacesIn(live, n)) - IF p \div kBlockSize = n THEN 1 ELSE 0
            BY <1>1, <1>4, OneMorePlace
        <3>2. Cardinality(PlacesIn(live, n)) \in Nat
            BY CountIsNat
        <3>3. nodes[n].occupied = Cardinality(PlacesIn(live, n))
            BY <1>1, MatchesAt
        <3> HIDE DEF new, p
        <3> QED
            BY <1>2, <1>4, <3>1, <3>2, <3>3
    <2>2. ASSUME NEW n \in head..tail, NEW o \in Offsets
          PROVE  new[n].data[o] \in IF n * kBlockSize + o \in live \ {p} THEN Val ELSE {NoElem}
        <3>1. n * kBlockSize + o = p <=> n = at.node /\ o = at.ptr
            BY <1>1, <1>4, PlaceDivMod, IteratorPlace DEF Place
        <3>2. nodes[n].data[o] \in IF n * kBlockSize + o \in live THEN Val ELSE {NoElem}
            BY <1>1, MatchesAt
        <3> HIDE DEF new, p
        <3> QED
            BY <1>2, <3>1, <3>2
    <2> HIDE DEF new, p
    <2> QED
        BY Zenon, <2>1, <2>2 DEF Matches
<1>6. ASSUME NEW q \in live \ {p}, q \div kBlockSize \in head..tail
      PROVE  CellIn(new, q) = CellIn(nodes, q)
    <2>1. PICK n \in head..tail : n = q \div kBlockSize
        BY <1>6
    <2>2. PICK o \in Offsets : o = q % kBlockSize
        BY PlaceOf
    <2>3. q = n * kBlockSize + o
        BY <2>1, <2>2, PlaceOf
    <2>4. ~(n = at.node /\ o = at.ptr)
        BY <2>3 DEF Place
    <2> HIDE DEF new, p
    <2> QED
        BY <1>2, <2>1, <2>2, <2>4 DEF CellIn
<1> QED
    BY <1>3, <1>5, <1>6

\* ChainInv in these terms.
Shape ==
    /\ n_nodes = tail - head + 1
    /\ begin.node \in head..tail /\ end.node \in head..tail
    /\ Empty <=> begin.ptr = nullptr
    /\ Empty <=> end.ptr = nullptr
    /\ Empty => begin.node = end.node \/ (head = begin.node /\ tail = end.node)
    /\ ~Empty => len = Place(end) - Place(begin) + 1

LEMMA ChainMatches == IInv => TypeOK /\ Shape /\ Matches(nodes, head, tail, Live)
BY Zenon DEF IInv, ChainInv, Shape, Matches, InNode, PlacesIn, Offsets

LEMMA MatchesChain == TypeOK' /\ Shape' /\ Matches(nodes', head', tail', Live') => IInv'
<1> SUFFICES ASSUME TypeOK', Shape', Matches(nodes', head', tail', Live') PROVE ChainInv'
    BY DEF IInv
<1>1. DOMAIN nodes' = head'..tail'
    BY DEF TypeOK
<1>2. ~Empty' => begin'.ptr \in 0..(kBlockSize - 1) /\ end'.ptr \in 0..(kBlockSize - 1)
    BY DEF TypeOK, Shape, Iterator, Offsets
<1> QED
    BY Zenon, <1>1, <1>2 DEF ChainInv, Shape, Matches, InNode, PlacesIn, Offsets
-----------------------------------------------------------------------------
(* The invariant, step by step *)

LEMMA ChainInitially == Init => IInv
<1> SUFFICES ASSUME Init PROVE IInv
    OBVIOUS
<1>1. Empty /\ Live = {}
    BY DEF Init, Empty, Live
<1>2. NewNode \in Node
    BY DEF NewNode, Node, Offsets
<1>3. TypeOK
    BY <1>2 DEF Init, TypeOK, Iterator, nullptr
<1>4. ASSUME NEW n \in head..tail
      PROVE  /\ nodes[n].occupied = Cardinality(InNode(n))
             /\ \A o \in Offsets :
                   nodes[n].data[o] \in IF n * kBlockSize + o \in Live THEN Val ELSE {NoElem}
    <2>1. InNode(n) = {}
        BY <1>1 DEF InNode
    <2> QED
        BY <1>1, <2>1, FS_EmptySet DEF Init, NewNode, Offsets
<1> QED
    BY <1>1, <1>3, <1>4 DEF Init, IInv, ChainInv, Offsets, nullptr

\* The new first element of PushLeft is written right before the old one.
LEMMA PushLeftKeeps ==
    ASSUME IInv, NEW v \in Val, PushLeft(v)
    PROVE  /\ IInv' /\ ~Empty' /\ nodes' = Written(head', tail', begin', v)
           /\ head' <= head /\ tail' = tail /\ begin'.node \in head'..tail'
           /\ begin'.ptr \in Offsets /\ Place(begin') \notin Live
           /\ Live' = Live \cup {Place(begin')}
           /\ ~Empty => Place(begin)' = Place(begin) - 1 /\ Place(end)' = Place(end)
           /\ Empty => Place(begin)' = Place(end)'
<1> DEFINE at == IF begin.ptr = nullptr THEN [node |-> begin.node, ptr |-> kBlockSize - 1]
                 ELSE IF begin.ptr = 0 THEN [node |-> begin.node - 1, ptr |-> kBlockSize - 1]
                 ELSE [node |-> begin.node, ptr |-> begin.ptr - 1]
<1>1. /\ begin' = at
      /\ end' = IF begin.ptr = nullptr /\ end.ptr = nullptr THEN at ELSE end
      /\ head' = IF at.node < head THEN at.node ELSE head
      /\ n_nodes' = IF at.node < head THEN n_nodes + 1 ELSE n_nodes
      /\ nodes' = Written(head', tail, at, v)
      /\ len' = len + 1
      /\ tail' = tail
    BY DEF PushLeft
<1>2. TypeOK /\ ChainInv
    BY DEF IInv
<1>3. /\ at.node \in Int /\ at.ptr \in Offsets /\ at.node \in {begin.node, begin.node - 1}
      /\ at \in Iterator
    BY <1>2, BlockAssumption DEF TypeOK, Iterator, nullptr, Offsets
<1>4. /\ head \in Int /\ tail \in Int /\ len \in Nat /\ n_nodes \in Int
      /\ begin \in Iterator /\ end \in Iterator
    BY <1>2 DEF TypeOK
<1>5. /\ Empty <=> begin.ptr = nullptr
      /\ Empty <=> end.ptr = nullptr
      /\ begin.node \in head..tail /\ end.node \in head..tail
      /\ n_nodes = tail - head + 1
    BY <1>2 DEF ChainInv
<1> HIDE DEF at
<1>6. /\ head' \in Int /\ head' <= head /\ at.node \in head'..tail
      /\ n_nodes' = tail - head' + 1
      /\ begin.node \in head'..tail /\ end.node \in head'..tail
    BY <1>1, <1>3, <1>4, <1>5
<1>7. ~Empty' /\ len' \in Nat
    BY <1>1, <1>4 DEF Empty
<1>8. Place(at) \in Int
    BY <1>3, IteratorPlace
<1>9. Place(begin)' = Place(at) /\ Place(begin') = Place(at)
    BY <1>1 DEF Place
<1>10. /\ Place(at) \notin Live /\ Live' = Live \cup {Place(at)}
       /\ len' = Place(end)' - Place(begin)' + 1
       /\ ~Empty => Place(begin)' = Place(begin) - 1 /\ Place(end)' = Place(end)
       /\ Empty => Place(begin)' = Place(end)'
    <2>1. CASE Empty
        <3>1. end' = at /\ Live = {} /\ len' = 1
            BY <1>1, <1>5, <2>1 DEF Live, Empty
        <3>2. Place(end)' = Place(at)
            BY <3>1 DEF Place
        <3>3. Live' = Place(at)..Place(at)
            BY <1>7, <1>9, <3>2 DEF Live
        <3> QED
            BY <1>8, <1>9, <2>1, <3>1, <3>2, <3>3
    <2>2. CASE ~Empty
        <3>1. /\ Place(begin) \in Int /\ Place(end) \in Int /\ Place(begin) <= Place(end)
              /\ len = Place(end) - Place(begin) + 1 /\ Live = Place(begin)..Place(end)
              /\ begin.node \in Int /\ begin.ptr \in Offsets
            BY <2>2, Ends
        <3>2. end' = end /\ begin.ptr # nullptr
            BY <1>1, <1>5, <2>2
        <3>3. Place(end)' = Place(end)
            BY <3>2 DEF Place
        <3>4. Place(at) = Place(begin) - 1
            <4>1. at = Before(begin)
                BY <3>2 DEF at, Before
            <4> QED
                BY <3>1, <4>1, Beside
        <3>5. Live' = Place(at)..Place(end)
            BY <1>7, <1>9, <3>3 DEF Live
        <3> QED
            BY <1>1, <1>9, <2>2, <3>1, <3>3, <3>4, <3>5
    <2> QED
        BY <2>1, <2>2
<1>11. GainsAt(Written(head', tail, at, v), head', tail, Live, Place(at), v)
    <2>1. Matches(nodes, head, tail, Live)
        BY ChainMatches
    <2>2. tail <= tail
        BY <1>4
    <2> QED
        BY SMTT(20), <1>2, <1>3, <1>4, <1>6, <1>10, <2>1, <2>2, LivePlaces, WrittenMatches
<1>12. end' \in Iterator /\ end'.node \in head'..tail /\ end'.ptr # nullptr /\ begin'.ptr # nullptr
    BY <1>1, <1>3, <1>4, <1>5, <1>6 DEF nullptr, Offsets
<1>13. TypeOK'
    BY SMTT(20), <1>1, <1>3, <1>4, <1>6, <1>7, <1>11, <1>12 DEF TypeOK, GainsAt
<1>14. Shape'
    BY <1>1, <1>6, <1>7, <1>10, <1>12 DEF Shape
<1>15. IInv'
    BY <1>1, <1>10, <1>11, <1>13, <1>14, MatchesChain DEF GainsAt
<1> QED
    BY <1>1, <1>3, <1>6, <1>7, <1>9, <1>10, <1>15

\* PushRight writes right behind the old last element.
LEMMA PushRightKeeps ==
    ASSUME IInv, NEW v \in Val, PushRight(v)
    PROVE  /\ IInv' /\ ~Empty' /\ nodes' = Written(head', tail', end', v)
           /\ head' = head /\ tail <= tail' /\ end'.node \in head'..tail'
           /\ end'.ptr \in Offsets /\ Place(end') \notin Live
           /\ Live' = Live \cup {Place(end')}
           /\ ~Empty => Place(end)' = Place(end) + 1 /\ Place(begin)' = Place(begin)
           /\ Empty => Place(begin)' = Place(end)'
<1> DEFINE at == IF end.ptr = nullptr THEN [node |-> end.node, ptr |-> 0]
                 ELSE IF end.ptr = kBlockSize - 1 THEN [node |-> end.node + 1, ptr |-> 0]
                 ELSE [node |-> end.node, ptr |-> end.ptr + 1]
<1>1. /\ end' = at
      /\ begin' = IF end.ptr = nullptr /\ begin.ptr = nullptr THEN at ELSE begin
      /\ tail' = IF at.node > tail THEN at.node ELSE tail
      /\ n_nodes' = IF at.node > tail THEN n_nodes + 1 ELSE n_nodes
      /\ nodes' = Written(head, tail', at, v)
      /\ len' = len + 1
      /\ head' = head
    BY DEF PushRight
<1>2. TypeOK /\ ChainInv
    BY DEF IInv
<1>3. /\ at.node \in Int /\ at.ptr \in Offsets /\ at.node \in {end.node, end.node + 1}
      /\ at \in Iterator
    BY SMTT(20), <1>2, BlockAssumption DEF TypeOK, Iterator, nullptr, Offsets
<1>4. /\ head \in Int /\ tail \in Int /\ len \in Nat /\ n_nodes \in Int
      /\ begin \in Iterator /\ end \in Iterator
    BY <1>2 DEF TypeOK
<1>5. /\ Empty <=> begin.ptr = nullptr
      /\ Empty <=> end.ptr = nullptr
      /\ begin.node \in head..tail /\ end.node \in head..tail
      /\ n_nodes = tail - head + 1
    BY <1>2 DEF ChainInv
<1> HIDE DEF at
<1>6. /\ tail' \in Int /\ tail <= tail' /\ at.node \in head..tail'
      /\ n_nodes' = tail' - head + 1
      /\ begin.node \in head..tail' /\ end.node \in head..tail'
    BY <1>1, <1>3, <1>4, <1>5
<1>7. ~Empty' /\ len' \in Nat
    BY <1>1, <1>4 DEF Empty
<1>8. Place(at) \in Int
    BY <1>3, IteratorPlace
<1>9. Place(end)' = Place(at) /\ Place(end') = Place(at)
    BY <1>1 DEF Place
<1>10. /\ Place(at) \notin Live /\ Live' = Live \cup {Place(at)}
       /\ len' = Place(end)' - Place(begin)' + 1
       /\ ~Empty => Place(end)' = Place(end) + 1 /\ Place(begin)' = Place(begin)
       /\ Empty => Place(begin)' = Place(end)'
    <2>1. CASE Empty
        <3>1. begin' = at /\ Live = {} /\ len' = 1
            BY <1>1, <1>5, <2>1 DEF Live, Empty
        <3>2. Place(begin)' = Place(at)
            BY <3>1 DEF Place
        <3>3. Live' = Place(at)..Place(at)
            BY <1>7, <1>9, <3>2 DEF Live
        <3> QED
            BY <1>8, <1>9, <2>1, <3>1, <3>2, <3>3
    <2>2. CASE ~Empty
        <3>1. /\ Place(begin) \in Int /\ Place(end) \in Int /\ Place(begin) <= Place(end)
              /\ len = Place(end) - Place(begin) + 1 /\ Live = Place(begin)..Place(end)
              /\ end.node \in Int /\ end.ptr \in Offsets
            BY <2>2, Ends
        <3>2. begin' = begin /\ end.ptr # nullptr
            BY <1>1, <1>5, <2>2
        <3>3. Place(begin)' = Place(begin)
            BY <3>2 DEF Place
        <3>4. Place(at) = Place(end) + 1
            <4>1. at = After(end)
                BY <3>2 DEF at, After
            <4> QED
                BY SMTT(20), <3>1, <4>1, Beside
        <3>5. Live' = Place(begin)..Place(at)
            BY <1>7, <1>9, <3>3 DEF Live
        <3> QED
            BY <1>1, <1>9, <2>2, <3>1, <3>3, <3>4, <3>5
    <2> QED
        BY <2>1, <2>2
<1>11. GainsAt(Written(head, tail', at, v), head, tail', Live, Place(at), v)
    <2>1. Matches(nodes, head, tail, Live)
        BY ChainMatches
    <2>2. head <= head
        BY <1>4
    <2> QED
        BY <1>2, <1>3, <1>4, <1>6, <1>10, <2>1, <2>2, LivePlaces, WrittenMatches
<1>12. begin' \in Iterator /\ begin'.node \in head..tail' /\ end'.ptr # nullptr /\ begin'.ptr # nullptr
    BY <1>1, <1>3, <1>4, <1>5, <1>6 DEF nullptr, Offsets
<1>13. TypeOK'
    BY <1>1, <1>3, <1>4, <1>6, <1>7, <1>11, <1>12 DEF TypeOK, GainsAt
<1>14. Shape'
    BY <1>1, <1>6, <1>7, <1>10, <1>12 DEF Shape
<1>15. IInv'
    BY <1>1, <1>10, <1>11, <1>13, <1>14, MatchesChain DEF GainsAt
<1> QED
    BY <1>1, <1>3, <1>6, <1>7, <1>9, <1>10, <1>15

\* The places of the two ends are equal only when the iterators are.
LEMMA EndsMeet ==
    ASSUME IInv, ~Empty
    PROVE  begin = end <=> Place(begin) = Place(end)
<1>1. ASSUME Place(begin) = Place(end) PROVE begin = end
    <2>1. begin.node = end.node /\ begin.ptr = end.ptr
        BY <1>1, Ends
    <2> QED
        BY <2>1 DEF IInv, TypeOK, Iterator
<1> QED
    BY <1>1

\* Taking the last element leaves an empty list.
LEMMA PopLastKeeps ==
    ASSUME IInv, ~Empty, begin = end, PopLast, nodes' = Vacated(begin), len' = len - 1,
           UNCHANGED <<head, tail, n_nodes>>
    PROVE  IInv' /\ Empty' /\ len = 1
<1>1. /\ Place(begin) \in Int /\ len = 1 /\ Live = {Place(begin)} /\ len' = 0
    BY Ends
<1>2. TypeOK /\ Shape /\ Matches(nodes, head, tail, Live)
    BY ChainMatches
<1>3. Empty' /\ Live' = {}
    BY <1>1 DEF Empty, Live
<1>4. /\ Vacated(begin) \in [head..tail -> Node]
      /\ Matches(Vacated(begin), head, tail, Live \ {Place(begin)})
    BY Zenon, <1>1, <1>2, Ends, LivePlaces, VacatedMatches DEF Shape
<1>5. Matches(nodes', head', tail', Live')
    <2>1. Live \ {Place(begin)} = {}
        BY <1>1
    <2> QED
        BY Zenon, <1>3, <1>4, <2>1
<1>6. TypeOK'
    BY <1>1, <1>2, <1>4 DEF TypeOK, PopLast, Iterator
<1>7. begin'.node = begin.node /\ end'.node = end.node /\ begin'.ptr = nullptr /\ end'.ptr = nullptr
    BY <1>2 DEF TypeOK, PopLast, Iterator
<1>8. Shape'
    BY <1>2, <1>3, <1>7 DEF Shape
<1> QED
    BY <1>1, <1>3, <1>5, <1>6, <1>8, MatchesChain

LEMMA PopLeftKeeps ==
    ASSUME IInv, PopLeft
    PROVE  /\ IInv'
           /\ Empty => UNCHANGED <<chain, begin, end, len>>
           /\ ~Empty => /\ nodes' = Vacated(begin) /\ len' = len - 1
                        /\ len' # 0 => Place(begin)' = Place(begin) + 1
                        /\ ret' = <<"Pop", nodes[begin.node].data[begin.ptr]>>
<1>1. CASE Empty
    <2>1. UNCHANGED <<chain, begin, end, len>>
        BY <1>1 DEF PopLeft, PopEmpty
    <2>2. IInv'
        BY SMTT(20), <2>1 DEF IInv, TypeOK, ChainInv, chain, Empty, Live, InNode, Place
    <2> QED
        BY <1>1, <2>1, <2>2
<1>2. CASE ~Empty
    <2>1. /\ nodes' = Vacated(begin) /\ len' = len - 1 /\ UNCHANGED <<head, tail, n_nodes>>
          /\ ret' = <<"Pop", nodes[begin.node].data[begin.ptr]>>
          /\ \/ begin = end /\ PopLast
             \/ /\ begin # end /\ begin' = After(begin) /\ end' = end
        BY <1>2 DEF PopLeft, PopEmpty, After
    <2>2. CASE begin = end
        BY <1>2, <2>1, <2>2, PopLastKeeps
    <2>3. CASE begin # end
        <3>1. /\ Place(begin) \in Int /\ Place(end) \in Int /\ Place(begin) <= Place(end)
              /\ len = Place(end) - Place(begin) + 1 /\ Live = Place(begin)..Place(end)
              /\ begin.node \in Int /\ begin.ptr \in Offsets /\ end.ptr \in Offsets
              /\ end.node \in Int /\ Place(end) \div kBlockSize = end.node
              /\ Place(begin) \div kBlockSize = begin.node
            BY <1>2, Ends
        <3>2. Place(begin) < Place(end)
            BY <1>2, <2>3, <3>1, EndsMeet
        <3>3. begin' = After(begin) /\ end' = end
            BY <2>1, <2>3
        <3>4. Place(begin)' = Place(begin) + 1 /\ Place(end)' = Place(end)
              /\ begin'.node \in Int /\ begin'.ptr \in Offsets /\ begin' \in Iterator
              /\ Place(begin') = Place(begin) + 1
            <4>1. Place(begin)' = Place(begin') /\ Place(end)' = Place(end)
                BY <3>3 DEF Place
            <4> QED
                BY Zenon, <3>1, <3>3, <4>1, Beside
        <3>5. ~Empty' /\ len' \in Nat /\ len' = Place(end)' - Place(begin)' + 1
            BY <2>1, <3>1, <3>2, <3>4 DEF Empty
        <3>6. Live' = Live \ {Place(begin)}
            <4>1. Live' = (Place(begin) + 1)..Place(end)
                BY <3>4, <3>5 DEF Live
            <4> QED
                BY <3>1, <4>1
        <3>7. TypeOK /\ Shape /\ Matches(nodes, head, tail, Live)
            BY ChainMatches
        <3>8. begin'.node \in head..tail
            <4>1. Place(begin') \in Live /\ Place(begin') \div kBlockSize = begin'.node
                BY <3>1, <3>2, <3>4, IteratorPlace
            <4> QED
                BY <4>1, LivePlaces
        <3>9. /\ Vacated(begin) \in [head..tail -> Node]
              /\ Matches(Vacated(begin), head, tail, Live \ {Place(begin)})
            <4>1. begin.node \in head..tail
                BY <3>7 DEF Shape
            <4>2. Place(begin) \in Live
                BY <3>1
            <4>3. Live \in SUBSET Int /\ IsFiniteSet(Live)
                BY LivePlaces
            <4>4. begin.ptr \in Offsets
                BY <3>1
            <4> QED
                BY <3>7, <4>1, <4>2, <4>3, <4>4, VacatedMatches
        <3>10. TypeOK'
            BY <2>1, <3>3, <3>4, <3>5, <3>7, <3>9 DEF TypeOK
        <3>11. begin'.ptr # nullptr /\ end'.ptr # nullptr
            BY SMTT(20), <3>1, <3>3, <3>4 DEF Offsets, nullptr
        <3>12. Shape'
            BY <2>1, <3>3, <3>5, <3>7, <3>8, <3>11 DEF Shape
        <3>13. IInv'
            BY <2>1, <3>6, <3>9, <3>10, <3>12, MatchesChain
        <3> QED
            BY <1>2, <2>1, <3>4, <3>13
    <2> QED
        BY <2>2, <2>3
<1> QED
    BY <1>1, <1>2

LEMMA PopRightKeeps ==
    ASSUME IInv, PopRight
    PROVE  /\ IInv'
           /\ Empty => UNCHANGED <<chain, begin, end, len>>
           /\ ~Empty => /\ nodes' = Vacated(end) /\ len' = len - 1
                        /\ len' # 0 => begin' = begin
                        /\ ret' = <<"Pop", nodes[end.node].data[end.ptr]>>
<1>1. CASE Empty
    <2>1. UNCHANGED <<chain, begin, end, len>>
        BY <1>1 DEF PopRight, PopEmpty
    <2>2. IInv'
        BY Zenon, <2>1 DEF IInv, TypeOK, ChainInv, chain, Empty, Live, InNode, Place
    <2> QED
        BY <1>1, <2>1, <2>2
<1>2. CASE ~Empty
    <2>1. /\ nodes' = Vacated(end) /\ len' = len - 1 /\ UNCHANGED <<head, tail, n_nodes>>
          /\ ret' = <<"Pop", nodes[end.node].data[end.ptr]>>
          /\ \/ begin = end /\ PopLast
             \/ /\ begin # end /\ end' = Before(end) /\ begin' = begin
        BY <1>2 DEF PopRight, PopEmpty, Before
    <2>2. CASE begin = end
        BY <1>2, <2>1, <2>2, PopLastKeeps
    <2>3. CASE begin # end
        <3>1. /\ Place(begin) \in Int /\ Place(end) \in Int /\ Place(begin) <= Place(end)
              /\ len = Place(end) - Place(begin) + 1 /\ Live = Place(begin)..Place(end)
              /\ begin.node \in Int /\ begin.ptr \in Offsets /\ end.ptr \in Offsets
              /\ end.node \in Int /\ Place(end) \div kBlockSize = end.node
              /\ Place(begin) \div kBlockSize = begin.node
            BY <1>2, Ends
        <3>2. Place(begin) < Place(end)
            BY <1>2, <2>3, <3>1, EndsMeet
        <3>3. end' = Before(end) /\ begin' = begin
            BY <2>1, <2>3
        <3>4. Place(end)' = Place(end) - 1 /\ Place(begin)' = Place(begin)
              /\ end'.node \in Int /\ end'.ptr \in Offsets /\ end' \in Iterator
              /\ Place(end') = Place(end) - 1
            <4>1. Place(end)' = Place(end') /\ Place(begin)' = Place(begin)
                BY <3>3 DEF Place
            <4> QED
                BY Zenon, <3>1, <3>3, <4>1, Beside
        <3>5. ~Empty' /\ len' \in Nat /\ len' = Place(end)' - Place(begin)' + 1
            BY <2>1, <3>1, <3>2, <3>4 DEF Empty
        <3>6. Live' = Live \ {Place(end)}
            <4>1. Live' = Place(begin)..(Place(end) - 1)
                BY <3>4, <3>5 DEF Live
            <4> QED
                BY <3>1, <4>1
        <3>7. TypeOK /\ Shape /\ Matches(nodes, head, tail, Live)
            BY ChainMatches
        <3>8. end'.node \in head..tail
            <4>1. Place(end') \in Live /\ Place(end') \div kBlockSize = end'.node
                BY <3>1, <3>2, <3>4, IteratorPlace
            <4> QED
                BY <4>1, LivePlaces
        <3>9. /\ Vacated(end) \in [head..tail -> Node]
              /\ Matches(Vacated(end), head, tail, Live \ {Place(end)})
            <4>1. end.node \in head..tail
                BY <3>7 DEF Shape
            <4>2. Place(end) \in Live
                BY <3>1
            <4>3. Live \in SUBSET Int /\ IsFiniteSet(Live)
                BY LivePlaces
            <4>4. end.ptr \in Offsets
                BY <3>1
            <4> QED
                BY Zenon, <3>7, <4>1, <4>2, <4>3, <4>4, VacatedMatches
        <3>10. TypeOK'
            BY <2>1, <3>3, <3>4, <3>5, <3>7, <3>9 DEF TypeOK
        <3>11. begin'.ptr # nullptr /\ end'.ptr # nullptr
            BY SMTT(20), <3>1, <3>3, <3>4 DEF Offsets, nullptr
        <3>12. Shape'
            BY <2>1, <3>3, <3>5, <3>7, <3>8, <3>11 DEF Shape
        <3>13. IInv'
            BY <2>1, <3>6, <3>9, <3>10, <3>12, MatchesChain
        <3> QED
            BY <1>2, <2>1, <3>3, <3>13
    <2> QED
        BY <2>2, <2>3
<1> QED
    BY <1>1, <1>2
-----------------------------------------------------------------------------
(* What occupied says, and where an index leads *)

LEMMA NodeOf ==
    ASSUME NEW n \in Int, NEW p \in Int
    PROVE  /\ n * kBlockSize \in Int
           /\ (n + 1) * kBlockSize = n * kBlockSize + kBlockSize
           /\ p \div kBlockSize = n <=> n * kBlockSize <= p /\ p < n * kBlockSize + kBlockSize
<1>1. n * kBlockSize \in Int /\ (n + 1) * kBlockSize = n * kBlockSize + kBlockSize
    BY BlockAssumption
<1>2. ASSUME p \div kBlockSize = n
      PROVE  n * kBlockSize <= p /\ p < n * kBlockSize + kBlockSize
    BY <1>1, <1>2, PlaceOf, BlockAssumption DEF Offsets
<1>3. ASSUME n * kBlockSize <= p, p < n * kBlockSize + kBlockSize
      PROVE  p \div kBlockSize = n
    <2>1. PICK o \in Offsets : p = n * kBlockSize + o
        <3>1. p - n * kBlockSize \in Offsets
            BY <1>1, <1>3, BlockAssumption DEF Offsets
        <3>2. p = n * kBlockSize + (p - n * kBlockSize)
            BY <1>1
        <3> QED
            BY <3>1, <3>2
    <2> QED
        BY <2>1, PlaceDivMod
<1> QED
    BY <1>1, <1>2, <1>3

LEMMA BlocksAscend ==
    ASSUME NEW n \in Int, NEW m \in Int, n < m
    PROVE  n * kBlockSize + kBlockSize <= m * kBlockSize
BY BlockAssumption

\* The first and the last place of an element in a node.
FirstIn(n) == IF n = begin.node THEN Place(begin) ELSE n * kBlockSize

LastIn(n) == IF n = end.node THEN Place(end) ELSE n * kBlockSize + kBlockSize - 1

\* The nodes from begin_ to end_ hold a run of elements each, the others none.
LEMMA NodeInterval ==
    ASSUME IInv, ~Empty, NEW n \in begin.node..end.node
    PROVE  /\ FirstIn(n) \in Int /\ LastIn(n) \in Int /\ FirstIn(n) <= LastIn(n)
           /\ InNode(n) = FirstIn(n)..LastIn(n)
           /\ n \in head..tail /\ nodes[n].occupied = LastIn(n) - FirstIn(n) + 1
<1> DEFINE b == Place(begin)
           e == Place(end)
           k == n * kBlockSize
<1>1. /\ b \in Int /\ e \in Int /\ b <= e
      /\ begin.node \in Int /\ end.node \in Int
      /\ b \div kBlockSize = begin.node /\ e \div kBlockSize = end.node
      /\ Live = b..e
    BY Ends
<1>2. /\ begin.node \in head..tail /\ end.node \in head..tail
      /\ head \in Int /\ tail \in Int
    BY DEF IInv, TypeOK, ChainInv
<1>3. n \in head..tail /\ n \in Int
    BY <1>1, <1>2
<1>4. k \in Int /\ kBlockSize \in Nat /\ kBlockSize > 0
    BY <1>3, NodeOf, BlockAssumption
<1> HIDE DEF b, e, k
<1>5. n = begin.node => k <= b /\ b < k + kBlockSize
    BY Zenon, <1>1, NodeOf DEF k
<1>6. n # begin.node => b < k
    <2>1. b < begin.node * kBlockSize + kBlockSize /\ begin.node * kBlockSize \in Int
        BY Zenon, <1>1, NodeOf
    <2>2. n # begin.node => begin.node * kBlockSize + kBlockSize <= k
        BY <1>1, <1>3, BlocksAscend DEF k
    <2> QED
        BY <1>1, <1>4, <2>1, <2>2
<1>7. n = end.node => k <= e /\ e < k + kBlockSize
    BY Zenon, <1>1, NodeOf DEF k
<1>8. n # end.node => k + kBlockSize <= e
    <2>1. end.node * kBlockSize <= e /\ end.node * kBlockSize \in Int
        BY Zenon, <1>1, NodeOf
    <2>2. n # end.node => k + kBlockSize <= end.node * kBlockSize
        BY <1>1, <1>3, BlocksAscend DEF k
    <2> QED
        BY <1>1, <1>4, <2>1, <2>2
<1>9. /\ FirstIn(n) = IF n = begin.node THEN b ELSE k
      /\ LastIn(n) = IF n = end.node THEN e ELSE k + kBlockSize - 1
    BY DEF FirstIn, LastIn, b, e, k
<1>10. FirstIn(n) \in Int /\ LastIn(n) \in Int /\ FirstIn(n) <= LastIn(n)
    BY <1>1, <1>4, <1>5, <1>6, <1>7, <1>8, <1>9
<1>11. InNode(n) = FirstIn(n)..LastIn(n)
    <2>1. ASSUME NEW p \in Int
          PROVE  p \in InNode(n) <=> b <= p /\ p <= e /\ k <= p /\ p < k + kBlockSize
        <3>1. p \in InNode(n) <=> p \in b..e /\ p \div kBlockSize = n
            BY <1>1 DEF InNode
        <3>2. p \div kBlockSize = n <=> k <= p /\ p < k + kBlockSize
            BY SMTT(20), <1>3, NodeOf DEF k
        <3> QED
            BY <1>1, <3>1, <3>2
    <2>2. ASSUME NEW p \in Int PROVE p \in InNode(n) <=> p \in FirstIn(n)..LastIn(n)
        BY <1>1, <1>4, <1>5, <1>6, <1>7, <1>8, <1>9, <2>1
    <2>3. InNode(n) \subseteq Int
        BY <1>1 DEF InNode
    <2> DEFINE run == FirstIn(n)..LastIn(n)
    <2>4. run \subseteq Int
        BY <1>10
    <2>5. ASSUME NEW p \in Int PROVE p \in InNode(n) <=> p \in run
        BY <2>2
    <2> HIDE DEF run
    <2>6. InNode(n) = run
        BY Zenon, <2>3, <2>4, <2>5
    <2> QED
        BY <2>6 DEF run
<1>12. nodes[n].occupied = LastIn(n) - FirstIn(n) + 1
    <2>1. nodes[n].occupied = Cardinality(InNode(n))
        BY <1>3 DEF IInv, ChainInv
    <2> QED
        BY <1>10, <1>11, <2>1, FS_Interval
<1> QED
    BY <1>3, <1>10, <1>11, <1>12

LEMMA OtherNodes ==
    ASSUME IInv, ~Empty, NEW n \in head..tail, n \notin begin.node..end.node
    PROVE  nodes[n].occupied = 0
<1>1. ASSUME NEW p \in Live PROVE p \div kBlockSize # n
    <2>1. p \in Int /\ Place(begin) <= p /\ p <= Place(end)
        BY Ends
    <2>2. /\ p \div kBlockSize \in Int
          /\ begin.node <= p \div kBlockSize /\ p \div kBlockSize <= end.node
        BY <2>1, Ends, NodesAscend, PlaceOf
    <2> QED
        BY <2>2, Ends
<1>2. InNode(n) = {}
    BY <1>1 DEF InNode
<1> QED
    BY Zenon, <1>2, FS_EmptySet DEF IInv, ChainInv

\* NodeAtIndex finds the idx-th element, wherever begin_ is in its block.
LEMMA IndexedPlace ==
    ASSUME IInv, ~Empty, NEW idx \in 0..(len - 1)
    PROVE  /\ NodeAtIndex(idx).node \in head..tail /\ NodeAtIndex(idx).ptr \in Offsets
           /\ Place(NodeAtIndex(idx)) = Place(begin) + idx
           /\ Place(begin) + idx \in Live
<1> DEFINE b == Place(begin)
           e == Place(end)
           k == begin.node * kBlockSize
           at == NodeAtIndex(idx)
           diff == idx - nodes[begin.node].occupied
<1>1. /\ b \in Int /\ e \in Int /\ b <= e
      /\ begin.node \in Int /\ end.node \in Int /\ begin.node <= end.node
      /\ begin.ptr \in Offsets /\ b \div kBlockSize = begin.node
      /\ len = e - b + 1 /\ Live = b..e
    BY Ends
<1>2. begin.node \in begin.node..end.node
    BY <1>1
<1>3. /\ FirstIn(begin.node) = b
      /\ LastIn(begin.node) \in Int /\ nodes[begin.node].occupied = LastIn(begin.node) - b + 1
      /\ b <= LastIn(begin.node)
    BY <1>2, NodeInterval DEF FirstIn
<1>4. /\ k \in Int /\ kBlockSize \in Nat /\ kBlockSize > 0 /\ b = k + begin.ptr
      /\ k <= b /\ b < k + kBlockSize /\ begin.ptr \in Int
      /\ (begin.node + 1) * kBlockSize = k + kBlockSize
    <2>1. k \in Int /\ (begin.node + 1) * kBlockSize = k + kBlockSize
        BY Zenon, <1>1, NodeOf
    <2>2. k <= b /\ b < k + kBlockSize
        BY Zenon, <1>1, NodeOf
    <2>3. b = k + begin.ptr
        BY DEF Place
    <2>4. begin.ptr \in Int
        BY <1>1 DEF Offsets
    <2>5. kBlockSize \in Nat /\ kBlockSize > 0
        BY BlockAssumption
    <2> HIDE DEF b, k
    <2> QED
        BY Zenon, <2>1, <2>2, <2>3, <2>4, <2>5
<1>5. b + idx \in Live /\ idx \in Int /\ idx >= 0
    BY <1>1
<1>6. /\ b \in Int /\ k \in Int /\ kBlockSize \in Int
       /\ b = k + begin.ptr /\ begin.ptr \in Int /\ 0 <= begin.ptr
    <2>1. 0 <= begin.ptr
        BY <1>1 DEF Offsets
    <2> HIDE DEF b, k
    <2> QED
        BY <1>1, <1>4, <2>1
<1> DEFINE last == LastIn(begin.node)
<1>7. /\ last \in Int /\ diff \in Int /\ diff = b + idx - last - 1
    BY <1>1, <1>3, <1>5
<1>8. CASE diff < 0
    <2>1. at = [node |-> begin.node, ptr |-> begin.ptr + idx]
        BY <1>8 DEF NodeAtIndex
    <2>2. last < k + kBlockSize
        <3>1. last = IF begin.node = end.node THEN e ELSE k + kBlockSize - 1
            BY DEF LastIn
        <3>2. begin.node = end.node => e < k + kBlockSize
            BY Zenon, <1>1, Ends, NodeOf
        <3> QED
            BY <1>4, <3>1, <3>2
    <2>3. begin.ptr + idx \in Offsets
        <3>1. b + idx <= last
            <4> HIDE DEF b, diff, last
            <4> QED
                BY <1>1, <1>5, <1>7, <1>8
        <3>2. begin.ptr + idx \in Int /\ 0 <= begin.ptr + idx /\ begin.ptr + idx < kBlockSize
            <4> HIDE DEF b, k, diff, last
            <4> QED
                BY <1>5, <1>6, <1>7, <2>2, <3>1
        <3> QED
            BY <1>4, <3>2 DEF Offsets
    <2>4. Place(at) = k + (begin.ptr + idx)
        BY <2>1 DEF Place
    <2>5. Place(at) = b + idx
        <3> HIDE DEF b, k, at
        <3> QED
            BY <1>4, <1>5, <2>4
    <2>6. at.node \in head..tail
        BY <1>2, <2>1, NodeInterval
    <2> QED
        BY <1>5, <2>1, <2>3, <2>5, <2>6
<1>9. CASE ~(diff < 0)
    <2>1. at = [node |-> begin.node + 1 + diff \div kBlockSize, ptr |-> diff % kBlockSize]
        BY <1>9 DEF NodeAtIndex
    <2>2. last = k + kBlockSize - 1
        <3>1. begin.node = end.node => last = e
            BY DEF LastIn
        <3>2. last < b + idx /\ b + idx <= e
            <4> HIDE DEF b, e, diff, last
            <4> QED
                BY <1>1, <1>5, <1>7, <1>9
        <3> QED
            BY <1>1, <3>1, <3>2 DEF LastIn
    <2>3. PICK d \in Int : d = diff
        BY <1>7
    <2>4. PICK q \in Int : q = d \div kBlockSize
        BY PlaceOf
    <2>5. PICK r \in Offsets : r = d % kBlockSize
        BY PlaceOf
    <2>6. d = q * kBlockSize + r
        BY <2>4, <2>5, PlaceOf
    <2>7. at = [node |-> begin.node + 1 + q, ptr |-> r]
        BY <2>1, <2>3, <2>4, <2>5
    <2>8. Place(at) = (begin.node + 1 + q) * kBlockSize + r
        BY <2>7 DEF Place
    <2>9. q * kBlockSize \in Int /\ (begin.node + 1 + q) * kBlockSize = k + kBlockSize + q * kBlockSize
        <3>1. PICK n \in Int : n = begin.node
            BY <1>1
        <3>2. (n + 1 + q) * kBlockSize = n * kBlockSize + kBlockSize + q * kBlockSize
            BY BlockAssumption
        <3> QED
            BY <3>1, <3>2, BlockAssumption
    <2>10. Place(at) = b + idx
        <3>1. r \in Int
            BY DEF Offsets
        <3>2. PICK z \in Int : z = q * kBlockSize
            BY <2>9
        <3>3. d = z + r /\ Place(at) = (k + kBlockSize + z) + r
            BY <2>6, <2>8, <2>9, <3>2
        <3>4. d = b + idx - (k + kBlockSize - 1) - 1
            BY <1>7, <2>2, <2>3
        <3> HIDE DEF b, k, at
        <3> QED
            BY <1>5, <1>6, <3>1, <3>3, <3>4
    <2>11. at.node \in Int /\ at.ptr \in Offsets
        BY <1>1, <2>7
    <2>12. at.node \in head..tail
        BY <1>5, <2>10, <2>11, IteratorPlace, LivePlaces
    <2> QED
        BY <1>5, <2>10, <2>11, <2>12
<1> QED
    BY <1>8, <1>9

\* Replacing an element changes nothing else.
LEMMA SetKeeps ==
    ASSUME IInv, NEW i \in Int, NEW v \in Val, ListSetItemAtIndex(i, v)
    PROVE  /\ IInv'
           /\ InList(Normalised(i)) => \A p \in Live : CellIn(nodes', p) =
                 IF p = Place(begin) + Normalised(i) THEN v ELSE CellIn(nodes, p)
<1> DEFINE idx == Normalised(i)
           at == NodeAtIndex(idx)
<1>1. CASE ~InList(idx)
    <2>1. UNCHANGED <<chain, begin, end, len>>
        BY <1>1 DEF ListSetItemAtIndex, chain
    <2>2. IInv'
        BY Zenon, <2>1 DEF IInv, TypeOK, ChainInv, chain, Empty, Live, InNode, Place
    <2> QED
        BY <1>1, <2>2
<1>2. CASE InList(idx)
    <2>1. /\ nodes' = [nodes EXCEPT ![at.node].data[at.ptr] = v]
          /\ UNCHANGED <<head, tail, n_nodes, begin, end, len>>
        BY <1>2 DEF ListSetItemAtIndex
    <2>2. idx \in 0..(len - 1) /\ ~Empty
        BY <1>2 DEF InList, Empty, IInv, TypeOK
    <2>3. /\ at.node \in head..tail /\ at.ptr \in Offsets
          /\ Place(at) \in Live
        BY <2>2, IndexedPlace
    <2>4. TypeOK /\ Shape /\ Matches(nodes, head, tail, Live)
        BY ChainMatches
    <2>5. nodes \in [head..tail -> Node] /\ head \in Int /\ tail \in Int
        BY <2>4 DEF TypeOK
    <2> HIDE DEF at
    <2>6. ASSUME NEW n \in head..tail
          PROVE  /\ nodes'[n] \in Node
                 /\ nodes'[n].occupied = nodes[n].occupied
                 /\ \A o \in Offsets : nodes'[n].data[o] =
                       IF n = at.node /\ o = at.ptr THEN v ELSE nodes[n].data[o]
        <3>1. PICK nd \in Node : nd = nodes[n]
            BY <2>5
        <3>2. nd.occupied \in Int /\ nd.data \in [Offsets -> Val \cup {NoElem}]
            BY <3>1 DEF Node
        <3>3. CASE n # at.node
            BY <2>1, <2>5, <3>1, <3>3
        <3>4. CASE n = at.node
            <4>1. nodes'[n] = [nd EXCEPT !.data[at.ptr] = v]
                BY <2>1, <2>5, <3>1, <3>4
            <4>2. [nd EXCEPT !.data[at.ptr] = v] = NodeWith(nd, at.ptr, v, nd.occupied)
                BY <3>2 DEF Node, NodeWith
            <4>3. /\ NodeWith(nd, at.ptr, v, nd.occupied) \in Node
                  /\ NodeWith(nd, at.ptr, v, nd.occupied).occupied = nd.occupied
                  /\ \A o \in Offsets : NodeWith(nd, at.ptr, v, nd.occupied).data[o] =
                        IF o = at.ptr THEN v ELSE nd.data[o]
                BY <2>3, <3>2, NodeWithOne
            <4>4. nodes'[n] = NodeWith(nd, at.ptr, v, nd.occupied)
                BY <4>1, <4>2
            <4> QED
                BY <3>1, <3>4, <4>3, <4>4
        <3> QED
            BY <3>3, <3>4
    <2>7. nodes' \in [head..tail -> Node]
        BY Zenon, <2>1, <2>5, <2>6
    <2>8. Live' = Live
        BY <2>1 DEF Live, Empty, Place
    <2>9. Matches(nodes', head', tail', Live')
        <3>1. ASSUME NEW n \in head..tail
              PROVE  nodes'[n].occupied = Cardinality(PlacesIn(Live, n))
            BY <2>4, <2>5, <2>6, MatchesAt
        <3>2. ASSUME NEW n \in head..tail, NEW o \in Offsets
              PROVE  nodes'[n].data[o] \in IF n * kBlockSize + o \in Live THEN Val ELSE {NoElem}
            <4>1. nodes[n].data[o] \in IF n * kBlockSize + o \in Live THEN Val ELSE {NoElem}
                BY <2>4, <2>5, MatchesAt
            <4>2. n = at.node /\ o = at.ptr => n * kBlockSize + o \in Live
                BY <2>3 DEF Place
            <4> QED
                BY <2>6, <4>1, <4>2
        <3> QED
            BY <2>1, <2>8, <3>1, <3>2 DEF Matches
    <2>10. TypeOK'
        BY <2>1, <2>4, <2>7 DEF TypeOK
    <2>11. Shape'
        BY <2>1, <2>4 DEF Shape, Empty, Place
    <2>12. Place(at) = Place(begin) + idx
        BY <2>2, IndexedPlace DEF at
    <2>13. ASSUME NEW p \in Live
           PROVE  CellIn(nodes', p) = IF p = Place(at) THEN v ELSE CellIn(nodes, p)
        <3>1. p \in Int /\ p \div kBlockSize \in head..tail
            BY LivePlaces
        <3>2. PICK n \in head..tail : n = p \div kBlockSize
            BY <3>1
        <3>3. PICK o \in Offsets : o = p % kBlockSize
            BY <3>1, PlaceOf
        <3>4. p = n * kBlockSize + o
            BY <3>1, <3>2, <3>3, PlaceOf
        <3>5. at.node \in Int
            BY <2>3, <2>5
        <3>6. p = Place(at) <=> n = at.node /\ o = at.ptr
            BY <2>3, <3>2, <3>3, <3>4, <3>5, IteratorPlace DEF Place
        <3> QED
            BY <2>6, <3>2, <3>3, <3>6 DEF CellIn
    <2> QED
        BY <2>9, <2>10, <2>11, <2>12, <2>13, MatchesChain
<1> QED
    BY <1>1, <1>2

\* FreeRedundantNodes never frees a node that holds an element, nor, when it
\* returns, the node of begin_ or of end_.
LEMMA FreeKeeps ==
    ASSUME IInv, ~NothingStopsFree, Free
    PROVE  /\ IInv' /\ UNCHANGED <<begin, end, len, ret>>
           /\ \A p \in Live : nodes'[p \div kBlockSize] = nodes[p \div kBlockSize]
<1> DEFINE H == {n \in head..tail : nodes[n].occupied # 0 \/ n = begin.node - 1}
           T == {n \in head..tail : nodes[n].occupied # 0 \/ n = end.node + 1}
<1>1. /\ head' = Min(H) /\ tail' = Max(T)
      /\ nodes' = [n \in head'..tail' |-> nodes[n]]
      /\ n_nodes' = n_nodes - (head' - head) - (tail - tail')
      /\ UNCHANGED <<begin, end, len, ret>>
    BY DEF Free
<1>2. TypeOK /\ Shape /\ Matches(nodes, head, tail, Live)
    BY ChainMatches
<1>3. head \in Int /\ tail \in Int /\ nodes \in [head..tail -> Node] /\ n_nodes = tail - head + 1
    BY <1>2 DEF TypeOK, Shape
<1>4. /\ begin.node \in head..tail /\ end.node \in head..tail
      /\ Empty => begin.node = end.node /\ begin.node # head /\ end.node # tail
    BY <1>2 DEF Shape, NothingStopsFree
<1>4a. begin.node <= end.node
    BY <1>3, <1>4, Ends
<1>5. PICK x \in H, y \in T : x <= begin.node /\ end.node <= y
    <2>1. CASE ~Empty
        <3>1. begin.node \in Int /\ end.node \in Int /\ begin.node <= end.node
            BY <2>1, Ends
        <3>2. ASSUME NEW n \in begin.node..end.node PROVE n \in head..tail /\ nodes[n].occupied # 0
            BY <2>1, NodeInterval
        <3>3. begin.node \in H /\ end.node \in T
            BY <3>1, <3>2
        <3> QED
            BY <3>1, <3>3
    <2>2. CASE Empty
        <3>1. begin.node - 1 \in H /\ end.node + 1 \in T
            BY <1>3, <1>4, <2>2
        <3> QED
            BY <1>3, <1>4, <3>1
    <2> QED
        BY <2>1, <2>2
<1>6. head' \in H /\ head' <= begin.node
    <2>1. H \in SUBSET Int /\ H # {} /\ \A z \in H : head <= z
        BY <1>3, <1>5
    <2>2. x \in Int
        BY <1>3
    <2> HIDE DEF H
    <2>3. head' \in H /\ head' <= x
        BY Zenon, <1>1, <1>3, <1>5, <2>1, LeastOf
    <2> QED
        BY <1>3, <1>4, <1>5, <2>1, <2>2, <2>3
<1>7. tail' \in T /\ end.node <= tail'
    <2>1. T \in SUBSET Int /\ T # {} /\ \A z \in T : z <= tail
        BY <1>3, <1>5
    <2>2. y \in Int
        BY <1>3
    <2> HIDE DEF T
    <2>3. tail' \in T /\ y <= tail'
        BY Zenon, <1>1, <1>3, <1>5, <2>1, GreatestOf
    <2> QED
        BY <1>3, <1>4, <1>5, <2>1, <2>2, <2>3
<1>8. head' \in head..tail /\ tail' \in head..tail
    BY <1>6, <1>7
<1> HIDE DEF H, T
<1>9. /\ head' \in Int /\ tail' \in Int /\ n_nodes' \in Int /\ n_nodes' = tail' - head' + 1
      /\ begin.node \in head'..tail' /\ end.node \in head'..tail'
      /\ \A n \in head'..tail' : n \in head..tail /\ nodes'[n] = nodes[n]
    <2>1. head' \in Int /\ tail' \in Int /\ head <= head' /\ tail' <= tail
        BY <1>3, <1>8
    <2>2. n_nodes' \in Int /\ n_nodes' = tail' - head' + 1
        BY SMTT(20), <1>1, <1>3, <2>1
    <2>3. begin.node \in head'..tail' /\ end.node \in head'..tail'
        BY SMTT(20), <1>3, <1>4, <1>4a, <1>6, <1>7, <2>1
    <2>4. ASSUME NEW n \in head'..tail' PROVE n \in head..tail /\ nodes'[n] = nodes[n]
        BY SMTT(20), <1>1, <1>3, <2>1
    <2> QED
        BY <2>1, <2>2, <2>3, <2>4
<1>10. Live' = Live /\ Empty' = Empty /\ Place(begin)' = Place(begin) /\ Place(end)' = Place(end)
    BY <1>1 DEF Live, Empty, Place
<1>11. Matches(nodes', head', tail', Live')
    <2>1. ASSUME NEW n \in head'..tail'
          PROVE  /\ nodes'[n].occupied = Cardinality(PlacesIn(Live, n))
                 /\ \A o \in Offsets :
                       nodes'[n].data[o] \in IF n * kBlockSize + o \in Live THEN Val ELSE {NoElem}
        <3>1. n \in head..tail /\ nodes'[n] = nodes[n]
            BY <1>9
        <3>2. /\ nodes[n].occupied = Cardinality(PlacesIn(Live, n))
              /\ \A o \in Offsets :
                    nodes[n].data[o] \in IF n * kBlockSize + o \in Live THEN Val ELSE {NoElem}
            BY <1>2, <1>3, <3>1, MatchesAt
        <3> QED
            BY <3>1, <3>2
    <2> QED
        BY <1>10, <2>1 DEF Matches
<1>12. TypeOK'
    BY Zenon, <1>1, <1>2, <1>3, <1>9 DEF TypeOK
<1>13. Shape'
    BY <1>1, <1>2, <1>4, <1>9, <1>10 DEF Shape
<1>14. ASSUME NEW p \in Live PROVE p \div kBlockSize \in head'..tail'
    <2>0. ~Empty
        BY <1>14 DEF Live
    <2>1. p \in Int /\ Place(begin) <= p /\ p <= Place(end)
        BY <2>0, Ends
    <2>2. /\ p \div kBlockSize \in Int
          /\ begin.node <= p \div kBlockSize /\ p \div kBlockSize <= end.node
        BY <2>0, <2>1, Ends, NodesAscend, PlaceOf
    <2> QED
        BY SMTT(20), <1>3, <1>4, <1>9, <2>2
<1> QED
    BY <1>1, <1>9, <1>11, <1>12, <1>13, <1>14, MatchesChain

LEMMA ChainStep == IInv /\ [Next]_vars => IInv'
<1> SUFFICES ASSUME IInv, [Next]_vars PROVE IInv'
    OBVIOUS
<1>1. ASSUME UNCHANGED <<chain, begin, end, len>> PROVE IInv'
    BY Zenon, <1>1 DEF IInv, TypeOK, ChainInv, chain, Empty, Live, InNode, Place
<1>2. ASSUME NEW v \in Val, PushLeft(v) PROVE IInv'
    BY <1>2, PushLeftKeeps
<1>3. ASSUME NEW v \in Val, PushRight(v) PROVE IInv'
    BY <1>3, PushRightKeeps
<1>4. ASSUME NEW v \in Val, NEW i \in Index, ListSetItemAtIndex(i, v) PROVE IInv'
    BY <1>4, SetKeeps, IndexAssumption
<1>5. CASE PopLeft
    BY <1>5, PopLeftKeeps
<1>6. CASE PopRight
    BY <1>6, PopRightKeeps
<1>7. ASSUME NEW i \in Index, ListItemAtIndex(i) PROVE IInv'
    BY <1>1, <1>7 DEF ListItemAtIndex
<1>8. ASSUME NEW b \in Index, NEW e \in Index, ListRange(b, e) PROVE IInv'
    BY <1>1, <1>8 DEF ListRange
<1>9. CASE RangeAll
    BY <1>1, <1>9 DEF RangeAll
<1>10. CASE FreeRedundantNodes
    BY <1>1, <1>10, FreeKeeps DEF FreeRedundantNodes
<1>11. CASE UNCHANGED vars
    BY <1>1, <1>11 DEF vars, chain
<1> QED
    BY <1>2, <1>3, <1>4, <1>5, <1>6, <1>7, <1>8, <1>9, <1>10, <1>11 DEF Next

LEMMA ChainAlways == Spec => []IInv
BY ChainInitially, ChainStep, PTL DEF Spec

\* begin_ and end_ delimit exactly len_ elements inside the chain, and every
\* node's occupied is the number of them it holds (what operator[], the walks
\* and FreeRedundantNodes rely on), after any calls of the list operations that
\* return; FreeRedundantNodes may find the list emptied.
THEOREM ChainIsConsistent == Spec => []ChainInv
<1>1. IInv => ChainInv
    BY DEF IInv
<1> QED
    BY ChainAlways, <1>1, PTL
-----------------------------------------------------------------------------
(* The chain implements the sequence of its elements *)

ContentsOK ==
    /\ Contents \in Seq(Val) /\ Len(Contents) = len
    /\ \A i \in 1..len : Contents[i] = CellIn(nodes, Place(begin) + i - 1)

\* A live place holds one of Val.
LEMMA LiveCell ==
    ASSUME IInv, NEW p \in Live
    PROVE  CellIn(nodes, p) \in Val
<1>1. p \in Int /\ p \div kBlockSize \in head..tail
    BY LivePlaces
<1>2. PICK n \in head..tail : n = p \div kBlockSize
    BY <1>1
<1>3. PICK o \in Offsets : o = p % kBlockSize
    BY <1>1, PlaceOf
<1>4. p = n * kBlockSize + o
    BY <1>1, <1>2, <1>3, PlaceOf
<1>5. nodes[n].data[o] \in IF n * kBlockSize + o \in Live THEN Val ELSE {NoElem}
    BY ChainMatches, MatchesAt DEF TypeOK
<1> QED
    BY <1>2, <1>3, <1>4, <1>5 DEF CellIn

\* Sequences as functions, and the pieces of a sequence.
LEMMA FunctionsAreSeq ==
    ASSUME NEW X, NEW n \in Nat, NEW f \in [1..n -> X]
    PROVE  f \in Seq(X) /\ Len(f) = n
OBVIOUS

LEMMA ElementOfSeq ==
    ASSUME NEW X, NEW s \in Seq(X), NEW i \in 1..Len(s)
    PROVE  s[i] \in X
OBVIOUS

LEMMA EmptySeq ==
    ASSUME NEW X, NEW s \in Seq(X)
    PROVE  Len(s) = 0 <=> s = <<>>
OBVIOUS

LEMMA ExceptSeq ==
    ASSUME NEW X, NEW s \in Seq(X), NEW i \in 1..Len(s), NEW e \in X
    PROVE  /\ [s EXCEPT ![i] = e] \in Seq(X) /\ Len([s EXCEPT ![i] = e]) = Len(s)
           /\ \A j \in 1..Len(s) : [s EXCEPT ![i] = e][j] = IF j = i THEN e ELSE s[j]
OBVIOUS

LEMMA SeqEqual ==
    ASSUME NEW X, NEW s \in Seq(X), NEW r \in Seq(X),
           Len(s) = Len(r), \A i \in 1..Len(s) : s[i] = r[i]
    PROVE  s = r
OBVIOUS

LEMMA ConcatProperties ==
    ASSUME NEW X, NEW s \in Seq(X), NEW r \in Seq(X)
    PROVE  /\ s \o r \in Seq(X) /\ Len(s \o r) = Len(s) + Len(r)
           /\ \A i \in 1..(Len(s) + Len(r)) :
                 (s \o r)[i] = IF i <= Len(s) THEN s[i] ELSE r[i - Len(s)]
OBVIOUS

LEMMA SubSeqProperties ==
    ASSUME NEW X, NEW s \in Seq(X), NEW m \in Int, NEW n \in Int, 1 <= m, n <= Len(s), m <= n + 1
    PROVE  /\ SubSeq(s, m, n) \in Seq(X) /\ Len(SubSeq(s, m, n)) = n - m + 1
           /\ \A i \in 1..(n - m + 1) : SubSeq(s, m, n)[i] = s[m + i - 1]
OBVIOUS

LEMMA SubSeqEmpty ==
    ASSUME NEW s, NEW m \in Int, NEW n \in Int, n < m
    PROVE  SubSeq(s, m, n) = <<>>
OBVIOUS

LEMMA HeadTailProperties ==
    ASSUME NEW X, NEW s \in Seq(X), s # <<>>
    PROVE  /\ Tail(s) \in Seq(X) /\ Len(Tail(s)) = Len(s) - 1
           /\ \A i \in 1..(Len(s) - 1) : Tail(s)[i] = s[i + 1]
OBVIOUS

LEMMA SubSeqFull ==
    ASSUME NEW X, NEW s \in Seq(X)
    PROVE  SubSeq(s, 1, Len(s)) = s
OBVIOUS

LEMMA ConcatAdjacentSubSeq ==
    ASSUME NEW X, NEW s \in Seq(X), NEW m \in 1..(Len(s) + 1), NEW k \in (m - 1)..Len(s),
           NEW n \in k..Len(s)
    PROVE  SubSeq(s, m, k) \o SubSeq(s, k + 1, n) = SubSeq(s, m, n)
OBVIOUS

LEMMA ContentsSeq == IInv => ContentsOK
<1> SUFFICES ASSUME IInv PROVE ContentsOK
    OBVIOUS
<1>1. len \in Nat
    BY DEF IInv, TypeOK
<1>2. ASSUME NEW i \in 1..len
      PROVE  Place(begin) + i - 1 \in Live
    BY <1>1, Ends DEF Empty
<1>3. Contents = [i \in 1..len |-> CellIn(nodes, Place(begin) + i - 1)]
    BY DEF Contents, CellIn
<1>4. ASSUME NEW i \in 1..len PROVE CellIn(nodes, Place(begin) + i - 1) \in Val
    BY <1>2, LiveCell
<1>5. Contents \in [1..len -> Val]
    BY <1>3, <1>4
<1>6. Contents \in Seq(Val) /\ Len(Contents) = len
    <2> DEFINE c == Contents
    <2> HIDE DEF c
    <2>1. c \in [1..len -> Val]
        BY <1>5 DEF c
    <2>2. c \in Seq(Val) /\ Len(c) = len
        BY <1>1, <2>1, FunctionsAreSeq
    <2> QED
        BY <2>2 DEF c
<1> QED
    BY Zenon, <1>3, <1>6 DEF ContentsOK

\* Sequences put together from a sequence and an element.
LEMMA Prepended ==
    ASSUME NEW X, NEW s \in Seq(X), NEW v \in X, NEW f \in Seq(X), Len(f) = Len(s) + 1,
           f[1] = v, \A i \in 1..Len(s) : f[i + 1] = s[i]
    PROVE  f = <<v>> \o s
<1>1. <<v>> \in Seq(X) /\ Len(<<v>>) = 1 /\ <<v>>[1] = v
    OBVIOUS
<1>2. /\ <<v>> \o s \in Seq(X) /\ Len(<<v>> \o s) = 1 + Len(s)
      /\ \A i \in 1..(1 + Len(s)) : (<<v>> \o s)[i] = IF i <= 1 THEN <<v>>[i] ELSE s[i - 1]
    BY <1>1, ConcatProperties
<1>3. ASSUME NEW i \in 1..Len(f) PROVE f[i] = (<<v>> \o s)[i]
    <2>1. CASE i = 1
        BY <1>1, <1>2, <2>1
    <2>2. CASE i # 1
        <3>1. i - 1 \in 1..Len(s) /\ (i - 1) + 1 = i
            BY <2>2
        <3>2. f[i] = s[i - 1]
            BY <3>1
        <3> QED
            BY <1>2, <2>2, <3>2
    <2> QED
        BY <2>1, <2>2
<1> QED
    BY <1>2, <1>3, SeqEqual

LEMMA Appended ==
    ASSUME NEW X, NEW s \in Seq(X), NEW v \in X, NEW f \in Seq(X), Len(f) = Len(s) + 1,
           f[Len(f)] = v, \A i \in 1..Len(s) : f[i] = s[i]
    PROVE  f = s \o <<v>>
<1>1. <<v>> \in Seq(X) /\ Len(<<v>>) = 1 /\ <<v>>[1] = v
    OBVIOUS
<1>2. /\ s \o <<v>> \in Seq(X) /\ Len(s \o <<v>>) = Len(s) + 1
      /\ \A i \in 1..(Len(s) + 1) :
            (s \o <<v>>)[i] = IF i <= Len(s) THEN s[i] ELSE <<v>>[i - Len(s)]
    BY <1>1, ConcatProperties
<1>3. ASSUME NEW i \in 1..Len(f) PROVE f[i] = (s \o <<v>>)[i]
    <2>1. CASE i <= Len(s)
        BY <1>2, <2>1
    <2>2. CASE i = Len(s) + 1
        BY <1>1, <1>2, <2>2
    <2> QED
        BY <2>1, <2>2
<1> QED
    BY <1>2, <1>3, SeqEqual

LEMMA SubSeqIs ==
    ASSUME NEW X, NEW s \in Seq(X), NEW m \in Int, NEW n \in Int, 1 <= m, n <= Len(s), m <= n + 1,
           NEW f \in Seq(X), Len(f) = n - m + 1, \A i \in 1..(n - m + 1) : f[i] = s[m + i - 1]
    PROVE  f = SubSeq(s, m, n)
<1>1. /\ SubSeq(s, m, n) \in Seq(X) /\ Len(SubSeq(s, m, n)) = n - m + 1
      /\ \A i \in 1..(n - m + 1) : SubSeq(s, m, n)[i] = s[m + i - 1]
    <2>1. \A i \in m..n : s[i] \in X
        BY ElementOfSeq
    <2> QED
        BY <2>1, SubSeqProperties
<1> QED
    BY <1>1, SeqEqual

LEMMA PushLeftRefines ==
    ASSUME IInv, ContentsOK, ContentsOK', NEW v \in Val, PushLeft(v)
    PROVE  Abstract!PushLeft(v)
<1> DEFINE old == Contents
           new == Contents'
           b == Place(begin)
           c == Place(begin)'
<1>1. /\ nodes' = Written(head', tail', begin', v) /\ head' <= head /\ tail' = tail
      /\ begin'.node \in head'..tail' /\ begin'.ptr \in Offsets /\ Place(begin') \notin Live
      /\ ~Empty => c = b - 1 /\ head' \in Int
      /\ TypeOK' /\ len' = len + 1 /\ ret' = <<"Push", len'>>
    BY PushLeftKeeps DEF PushLeft, IInv, TypeOK
<1>2. TypeOK /\ Matches(nodes, head, tail, Live) /\ len \in Nat /\ head \in Int /\ tail \in Int
    BY ChainMatches DEF TypeOK
<1>3. /\ Live \in SUBSET Int /\ IsFiniteSet(Live)
      /\ \A p \in Live : p \div kBlockSize \in head..tail
    BY LivePlaces
<1>4. head' \in Int /\ tail' \in Int /\ tail <= tail' /\ c = Place(begin')
    BY <1>1, <1>2 DEF TypeOK, Place
<1>5. /\ CellIn(nodes', c) = v
      /\ \A p \in Live : CellIn(nodes', p) = CellIn(nodes, p)
    <2>1. PICK at : at = begin'
        OBVIOUS
    <2>2. PICK h \in Int : h = head'
        BY <1>4
    <2>3. PICK t \in Int : t = tail'
        BY <1>4
    <2>4. /\ h <= head /\ tail <= t /\ at.node \in h..t /\ at.ptr \in Offsets
          /\ Place(at) \notin Live
        BY <1>1, <1>2, <1>4, <2>1, <2>2, <2>3
    <2>5. /\ CellIn(Written(h, t, at, v), Place(at)) = v
          /\ \A p \in Live : CellIn(Written(h, t, at, v), p) = CellIn(nodes, p)
        <3>1. PICK live \in SUBSET Int : live = Live
            BY <1>3
        <3>2. /\ IsFiniteSet(live) /\ \A p \in live : p \div kBlockSize \in head..tail
              /\ Matches(nodes, head, tail, live) /\ Place(at) \notin live
            BY <1>2, <1>3, <2>4, <3>1
        <3>3. GainsAt(Written(h, t, at, v), h, t, live, Place(at), v)
            BY <1>2, <2>4, <3>2, WrittenMatches
        <3> QED
            BY <3>1, <3>3 DEF GainsAt
    <2> QED
        BY <1>1, <1>4, <2>1, <2>2, <2>3, <2>5
<1>6. /\ old \in Seq(Val) /\ Len(old) = len /\ new \in Seq(Val) /\ Len(new) = len + 1
      /\ \A i \in 1..len : old[i] = CellIn(nodes, b + i - 1)
      /\ \A i \in 1..(len + 1) : new[i] = CellIn(nodes', c + i - 1)
    BY <1>1 DEF ContentsOK
<1>7. c \in Int
    BY <1>1, <1>4, IteratorPlace
<1>8. new[1] = v
    <2>1. 1 \in 1..(len + 1) /\ c + 1 - 1 = c
        BY <1>2, <1>7
    <2> HIDE DEF new, c
    <2> QED
        BY <1>5, <1>6, <2>1
<1>9. ASSUME NEW i \in 1..len PROVE new[i + 1] = old[i]
    <2>1. b \in Int /\ b + i - 1 \in Live /\ c = b - 1
        BY <1>1, <1>2, Ends DEF Empty
    <2>2. i + 1 \in 1..(len + 1) /\ c + (i + 1) - 1 = b + i - 1
        BY <1>2, <2>1
    <2> HIDE DEF new, old, b, c
    <2>3. new[i + 1] = CellIn(nodes', b + i - 1)
        BY <1>6, <2>2
    <2> QED
        BY <1>5, <1>6, <2>1, <2>3
<1>10. new = <<v>> \o old
    <2> HIDE DEF new, old
    <2> QED
        BY <1>6, <1>8, <1>9, Prepended
<1> QED
    BY SMTT(20), <1>1, <1>6, <1>10 DEF Abstract!PushLeft

LEMMA PushRightRefines ==
    ASSUME IInv, ContentsOK, ContentsOK', NEW v \in Val, PushRight(v)
    PROVE  Abstract!PushRight(v)
<1> DEFINE old == Contents
           new == Contents'
           b == Place(begin)
           c == Place(begin)'
           d == Place(end)'
<1>1. /\ nodes' = Written(head', tail', end', v) /\ head' = head /\ tail <= tail'
      /\ end'.node \in head'..tail' /\ end'.ptr \in Offsets /\ Place(end') \notin Live
      /\ ~Empty => c = b /\ d = Place(end) + 1
      /\ Empty => c = d
      /\ TypeOK' /\ len' = len + 1 /\ ret' = <<"Push", len'>>
    BY PushRightKeeps DEF PushRight, IInv
<1>2. TypeOK /\ Matches(nodes, head, tail, Live) /\ len \in Nat /\ head \in Int /\ tail \in Int
    BY ChainMatches DEF TypeOK
<1>3. /\ Live \in SUBSET Int /\ IsFiniteSet(Live)
      /\ \A p \in Live : p \div kBlockSize \in head..tail
    BY LivePlaces
<1>4. head' \in Int /\ tail' \in Int /\ head' <= head /\ d = Place(end')
    BY <1>1, <1>2 DEF TypeOK, Place
<1>5. /\ CellIn(nodes', d) = v
      /\ \A p \in Live : CellIn(nodes', p) = CellIn(nodes, p)
    <2>1. PICK at : at = end'
        OBVIOUS
    <2>2. PICK h \in Int : h = head'
        BY <1>4
    <2>3. PICK t \in Int : t = tail'
        BY <1>4
    <2>4. /\ h <= head /\ tail <= t /\ at.node \in h..t /\ at.ptr \in Offsets
          /\ Place(at) \notin Live
        BY <1>1, <1>2, <1>4, <2>1, <2>2, <2>3
    <2>5. /\ CellIn(Written(h, t, at, v), Place(at)) = v
          /\ \A p \in Live : CellIn(Written(h, t, at, v), p) = CellIn(nodes, p)
        <3>1. PICK live \in SUBSET Int : live = Live
            BY <1>3
        <3>2. /\ IsFiniteSet(live) /\ \A p \in live : p \div kBlockSize \in head..tail
              /\ Matches(nodes, head, tail, live) /\ Place(at) \notin live
            BY <1>2, <1>3, <2>4, <3>1
        <3>3. GainsAt(Written(h, t, at, v), h, t, live, Place(at), v)
            BY <1>2, <2>4, <3>2, WrittenMatches
        <3> QED
            BY <3>1, <3>3 DEF GainsAt
    <2> QED
        BY <1>1, <1>4, <2>1, <2>2, <2>3, <2>5
<1>6. /\ old \in Seq(Val) /\ Len(old) = len /\ new \in Seq(Val) /\ Len(new) = len + 1
      /\ \A i \in 1..len : old[i] = CellIn(nodes, b + i - 1)
      /\ \A i \in 1..(len + 1) : new[i] = CellIn(nodes', c + i - 1)
    BY <1>1 DEF ContentsOK
<1>7. d \in Int
    BY <1>1, <1>4, IteratorPlace
<1>8. new[len + 1] = v
    <2>1. len + 1 \in 1..(len + 1)
        BY <1>2
    <2>2. c + (len + 1) - 1 = d
        <3>1. CASE Empty
            BY <1>1, <1>7, <3>1 DEF Empty
        <3>2. CASE ~Empty
            BY <1>1, <3>2, Ends
        <3> QED
            BY <3>1, <3>2
    <2> HIDE DEF new, c, d
    <2> QED
        BY <1>5, <1>6, <2>1, <2>2
<1>9. ASSUME NEW i \in 1..len PROVE new[i] = old[i]
    <2>1. b \in Int /\ b + i - 1 \in Live /\ c = b
        BY <1>1, <1>2, Ends DEF Empty
    <2>2. i \in 1..(len + 1)
        BY <1>2
    <2> HIDE DEF new, old, b, c
    <2> QED
        BY <1>5, <1>6, <2>1, <2>2
<1>10. new = old \o <<v>>
    <2> HIDE DEF new, old
    <2> QED
        BY Zenon, <1>6, <1>8, <1>9, Appended
<1> QED
    BY <1>1, <1>6, <1>10 DEF Abstract!PushRight

LEMMA PopLeftRefines ==
    ASSUME IInv, ContentsOK, ContentsOK', PopLeft
    PROVE  Abstract!PopLeft
<1> DEFINE old == Contents
           new == Contents'
           b == Place(begin)
           c == Place(begin)'
<1>1. /\ old \in Seq(Val) /\ Len(old) = len /\ new \in Seq(Val) /\ Len(new) = len'
      /\ \A i \in 1..len : old[i] = CellIn(nodes, b + i - 1)
      /\ \A i \in 1..len' : new[i] = CellIn(nodes', c + i - 1)
    BY DEF ContentsOK
<1>2. CASE Empty
    <2>1. len = 0 /\ len' = 0 /\ ret' = <<"Pop", NoElem>>
        BY <1>2, PopLeftKeeps DEF Empty, PopLeft, PopEmpty
    <2>2. old = <<>> /\ new = <<>>
        <3> HIDE DEF old, new
        <3> QED
            BY <1>1, <2>1, EmptySeq
    <2> QED
        BY <2>1, <2>2 DEF Abstract!PopLeft
<1>3. CASE ~Empty
    <2>1. /\ nodes' = Vacated(begin) /\ len' = len - 1
          /\ len' # 0 => c = b + 1
          /\ ret' = <<"Pop", nodes[begin.node].data[begin.ptr]>>
        BY <1>3, PopLeftKeeps
    <2>2. /\ b \in Int /\ Live = b..Place(end) /\ Place(end) \in Int /\ len = Place(end) - b + 1
          /\ begin.ptr \in Offsets /\ b <= Place(end)
        BY <1>3, Ends
    <2>3. TypeOK /\ Matches(nodes, head, tail, Live) /\ len \in Nat /\ begin.node \in head..tail
        BY ChainMatches DEF TypeOK, Shape
    <2>4. ASSUME NEW p \in Live, p # b PROVE CellIn(nodes', p) = CellIn(nodes, p)
        <3>1. PICK live \in SUBSET Int : live = Live
            BY LivePlaces
        <3>2. PICK at : at = begin
            OBVIOUS
        <3>3. /\ IsFiniteSet(live) /\ \A q \in live : q \div kBlockSize \in head..tail
              /\ Matches(nodes, head, tail, live)
              /\ at.node \in head..tail /\ at.ptr \in Offsets
            BY <2>2, <2>3, <3>1, <3>2, LivePlaces
        <3>4. Place(at) \in live /\ p \in live \ {Place(at)}
            BY <2>2, <2>4, <3>1, <3>2
        <3>5. CellIn(Vacated(at), p) = CellIn(nodes, p)
            BY Zenon, <2>3, <3>3, <3>4, VacatedMatches
        <3> QED
            BY <2>1, <3>2, <3>5
    <2>5. old # <<>> /\ len # 0
        <3> HIDE DEF old
        <3> QED
            BY <1>1, <1>3, EmptySeq DEF Empty
    <2>6. /\ Tail(old) \in Seq(Val) /\ Len(Tail(old)) = len - 1
          /\ \A i \in 1..(len - 1) : Tail(old)[i] = old[i + 1]
        <3> HIDE DEF old
        <3> QED
            BY <1>1, <2>5, HeadTailProperties
    <2>7. ASSUME NEW i \in 1..(len - 1) PROVE new[i] = old[i + 1]
        <3>1. i \in 1..len' /\ i + 1 \in 1..len /\ c = b + 1
            <4> HIDE DEF b, c
            <4>1. len' # 0
                BY <2>1, <2>3
            <4> QED
                BY <2>1, <2>3, <4>1
        <3>2. c + i - 1 = b + (i + 1) - 1 /\ b + (i + 1) - 1 \in Live /\ b + (i + 1) - 1 # b
            BY <2>2, <3>1
        <3> HIDE DEF old, new, b, c
        <3>3. new[i] = CellIn(nodes', b + (i + 1) - 1)
            BY <1>1, <3>1, <3>2
        <3> QED
            BY SMTT(20), <1>1, <2>4, <3>1, <3>2, <3>3
    <2>8. new = Tail(old)
        <3> HIDE DEF old, new
        <3>1. Len(new) = len - 1
            BY <1>1, <2>1
        <3>2. ASSUME NEW i \in 1..Len(new) PROVE new[i] = Tail(old)[i]
            BY <2>6, <2>7, <3>1
        <3> QED
            BY <1>1, <2>6, <3>1, <3>2, SeqEqual
    <2>9. old[1] = nodes[begin.node].data[begin.ptr]
        <3>1. 1 \in 1..len /\ b + 1 - 1 = b
            BY <2>2, <2>3, <2>5
        <3>2. CellIn(nodes, b) = nodes[begin.node].data[begin.ptr]
            BY <1>3, Ends DEF CellIn
        <3> HIDE DEF old, b
        <3> QED
            BY <1>1, <3>1, <3>2
    <2> QED
        BY <2>1, <2>5, <2>8, <2>9 DEF Abstract!PopLeft
<1> QED
    BY <1>2, <1>3

LEMMA PopRightRefines ==
    ASSUME IInv, ContentsOK, ContentsOK', PopRight
    PROVE  Abstract!PopRight
<1> DEFINE old == Contents
           new == Contents'
           b == Place(begin)
           c == Place(begin)'
           d == Place(end)
<1>1. /\ old \in Seq(Val) /\ Len(old) = len /\ new \in Seq(Val) /\ Len(new) = len'
      /\ \A i \in 1..len : old[i] = CellIn(nodes, b + i - 1)
      /\ \A i \in 1..len' : new[i] = CellIn(nodes', c + i - 1)
    BY DEF ContentsOK
<1>2. CASE Empty
    <2>1. len = 0 /\ len' = 0 /\ ret' = <<"Pop", NoElem>>
        BY <1>2, PopRightKeeps DEF Empty, PopRight, PopEmpty
    <2>2. old = <<>> /\ new = <<>>
        <3> HIDE DEF old, new
        <3> QED
            BY <1>1, <2>1, EmptySeq
    <2> QED
        BY <2>1, <2>2 DEF Abstract!PopRight
<1>3. CASE ~Empty
    <2>1. /\ nodes' = Vacated(end) /\ len' = len - 1
          /\ len' # 0 => c = b
          /\ ret' = <<"Pop", nodes[end.node].data[end.ptr]>>
        BY <1>3, PopRightKeeps DEF Place
    <2>2. /\ b \in Int /\ Live = b..d /\ d \in Int /\ len = d - b + 1
          /\ end.ptr \in Offsets /\ b <= d
        BY <1>3, Ends
    <2>3. TypeOK /\ Matches(nodes, head, tail, Live) /\ len \in Nat /\ end.node \in head..tail
        BY ChainMatches DEF TypeOK, Shape
    <2>4. ASSUME NEW p \in Live, p # d PROVE CellIn(nodes', p) = CellIn(nodes, p)
        <3>1. PICK live \in SUBSET Int : live = Live
            BY LivePlaces
        <3>2. PICK at : at = end
            OBVIOUS
        <3>3. /\ IsFiniteSet(live) /\ \A q \in live : q \div kBlockSize \in head..tail
              /\ Matches(nodes, head, tail, live)
              /\ at.node \in head..tail /\ at.ptr \in Offsets
            BY <2>2, <2>3, <3>1, <3>2, LivePlaces
        <3>4. Place(at) \in live /\ p \in live \ {Place(at)}
            BY <2>2, <2>4, <3>1, <3>2
        <3>5. CellIn(Vacated(at), p) = CellIn(nodes, p)
            BY Zenon, <2>3, <3>3, <3>4, VacatedMatches
        <3> QED
            BY <2>1, <3>2, <3>5
    <2>5. old # <<>> /\ len # 0
        <3> HIDE DEF old
        <3> QED
            BY <1>1, <1>3, EmptySeq DEF Empty
    <2>6. ASSUME NEW i \in 1..(len - 1) PROVE new[i] = old[1 + i - 1]
        <3>1. i \in 1..len' /\ i \in 1..len /\ c = b /\ 1 + i - 1 = i
            <4> HIDE DEF b, c
            <4>1. len' # 0
                BY <2>1, <2>3
            <4> QED
                BY <2>1, <2>3, <4>1
        <3>2. b + i - 1 \in Live /\ b + i - 1 # d
            BY <2>2, <3>1
        <3> HIDE DEF old, new, b, c, d
        <3> QED
            BY <1>1, <2>4, <3>1, <3>2
    <2>7. new = SubSeq(old, 1, len - 1)
        <3> HIDE DEF old, new
        <3>1. PICK n \in Int : n = len - 1
            BY <2>3
        <3>2. PICK m \in Int : m = 1
            OBVIOUS
        <3>3. /\ 1 <= m /\ n <= Len(old) /\ m <= n + 1 /\ Len(new) = n - m + 1
              /\ \A i \in 1..(n - m + 1) : new[i] = old[m + i - 1]
            <4>1. Len(new) = len - 1
                BY <1>1, <2>1
            <4>2. n - m + 1 = len - 1
                BY <2>3, <3>1, <3>2
            <4>3. 1 <= m /\ n <= Len(old) /\ m <= n + 1
                BY SMTT(20), <1>1, <2>3, <2>5, <3>1, <3>2
            <4> QED
                BY <2>6, <3>2, <4>1, <4>2, <4>3
        <3>4. new = SubSeq(old, m, n)
            BY <1>1, <3>3, SubSeqIs
        <3> QED
            BY <3>1, <3>2, <3>4
    <2>8. old[len] = nodes[end.node].data[end.ptr]
        <3>1. len \in 1..len /\ b + len - 1 = d
            BY <2>2, <2>3, <2>5
        <3>2. CellIn(nodes, d) = nodes[end.node].data[end.ptr]
            BY <1>3, Ends DEF CellIn
        <3> HIDE DEF old, b, d
        <3> QED
            BY <1>1, <3>1, <3>2
    <2> QED
        BY <1>1, <2>1, <2>5, <2>7, <2>8 DEF Abstract!PopRight
<1> QED
    BY <1>2, <1>3

\* The position an index stands for.
LEMMA PosIs ==
    ASSUME ContentsOK, IInv, NEW i \in Int
    PROVE  /\ Normalised(i) \in Int /\ Abstract!Pos(i) = Normalised(i) + 1
           /\ Abstract!Pos(i) \in 1..Len(Contents) <=> InList(Normalised(i))
BY DEF ContentsOK, IInv, TypeOK, Normalised, InList, Abstract!Pos

LEMMA ItemRefines ==
    ASSUME IInv, ContentsOK, NEW i \in Int, ListItemAtIndex(i)
    PROVE  Abstract!Item(i)
<1> DEFINE idx == Normalised(i)
           at == NodeAtIndex(idx)
<1>1. /\ idx \in Int /\ Abstract!Pos(i) = idx + 1
      /\ Abstract!Pos(i) \in 1..Len(Contents) <=> InList(idx)
    BY PosIs
<1>2. Contents' = Contents
    BY DEF ListItemAtIndex, Contents, chain, Place
<1>3. ASSUME InList(idx) PROVE nodes[at.node].data[at.ptr] = Contents[idx + 1]
    <2>1. idx \in 0..(len - 1) /\ ~Empty
        BY <1>3 DEF InList, Empty, IInv, TypeOK
    <2>2. /\ at.node \in head..tail /\ at.ptr \in Offsets
          /\ Place(at) = Place(begin) + idx
        BY <2>1, IndexedPlace
    <2>3. at.node \in Int
        BY <2>2 DEF IInv, TypeOK
    <2>4. CellIn(nodes, Place(at)) = nodes[at.node].data[at.ptr]
        BY <2>2, <2>3, IteratorPlace DEF CellIn
    <2>5. Contents[idx + 1] = CellIn(nodes, Place(begin) + idx)
        <3>1. idx + 1 \in 1..len /\ Place(begin) + (idx + 1) - 1 = Place(begin) + idx
            BY <1>1, <2>1, Ends
        <3> HIDE DEF idx
        <3> QED
            BY <3>1 DEF ContentsOK
    <2> QED
        BY <2>2, <2>4, <2>5
<1>4. ret' = <<"Item", i, IF InList(idx) THEN nodes[at.node].data[at.ptr] ELSE NoElem>>
    BY DEF ListItemAtIndex
<1> HIDE DEF idx, at
<1> QED
    BY <1>1, <1>2, <1>3, <1>4 DEF Abstract!Item

LEMMA SetRefines ==
    ASSUME IInv, ContentsOK, ContentsOK', NEW i \in Int, NEW v \in Val, ListSetItemAtIndex(i, v)
    PROVE  Abstract!Set(i, v)
<1> DEFINE old == Contents
           new == Contents'
           b == Place(begin)
           idx == Normalised(i)
<1>1. /\ idx \in Int /\ Abstract!Pos(i) = idx + 1
      /\ Abstract!Pos(i) \in 1..Len(Contents) <=> InList(idx)
    BY PosIs
<1>2. /\ ret' = <<"Set", i, InList(idx)>> /\ len' = len /\ Place(begin)' = b
    BY DEF ListSetItemAtIndex, Place
<1>3. /\ old \in Seq(Val) /\ Len(old) = len /\ new \in Seq(Val) /\ Len(new) = len
      /\ \A j \in 1..len : old[j] = CellIn(nodes, b + j - 1)
      /\ \A j \in 1..len : new[j] = CellIn(nodes', b + j - 1)
    BY <1>2 DEF ContentsOK
<1>4. CASE ~InList(idx)
    <2>1. new = old
        BY <1>4 DEF ListSetItemAtIndex, Contents, Place
    <2>2. (Abstract!Pos(i) \in 1..Len(Contents)) = FALSE /\ InList(idx) = FALSE
        BY <1>1, <1>4 DEF InList
    <2>3. ret' = <<"Set", i, FALSE>>
        BY Zenon, <1>2, <2>2
    <2>4. ret' = <<"Set", i, Abstract!Pos(i) \in 1..Len(Contents)>>
        BY <2>2, <2>3, Zenon
    <2> QED
        BY <2>1, <2>2, <2>4 DEF Abstract!Set
<1>5. CASE InList(idx)
    <2>1. idx + 1 \in 1..len /\ ~Empty /\ len \in Nat
        BY <1>1, <1>5 DEF InList, Empty, IInv, TypeOK
    <2>2. /\ [old EXCEPT ![idx + 1] = v] \in Seq(Val)
          /\ Len([old EXCEPT ![idx + 1] = v]) = len
          /\ \A j \in 1..len : [old EXCEPT ![idx + 1] = v][j] = IF j = idx + 1 THEN v ELSE old[j]
        <3> HIDE DEF old, idx
        <3> QED
            BY <1>3, <2>1, ExceptSeq
    <2>3. ASSUME NEW j \in 1..len PROVE new[j] = IF j = idx + 1 THEN v ELSE old[j]
        <3>1. b + j - 1 \in Live /\ (b + j - 1 = b + idx <=> j = idx + 1)
            <4>1. b \in Int /\ len = Place(end) - b + 1 /\ Place(end) \in Int
                BY <2>1, Ends
            <4>2. Live = b..Place(end)
                BY <2>1, Ends
            <4> HIDE DEF b, idx
            <4> QED
                BY <1>1, <2>1, <4>1, <4>2
        <3>2. CellIn(nodes', b + j - 1) =
                 IF b + j - 1 = b + idx THEN v ELSE CellIn(nodes, b + j - 1)
            BY <1>5, <3>1, SetKeeps
        <3> HIDE DEF old, new, b, idx
        <3> QED
            BY <1>3, <3>1, <3>2
    <2>4. new = [old EXCEPT ![idx + 1] = v]
        <3> HIDE DEF old, new, idx
        <3> QED
            BY <1>3, <2>2, <2>3, SeqEqual
    <2> HIDE DEF idx
    <2> QED
        BY Zenon, <1>1, <1>2, <1>5, <2>4 DEF Abstract!Set
<1> QED
    BY <1>4, <1>5

LEMMA FreeRefines ==
    ASSUME IInv, ~NothingStopsFree, Free
    PROVE  UNCHANGED Abstract!vars
<1>1. /\ UNCHANGED <<begin, end, len, ret>>
      /\ \A p \in Live : nodes'[p \div kBlockSize] = nodes[p \div kBlockSize]
    BY FreeKeeps
<1>2. Place(begin)' = Place(begin) /\ len' = len
    BY <1>1 DEF Place
<1>3. ASSUME NEW i \in 1..len
      PROVE  CellIn(nodes', Place(begin) + i - 1) = CellIn(nodes, Place(begin) + i - 1)
    <2>1. ~Empty
        BY DEF Empty
    <2>2. Place(begin) + i - 1 \in Live
        BY <2>1, Ends
    <2> QED
        BY <1>1, <2>2 DEF CellIn
<1>4. Contents = [i \in 1..len |-> CellIn(nodes, Place(begin) + i - 1)]
    BY DEF Contents, CellIn
<1>5. Contents' = [i \in 1..len |-> CellIn(nodes', Place(begin) + i - 1)]
    BY <1>2 DEF Contents, CellIn
<1>6. Contents' = Contents
    BY <1>3, <1>4, <1>5
<1> QED
    BY <1>1, <1>6 DEF Abstract!vars
-----------------------------------------------------------------------------
(* Walks *)

LEMMA LesserOf ==
    ASSUME NEW x \in Int, NEW y \in Int
    PROVE  /\ Min({x, y}) \in Int /\ Min({x, y}) <= x /\ Min({x, y}) <= y
           /\ Min({x, y}) \in {x, y}
<1> DEFINE S == {x, y}
<1>1. PICK lo \in Int : lo <= x /\ lo <= y
    <2>1. CASE x <= y
        BY <2>1
    <2>2. CASE ~(x <= y)
        BY <2>2
    <2> QED
        BY <2>1, <2>2
<1>2. S \in SUBSET Int /\ S # {} /\ \A z \in S : lo <= z
    BY <1>1
<1>3. Min(S) \in S /\ \A z \in S : Min(S) <= z
    <2> HIDE DEF S
    <2> QED
        BY <1>2, LeastOf
<1> QED
    BY <1>3

\* The first node from n on that ends a walk.
Stops(n) == {m \in n..(tail + 1) : m > tail \/ nodes[m].occupied = 0}

LEMMA StopExists ==
    ASSUME IInv, NEW n \in Int, n <= tail
    PROVE  /\ Min(Stops(n)) \in Stops(n) /\ Min(Stops(n)) \in Int
           /\ \A m \in Stops(n) : Min(Stops(n)) <= m
<1>1. tail \in Int
    BY DEF IInv, TypeOK
<1>2. Stops(n) \in SUBSET Int /\ tail + 1 \in Stops(n) /\ \A m \in Stops(n) : n <= m
    BY <1>1 DEF Stops
<1> QED
    BY Zenon, <1>2, LeastOf

\* No node between begin_ and end_ ends a walk.
LEMMA NoStopInside ==
    ASSUME IInv, ~Empty, NEW n \in Int, begin.node <= n, NEW m \in Stops(n)
    PROVE  end.node < m /\ m \in Int
<1>1. begin.node \in Int /\ end.node \in Int /\ tail \in Int
    BY Ends DEF IInv, TypeOK
<1>2. m \in Int /\ n <= m /\ (m > tail \/ nodes[m].occupied = 0)
    BY <1>1 DEF Stops
<1>3. ASSUME m <= end.node PROVE FALSE
    <2>1. m \in begin.node..end.node
        BY <1>1, <1>2, <1>3
    <2>2. /\ FirstIn(m) \in Int /\ LastIn(m) \in Int /\ FirstIn(m) <= LastIn(m)
          /\ m \in head..tail /\ nodes[m].occupied = LastIn(m) - FirstIn(m) + 1
        BY <2>1, NodeInterval
    <2> QED
        BY <1>1, <1>2, <2>2
<1> QED
    BY <1>1, <1>2, <1>3

\* A walk inside the list returns the elements asked for.
LEMMA WalkInside ==
    ASSUME IInv, ~Empty, ContentsOK, NEW start \in 0..(len - 1), NEW finish \in start..(len - 1)
    PROVE  Walk(start, finish) = SubSeq(Contents, start + 1, finish + 1)
<1> DEFINE at == NodeAtIndex(start)
           first == at.node * kBlockSize + at.ptr
           m == Min(Stops(at.node))
           stop == m * kBlockSize
           b == Place(begin)
           n == finish - start + 1
<1>1. /\ b \in Int /\ Place(end) \in Int /\ Live = b..Place(end) /\ len = Place(end) - b + 1
      /\ b \div kBlockSize = begin.node /\ Place(end) \div kBlockSize = end.node
      /\ begin.node \in Int /\ end.node \in Int
    BY Ends
<1>2. len \in Nat /\ start \in Int /\ finish \in Int /\ 0 <= start /\ start <= finish /\ finish < len
    BY DEF IInv, TypeOK
<1>3. /\ at.node \in head..tail /\ at.ptr \in Offsets /\ first = b + start
      /\ head \in Int /\ tail \in Int
    BY IndexedPlace DEF Place, IInv, TypeOK
<1>4. at.node \in Int /\ at.node <= tail /\ first \div kBlockSize = at.node
    BY <1>3, PlaceDivMod
<1>5. begin.node <= at.node
    <2>1. b <= first /\ first \in Int
        BY SMTT(20), <1>1, <1>2, <1>3
    <2> QED
        BY <1>1, <1>4, <2>1, NodesAscend
<1>6. m \in Int /\ end.node < m
    BY <1>4, <1>5, StopExists, NoStopInside
<1>7. Place(end) < stop /\ stop \in Int
    <2>1. Place(end) < end.node * kBlockSize + kBlockSize /\ end.node * kBlockSize \in Int
        BY Zenon, <1>1, NodeOf
    <2>2. end.node * kBlockSize + kBlockSize <= stop
        BY <1>1, <1>6, BlocksAscend
    <2>3. stop \in Int /\ kBlockSize \in Int
        BY <1>6, BlockAssumption
    <2> HIDE DEF stop
    <2> QED
        BY SMTT(20), <1>1, <2>1, <2>2, <2>3
<1>8. Min({n, stop - first}) = n
    <2>1. n \in Int /\ stop - first \in Int /\ n <= stop - first
        <3> HIDE DEF stop, first, b
        <3> QED
            BY <1>1, <1>2, <1>3, <1>7
    <2>2. PICK x \in Int : x = n
        BY <2>1
    <2>3. PICK y \in Int : y = stop - first
        BY <2>1
    <2>4. Min({x, y}) = x
        <3>1. x <= y
            BY <2>1, <2>2, <2>3
        <3> QED
            BY <3>1, LesserOf
    <2> HIDE DEF n, stop, first
    <2> QED
        BY <2>2, <2>3, <2>4
<1>9. Walk(start, finish) = [i \in 1..n |-> CellIn(nodes, first + i - 1)]
    <2>1. ~(start < 0 \/ at.node > tail)
        BY <1>2, <1>3, <1>4
    <2> QED
        BY <1>8, <2>1 DEF Walk, Stops, CellIn
<1> DEFINE w == [i \in 1..n |-> CellIn(nodes, first + i - 1)]
<1>10. ASSUME NEW i \in 1..n
       PROVE  w[i] = Contents[(start + 1) + i - 1] /\ w[i] \in Val
    <2>1. (start + 1) + i - 1 \in 1..len /\ first + i - 1 = b + ((start + 1) + i - 1) - 1
        <3> HIDE DEF first, b
        <3> QED
            BY <1>1, <1>2, <1>3
    <2>2. first + i - 1 \in Live
        <3> HIDE DEF first, b
        <3> QED
            BY <1>1, <1>2, <1>3, <2>1
    <2>3. w[i] = CellIn(nodes, first + i - 1)
        OBVIOUS
    <2> HIDE DEF w, first, b
    <2>4. Contents[(start + 1) + i - 1] = CellIn(nodes, b + ((start + 1) + i - 1) - 1)
        BY <2>1 DEF ContentsOK, b
    <2> QED
        BY <2>1, <2>2, <2>3, <2>4, LiveCell
<1>11. w \in Seq(Val) /\ Len(w) = n
    <2>1. n \in Nat
        BY <1>2
    <2>2. w \in [1..n -> Val]
        BY <1>10
    <2> HIDE DEF w, n
    <2> QED
        BY <2>1, <2>2, FunctionsAreSeq
<1>12. PICK k \in Int : k = start + 1
    BY <1>2
<1>13. PICK l \in Int : l = finish + 1
    BY <1>2
<1>14. Contents \in Seq(Val) /\ Len(Contents) = len
    BY DEF ContentsOK
<1>15. /\ 1 <= k /\ l <= Len(Contents) /\ k <= l + 1 /\ Len(w) = l - k + 1
       /\ \A i \in 1..(l - k + 1) : w[i] = Contents[k + i - 1]
    <2>1. l - k + 1 = n
        BY <1>2, <1>12, <1>13
    <2> HIDE DEF w
    <2> QED
        BY SMTT(20), <1>2, <1>10, <1>11, <1>12, <1>13, <1>14, <2>1
<1> HIDE DEF w
<1>16. w = SubSeq(Contents, k, l)
    BY Zenon, <1>11, <1>14, <1>15, SubSeqIs
<1> QED
    BY <1>9, <1>12, <1>13, <1>16 DEF w

\* One that starts behind the last element returns nothing, or reads what is
\* not there.
LEMMA WalkOutside ==
    ASSUME IInv, ~Empty, NEW start \in Int, NEW finish \in Int, start >= len, finish < len
    PROVE  Walk(start, finish) \in {<<>>, Undefined}
<1> DEFINE at == NodeAtIndex(start)
           first == at.node * kBlockSize + at.ptr
           m == Min(Stops(at.node))
           n == Min({finish - start + 1, m * kBlockSize - first})
<1>1. /\ nodes[begin.node].occupied \in Int /\ begin.node \in Int /\ begin.ptr \in Int
      /\ len \in Nat /\ tail \in Int
    <2>1. nodes[begin.node] \in Node
        BY DEF IInv, TypeOK, ChainInv
    <2>2. begin.ptr \in Offsets /\ begin.node \in Int
        BY Ends
    <2> QED
        BY <2>1, <2>2 DEF Node, Offsets, IInv, TypeOK
<1>2. at.node \in Int /\ at.ptr \in Int
    <2>1. PICK d \in Int : d = start - nodes[begin.node].occupied
        BY <1>1
    <2>2. d \div kBlockSize \in Int /\ d % kBlockSize \in Int
        BY SMTT(20), PlaceOf DEF Offsets
    <2> QED
        BY <1>1, <2>1, <2>2 DEF NodeAtIndex
<1>3. CASE at.node > tail
    BY <1>3 DEF Walk
<1>4. CASE ~(at.node > tail)
    <2>1. m \in Int
        BY <1>1, <1>2, <1>4, StopExists
    <2>2. m * kBlockSize - first \in Int /\ finish - start + 1 \in Int /\ finish - start + 1 <= 0
        BY <1>1, <1>2, <2>1, BlockAssumption
    <2>3. n \in Int /\ n <= 0
        <3>1. PICK x \in Int : x = finish - start + 1
            BY <2>2
        <3>2. PICK y \in Int : y = m * kBlockSize - first
            BY <2>2
        <3>3. Min({x, y}) \in Int /\ Min({x, y}) <= x
            BY Zenon, LesserOf
        <3> QED
            BY <2>2, <3>1, <3>2, <3>3
    <2>4. 1..n = {}
        <3> HIDE DEF n
        <3> QED
            BY <2>3
    <2>5. ~(start < 0)
        BY <1>1
    <2>6. Walk(start, finish) = [i \in 1..n |-> CellIn(nodes, first + i - 1)]
        BY Zenon, <1>4, <2>5 DEF Walk, Stops, CellIn
    <2>7. Walk(start, finish) = <<>>
        <3> HIDE DEF n, first
        <3> QED
            BY <2>4, <2>6
    <2> QED
        BY <2>7
<1> QED
    BY <1>3, <1>4

LEMMA RangeRefines ==
    ASSUME IInv, ContentsOK, NEW b \in Int, NEW e \in Int, ListRange(b, e)
    PROVE  \/ Abstract!Slice(b, e)
           \/ Outside(b, e) /\ ret' = <<"Range", b, e, Undefined>> /\ UNCHANGED Contents
<1> DEFINE b1 == Normalised(b)
           e1 == Normalised(e)
           start == IF b1 < 0 /\ e1 > 0 THEN 0 ELSE b1
           finish == IF e1 < len THEN e1 ELSE len - 1
           ans == IF b1 # 0 /\ e1 < 0 THEN <<>> ELSE RangeAsVector(start, e1)
           lo == IF b1 + 1 < 1 THEN 1 ELSE b1 + 1
           hi == IF e1 + 1 > len THEN len ELSE e1 + 1
<1>1. b1 \in Int /\ e1 \in Int /\ len \in Nat
    BY PosIs DEF IInv, TypeOK
<1>2. Contents \in Seq(Val) /\ Len(Contents) = len
    BY DEF ContentsOK
<1>3. ASSUME hi < lo PROVE SubSeq(Contents, lo, hi) = <<>>
    <2>1. lo \in Int /\ hi \in Int
        BY <1>1
    <2> HIDE DEF lo, hi
    <2> QED
        BY <1>3, <2>1, SubSeqEmpty
<1>4. ans = SubSeq(Contents, lo, hi) \/ (Outside(b, e) /\ ans = Undefined)
    <2>1. CASE b1 # 0 /\ e1 < 0
        <3>1. ans = <<>> /\ hi < lo
            BY <1>1, <2>1
        <3> QED
            BY Zenon, <1>3, <3>1
    <2>2. CASE ~(b1 # 0 /\ e1 < 0) /\ (Empty \/ start > e1)
        <3>1. ans = <<>>
            BY <2>2 DEF RangeAsVector
        <3>2. hi < lo
            BY <1>1, <2>2 DEF Empty
        <3> QED
            BY Zenon, <1>3, <3>1, <3>2
    <2>3. CASE ~(b1 # 0 /\ e1 < 0) /\ ~Empty /\ ~(start > e1)
        <3>1. ans = Walk(start, finish)
            BY <2>3 DEF RangeAsVector
        <3>2. start \in Int /\ finish \in Int /\ finish < len /\ start <= e1
            BY <1>1, <2>3
        <3>3. CASE start < 0
            <4>1. Outside(b, e)
                BY <1>1, <2>3, <3>3 DEF Outside
            <4>2. ans = Undefined
                BY Zenon, <3>1, <3>3 DEF Walk
            <4> QED
                BY <4>1, <4>2
        <3>4. CASE start >= len
            <4>1. Outside(b, e) /\ hi < lo
                BY <1>1, <2>3, <3>4 DEF Empty, Outside
            <4>2. Walk(start, finish) \in {<<>>, Undefined}
                <5> HIDE DEF start, finish
                <5> QED
                    BY <2>3, <3>2, <3>4, WalkOutside
            <4> QED
                BY Zenon, <1>3, <3>1, <4>1, <4>2
        <3>5. CASE 0 <= start /\ start < len
            <4>1. start \in 0..(len - 1) /\ finish \in start..(len - 1)
                BY <1>1, <2>3, <3>2, <3>5
            <4>2. Walk(start, finish) = SubSeq(Contents, start + 1, finish + 1)
                <5> HIDE DEF start, finish
                <5> QED
                    BY <2>3, <4>1, WalkInside
            <4>3. lo = start + 1 /\ hi = finish + 1
                BY <1>1, <2>3, <3>2, <3>5
            <4> QED
                BY Zenon, <3>1, <4>2, <4>3
        <3> QED
            BY <1>1, <3>2, <3>3, <3>4, <3>5
    <2> QED
        BY <2>1, <2>2, <2>3
<1>5. ret' = <<"Range", b, e, ans>>
    BY DEF ListRange
<1>6. Contents' = Contents
    BY DEF ListRange, Contents, chain, Place
<1>7. Abstract!Pos(b) = b1 + 1 /\ Abstract!Pos(e) = e1 + 1
    BY PosIs
<1> HIDE DEF b1, e1, ans
<1> QED
    BY <1>2, <1>4, <1>5, <1>6, <1>7 DEF Abstract!Slice

\* What a full listing takes from a node.
Part(n) ==
    [i \in 1..nodes[n].occupied |->
        nodes[n].data[(IF n = begin.node THEN begin.ptr ELSE 0) + i - 1]]

LEMMA PartIs ==
    ASSUME IInv, ~Empty, ContentsOK, NEW n \in begin.node..end.node
    PROVE  Part(n) = SubSeq(Contents, FirstIn(n) - Place(begin) + 1, LastIn(n) - Place(begin) + 1)
<1> DEFINE b == Place(begin)
           from == IF n = begin.node THEN begin.ptr ELSE 0
           k == n * kBlockSize
<1>1. /\ b \in Int /\ Place(end) \in Int /\ Live = b..Place(end) /\ len = Place(end) - b + 1
      /\ begin.node \in Int /\ end.node \in Int /\ begin.ptr \in Offsets
    BY Ends
<1>2. /\ FirstIn(n) \in Int /\ LastIn(n) \in Int /\ FirstIn(n) <= LastIn(n)
      /\ InNode(n) = FirstIn(n)..LastIn(n)
      /\ nodes[n].occupied = LastIn(n) - FirstIn(n) + 1
    BY NodeInterval
<1>3. PICK f \in Int : f = FirstIn(n)
    BY <1>2
<1>4. PICK l \in Int : l = LastIn(n)
    BY <1>2
<1>5. PICK w \in Nat : w = l - f + 1
    BY <1>2, <1>3, <1>4
<1>6. f = k + from /\ k \in Int /\ from \in Int /\ n \in Int
    <2>1. n \in Int /\ from \in Int
        BY <1>1 DEF Offsets
    <2>2. k \in Int
        BY <2>1, NodeOf
    <2>3. CASE n = begin.node
        BY <1>3, <2>1, <2>2, <2>3 DEF FirstIn, Place
    <2>4. CASE n # begin.node
        <3>1. f = k /\ from = 0
            BY <1>3, <2>4 DEF FirstIn
        <3> HIDE DEF k
        <3> QED
            BY <2>1, <2>2, <3>1
    <2> QED
        BY <2>1, <2>2, <2>3, <2>4
<1>7. f \in Live /\ l \in Live
    BY <1>2, <1>3, <1>4 DEF InNode
<1>8. ASSUME NEW i \in 1..w
      PROVE  /\ nodes[n].data[from + i - 1] = CellIn(nodes, f + i - 1)
             /\ f + i - 1 \in Live
    <2>1. PICK p \in Int : p = f + i - 1
        OBVIOUS
    <2>2. p \in InNode(n)
        <3>1. p \in f..l
            BY <1>5, <2>1
        <3> QED
            BY Zenon, <1>2, <1>3, <1>4, <3>1
    <2>3. p \in Live /\ p \div kBlockSize = n
        BY <2>2 DEF InNode
    <2>4. p % kBlockSize = from + i - 1
        <3>1. PICK r \in Offsets : r = p % kBlockSize
            BY PlaceOf
        <3>2. p = k + r
            BY <2>3, <3>1, PlaceOf
        <3>3. r \in Int
            BY DEF Offsets
        <3> HIDE DEF k, from
        <3> QED
            BY <1>6, <2>1, <3>1, <3>2, <3>3
    <2> QED
        BY <2>1, <2>3, <2>4 DEF CellIn
<1> DEFINE part == [i \in 1..w |-> CellIn(nodes, f + i - 1)]
<1>9. Part(n) = part
    <2>1. nodes[n].occupied = w
        BY <1>2, <1>3, <1>4, <1>5
    <2>2. Part(n) = [i \in 1..w |-> nodes[n].data[from + i - 1]]
        BY <2>1 DEF Part
    <2> QED
        BY Zenon, <1>8, <2>2
<1>10. PICK x \in Int : x = f - b + 1
    BY <1>1
<1>11. PICK y \in Int : y = l - b + 1
    BY <1>1
<1>12. Contents \in Seq(Val) /\ Len(Contents) = len
    BY DEF ContentsOK
<1>13. 1 <= x /\ y <= len /\ x <= y + 1 /\ y - x + 1 = w /\ len \in Int /\ b \in Int
    <2>1. PICK d \in Int : d = Place(end)
        BY <1>1
    <2>2. b <= f /\ l <= d /\ f <= l /\ len = d - b + 1 /\ b \in Int
        BY SMTT(20), <1>1, <1>2, <1>3, <1>4, <1>7, <2>1
    <2> HIDE DEF b
    <2> QED
        BY <1>5, <1>10, <1>11, <2>2
<1>14. ASSUME NEW i \in 1..w PROVE part[i] = Contents[x + i - 1] /\ part[i] \in Val
    <2>1. x + i - 1 \in 1..len /\ b + (x + i - 1) - 1 = f + i - 1
        <3> HIDE DEF b
        <3> QED
            BY <1>10, <1>13
    <2>2. Contents[x + i - 1] = CellIn(nodes, b + (x + i - 1) - 1)
        BY <2>1 DEF ContentsOK
    <2>3. CellIn(nodes, f + i - 1) \in Val
        BY Zenon, <1>8, LiveCell
    <2>4. part[i] = CellIn(nodes, f + i - 1)
        OBVIOUS
    <2> HIDE DEF part
    <2> QED
        BY <2>1, <2>2, <2>3, <2>4
<1>15. part \in Seq(Val) /\ Len(part) = w
    <2>1. part \in [1..w -> Val]
        BY Zenon, <1>14
    <2> HIDE DEF part
    <2> QED
        BY <2>1, FunctionsAreSeq
<1> HIDE DEF part
<1>16. part = SubSeq(Contents, x, y)
    <2>1. /\ Len(part) = y - x + 1 /\ y <= Len(Contents)
          /\ \A i \in 1..(y - x + 1) : part[i] = Contents[x + i - 1]
        BY <1>12, <1>13, <1>14, <1>15
    <2> QED
        BY <1>12, <1>13, <1>15, <2>1, SubSeqIs
<1> QED
    BY <1>3, <1>4, <1>9, <1>10, <1>11, <1>16

\* What a full listing has copied after each of the first n nodes.
Copies(f, n) ==
    f = [j \in 0..n |-> IF j = 0 THEN <<>> ELSE f[j - 1] \o Part(begin.node + j - 1)]

LEMMA CopiesExist ==
    \A n \in Nat : \E f : Copies(f, n)
<1> DEFINE S == {n \in Nat : \E f : Copies(f, n)}
<1>1. 0 \in S
    <2>1. Copies([j \in 0..0 |-> <<>>], 0)
        BY DEF Copies
    <2> QED
        BY <2>1
<1>2. ASSUME NEW n \in Nat, n \in S PROVE n + 1 \in S
    <2>1. PICK f : Copies(f, n)
        BY <1>2
    <2> DEFINE h == [j \in 0..(n + 1) |->
                        IF j = n + 1 THEN f[n] \o Part(begin.node + (n + 1) - 1) ELSE f[j]]
    <2>2. ASSUME NEW j \in 0..(n + 1)
          PROVE  h[j] = IF j = 0 THEN <<>> ELSE h[j - 1] \o Part(begin.node + j - 1)
        <3>1. CASE j = n + 1
            <4>1. j - 1 = n /\ n \in 0..(n + 1) /\ n # n + 1 /\ j # 0
                BY <3>1
            <4> QED
                BY Zenon, <3>1, <4>1
        <3>2. CASE j # n + 1
            <4>1. j \in 0..n /\ (j # 0 => j - 1 \in 0..n /\ j - 1 # n + 1 /\ j - 1 \in 0..(n + 1))
                BY <3>2
            <4>2. f[j] = IF j = 0 THEN <<>> ELSE f[j - 1] \o Part(begin.node + j - 1)
                BY <2>1, <4>1 DEF Copies
            <4> QED
                BY <3>2, <4>1, <4>2
        <3> QED
            BY <3>1, <3>2
    <2>3. Copies(h, n + 1)
        BY Zenon, <2>2 DEF Copies
    <2> QED
        BY <2>3
<1> HIDE DEF S
<1>3. \A n \in Nat : n \in S
    BY <1>1, <1>2, Induction
<1> QED
    BY <1>3 DEF S

\* A full listing is the whole sequence: the walk over the nodes' occupied
\* counts neither skips nor repeats an element.
LEMMA ListingIs ==
    ASSUME IInv, ContentsOK
    PROVE  Listing = Contents
<1>1. CASE Empty
    <2>1. Contents = <<>>
        BY <1>1, EmptySeq DEF ContentsOK, Empty
    <2> QED
        BY <1>1, <2>1 DEF Listing
<1>2. CASE ~Empty
    <2> DEFINE b == Place(begin)
               m == Min(Stops(begin.node))
               g == CHOOSE f : Copies(f, m - begin.node)
               upto(n) == LastIn(n) - b + 1
    <2>1. /\ b \in Int /\ Place(end) \in Int /\ len = Place(end) - b + 1
          /\ begin.node \in Int /\ end.node \in Int /\ begin.node <= end.node
        BY <1>2, Ends
    <2>2. begin.node \in head..tail /\ end.node \in head..tail /\ head \in Int /\ tail \in Int
        BY DEF IInv, TypeOK, ChainInv
    <2>3. m = end.node + 1
        <3>1. end.node + 1 \in Stops(begin.node)
            <4>1. CASE end.node + 1 > tail
                BY <2>1, <2>2, <4>1 DEF Stops
            <4>2. CASE ~(end.node + 1 > tail)
                <5>1. end.node + 1 \in head..tail /\ end.node + 1 \notin begin.node..end.node
                    BY <2>1, <2>2, <4>2
                <5>2. nodes[end.node + 1].occupied = 0
                    BY <1>2, <5>1, OtherNodes
                <5> QED
                    BY <2>1, <2>2, <5>1, <5>2 DEF Stops
            <4> QED
                BY SMTT(20), <4>1, <4>2
        <3>2. begin.node <= tail /\ begin.node <= begin.node
            BY <2>1, <2>2
        <3>3. m \in Stops(begin.node) /\ m \in Int /\ m <= end.node + 1
            BY <2>1, <3>1, <3>2, StopExists
        <3>4. end.node < m
            BY <1>2, <2>1, <3>2, <3>3, NoStopInside
        <3> HIDE DEF m
        <3> QED
            BY <2>1, <3>3, <3>4
    <2>4. PICK J \in Nat \ {0} : J = m - begin.node
        BY <2>1, <2>3
    <2>5. Copies(g, J)
        BY <2>4, CopiesExist
    <2>6. Listing = g[J]
        BY Zenon, <1>2, <2>4 DEF Listing, Stops, Part, Copies
    <2> HIDE DEF g, m
    <2>7. g[0] = <<>> /\ \A j \in 1..J : g[j] = g[j - 1] \o Part(begin.node + j - 1)
        <3>1. 0 \in 0..J /\ \A j \in 1..J : j \in 0..J /\ j # 0
            OBVIOUS
        <3> QED
            BY <2>5, <3>1 DEF Copies
    <2>8. Contents \in Seq(Val) /\ Len(Contents) = len /\ len \in Nat
        BY DEF ContentsOK, IInv, TypeOK
    <2> DEFINE S == {j \in Nat : j + 1 \in 1..J =>
                        g[j + 1] = SubSeq(Contents, 1, upto(begin.node + j))}
    <2>9. 0 \in S
        <3>1. begin.node \in begin.node..end.node /\ FirstIn(begin.node) - b + 1 = 1
            BY <2>1 DEF FirstIn
        <3>2. begin.node + 1 - 1 = begin.node /\ begin.node + 0 = begin.node /\ 1 \in 1..J
            BY <2>1
        <3>3. Part(begin.node) = SubSeq(Contents, 1, upto(begin.node))
            BY <1>2, <3>1, PartIs
        <3>4. g[1] = <<>> \o Part(begin.node)
            <4>1. 1 - 1 = 0
                OBVIOUS
            <4> QED
                BY Zenon, <2>7, <3>2, <4>1
        <3>5. Part(begin.node) \in Seq(Val)
            <4>1. LastIn(begin.node) \in Int /\ LastIn(begin.node) <= Place(end)
                <5>1. /\ LastIn(begin.node) \in Int /\ FirstIn(begin.node) \in Int
                      /\ FirstIn(begin.node) <= LastIn(begin.node)
                      /\ InNode(begin.node) = FirstIn(begin.node)..LastIn(begin.node)
                    BY <1>2, <3>1, NodeInterval
                <5>2. LastIn(begin.node) \in Live
                    BY <5>1 DEF InNode
                <5> QED
                    BY <1>2, <5>1, <5>2, Ends
            <4>2. PICK y \in Int : y = upto(begin.node) /\ y <= len
                BY <2>1, <4>1
            <4>3. SubSeq(Contents, 1, y) \in Seq(Val)
                BY <2>8, <4>2
            <4> QED
                BY <3>3, <4>2, <4>3
        <3> QED
            BY <3>2, <3>3, <3>4, <3>5
    <2>10. ASSUME NEW j \in Nat, j \in S PROVE j + 1 \in S
        <3> SUFFICES ASSUME (j + 1) + 1 \in 1..J
                     PROVE  g[(j + 1) + 1] = SubSeq(Contents, 1, upto(begin.node + (j + 1)))
            OBVIOUS
        <3>1. PICK n \in Int : n = begin.node + j
            BY <2>1
        <3>2. /\ n \in begin.node..end.node /\ n + 1 \in begin.node..end.node /\ n # end.node
              /\ n + 1 # begin.node /\ j + 1 \in 1..J /\ j + 2 \in 1..J
              /\ begin.node + (j + 2) - 1 = n + 1 /\ (j + 2) - 1 = j + 1 /\ (j + 1) + 1 = j + 2
              /\ begin.node + (j + 1) = n + 1
            BY <2>1, <2>3, <2>4, <3>1
        <3>3. g[j + 1] = SubSeq(Contents, 1, upto(n))
            BY <2>10, <3>1, <3>2
        <3>4. g[j + 2] = g[j + 1] \o Part(n + 1)
            BY Zenon, <2>7, <3>2
        <3>5. Part(n + 1) = SubSeq(Contents, FirstIn(n + 1) - b + 1, upto(n + 1))
            BY <1>2, <3>2, PartIs
        <3>6. /\ FirstIn(n) \in Int /\ LastIn(n) \in Int /\ FirstIn(n) <= LastIn(n)
              /\ InNode(n) = FirstIn(n)..LastIn(n)
            BY <1>2, <3>2, NodeInterval
        <3>7. /\ FirstIn(n + 1) \in Int /\ LastIn(n + 1) \in Int
              /\ FirstIn(n + 1) <= LastIn(n + 1) /\ InNode(n + 1) = FirstIn(n + 1)..LastIn(n + 1)
            BY <1>2, <3>2, NodeInterval
        <3>8. FirstIn(n + 1) = LastIn(n) + 1
            <4>1. FirstIn(n + 1) = (n + 1) * kBlockSize /\ LastIn(n) = n * kBlockSize + kBlockSize - 1
                BY <3>2 DEF FirstIn, LastIn
            <4>2. n * kBlockSize \in Int /\ (n + 1) * kBlockSize = n * kBlockSize + kBlockSize
                  /\ kBlockSize \in Int
                BY NodeOf, BlockAssumption
            <4> QED
                BY <4>1, <4>2
        <3>9. PICK x \in Int : x = upto(n)
            BY <2>1, <3>6
        <3>10. PICK y \in Int : y = upto(n + 1)
            BY <2>1, <3>7
        <3>11. FirstIn(n + 1) - b + 1 = x + 1 /\ x <= y
            <4>1. PICK l \in Int : l = LastIn(n)
                BY <3>6
            <4>2. PICK k \in Int : k = LastIn(n + 1)
                BY <3>7
            <4>3. FirstIn(n + 1) = l + 1 /\ l + 1 <= k /\ x = l - b + 1 /\ y = k - b + 1
                BY <3>7, <3>8, <3>9, <3>10, <4>1, <4>2
            <4> HIDE DEF b
            <4> QED
                BY <2>1, <4>3
        <3>12. 1 <= x /\ y <= len
            <4>1. FirstIn(n) \in Live /\ LastIn(n + 1) \in Live
                BY <3>6, <3>7 DEF InNode
            <4>2. b <= FirstIn(n) /\ LastIn(n + 1) <= Place(end)
                BY <1>2, <4>1, Ends
            <4>3. PICK d \in Int : d = Place(end)
                BY <2>1
            <4>4. PICK l \in Int : l = LastIn(n)
                BY <3>6
            <4>5. PICK k \in Int : k = LastIn(n + 1)
                BY <3>7
            <4>6. PICK f \in Int : f = FirstIn(n)
                BY <3>6
            <4>7. b <= f /\ f <= l /\ k <= d /\ x = l - b + 1 /\ y = k - b + 1 /\ len = d - b + 1
                BY SMTT(20), <2>1, <3>6, <3>9, <3>10, <4>2, <4>3, <4>4, <4>5, <4>6
            <4> HIDE DEF b
            <4> QED
                BY <2>1, <4>7
        <3>13. SubSeq(Contents, 1, x) \o SubSeq(Contents, x + 1, y) = SubSeq(Contents, 1, y)
            <4>1. PICK i \in Int : i = 1
                OBVIOUS
            <4>2. /\ i \in 1..(Len(Contents) + 1) /\ x \in (i - 1)..Len(Contents)
                  /\ y \in x..Len(Contents)
                BY <2>8, <3>11, <3>12, <4>1
            <4>3. SubSeq(Contents, i, x) \o SubSeq(Contents, x + 1, y) = SubSeq(Contents, i, y)
                BY <2>8, <4>2, ConcatAdjacentSubSeq
            <4> QED
                BY <4>1, <4>3
        <3> HIDE DEF upto
        <3> QED
            BY Zenon, <3>2, <3>3, <3>4, <3>5, <3>9, <3>10, <3>11, <3>13
    <2>11. \A j \in Nat : j \in S
        <3> HIDE DEF S
        <3> QED
            BY <2>9, <2>10, Induction
    <2>12. J - 1 \in Nat /\ (J - 1) + 1 \in 1..J /\ (J - 1) + 1 = J /\ begin.node + (J - 1) = end.node
        BY <2>1, <2>3, <2>4
    <2>13. g[J] = SubSeq(Contents, 1, upto(end.node))
        BY <2>11, <2>12
    <2>14. upto(end.node) = len
        BY <2>1 DEF LastIn
    <2>15. SubSeq(Contents, 1, Len(Contents)) = Contents
        BY <2>8, SubSeqFull
    <2> QED
        BY <2>6, <2>7, <2>8, <2>13, <2>14, <2>15
<1> QED
    BY SMTT(20), <1>1, <1>2

\* Every step of the chain is the step of the sequence its callers think of, or
\* one of the two exceptions.
LEMMA StepRefines ==
    ASSUME IInv, ContentsOK, ContentsOK', [Next]_vars
    PROVE  [Abstract!Next \/ Undone]_(Abstract!vars)
<1>1. ASSUME NEW v \in Val, PushLeft(v) PROVE Abstract!Next
    BY <1>1, PushLeftRefines DEF Abstract!Next
<1>2. ASSUME NEW v \in Val, PushRight(v) PROVE Abstract!Next
    BY <1>2, PushRightRefines DEF Abstract!Next
<1>3. ASSUME NEW v \in Val, NEW i \in Index, ListSetItemAtIndex(i, v) PROVE Abstract!Next
    <2>1. i \in Int
        BY IndexAssumption
    <2>2. Abstract!Set(i, v)
        BY <1>3, <2>1, SetRefines
    <2> QED
        BY <2>2 DEF Abstract!Next
<1>4. CASE PopLeft
    BY <1>4, PopLeftRefines DEF Abstract!Next
<1>5. CASE PopRight
    BY <1>5, PopRightRefines DEF Abstract!Next
<1>6. ASSUME NEW i \in Index, ListItemAtIndex(i) PROVE Abstract!Next
    <2>1. i \in Int
        BY IndexAssumption
    <2>2. Abstract!Item(i)
        BY <1>6, <2>1, ItemRefines
    <2> QED
        BY <2>2 DEF Abstract!Next
<1>7. ASSUME NEW b \in Index, NEW e \in Index, ListRange(b, e) PROVE Abstract!Next \/ Undone
    <2>1. b \in Int /\ e \in Int
        BY IndexAssumption
    <2>2. \/ Abstract!Slice(b, e)
          \/ Outside(b, e) /\ ret' = <<"Range", b, e, Undefined>> /\ UNCHANGED Contents
        BY Zenon, <1>7, <2>1, RangeRefines
    <2> QED
        BY Zenon, <2>2 DEF Abstract!Next, Undone
<1>8. CASE RangeAll
    <2>1. Contents' = Contents
        BY <1>8 DEF RangeAll, Contents, chain, Place
    <2>2. Abstract!Items
        BY <1>8, <2>1, ListingIs DEF RangeAll, Abstract!Items
    <2> QED
        BY <2>2 DEF Abstract!Next
<1>9. ASSUME FreeRedundantNodes PROVE Undone \/ UNCHANGED Abstract!vars
    <2>1. CASE ~NothingStopsFree /\ Free
        BY <2>1, FreeRefines
    <2>2. CASE /\ NothingStopsFree /\ ret' = <<"Free", Undefined>>
               /\ UNCHANGED <<chain, begin, end, len>>
        <3>1. Contents' = Contents
            BY <2>2 DEF Contents, chain, Place
        <3> QED
            BY Zenon, <2>2, <3>1 DEF Undone
    <2> QED
        BY <1>9, <2>1, <2>2 DEF FreeRedundantNodes
<1>10. CASE UNCHANGED vars
    BY <1>10 DEF vars, Abstract!vars, Contents, Place
<1> QED
    BY SMTT(20), <1>1, <1>2, <1>3, <1>4, <1>5, <1>6, <1>7, <1>8, <1>9, <1>10 DEF Next

LEMMA InitRefines == Init => Abstract!Init
<1> SUFFICES ASSUME Init PROVE Abstract!Init
    OBVIOUS
<1>1. ContentsOK /\ len = 0
    BY ChainInitially, ContentsSeq DEF Init
<1>2. Contents = <<>>
    BY <1>1, EmptySeq DEF ContentsOK
<1> QED
    BY <1>2 DEF Init, Abstract!Init

\* For every block size and any sequence of calls, the chain of blocks behaves
\* as a plain sequence: pushes and pops at both ends, indices from either end,
\* slices and full listings, whichever blocks were freed.  Only a range outside
\* the list, and FreeRedundantNodes of an emptied list with no spare node at one
\* end, may go through a pointer that is not there.
THEOREM ChainIsADeque == Spec => RefinesDeque
<1>1. IInv => ContentsOK
    BY ContentsSeq
<1>2. IInv /\ ContentsOK /\ ContentsOK' /\ [Next]_vars => [Abstract!Next \/ Undone]_(Abstract!vars)
    BY StepRefines
<1> QED
    BY ChainAlways, InitRefines, <1>1, <1>2, PTL DEF Spec, RefinesDeque
=============================================================================
