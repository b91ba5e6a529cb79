------------------------------- MODULE DList --------------------------------
(***************************************************************************)
(* DList (dlist.h, dlist.cpp): a deque of strings kept in a doubly linked  *)
(* chain of blocks, and the list operations KVContainer builds on it.      *)
(*                                                                         *)
(* Nodes are only ever linked at the two ends, so a node is the integer    *)
(* that says how far it is from the first node made: next is +1, prev is   *)
(* -1, and a null link is a number outside head..tail.  A pointer into a   *)
(* node's buffer is an offset.                                             *)
(***************************************************************************)
EXTENDS Integers, Sequences, FiniteSets, FiniteSetsExt

CONSTANTS Val,             \* strings
          NoElem,          \* a default-constructed or moved-from string
          Undefined,       \* the outcome of going through a null or a wild pointer
          kBlockSize,      \* 128 in the code
          Index,           \* indices callers pass
          MinNode, MaxNode, MaxLen    \* bounds of the model

ASSUME BlockAssumption == kBlockSize \in Nat \ {0}
ASSUME IndexAssumption == Index \subseteq Int
ASSUME NoElemAssumption == NoElem \notin Val

VARIABLES nodes,           \* the chain, a function on head..tail
          head, tail,
          begin, end,      \* iterators [node, ptr]
          len, n_nodes,
          ret              \* answer of the last call

chain == <<nodes, head, tail, n_nodes>>
vars == <<nodes, head, tail, begin, end, len, n_nodes, ret>>

nullptr == -1
kRedundantFactor == 2
NewNode == [data |-> [o \in 0..(kBlockSize - 1) |-> NoElem], occupied |-> 0]
Empty == len = 0

\* A call with an undefined outcome ends the process; nothing follows it.
Alive == ret[Len(ret)] # Undefined

Init ==
    /\ nodes = [n \in 0..1 |-> NewNode]
    /\ head = 0 /\ tail = 1 /\ n_nodes = 2
    /\ begin = [node |-> 0, ptr |-> nullptr]
    /\ end = [node |-> 1, ptr |-> nullptr]
    /\ len = 0
    /\ ret = <<"New">>
-----------------------------------------------------------------------------
(* Pushing *)

\* The chain reaching from h to t, with v written where it says.
Written(h, t, at, v) ==
    [n \in h..t |->
       LET old == IF n \in head..tail THEN nodes[n] ELSE NewNode
       IN  IF n # at.node THEN old
           ELSE [data |-> [old.data EXCEPT ![at.ptr] = v], occupied |-> old.occupied + 1]]

PushLeft(v) ==
    LET at == IF begin.ptr = nullptr THEN [node |-> begin.node, ptr |-> kBlockSize - 1]
              ELSE IF begin.ptr = 0 THEN [node |-> begin.node - 1, ptr |-> kBlockSize - 1]
              ELSE [node |-> begin.node, ptr |-> begin.ptr - 1]
    IN  /\ at.node >= MinNode /\ len < MaxLen
        /\ begin' = at
        /\ end' = IF begin.ptr = nullptr /\ end.ptr = nullptr THEN at ELSE end
        /\ head' = IF at.node < head THEN at.node ELSE head
        /\ n_nodes' = IF at.node < head THEN n_nodes + 1 ELSE n_nodes
        /\ nodes' = Written(head', tail, at, v)
        /\ len' = len + 1
        /\ ret' = <<"Push", len'>>
        /\ UNCHANGED tail

PushRightMutant(v) ==
    LET at == IF end.ptr = nullptr THEN [node |-> end.node, ptr |-> 0]
              ELSE IF end.ptr = kBlockSize - 1 THEN [node |-> tail + 1, ptr |-> 0]
              ELSE [node |-> end.node, ptr |-> end.ptr + 1]
    IN  /\ at.node <= MaxNode /\ len < MaxLen
        /\ end' = at
        /\ begin' = IF end.ptr = nullptr /\ begin.ptr = nullptr THEN at ELSE begin
        /\ tail' = IF at.node > tail THEN at.node ELSE tail
        /\ n_nodes' = IF at.node > tail THEN n_nodes + 1 ELSE n_nodes
        /\ nodes' = Written(head, tail', at, v)
        /\ len' = len + 1
        /\ ret' = <<"Push", len'>>
        /\ UNCHANGED head

PushRight(v) ==
    LET at == IF end.ptr = nullptr THEN [node |-> end.node, ptr |-> 0]
              ELSE IF end.ptr = kBlockSize - 1 THEN [node |-> end.node + 1, ptr |-> 0]
              ELSE [node |-> end.node, ptr |-> end.ptr + 1]
    IN  /\ at.node <= MaxNode /\ len < MaxLen
        /\ end' = at
        /\ begin' = IF end.ptr = nullptr /\ begin.ptr = nullptr THEN at ELSE begin
        /\ tail' = IF at.node > tail THEN at.node ELSE tail
        /\ n_nodes' = IF at.node > tail THEN n_nodes + 1 ELSE n_nodes
        /\ nodes' = Written(head, tail', at, v)
        /\ len' = len + 1
        /\ ret' = <<"Push", len'>>
        /\ UNCHANGED head
-----------------------------------------------------------------------------
(* Popping *)

\* The element under an iterator is moved out and no longer counted.
Vacated(at) ==
    [nodes EXCEPT ![at.node] = [data |-> [@.data EXCEPT ![at.ptr] = NoElem],
                                occupied |-> @.occupied - 1]]

PopEmpty == Empty /\ ret' = <<"Pop", NoElem>> /\ UNCHANGED <<chain, begin, end, len>>

PopLast ==
    /\ begin' = [begin EXCEPT !.ptr = nullptr]
    /\ end' = [end EXCEPT !.ptr = nullptr]

PopLeft ==
    \/ PopEmpty
    \/ /\ ~Empty
       /\ nodes' = Vacated(begin)
       /\ \/ begin = end /\ PopLast
          \/ /\ begin # end
             /\ begin' = IF begin.ptr = kBlockSize - 1
                         THEN [node |-> begin.node + 1, ptr |-> 0]
                         ELSE [node |-> begin.node, ptr |-> begin.ptr + 1]
             /\ UNCHANGED end
       /\ len' = len - 1
       /\ ret' = <<"Pop", nodes[begin.node].data[begin.ptr]>>
       /\ UNCHANGED <<head, tail, n_nodes>>

PopRight ==
    \/ PopEmpty
    \/ /\ ~Empty
       /\ nodes' = Vacated(end)
       /\ \/ begin = end /\ PopLast
          \/ /\ begin # end
             /\ end' = IF end.ptr = 0
                       THEN [node |-> end.node - 1, ptr |-> kBlockSize - 1]
                       ELSE [node |-> end.node, ptr |-> end.ptr - 1]
             /\ UNCHANGED begin
       /\ len' = len - 1
       /\ ret' = <<"Pop", nodes[end.node].data[end.ptr]>>
       /\ UNCHANGED <<head, tail, n_nodes>>
-----------------------------------------------------------------------------
(* Indexing *)

\* Where the idx-th element is: in the first node, counted from begin_, or in
\* a later one, on the assumption that the nodes between are full.
NodeAtIndex(idx) ==
    LET diff == idx - nodes[begin.node].occupied
    IN  IF diff < 0 THEN [node |-> begin.node, ptr |-> begin.ptr + idx]
        ELSE [node |-> begin.node + 1 + diff \div kBlockSize, ptr |-> diff % kBlockSize]

Normalised(i) == IF i < 0 THEN i + len ELSE i

InList(idx) == idx \in 0..(len - 1)

ListItemAtIndex(i) ==
    LET at == NodeAtIndex(Normalised(i))
    IN  /\ ret' = <<"Item", i, IF InList(Normalised(i)) THEN nodes[at.node].data[at.ptr]
                            ELSE NoElem>>
        /\ UNCHANGED <<chain, begin, end, len>>

ListSetItemAtIndex(i, v) ==
    LET at == NodeAtIndex(Normalised(i))
    IN  /\ nodes' = IF InList(Normalised(i)) THEN [nodes EXCEPT ![at.node].data[at.ptr] = v]
                    ELSE nodes
        /\ ret' = <<"Set", i, InList(Normalised(i))>>
        /\ UNCHANGED <<head, tail, n_nodes, begin, end, len>>

\* RangeAs...Vector(start, finish): walks from block to block until one is
\* unoccupied or null.  A start below zero, or one so far to the right that
\* its node is null, makes it dereference what is not there.
Walk(start, finish) ==
    LET at == NodeAtIndex(start)
        first == at.node * kBlockSize + at.ptr
        stop == Min({n \in at.node..(tail + 1) : n > tail \/ nodes[n].occupied = 0}) * kBlockSize
        n == Min({finish - start + 1, stop - first})
    IN  IF start < 0 \/ at.node > tail THEN Undefined
        ELSE [i \in 1..n |-> nodes[(first + i - 1) \div kBlockSize]
                               .data[(first + i - 1) % kBlockSize]]

RangeAsVector(start, finish) ==
    IF Empty \/ start > finish THEN <<>>
    ELSE Walk(start, IF finish < len THEN finish ELSE len - 1)

ListRange(b, e) ==
    LET b1 == Normalised(b)
        e1 == Normalised(e)
    IN  /\ ret' = <<"Range", b, e,
                    IF b1 # 0 /\ e1 < 0 THEN <<>>
                    ELSE RangeAsVector(IF b1 < 0 /\ e1 > 0 THEN 0 ELSE b1, e1)>>
        /\ UNCHANGED <<chain, begin, end, len>>

\* RangeAs...Vector() and Serialize: as many elements of each node as its
\* occupied count says, until a node has none.
Listing ==
    LET stop == Min({n \in begin.node..(tail + 1) : n > tail \/ nodes[n].occupied = 0})
        from(n) == IF n = begin.node THEN begin.ptr ELSE 0
        part(n) == [i \in 1..nodes[n].occupied |-> nodes[n].data[from(n) + i - 1]]
        copied[j \in 0..(stop - begin.node)] ==
            IF j = 0 THEN <<>> ELSE copied[j - 1] \o part(begin.node + j - 1)
    IN  IF Empty THEN <<>> ELSE copied[stop - begin.node]

RangeAll == ret' = <<"Items", Listing>> /\ UNCHANGED <<chain, begin, end, len>>

FreeMutant ==
    LET h == Max({n \in head..begin.node : \A m \in head..(n - 1) : nodes[m].occupied = 0})
        t == Min({n \in end.node..tail : \A m \in (n + 1)..tail : nodes[m].occupied = 0})
    IN  /\ head' = h /\ tail' = t
        /\ nodes' = [n \in h..t |-> nodes[n]]
        /\ n_nodes' = n_nodes - (h - head)
        /\ UNCHANGED <<begin, end, len, ret>>

\* Unoccupied nodes are freed from both ends, up to one spare beside begin_
\* and one beside end_.
Free ==
    LET h == Min({n \in head..tail : nodes[n].occupied # 0 \/ n = begin.node - 1})
        t == Max({n \in head..tail : nodes[n].occupied # 0 \/ n = end.node + 1})
    IN  /\ head' = h /\ tail' = t
        /\ nodes' = [n \in h..t |-> nodes[n]]
        /\ n_nodes' = n_nodes - (h - head) - (tail - t)
        /\ UNCHANGED <<begin, end, len, ret>>

\* In an emptied list only those spares stop the two loops: without one, a loop
\* frees the whole chain and writes to the node behind it.
NothingStopsFree == Empty /\ (begin.node = head \/ end.node = tail)

FreeRedundantNodes ==
    /\ n_nodes * kBlockSize >= len * kRedundantFactor
    /\ \/ ~NothingStopsFree /\ Free
       \/ /\ NothingStopsFree
          /\ ret' = <<"Free", Undefined>>
          /\ UNCHANGED <<chain, begin, end, len>>

Next ==
    /\ Alive
    /\ \/ \E v \in Val :
             \/ PushLeft(v) \/ PushRight(v)
             \/ \E i \in Index : ListSetItemAtIndex(i, v)
       \/ PopLeft \/ PopRight
       \/ \E i \in Index : ListItemAtIndex(i)
       \/ \E b, e \in Index : ListRange(b, e)
       \/ RangeAll
       \/ FreeRedundantNodes

Spec == Init /\ [][Next]_vars
-----------------------------------------------------------------------------
(* Properties *)

Place(at) == at.node * kBlockSize + at.ptr

\* The places an element is kept in.
Live == IF Empty THEN {} ELSE Place(begin)..Place(end)

InNode(n) == {p \in Live : p \div kBlockSize = n}

\* begin_ and end_ delimit exactly len_ elements inside the chain; each node's
\* occupied is the number of them it holds (what operator[] and the walks rely
\* on), everything else is a moved-out string, and n_nodes_ counts the chain:
\* after every call that returns, FreeRedundantNodes of an emptied list included.
ChainInv ==
    /\ DOMAIN nodes = head..tail
    /\ n_nodes = tail - head + 1
    /\ begin.node \in head..tail /\ end.node \in head..tail
    /\ Empty <=> begin.ptr = nullptr
    /\ Empty <=> end.ptr = nullptr
    /\ Empty => begin.node = end.node \/ (head = begin.node /\ tail = end.node)
    /\ ~Empty => /\ begin.ptr \in 0..(kBlockSize - 1) /\ end.ptr \in 0..(kBlockSize - 1)
                 /\ len = Place(end) - Place(begin) + 1
    /\ \A n \in head..tail :
          /\ nodes[n].occupied = Cardinality(InNode(n))
          /\ \A o \in 0..(kBlockSize - 1) :
                nodes[n].data[o] \in IF n * kBlockSize + o \in Live THEN Val ELSE {NoElem}

Contents ==
    [i \in 1..len |-> LET p == Place(begin) + i - 1
                      IN  nodes[p \div kBlockSize].data[p % kBlockSize]]

Abstract == INSTANCE AbstractDeque WITH seq <- Contents

\* Ranges that start to the right of a list, or to the left of it and end at its
\* first element.
Outside(b, e) ==
    LET b1 == Normalised(b)
        e1 == Normalised(e)
    IN  ~Empty /\ ((len <= b1 /\ b1 <= e1) \/ (b1 < 0 /\ e1 = 0))

\* The calls that need not come back with the answer a sequence would give.
Undone ==
    /\ \/ \E b, e \in Index : Outside(b, e) /\ ret' = <<"Range", b, e, Undefined>>
       \/ NothingStopsFree /\ ret' = <<"Free", Undefined>>
    /\ UNCHANGED Contents

\* The chain of blocks behaves as a plain sequence for every command: pushes
\* and pops at both ends, indices from either end, slices and full listings,
\* wherever the ends lie in their blocks and whichever blocks were freed.  The
\* two exceptions are real.  ListRange of a range outside the list goes through
\* a null node or reads in front of a block, although it means to `handle
\* negative index out of range' (core.cpp:577); and FreeRedundantNodes of an
\* emptied list with no spare node at one of its ends writes through null.
RefinesDeque == Abstract!Init /\ [][Abstract!Next \/ Undone]_Abstract!vars
=============================================================================
