------------------------------ MODULE Skiplist ------------------------------
(***************************************************************************)
(* src/skiplist.h, src/skiplist.cpp: a list sorted by (score, text) in     *)
(* which a node of level n is also linked into the express lanes 1..n-1.   *)
(*                                                                         *)
(* A node is named by its element: the list never holds two elements that  *)
(* the comparator calls equal.  nodes[n].nexts is indexed from 0, as the   *)
(* array is; the random level of an insertion is a choice in 1..kMaxLevel. *)
(***************************************************************************)
EXTENDS Integers, Sequences, FiniteSetsExt, TLC

CONSTANTS Elem,        \* the elements callers use: [score, data], data a string of bytes
          Rank,        \* the order the list promises (AbstractSortedSet)
          kMaxLevel,   \* 32 in the source
          head, nullptr,
          Index

ASSUME SkiplistAssumption == kMaxLevel \in Nat \ {0} /\ Index \subseteq Nat

VARIABLES nodes, count_, cur_max_level_, ret

vars == <<nodes, count_, cur_max_level_, ret>>
-----------------------------------------------------------------------------
(* SKNodeComparator *)

NUL == 0

\* strncmp: the first difference decides, unless a NUL comes before it.
Strncmp(s, t, n) ==
    LET diff == {i \in 1..n : s[i] # t[i] /\ \A j \in 1..(i - 1) : s[j] # NUL}
    IN  IF diff = {} THEN 0 ELSE IF s[Min(diff)] < t[Min(diff)] THEN -1 ELSE 1

Sign(d) == IF d < 0 THEN -1 ELSE IF d > 0 THEN 1 ELSE 0

CompareMutant(a, b) ==
    IF a.score # b.score THEN Sign(a.score - b.score)
    ELSE Strncmp(a.data, b.data, Min({Len(a.data), Len(b.data)}))

Compare(a, b) ==
    LET bytes == Strncmp(a.data, b.data, Min({Len(a.data), Len(b.data)}))
    IN  IF a.score # b.score THEN Sign(a.score - b.score)
        ELSE IF bytes # 0 THEN bytes
        ELSE Sign(Len(a.data) - Len(b.data))
-----------------------------------------------------------------------------
(* Walks *)

NewNode(level, prev) == [nexts |-> [l \in 0..(level - 1) |-> nullptr], prev |-> prev]

Level(n) == Cardinality(DOMAIN nodes[n].nexts)

First == nodes[head].nexts[0]

RECURSIVE Along(_, _, _)
\* The last node of lane l, from cur on, that comes before e.
Along(e, cur, l) ==
    LET next == nodes[cur].nexts[l]
    IN  IF next # nullptr /\ Compare(e, next) > 0 THEN Along(e, next, l) ELSE cur

RECURSIVE Descend(_, _, _)
Descend(e, cur, l) ==
    IF l < 0 THEN <<>>
    ELSE LET stop == Along(e, cur, l) IN (l :> stop) @@ Descend(e, stop, l - 1)

\* The path: where the search left each lane, from lane start down to lane 0.
Find(e, start) == Descend(e, head, start)

RECURSIVE GatherFrom(_)
GatherFrom(cur) ==
    IF cur = nullptr THEN <<>> ELSE <<cur>> \o GatherFrom(nodes[cur].nexts[0])

GatherAllNodes == GatherFrom(First)

RECURSIVE LastFrom(_, _)
LastFrom(cur, l) ==
    IF l < 0 THEN cur
    ELSE IF nodes[cur].nexts[l] # nullptr THEN LastFrom(nodes[cur].nexts[l], l)
    ELSE LastFrom(cur, l - 1)

End == IF First = nullptr THEN nullptr ELSE LastFrom(head, kMaxLevel - 1)
-----------------------------------------------------------------------------
(* Operations *)

Init ==
    /\ nodes = (head :> NewNode(kMaxLevel, nullptr))
    /\ count_ = 0
    /\ cur_max_level_ = 0
    /\ ret = <<"New">>

\* The first node always gets level 1.
InsertFirst(e) ==
    /\ First = nullptr
    /\ nodes' = [nodes EXCEPT ![head].nexts[0] = e] @@ (e :> NewNode(1, head))
    /\ count_' = count_ + 1
    /\ cur_max_level_' = 1
    /\ ret' = <<"Insert", e, TRUE>>

Found(e, cur) ==
    /\ nodes[cur].nexts[0] # nullptr
    /\ Compare(e, nodes[cur].nexts[0]) = 0

Splice(e, level, path) ==
    [n \in DOMAIN nodes |->
        [nexts |-> [l \in DOMAIN nodes[n].nexts |->
                       IF l < level /\ path[l] = n THEN e ELSE nodes[n].nexts[l]],
         prev |-> IF n = nodes[path[0]].nexts[0] THEN e ELSE nodes[n].prev]]
    @@ (e :> [nexts |-> [l \in 0..(level - 1) |-> nodes[path[l]].nexts[l]],
              prev |-> path[0]])

Insert(e, level) ==
    LET path == Find(e, level - 1)
    IN  /\ First # nullptr
        /\ ret' = <<"Insert", e, ~Found(e, path[0])>>
        /\ IF Found(e, path[0])
           THEN UNCHANGED <<nodes, count_, cur_max_level_>>
           ELSE /\ nodes' = Splice(e, level, path)
                /\ cur_max_level_' = Max({cur_max_level_, level})
                /\ count_' = count_ + 1

ContainsIn(e) == First # nullptr /\ Found(e, Find(e, cur_max_level_ - 1)[0])

Contains(e) ==
    /\ ret' = <<"Contains", e, ContainsIn(e)>>
    /\ UNCHANGED <<nodes, count_, cur_max_level_>>

\* del, the node behind path[0], is unlinked lane by lane.
UnlinkMutant(del, path) ==
    [n \in DOMAIN nodes \ {del} |->
        [nodes[n] EXCEPT !.nexts = [l \in DOMAIN nodes[n].nexts |->
             IF l < cur_max_level_ /\ path[l] = n /\ nodes[n].nexts[l] = del
             THEN nodes[del].nexts[l] ELSE nodes[n].nexts[l]]]]

UnlinkBottomLane(del, path) ==
    [n \in DOMAIN nodes \ {del} |->
        [nexts |-> [l \in DOMAIN nodes[n].nexts |->
             IF l = 0 /\ path[l] = n THEN nodes[del].nexts[l] ELSE nodes[n].nexts[l]],
         prev |-> IF n = nodes[del].nexts[0] THEN path[0] ELSE nodes[n].prev]]

Unlink(del, path) ==
    [n \in DOMAIN nodes \ {del} |->
        [nexts |-> [l \in DOMAIN nodes[n].nexts |->
             IF l < cur_max_level_ /\ path[l] = n /\ nodes[n].nexts[l] # nullptr
                /\ Compare(del, nodes[n].nexts[l]) = 0
             THEN nodes[del].nexts[l] ELSE nodes[n].nexts[l]],
         prev |-> IF n = nodes[del].nexts[0] THEN path[0] ELSE nodes[n].prev]]

\* The highest lane that head still has a node in.  (The loop's test reads
\* nexts[-1] once the list is empty, and the value read changes nothing.)
LoweredMutant(nexts) == Max({cur_max_level_ - 1, 0})

Lowered(nexts) == Max({0} \cup {l \in 1..cur_max_level_ : nexts[l - 1] # nullptr})

Remove(e) ==
    LET path == Find(e, cur_max_level_ - 1)
        del  == nodes[path[0]].nexts[0]
    IN  /\ ret' = <<"Remove", e, ContainsIn(e)>>
        /\ IF ~ContainsIn(e)
           THEN UNCHANGED <<nodes, count_, cur_max_level_>>
           ELSE /\ nodes' = Unlink(del, path)
                /\ cur_max_level_' = IF Level(del) = cur_max_level_
                                     THEN Lowered(nodes'[head].nexts) ELSE cur_max_level_
                /\ count_' = count_ - 1

Clear ==
    /\ nodes' = (head :> NewNode(kMaxLevel, nullptr))
    /\ count_' = 0
    /\ cur_max_level_' = 0
    /\ ret' = <<"Clear">>

Count == ret' = <<"Count", count_>> /\ UNCHANGED <<nodes, count_, cur_max_level_>>

Ends == ret' = <<"Ends", First, End>> /\ UNCHANGED <<nodes, count_, cur_max_level_>>

At(i) ==
    /\ ret' = IF i >= count_ THEN <<"out_of_range", i>> ELSE <<"At", i, First>>
    /\ UNCHANGED <<nodes, count_, cur_max_level_>>

GetAllSKNodes ==
    /\ ret' = <<"All", GatherAllNodes>>
    /\ UNCHANGED <<nodes, count_, cur_max_level_>>

Next ==
    \/ \E e \in Elem :
          \/ InsertFirst(e)
          \/ \E level \in 1..kMaxLevel : Insert(e, level)
          \/ Remove(e)
          \/ Contains(e)
    \/ Clear \/ Count \/ Ends \/ GetAllSKNodes
    \/ \E i \in Index : At(i)

Spec == Init /\ [][Next]_vars
-----------------------------------------------------------------------------
(* Properties *)

Members == DOMAIN nodes \ {head}

Later(n) == {m \in Members : n = head \/ Compare(m, n) > 0}

\* Every lane of every node leads to the next node, in the comparator's order,
\* that is tall enough for the lane: no lane skips a node it should stop at,
\* leaves the order, or leads to a node that Remove or Clear has freed.
LanesAreSublists ==
    \A n \in DOMAIN nodes : \A l \in DOMAIN nodes[n].nexts :
        LET tall == {m \in Later(n) : Level(m) > l}
        IN  IF tall = {} THEN nodes[n].nexts[l] = nullptr
            ELSE /\ nodes[n].nexts[l] \in tall
                 /\ \A m \in tall : Compare(m, nodes[n].nexts[l]) >= 0

\* Walking back along prev retraces lane 0, whichever insertions and removals
\* happened on either side of a node.
PrevMirrorsNext ==
    \A n \in Members :
        /\ nodes[n].prev \in DOMAIN nodes
        /\ nodes[nodes[n].prev].nexts[0] = n

\* cur_max_level_ is the height of the tallest node: Contains and Remove start
\* there, so a lane above it would never be unlinked, and a lane below it that
\* is empty would be searched for nothing.
CurMaxLevelIsTight == cur_max_level_ = Max({0} \cup {Level(n) : n \in Members})

Abstract == INSTANCE AbstractSortedSet WITH seq <- GatherAllNodes

\* operator[] of an index behind the first element, answered with the first.
Unfinished ==
    /\ \E i \in Index : 0 < i /\ i < count_ /\ ret' = <<"At", i, First>>
    /\ UNCHANGED GatherAllNodes

\* With any level drawn for any node, the list answers every call as a set kept
\* in the promised order does: by score, then by the bytes up to a NUL, then by
\* length.  Two texts that differ only behind a NUL are one element to it.  The
\* exception is real: operator[], documented to return the element at the index
\* (skiplist.h:169-174), returns the first one for every index inside the list,
\* as the TODO in it says (skiplist.cpp:171).
RefinesSortedSet == Abstract!Init /\ [][Abstract!Next \/ Unfinished]_Abstract!vars
=============================================================================
