-------------------------- MODULE RehashableProofs --------------------------
(***************************************************************************)
(* For every Key, Val, hash function, initial size and load factor:        *)
(* HashDict and HashSet keep the invariant of the tables they share, never *)
(* stall a rehash and implement a map and a set.                           *)
(***************************************************************************)
EXTENDS HashDict, HashSet, FiniteSetTheorems, WellFoundedInduction, TLAPS

\* A non-empty set of naturals has a smallest element, which is Min.
LEMMA MinNat ==
    ASSUME NEW S \in SUBSET Nat, S # {}
    PROVE  Min(S) \in S /\ \A y \in S : Min(S) =< y
<1>1. PICK x \in S : \A y \in S : ~(<<y, x>> \in OpToRel(<, Nat))
    BY NatLessThanWellFounded, WFMin
<1>2. ASSUME NEW y \in S, y < x PROVE <<y, x>> \in OpToRel(<, Nat)
    BY <1>2 DEF OpToRel
<1>3. ASSUME NEW y \in S PROVE x =< y
    <2>1. ~(y < x)
        BY <1>1, <1>2, Zenon
    <2> QED
        BY <2>1
<1> QED
    BY <1>3 DEF Min

\* The size of a union of disjoint finite sets.
LEMMA DisjointUnion ==
    ASSUME NEW S, NEW T, IsFiniteSet(S), IsFiniteSet(T), S \cap T = {}
    PROVE  /\ IsFiniteSet(S \cup T)
           /\ Cardinality(S \cup T) = Cardinality(S) + Cardinality(T)
<1>1. /\ IsFiniteSet(S \cup T)
      /\ Cardinality(S \cup T) = Cardinality(S) + Cardinality(T) - Cardinality(S \cap T)
    BY FS_Union
<1>2. Cardinality(S \cap T) = 0
    BY FS_EmptySet
<1>3. Cardinality(S) \in Nat /\ Cardinality(T) \in Nat
    BY FS_CardinalityType
<1> QED
    BY <1>1, <1>2, <1>3

\* The slot computed for a key exists, and what FindEntry returns for it are
\* exactly the table's entries with that key.
LEMMA FindEntryFinds ==
    ASSUME NEW t, TableType(t), Placed(t), t.slot_size > 0, NEW k \in Key
    PROVE  /\ CalculateSlotIndex(t, k) \in 0..(t.slot_size - 1)
           /\ FindEntry(t, k) = {e \in TableEntries(t) : e.key = k}
<1>1. CalculateSlotIndex(t, k) \in 0..(t.slot_size - 1)
    BY HashAssumption DEF CalculateSlotIndex, TableType
<1>2. \A e \in TableEntries(t) : e.key = k => e \in t.table[CalculateSlotIndex(t, k)]
    BY DEF TableEntries, Placed
<1> QED
    BY <1>1, <1>2 DEF FindEntry, TableEntries

\* A new table is consistent and empty.
LEMMA NewTableOK ==
    ASSUME NEW n \in Nat
    PROVE  LET t == NewTable(n)
           IN  TableOK(t) /\ TableEntries(t) = {} /\ RehashDone(t) /\ t.slot_size = n
<1> DEFINE t == NewTable(n)
<1>1. TableType(t)
    BY DEF NewTable, TableType
<1>2. TableEntries(t) = {}
    BY DEF NewTable, TableEntries
<1>3. Placed(t) /\ UniqueKeys(t) /\ RehashDone(t) /\ t.slot_size = n
    BY <1>2 DEF NewTable, Placed, UniqueKeys, RehashDone
<1>4. CountOK(t)
    BY <1>2, FS_EmptySet DEF CountOK, NewTable
<1> QED
    BY <1>1, <1>2, <1>3, <1>4 DEF TableOK

\* Replacing the list of one slot keeps a table consistent when the new list
\* belongs there, repeats no key of the table, and the count follows.
LEMMA ReplaceList ==
    ASSUME NEW t, TableOK(t),
           NEW i \in 0..(t.slot_size - 1),
           NEW list \in SUBSET Entry, IsFiniteSet(list),
           \A e \in list : CalculateSlotIndex(t, e.key) = i,
           \A e, f \in list : e.key = f.key => e = f,
           NEW u, DOMAIN u = DOMAIN t, u.slot_size = t.slot_size,
           u.rehashing_idx = t.rehashing_idx,
           u.table = [t.table EXCEPT ![i] = list],
           u.count = t.count - Cardinality(t.table[i]) + Cardinality(list)
    PROVE  /\ TableOK(u)
           /\ TableEntries(u) = (TableEntries(t) \ t.table[i]) \cup list
<1> DEFINE n == t.count - Cardinality(t.table[i]) + Cardinality(list)
<1> USE DEF TableOK
<1>1. \A j \in 0..(t.slot_size - 1) : u.table[j] = IF j = i THEN list ELSE t.table[j]
    BY DEF TableType
<1>2. Placed(u)
    BY <1>1 DEF Placed, CalculateSlotIndex
<1>3. \A j \in 0..(t.slot_size - 1) : j # i => t.table[j] \cap t.table[i] = {}
    BY DEF Placed
<1>4. TableEntries(u) = (TableEntries(t) \ t.table[i]) \cup list
    <2>1. ASSUME NEW e \in TableEntries(u)
          PROVE  e \in (TableEntries(t) \ t.table[i]) \cup list
        BY <1>1, <1>3 DEF TableEntries
    <2>2. ASSUME NEW e \in TableEntries(t), e \notin t.table[i]
          PROVE  e \in TableEntries(u)
        BY <1>1, <2>2 DEF TableEntries
    <2>3. ASSUME NEW e \in list
          PROVE  e \in TableEntries(u)
        BY <1>1 DEF TableEntries
    <2> QED
        BY <2>1, <2>2, <2>3
<1>5. UniqueKeys(u)
    <2> SUFFICES ASSUME NEW e \in TableEntries(u), NEW f \in TableEntries(u), e.key = f.key
                 PROVE  e = f
        BY DEF UniqueKeys
    <2>1. \A d \in TableEntries(t) \ t.table[i] : CalculateSlotIndex(t, d.key) # i
        BY DEF TableEntries, Placed
    <2> QED
        BY <1>4, <2>1 DEF UniqueKeys
<1>6. /\ IsFiniteSet(TableEntries(u))
      /\ Cardinality(TableEntries(u)) = n
      /\ n \in Nat
    <2> DEFINE rest == TableEntries(t) \ t.table[i]
    <2>1. TableEntries(t) \cap t.table[i] = t.table[i]
        BY DEF TableEntries
    <2>2. /\ IsFiniteSet(rest)
          /\ Cardinality(rest) = Cardinality(TableEntries(t))
                                    - Cardinality(TableEntries(t) \cap t.table[i])
        BY FS_Difference DEF CountOK
    <2>3. rest \cap list = {}
        BY DEF TableEntries, Placed
    <2>4. /\ IsFiniteSet(rest \cup list)
          /\ Cardinality(rest \cup list) = Cardinality(rest) + Cardinality(list)
        BY <2>2, <2>3, DisjointUnion
    <2>5. t.table[i] \subseteq TableEntries(t)
        BY DEF TableEntries
    <2>6. /\ Cardinality(rest) \in Nat /\ Cardinality(list) \in Nat
          /\ Cardinality(t.table[i]) \in Nat /\ Cardinality(TableEntries(t)) \in Nat
        BY <2>2, <2>5, FS_Subset, FS_CardinalityType DEF CountOK
    <2>7. Cardinality(rest) = t.count - Cardinality(t.table[i])
        BY <2>1, <2>2, Zenon DEF CountOK
    <2> HIDE DEF rest
    <2>8. Cardinality(rest \cup list) = n /\ n \in Nat
        BY <2>4, <2>6, <2>7 DEF CountOK
    <2> QED
        BY <2>4, <2>8, <1>4 DEF rest
<1>7. TableType(u)
    BY <1>6 DEF TableType
<1>8. CountOK(u)
    BY <1>6 DEF CountOK
<1> QED
    BY <1>2, <1>4, <1>5, <1>7, <1>8

\* Each list of a consistent table is a finite set of entries of the table.
LEMMA ListOK ==
    ASSUME NEW t, TableOK(t), NEW i \in 0..(t.slot_size - 1)
    PROVE  /\ t.table[i] \subseteq TableEntries(t)
           /\ IsFiniteSet(t.table[i])
           /\ Cardinality(t.table[i]) \in Nat
           /\ t.table[i] \in SUBSET Entry
           /\ \A e, f \in t.table[i] : e.key = f.key => e = f
           /\ \A e \in t.table[i] : CalculateSlotIndex(t, e.key) = i
<1>1. t.table[i] \subseteq TableEntries(t)
    BY DEF TableEntries
<1>2. IsFiniteSet(t.table[i])
    BY <1>1, FS_Subset DEF TableOK, CountOK
<1>3. Cardinality(t.table[i]) \in Nat
    BY <1>2, FS_CardinalityType
<1> QED
    BY <1>1, <1>2, <1>3 DEF TableOK, TableType, UniqueKeys, Placed

\* EraseKey removes the entry of its key, that one only, and keeps the table
\* consistent.
LEMMA EraseKeyOK ==
    ASSUME NEW t, TableOK(t), t.slot_size > 0, NEW k \in Key
    PROVE  LET u == EraseKey(t, k)
           IN  /\ TableOK(u)
               /\ TableEntries(u) = {e \in TableEntries(t) : e.key # k}
               /\ u.slot_size = t.slot_size
               /\ u.rehashing_idx = t.rehashing_idx
               /\ \A j \in 0..(t.slot_size - 1) : u.table[j] \subseteq t.table[j]
<1> DEFINE i == CalculateSlotIndex(t, k)
           found == FindEntry(t, k)
           list == t.table[i] \ found
           n == t.count - 1
           u == [t EXCEPT !.table[i] = list, !.count = n]
<1>1. i \in 0..(t.slot_size - 1) /\ found = {e \in TableEntries(t) : e.key = k}
    BY SMTT(20), FindEntryFinds DEF TableOK
<1>2. CASE found = {}
    BY <1>1, <1>2 DEF EraseKey
<1>3. CASE found # {}
    <2>1. PICK e \in found : found = {e}
        BY <1>1, <1>3 DEF TableOK, UniqueKeys
    <2>2. e \in t.table[i]
        BY <2>1 DEF FindEntry
    <2>3. IsFiniteSet(list) /\ Cardinality(list) = Cardinality(t.table[i]) - 1
        <3>1. list = t.table[i] \ {e}
            BY <2>1
        <3>2. IsFiniteSet(t.table[i])
            BY <1>1, ListOK
        <3> HIDE DEF list, i
        <3> QED
            BY <2>2, <3>1, <3>2, FS_RemoveElement
    <2>4. /\ n \in Int
          /\ n = t.count - Cardinality(t.table[i]) + Cardinality(list)
        BY <1>1, <2>3, ListOK DEF TableOK, TableType
    <2>5. /\ list \in SUBSET Entry
          /\ \A d \in list : CalculateSlotIndex(t, d.key) = i
          /\ \A d, f \in list : d.key = f.key => d = f
        BY <1>1, ListOK
    <2> HIDE DEF list
    <2>6. /\ TableOK(u)
          /\ TableEntries(u) = (TableEntries(t) \ t.table[i]) \cup list
          /\ u.slot_size = t.slot_size
          /\ u.rehashing_idx = t.rehashing_idx
          /\ u.table = [t.table EXCEPT ![i] = list]
        <3>1. i \in 0..(t.slot_size - 1)
            BY <1>1
        <3>2. /\ u.slot_size = t.slot_size
              /\ u.rehashing_idx = t.rehashing_idx
              /\ u.table = [t.table EXCEPT ![i] = list]
              /\ u.count = n
              /\ DOMAIN u = DOMAIN t
            BY DEF TableOK, TableType
        <3> HIDE DEF i, n, u
        <3> QED
            BY <2>3, <2>4, <2>5, <3>1, <3>2, ReplaceList
    <2>7. u = EraseKey(t, k)
        BY <1>3 DEF EraseKey, list
    <2> HIDE DEF u
    <2>8. TableEntries(u) = {d \in TableEntries(t) : d.key # k}
        <3>1. t.table[i] \subseteq TableEntries(t) /\ found \subseteq t.table[i]
            BY <1>1, ListOK DEF FindEntry
        <3> QED
            BY <1>1, <2>6, <3>1 DEF list
    <2>9. \A j \in 0..(t.slot_size - 1) : u.table[j] \subseteq t.table[j]
        BY <2>6 DEF list, TableOK, TableType
    <2> QED
        BY <2>6, <2>7, <2>8, <2>9
<1> QED
    BY <1>2, <1>3

\* u is t with the entry new linked into its list, replacing the one with the
\* same key if there is one (UpdateKV, HashSetImpl::Add).
IsPut(t, new, u) ==
    LET i == CalculateSlotIndex(t, new.key)
        found == FindEntry(t, new.key)
    IN  /\ DOMAIN u = DOMAIN t
        /\ u.slot_size = t.slot_size
        /\ u.rehashing_idx = t.rehashing_idx
        /\ u.table = [t.table EXCEPT ![i] = (t.table[i] \ found) \cup {new}]
        /\ u.count = IF found = {} THEN t.count + 1 ELSE t.count

\* Linking the entry of a key in, in the place of the one it had if any, keeps
\* the table consistent and changes that key only.
LEMMA PutOK ==
    ASSUME NEW t, TableOK(t), t.slot_size > 0, NEW new \in Entry,
           NEW u, IsPut(t, new, u)
    PROVE  /\ TableOK(u)
           /\ u.slot_size = t.slot_size
           /\ u.rehashing_idx = t.rehashing_idx
           /\ TableEntries(u) = {e \in TableEntries(t) : e.key # new.key} \cup {new}
           /\ \A j \in 0..(t.slot_size - 1) :
                 t.table[j] # {} \/ j = CalculateSlotIndex(t, new.key)
                    \/ u.table[j] = {}
<1> DEFINE i == CalculateSlotIndex(t, new.key)
           found == FindEntry(t, new.key)
           rest == t.table[i] \ found
           list == rest \cup {new}
<1>1. /\ i \in 0..(t.slot_size - 1)
      /\ found = {e \in TableEntries(t) : e.key = new.key}
      /\ found \subseteq t.table[i]
      /\ new.key \in Key
    <2>1. new.key \in Key
        BY DEF Entry
    <2> QED
        BY <2>1, FindEntryFinds DEF TableOK, FindEntry
<1>2. /\ t.table[i] \subseteq TableEntries(t)
      /\ IsFiniteSet(t.table[i])
      /\ Cardinality(t.table[i]) \in Nat
      /\ t.table[i] \in SUBSET Entry
      /\ \A e, f \in t.table[i] : e.key = f.key => e = f
      /\ \A e \in t.table[i] : CalculateSlotIndex(t, e.key) = i
    BY <1>1, ListOK
<1>3. new \notin rest /\ \A e \in rest : e.key # new.key
    BY <1>1, <1>2
<1>4. /\ list \in SUBSET Entry
      /\ \A e \in list : CalculateSlotIndex(t, e.key) = i
      /\ \A e, f \in list : e.key = f.key => e = f
    BY <1>2, <1>3
<1>5. /\ IsFiniteSet(rest)
      /\ Cardinality(rest) = IF found = {} THEN Cardinality(t.table[i])
                             ELSE Cardinality(t.table[i]) - 1
    <2>1. CASE found = {}
        <3>1. rest = t.table[i]
            BY <2>1
        <3> HIDE DEF rest
        <3> QED
            BY <1>2, <2>1, <3>1
    <2>2. CASE found # {}
        <3>1. PICK e \in t.table[i] : found = {e}
            BY <1>1, <2>2 DEF TableOK, UniqueKeys
        <3>2. rest = t.table[i] \ {e}
            BY <3>1
        <3> HIDE DEF rest, i, found
        <3> QED
            BY <1>2, <2>2, <3>2, FS_RemoveElement
    <2> QED
        BY <2>1, <2>2
<1>6. IsFiniteSet(list) /\ Cardinality(list) = Cardinality(rest) + 1
    <2> HIDE DEF rest
    <2> QED
        BY <1>3, <1>5, FS_AddElement
<1>7. u.count = t.count - Cardinality(t.table[i]) + Cardinality(list)
    <2>1. u.count = IF found = {} THEN t.count + 1 ELSE t.count
        BY DEF IsPut
    <2> HIDE DEF rest, list, found, i
    <2> QED
        BY <1>2, <1>5, <1>6, <2>1 DEF TableOK, TableType
<1>8. /\ u.table = [t.table EXCEPT ![i] = list]
      /\ DOMAIN u = DOMAIN t
      /\ u.slot_size = t.slot_size
      /\ u.rehashing_idx = t.rehashing_idx
    BY DEF IsPut
<1>9. /\ TableOK(u)
      /\ TableEntries(u) = (TableEntries(t) \ t.table[i]) \cup list
    <2> HIDE DEF rest, list, found, i
    <2> QED
        BY <1>1, <1>4, <1>6, <1>7, <1>8, ReplaceList
<1>10. TableEntries(u) = {e \in TableEntries(t) : e.key # new.key} \cup {new}
    <2> HIDE DEF i, found
    <2> QED
        BY <1>1, <1>2, <1>3, <1>9
<1>11. \A j \in 0..(t.slot_size - 1) : t.table[j] # {} \/ j = i \/ u.table[j] = {}
    <2> HIDE DEF i, list
    <2> QED
        BY <1>8 DEF TableOK, TableType
<1> QED
    BY <1>8, <1>9, <1>10, <1>11

\* AddEntry of a list whose keys the table does not hold adds just that list.
LEMMA AddEntriesOK ==
    ASSUME NEW t, TableOK(t), t.slot_size > 0,
           NEW list \in SUBSET Entry, IsFiniteSet(list),
           \A e, f \in list : e.key = f.key => e = f,
           \A e \in list : \A f \in TableEntries(t) : e.key # f.key
    PROVE  LET u == AddEntries(t, list)
           IN  /\ TableOK(u)
               /\ TableEntries(u) = TableEntries(t) \cup list
               /\ u.slot_size = t.slot_size
               /\ u.rehashing_idx = t.rehashing_idx
<1> DEFINE u == AddEntries(t, list)
           idx(e) == CalculateSlotIndex(t, e.key)
<1> USE DEF TableOK
<1>1. \A e \in list : /\ idx(e) \in 0..(t.slot_size - 1)
                      /\ FindEntry(t, e.key) = {}
    BY FindEntryFinds DEF Entry
<1>2. {e \in list : FindEntry(t, e.key) = {}} = list
    BY <1>1
<1>3. /\ u.slot_size = t.slot_size
      /\ u.rehashing_idx = t.rehashing_idx
      /\ DOMAIN u = DOMAIN t
      /\ u.count = t.count + Cardinality(list)
    BY <1>2 DEF AddEntries, TableType
<1>4. /\ DOMAIN u.table = 0..(t.slot_size - 1)
      /\ \A i \in 0..(t.slot_size - 1) :
            u.table[i] = t.table[i] \cup {e \in list : idx(e) = i}
    <2>1. /\ u.table = [i \in DOMAIN t.table |->
                        {e \in t.table[i] : \A n \in list : n.key # e.key}
                          \cup {e \in list : CalculateSlotIndex(t, e.key) = i}]
          /\ DOMAIN t.table = 0..(t.slot_size - 1)
        BY DEF AddEntries, TableType
    <2>2. \A i \in 0..(t.slot_size - 1) : \A e \in t.table[i] : \A n \in list : n.key # e.key
        BY DEF TableEntries
    <2> HIDE DEF u, idx
    <2> QED
        BY <2>1, <2>2 DEF idx
<1>5. u.table \in [0..(t.slot_size - 1) -> SUBSET Entry]
    <2>1. u.table = [i \in 0..(t.slot_size - 1) |-> u.table[i]]
        BY DEF AddEntries, TableType
    <2> HIDE DEF u
    <2> QED
        BY <1>4, <2>1 DEF TableType
<1> HIDE DEF u
<1>6. TableEntries(u) = TableEntries(t) \cup list
    <2>1. TableEntries(u) \subseteq TableEntries(t) \cup list
        BY <1>3, <1>4 DEF TableEntries
    <2>2. TableEntries(t) \subseteq TableEntries(u)
        BY <1>3, <1>4 DEF TableEntries
    <2>3. ASSUME NEW e \in list PROVE e \in TableEntries(u)
        <3>1. e \in u.table[idx(e)]
            BY <1>1, <1>4
        <3> QED
            BY <1>1, <1>3, <3>1 DEF TableEntries
    <2> QED
        BY <2>1, <2>2, <2>3
<1>7. Placed(u)
    <2> SUFFICES ASSUME NEW i \in 0..(t.slot_size - 1), NEW e \in u.table[i]
                 PROVE  CalculateSlotIndex(t, e.key) = i
        BY <1>3 DEF Placed, CalculateSlotIndex
    <2> QED
        BY <1>4 DEF Placed
<1>8. UniqueKeys(u)
    BY <1>6 DEF UniqueKeys
<1>9. /\ IsFiniteSet(TableEntries(u))
      /\ Cardinality(TableEntries(u)) = t.count + Cardinality(list)
      /\ t.count + Cardinality(list) \in Nat
    <2>1. TableEntries(t) \cap list = {}
        OBVIOUS
    <2>2. /\ IsFiniteSet(TableEntries(t) \cup list)
          /\ Cardinality(TableEntries(t) \cup list)
                = Cardinality(TableEntries(t)) + Cardinality(list)
        BY <2>1, DisjointUnion DEF CountOK
    <2>3. Cardinality(list) \in Nat
        BY FS_CardinalityType
    <2>4. Cardinality(TableEntries(u)) = t.count + Cardinality(list)
        BY <1>6, <2>2, Zenon DEF CountOK
    <2> QED
        BY <2>3, <2>4, <1>6, <2>2 DEF TableType
<1>10. TableType(u)
    BY <1>3, <1>5, <1>9 DEF TableType
<1> QED
    BY <1>3, <1>6, <1>7, <1>8, <1>9, <1>10 DEF CountOK, u

\* StepRehashingIdx ends with -1 only when the table is empty, provided the
\* slots up to the current one are; otherwise it advances to the next occupied
\* slot.
LEMMA StepRehashingIdxOK ==
    ASSUME NEW t, TableOK(t), EmptyBelow(t, t.rehashing_idx + 1)
    PROVE  LET u == StepRehashingIdx(t)
           IN  /\ TableOK(u)
               /\ TableEntries(u) = TableEntries(t)
               /\ u.slot_size = t.slot_size
               /\ EmptyBelow(u, u.rehashing_idx)
               /\ \/ RehashDone(u) /\ EnsureAllSlotsEmpty(u)
                  \/ ~RehashDone(u) /\ u.rehashing_idx > t.rehashing_idx
<1> DEFINE u == StepRehashingIdx(t)
           occupied == {i \in (t.rehashing_idx + 1)..(t.slot_size - 1) : t.table[i] # {}}
           next == IF occupied = {} THEN -1 ELSE Min(occupied)
<1> USE DEF TableOK
<1>1. /\ DOMAIN u = DOMAIN t
      /\ u.slot_size = t.slot_size
      /\ u.table = t.table
      /\ u.count = t.count
      /\ u.rehashing_idx = next
    BY DEF StepRehashingIdx, TableType
<1> HIDE DEF u
<1>2. t.slot_size \in Nat /\ t.rehashing_idx \in -1..(t.slot_size - 1)
    BY DEF TableType
<1>3. occupied \subseteq Nat
    BY <1>2
<1>4. CASE occupied = {}
    <2>1. next = -1
        BY <1>4
    <2>2. \A i \in 0..(t.slot_size - 1) : t.table[i] = {}
        BY <1>2, <1>4 DEF EmptyBelow
    <2> QED
        BY <1>1, <1>2, <2>1, <2>2
        DEF TableType, Placed, UniqueKeys, CountOK, TableEntries, CalculateSlotIndex,
            EmptyBelow, RehashDone, EnsureAllSlotsEmpty, u
<1>5. CASE occupied # {}
    <2>1. next \in occupied /\ \A y \in occupied : next =< y
        BY <1>3, <1>5, MinNat
    <2>2. /\ next \in 0..(t.slot_size - 1)
          /\ next > t.rehashing_idx
          /\ next # -1
        BY <1>2, <2>1
    <2>3. \A i \in 0..(t.slot_size - 1) : i < next => t.table[i] = {}
        <3> SUFFICES ASSUME NEW i \in 0..(t.slot_size - 1), i < next, t.table[i] # {}
                     PROVE  FALSE
            OBVIOUS
        <3>1. ~(i < t.rehashing_idx + 1)
            BY DEF EmptyBelow
        <3>2. i \in occupied
            BY <1>2, <3>1
        <3> QED
            BY <1>2, <2>1, <2>2, <3>2
    <2> HIDE DEF next, occupied
    <2> QED
        BY <1>1, <1>2, <2>2, <2>3
        DEF TableType, Placed, UniqueKeys, CountOK, TableEntries, CalculateSlotIndex,
            EmptyBelow, RehashDone, EnsureAllSlotsEmpty, u
<1> QED
    BY <1>4, <1>5

\* Moving one slot in the middle of a rehash keeps both tables consistent and
\* loses no entry; the rehash ends or advances.
LEMMA PerformRehashOK ==
    ASSUME NEW cur, TableOK(cur), cur.slot_size > 0, ~RehashDone(cur),
           EmptyBelow(cur, cur.rehashing_idx),
           NEW backup, TableOK(backup), RehashDone(backup),
           backup = NullTable \/ backup.slot_size > 0,
           Separate(cur, backup)
    PROVE  LET r == PerformRehash(cur, backup)
           IN  /\ HashInv(r.cur, r.backup)
               /\ TableEntries(r.cur) \cup TableEntries(r.backup)
                    = TableEntries(cur) \cup TableEntries(backup)
               /\ RehashDone(r.cur) \/ r.cur.rehashing_idx > cur.rehashing_idx
<1> DEFINE idx   == cur.rehashing_idx
           list  == cur.table[idx]
           back1 == IF backup = NullTable THEN NewTable(cur.slot_size * kGrowFactor)
                    ELSE backup
           cur0  == [cur EXCEPT !.table[idx] = {}, !.count = @ - Cardinality(list)]
           cur1  == StepRehashingIdx(cur0)
           back2 == AddEntries(back1, list)
           r     == PerformRehash(cur, backup)
<1>1. idx \in 0..(cur.slot_size - 1) /\ cur.slot_size \in Nat
    BY DEF TableOK, TableType, RehashDone
<1>2. /\ list \subseteq TableEntries(cur)
      /\ IsFiniteSet(list)
      /\ Cardinality(list) \in Nat
      /\ list \in SUBSET Entry
      /\ \A e, f \in list : e.key = f.key => e = f
    BY <1>1, ListOK
<1>3. /\ TableOK(back1) /\ RehashDone(back1) /\ back1.slot_size > 0
      /\ TableEntries(back1) = TableEntries(backup)
    <2>1. CASE backup = NullTable
        <3>1. cur.slot_size * kGrowFactor \in Nat /\ cur.slot_size * kGrowFactor > 0
            BY <1>1 DEF kGrowFactor
        <3>2. TableEntries(backup) = {}
            BY <2>1, NewTableOK DEF NullTable
        <3> QED
            BY <2>1, <3>1, <3>2, NewTableOK
    <2>2. CASE backup # NullTable
        BY <2>2
    <2> QED
        BY <2>1, <2>2
<1> HIDE DEF back1
<1>4. /\ TableOK(back2)
      /\ TableEntries(back2) = TableEntries(backup) \cup list
      /\ back2.slot_size > 0
      /\ RehashDone(back2)
    <2>1. \A e \in list : \A f \in TableEntries(back1) : e.key # f.key
        BY <1>2, <1>3 DEF Separate
    <2> HIDE DEF list
    <2> QED
        BY <1>2, <1>3, <2>1, AddEntriesOK DEF RehashDone
<1>5. /\ DOMAIN cur0 = DOMAIN cur
      /\ cur0.slot_size = cur.slot_size
      /\ cur0.rehashing_idx = idx
      /\ cur0.table = [cur.table EXCEPT ![idx] = {}]
      /\ cur0.count = cur.count - Cardinality(list)
    BY DEF TableOK, TableType
<1>6. r = IF RehashDone(cur1) /\ EnsureAllSlotsEmpty(cur1)
          THEN [cur |-> back2, backup |-> NullTable]
          ELSE [cur |-> cur1, backup |-> back2]
    BY DEF PerformRehash, back1
<1> HIDE DEF cur0, back2, r
<1>7. /\ TableOK(cur0)
      /\ TableEntries(cur0) = (TableEntries(cur) \ list) \cup {}
    <2> DEFINE none == {}
    <2>1. /\ Cardinality(none) = 0 /\ IsFiniteSet(none)
          /\ none \in SUBSET Entry
          /\ \A e \in none : CalculateSlotIndex(cur, e.key) = idx
          /\ \A e, f \in none : e.key = f.key => e = f
        BY FS_EmptySet
    <2>2. cur0.count = cur.count - Cardinality(cur.table[idx]) + Cardinality(none)
        BY <1>2, <1>5, <2>1 DEF TableOK, TableType
    <2>3. cur0.table = [cur.table EXCEPT ![idx] = none]
        BY <1>5
    <2>4. /\ idx \in 0..(cur.slot_size - 1) /\ DOMAIN cur0 = DOMAIN cur
          /\ cur0.slot_size = cur.slot_size /\ cur0.rehashing_idx = cur.rehashing_idx
        BY <1>1, <1>5
    <2> HIDE DEF none, idx
    <2>5. TableOK(cur0) /\ TableEntries(cur0) = (TableEntries(cur) \ cur.table[idx]) \cup none
        BY <2>1, <2>2, <2>3, <2>4, ReplaceList
    <2> QED
        BY <2>5 DEF none, idx
<1>8. EmptyBelow(cur0, cur0.rehashing_idx + 1)
    BY <1>1, <1>5 DEF EmptyBelow, TableOK, TableType
<1>9. /\ TableOK(cur1)
      /\ TableEntries(cur1) = TableEntries(cur) \ list
      /\ cur1.slot_size = cur.slot_size
      /\ EmptyBelow(cur1, cur1.rehashing_idx)
      /\ \/ RehashDone(cur1) /\ EnsureAllSlotsEmpty(cur1)
         \/ ~RehashDone(cur1) /\ cur1.rehashing_idx > idx
    BY <1>5, <1>7, <1>8, StepRehashingIdxOK
<1> HIDE DEF cur1, list, idx
<1>10. CASE RehashDone(cur1) /\ EnsureAllSlotsEmpty(cur1)
    <2>1. r.cur = back2 /\ r.backup = NullTable
        BY <1>6, <1>10
    <2>2. TableEntries(cur1) = {}
        BY <1>10 DEF EnsureAllSlotsEmpty, TableEntries
    <2>3. /\ TableOK(NullTable) /\ RehashDone(NullTable)
          /\ TableEntries(NullTable) = {}
        BY NewTableOK DEF NullTable
    <2>4. EmptyBelow(back2, back2.rehashing_idx)
        BY <1>4 DEF EmptyBelow, RehashDone
    <2>5. HashInv(back2, NullTable)
        BY <1>4, <2>3, <2>4 DEF HashInv, Separate
    <2> QED
        BY <1>2, <1>4, <1>9, <2>1, <2>2, <2>3, <2>5 DEF r
<1>11. CASE ~RehashDone(cur1) /\ cur1.rehashing_idx > idx
    <2>1. r.cur = cur1 /\ r.backup = back2
        BY <1>6, <1>11
    <2>2. back2 # NullTable
        BY <1>4, NewTableOK DEF NullTable
    <2>3. Separate(cur1, back2)
        <3>1. ASSUME NEW e \in TableEntries(cur) \ list, NEW f \in list PROVE e.key # f.key
            BY <1>2 DEF TableOK, UniqueKeys
        <3> QED
            BY <1>4, <1>9, <3>1 DEF Separate
    <2>4. HashInv(cur1, back2)
        BY <1>4, <1>9, <1>11, <2>2, <2>3 DEF HashInv
    <2> QED
        BY <1>2, <1>4, <1>9, <1>11, <2>1, <2>4 DEF r, idx
<1> QED
    BY <1>8, <1>9, <1>10, <1>11

\* Found tells whether a table holds a key.
LEMMA FoundIffHeld ==
    ASSUME NEW t, TableOK(t), t = NullTable \/ t.slot_size > 0, NEW k \in Key
    PROVE  Found(t, k) <=> \E e \in TableEntries(t) : e.key = k
<1>1. CASE t = NullTable
    BY <1>1, NewTableOK DEF Found, NullTable
<1>2. CASE t # NullTable
    BY <1>2, FindEntryFinds DEF Found, TableOK
<1> QED
    BY <1>1, <1>2

\* What every mutating call does first keeps the invariant and the contents,
\* and advances a rehash that is running.
LEMMA RehashedOK ==
    ASSUME Inv
    PROVE  LET h == Rehashed
           IN  /\ HashInv(h.cur, h.backup)
               /\ TableEntries(h.cur) \cup TableEntries(h.backup)
                    = TableEntries(cur_ht) \cup TableEntries(backup_ht)
               /\ RehashDone(cur_ht) \/ RehashDone(h.cur)
                    \/ h.cur.rehashing_idx > cur_ht.rehashing_idx
<1> USE DEF Inv, HashInv
<1>1. CASE ~NeedRehash(cur_ht)
    BY <1>1 DEF Rehashed, NeedRehash
<1>2. CASE ~RehashDone(cur_ht)
    <2>1. Rehashed = PerformRehash(cur_ht, backup_ht)
        BY <1>2 DEF Rehashed, NeedRehash, CheckNeedRehash
    <2> QED
        BY <1>2, <2>1, PerformRehashOK
<1>3. CASE RehashDone(cur_ht) /\ OverLoaded(cur_ht)
    <2> DEFINE cur == StepRehashingIdx(cur_ht)
    <2>1. Rehashed = PerformRehash(cur, backup_ht)
        BY <1>3 DEF Rehashed, NeedRehash, CheckNeedRehash
    <2>2. EmptyBelow(cur_ht, cur_ht.rehashing_idx + 1)
        BY <1>3 DEF RehashDone, EmptyBelow
    <2>3. /\ TableOK(cur)
          /\ TableEntries(cur) = TableEntries(cur_ht)
          /\ cur.slot_size = cur_ht.slot_size
          /\ EmptyBelow(cur, cur.rehashing_idx)
          /\ RehashDone(cur) => EnsureAllSlotsEmpty(cur)
        BY <2>2, StepRehashingIdxOK
    <2> HIDE DEF cur
    <2>4. TableEntries(cur_ht) # {}
        <3>1. cur_ht.count # 0
            <4>1. /\ cur_ht.count \in Nat /\ LoadDen \in Nat
                  /\ LoadNum * cur_ht.slot_size \in Nat
                BY LoadAssumption DEF TableOK, TableType
            <4> QED
                BY <1>3, <4>1 DEF OverLoaded
        <3> QED
            BY <3>1, FS_EmptySet DEF TableOK, CountOK
    <2>5. ~RehashDone(cur)
        BY <2>3, <2>4 DEF EnsureAllSlotsEmpty, TableEntries
    <2>6. Separate(cur, backup_ht)
        BY <2>3 DEF Separate
    <2> QED
        BY <1>3, <2>1, <2>3, <2>5, <2>6, PerformRehashOK
<1> QED
    BY <1>1, <1>2, <1>3 DEF NeedRehash

\* Erasing a key from either table keeps the invariant.
LEMMA EraseKeepsHashInv ==
    ASSUME NEW cur, NEW backup, HashInv(cur, backup), NEW k \in Key
    PROVE  /\ HashInv(EraseKey(cur, k), backup)
           /\ backup # NullTable => HashInv(cur, EraseKey(backup, k))
<1> DEFINE c == EraseKey(cur, k)
           b == EraseKey(backup, k)
<1>1. HashInv(c, backup)
    <2>1. /\ TableOK(c) /\ c.slot_size = cur.slot_size
          /\ c.rehashing_idx = cur.rehashing_idx
          /\ TableEntries(c) = {e \in TableEntries(cur) : e.key # k}
          /\ \A j \in 0..(cur.slot_size - 1) : c.table[j] \subseteq cur.table[j]
        BY EraseKeyOK DEF HashInv
    <2> HIDE DEF c
    <2>2. EmptyBelow(c, c.rehashing_idx)
        BY <2>1 DEF EmptyBelow, HashInv
    <2> QED
        BY <2>1, <2>2 DEF HashInv, Separate, RehashDone
<1>2. ASSUME backup # NullTable PROVE HashInv(cur, b)
    <2>1. /\ TableOK(b) /\ b.slot_size = backup.slot_size
          /\ b.rehashing_idx = backup.rehashing_idx
          /\ TableEntries(b) = {e \in TableEntries(backup) : e.key # k}
        BY <1>2, EraseKeyOK DEF HashInv
    <2> HIDE DEF b
    <2>2. b # NullTable /\ b.slot_size > 0
        BY <1>2, <2>1, NewTableOK DEF HashInv, NullTable
    <2> QED
        BY <1>2, <2>1, <2>2 DEF HashInv, Separate, RehashDone
<1> QED
    BY <1>1, <1>2

\* Putting an entry where the code puts it keeps the invariant: into cur_ht_
\* when no rehash is running or the key is still there, else into backup_ht_.
LEMMA PutKeepsHashInv ==
    ASSUME NEW cur, NEW backup, HashInv(cur, backup), NEW new \in Entry,
           NEW u
    PROVE  /\ IsPut(cur, new, u) /\ (RehashDone(cur) \/ Found(cur, new.key))
                => HashInv(u, backup)
           /\ IsPut(backup, new, u) /\ ~RehashDone(cur) /\ ~Found(cur, new.key)
                => HashInv(cur, u)
<1>0. new.key \in Key
    BY DEF Entry
<1>1. ASSUME IsPut(cur, new, u), RehashDone(cur) \/ Found(cur, new.key)
      PROVE  HashInv(u, backup)
    <2>1. /\ TableOK(u)
          /\ u.slot_size = cur.slot_size
          /\ u.rehashing_idx = cur.rehashing_idx
          /\ TableEntries(u) = {e \in TableEntries(cur) : e.key # new.key} \cup {new}
          /\ \A j \in 0..(cur.slot_size - 1) :
                 cur.table[j] # {} \/ j = CalculateSlotIndex(cur, new.key)
                    \/ u.table[j] = {}
        BY <1>1, PutOK DEF HashInv
    <2>2. CASE RehashDone(cur)
        <3>1. TableEntries(backup) = {}
            BY <2>2, NewTableOK DEF HashInv, NullTable
        <3>2. EmptyBelow(u, u.rehashing_idx)
            BY <2>1, <2>2 DEF EmptyBelow, RehashDone
        <3> QED
            BY <2>1, <2>2, <3>1, <3>2 DEF HashInv, Separate, RehashDone
    <2>3. CASE Found(cur, new.key) /\ ~RehashDone(cur)
        <3>1. \A f \in TableEntries(backup) : new.key # f.key
            BY <1>0, <2>3, FoundIffHeld DEF HashInv, Separate
        <3>2. cur.table[CalculateSlotIndex(cur, new.key)] # {}
            BY <2>3 DEF Found, FindEntry
        <3>3. EmptyBelow(u, u.rehashing_idx)
            BY <2>1, <3>2 DEF EmptyBelow, HashInv
        <3> QED
            BY <2>1, <2>3, <3>1, <3>3 DEF HashInv, Separate, RehashDone
    <2> QED
        BY <1>1, <2>2, <2>3
<1>2. ASSUME IsPut(backup, new, u), ~RehashDone(cur), ~Found(cur, new.key)
      PROVE  HashInv(cur, u)
    <2>1. /\ TableOK(u)
          /\ u.slot_size = backup.slot_size
          /\ u.rehashing_idx = backup.rehashing_idx
          /\ TableEntries(u) = {e \in TableEntries(backup) : e.key # new.key} \cup {new}
        BY <1>2, PutOK DEF HashInv
    <2>2. u # NullTable /\ u.slot_size > 0
        BY <1>2, <2>1, NewTableOK DEF HashInv, NullTable
    <2>3. \A e \in TableEntries(cur) : e.key # new.key
        BY <1>0, <1>2, FoundIffHeld DEF HashInv
    <2> QED
        BY <1>2, <2>1, <2>2, <2>3 DEF HashInv, Separate, RehashDone
<1> QED
    BY <1>1, <1>2

Held == TableEntries(cur_ht) \cup TableEntries(backup_ht)

\* Erase removes its key from whichever table holds it and says whether one
\* did.
LEMMA EraseOK ==
    ASSUME Inv, NEW k \in Key, Erase(k)
    PROVE  /\ Inv'
           /\ Held' = {e \in Held : e.key # k}
           /\ ret' = <<"Erase", k, IF {e \in Held : e.key = k} = {} THEN NOT_ERASED ELSE ERASED>>
           /\ RehashDone(cur_ht) \/ RehashDone(cur_ht')
                \/ cur_ht'.rehashing_idx > cur_ht.rehashing_idx
<1> DEFINE h == Rehashed
<1>1. /\ HashInv(h.cur, h.backup)
      /\ TableEntries(h.cur) \cup TableEntries(h.backup) = Held
      /\ RehashDone(cur_ht) \/ RehashDone(h.cur)
           \/ h.cur.rehashing_idx > cur_ht.rehashing_idx
    BY RehashedOK DEF Held
<1>2. IF Found(h.cur, k)
      THEN /\ cur_ht' = EraseKey(h.cur, k)
           /\ backup_ht' = h.backup
           /\ ret' = <<"Erase", k, ERASED>>
      ELSE /\ cur_ht' = h.cur
           /\ backup_ht' = IF Found(h.backup, k) THEN EraseKey(h.backup, k) ELSE h.backup
           /\ ret' = <<"Erase", k, IF Found(h.backup, k) THEN ERASED ELSE NOT_ERASED>>
    BY DEF Erase
<1> HIDE DEF h
<1>3. CASE Found(h.cur, k)
    <2>1. /\ TableEntries(cur_ht') = {e \in TableEntries(h.cur) : e.key # k}
          /\ cur_ht'.rehashing_idx = h.cur.rehashing_idx
        BY <1>1, <1>2, <1>3, EraseKeyOK DEF HashInv
    <2>2. HashInv(cur_ht', backup_ht')
        BY <1>1, <1>2, <1>3, EraseKeepsHashInv
    <2>3. \E e \in TableEntries(h.cur) : e.key = k
        BY <1>1, <1>3, FoundIffHeld DEF HashInv
    <2>4. \A f \in TableEntries(h.backup) : f.key # k
        BY <1>1, <2>3 DEF HashInv, Separate
    <2>5. Held' = {e \in Held : e.key # k}
        BY <1>1, <1>2, <1>3, <2>1, <2>4 DEF Held
    <2>6. {e \in Held : e.key = k} # {}
        BY <1>1, <2>3
    <2> QED
        BY <1>1, <1>2, <1>3, <2>1, <2>2, <2>5, <2>6 DEF Inv, RehashDone
<1>4. CASE ~Found(h.cur, k) /\ Found(h.backup, k)
    <2>1. TableEntries(backup_ht') = {e \in TableEntries(h.backup) : e.key # k}
        BY <1>1, <1>2, <1>4, EraseKeyOK DEF HashInv, Found
    <2>2. HashInv(cur_ht', backup_ht')
        BY <1>1, <1>2, <1>4, EraseKeepsHashInv DEF Found
    <2>3. /\ \E e \in TableEntries(h.backup) : e.key = k
          /\ \A e \in TableEntries(h.cur) : e.key # k
        BY <1>1, <1>4, FoundIffHeld DEF HashInv
    <2>5. Held' = {e \in Held : e.key # k}
        BY <1>1, <1>2, <1>4, <2>1, <2>3 DEF Held
    <2>6. {e \in Held : e.key = k} # {}
        BY <1>1, <2>3
    <2> QED
        BY <1>1, <1>2, <1>4, <2>1, <2>2, <2>5, <2>6 DEF Inv
<1>5. CASE ~Found(h.cur, k) /\ ~Found(h.backup, k)
    <2>1. \A e \in Held : e.key # k
        <3>1. \A e \in TableEntries(h.cur) : e.key # k
            BY <1>1, <1>5, FoundIffHeld DEF HashInv
        <3>2. \A e \in TableEntries(h.backup) : e.key # k
            BY <1>1, <1>5, FoundIffHeld DEF HashInv
        <3> QED
            BY <1>1, <3>1, <3>2
    <2>2. Held' = Held
        BY <1>1, <1>2, <1>5 DEF Held
    <2>3. Held' = {e \in Held : e.key # k} /\ {e \in Held : e.key = k} = {}
        BY <2>1, <2>2
    <2> QED
        BY <1>1, <1>2, <1>5, <2>3 DEF Inv
<1> QED
    BY <1>3, <1>4, <1>5

\* Count and the listing of entries see each entry of the two tables once.
LEMMA CountAndListing ==
    ASSUME Inv
    PROVE  /\ Count = Cardinality(Held)
           /\ (IF Count = 0 THEN {} ELSE Listed(cur_ht) \cup Listed(backup_ht)) = Held
<1> DEFINE c == TableEntries(cur_ht)
           b == TableEntries(backup_ht)
<1>1. /\ IsFiniteSet(c) /\ cur_ht.count = Cardinality(c) /\ cur_ht.count \in Nat
      /\ IsFiniteSet(b) /\ backup_ht.count = Cardinality(b) /\ backup_ht.count \in Nat
    BY DEF Inv, HashInv, TableOK, CountOK, TableType
<1>2. Cardinality(c \cup b) = cur_ht.count + backup_ht.count /\ IsFiniteSet(c \cup b)
    <2>1. c \cap b = {}
        BY DEF Inv, HashInv, Separate
    <2> HIDE DEF c, b
    <2> QED
        BY <1>1, <2>1, DisjointUnion
<1>3. Listed(cur_ht) = c /\ Listed(backup_ht) = b
    BY <1>1, FS_EmptySet DEF Listed
<1>4. backup_ht = NullTable => backup_ht.count = 0
    BY DEF NullTable, NewTable
<1>5. Count = Cardinality(c \cup b)
    BY <1>1, <1>2, <1>4 DEF Count
<1>6. c \cup b = Held
    BY DEF Held
<1> HIDE DEF c, b
<1>7. Count = Cardinality(Held) /\ IsFiniteSet(Held)
    BY <1>2, <1>5, <1>6
<1>8. Count = 0 => Held = {}
    BY <1>7, FS_EmptySet
<1> QED
    BY <1>3, <1>6, <1>7, <1>8

\* A HashDict or HashSet starts with an empty table and no rehash.
LEMMA InitOK ==
    ASSUME Init
    PROVE  Inv /\ Held = {}
<1>1. /\ TableOK(cur_ht) /\ TableEntries(cur_ht) = {} /\ RehashDone(cur_ht)
      /\ cur_ht.slot_size = InitSlots
    BY InitSlotsAssumption, NewTableOK DEF Init
<1>2. /\ TableOK(backup_ht) /\ TableEntries(backup_ht) = {} /\ RehashDone(backup_ht)
      /\ backup_ht = NullTable
    BY NewTableOK DEF Init, NullTable
<1>3. EmptyBelow(cur_ht, cur_ht.rehashing_idx)
    BY <1>1 DEF EmptyBelow, RehashDone
<1> QED
    BY <1>1, <1>2, <1>3, InitSlotsAssumption DEF Inv, HashInv, Separate, Held
-----------------------------------------------------------------------------
(* HashDict *)

\* UpdateKV links the entry in, whether or not the key was there.
LEMMA UpdateKVIsPut ==
    ASSUME NEW t, TableOK(t), t.slot_size > 0, NEW k \in Key, NEW v \in Val
    PROVE  IsPut(t, [key |-> k, value |-> v], UpdateKV(t, k, v))
<1> DEFINE i == CalculateSlotIndex(t, k)
           found == FindEntry(t, k)
           new == [key |-> k, value |-> v]
<1>1. CASE found = {}
    <2>1. (t.table[i] \ found) \cup {new} = t.table[i] \cup {new}
        BY <1>1
    <2> HIDE DEF new
    <2> QED
        BY <1>1, <2>1 DEF IsPut, UpdateKV, TableOK, TableType, new
<1>2. CASE found # {}
    BY <1>2 DEF IsPut, UpdateKV, TableOK, TableType
<1> QED
    BY <1>1, <1>2

\* Update keeps the invariant, acts as the abstract Update does and advances a
\* running rehash.
LEMMA UpdateOK ==
    ASSUME Inv, NEW k \in Key, NEW v \in Val, Update(k, v)
    PROVE  /\ Inv'
           /\ Dict!Update(k, v)
           /\ RehashDone(cur_ht) \/ RehashDone(cur_ht')
                \/ cur_ht'.rehashing_idx > cur_ht.rehashing_idx
<1> DEFINE h == Rehashed
           new == [key |-> k, value |-> v]
           inCur == RehashDone(h.cur) \/ Found(h.cur, k)
<1>1. /\ HashInv(h.cur, h.backup)
      /\ TableEntries(h.cur) \cup TableEntries(h.backup) = Contents
      /\ RehashDone(cur_ht) \/ RehashDone(h.cur)
           \/ h.cur.rehashing_idx > cur_ht.rehashing_idx
    BY RehashedOK DEF Contents
<1>2. /\ new \in Entry
      /\ new.key = k
    BY DEF Entry
<1>3. /\ cur_ht' = IF inCur THEN UpdateKV(h.cur, k, v) ELSE h.cur
      /\ backup_ht' = IF inCur THEN h.backup ELSE UpdateKV(h.backup, k, v)
      /\ ret' = <<"Update", k, IF FindEntry(IF inCur THEN h.cur ELSE h.backup, k) = {}
                            THEN NEW_ADDED ELSE UPDATED>>
    BY DEF Update
<1> HIDE DEF h, new
<1>4. CASE inCur
    <2>1. IsPut(h.cur, new, cur_ht')
        BY <1>1, <1>3, <1>4, UpdateKVIsPut DEF HashInv, new
    <2>2. HashInv(cur_ht', h.backup)
        BY <1>1, <1>2, <1>4, <2>1, PutKeepsHashInv
    <2>3. /\ TableEntries(cur_ht') = {e \in TableEntries(h.cur) : e.key # k} \cup {new}
          /\ cur_ht'.rehashing_idx = h.cur.rehashing_idx
        BY <1>1, <1>2, <2>1, PutOK DEF HashInv
    <2>4. \A f \in TableEntries(h.backup) : f.key # k
        <3>1. CASE RehashDone(h.cur)
            BY <1>1, <3>1, NewTableOK DEF HashInv, NullTable
        <3>2. CASE Found(h.cur, k)
            BY <1>1, <3>2, FoundIffHeld DEF HashInv, Separate
        <3> QED
            BY <1>4, <3>1, <3>2
    <2>5. FindEntry(h.cur, k) = {e \in Contents : e.key = k}
        BY <1>1, <2>4, FindEntryFinds DEF HashInv, TableOK
    <2>6. Contents' = (Contents \ {e \in Contents : e.key = k}) \cup {new}
        BY <1>1, <1>3, <1>4, <2>3, <2>4 DEF Contents
    <2>7. Dict!Update(k, v)
        BY <1>3, <1>4, <2>5, <2>6 DEF Dict!Update, Dict!At, NEW_ADDED, UPDATED, new
    <2> QED
        BY <1>1, <1>3, <1>4, <2>2, <2>3, <2>7 DEF Inv, RehashDone
<1>5. CASE ~inCur
    <2>1. h.backup # NullTable /\ h.backup.slot_size > 0
        BY <1>1, <1>5 DEF HashInv
    <2>2. IsPut(h.backup, new, backup_ht')
        BY <1>1, <1>3, <1>5, <2>1, UpdateKVIsPut DEF HashInv, new
    <2>3. HashInv(h.cur, backup_ht')
        BY <1>1, <1>2, <1>5, <2>2, PutKeepsHashInv
    <2>4. TableEntries(backup_ht') = {e \in TableEntries(h.backup) : e.key # k} \cup {new}
        BY <1>1, <1>2, <2>1, <2>2, PutOK DEF HashInv
    <2>5. \A f \in TableEntries(h.cur) : f.key # k
        BY <1>1, <1>5, FoundIffHeld DEF HashInv
    <2>6. FindEntry(h.backup, k) = {e \in Contents : e.key = k}
        BY <1>1, <2>1, <2>5, FindEntryFinds DEF HashInv, TableOK
    <2>7. Contents' = (Contents \ {e \in Contents : e.key = k}) \cup {new}
        BY <1>1, <1>3, <1>5, <2>4, <2>5 DEF Contents
    <2>8. Dict!Update(k, v)
        BY <1>3, <1>5, <2>6, <2>7 DEF Dict!Update, Dict!At, NEW_ADDED, UPDATED, new
    <2> QED
        BY <1>1, <1>3, <1>5, <2>3, <2>8 DEF Inv, RehashDone
<1> QED
    BY <1>4, <1>5

\* At moves one slot at most and returns the value the abstract map holds.
LEMMA AtOK ==
    ASSUME Inv, NEW k \in Key, At(k)
    PROVE  /\ Inv'
           /\ Dict!Lookup(k)
           /\ RehashDone(cur_ht) \/ RehashDone(cur_ht')
                \/ cur_ht'.rehashing_idx > cur_ht.rehashing_idx
<1> DEFINE h == Rehashed
           found == IF FindEntry(h.cur, k) # {} THEN FindEntry(h.cur, k)
                    ELSE IF h.backup = NullTable THEN {} ELSE FindEntry(h.backup, k)
<1>1. /\ HashInv(h.cur, h.backup)
      /\ TableEntries(h.cur) \cup TableEntries(h.backup) = Contents
      /\ RehashDone(cur_ht) \/ RehashDone(h.cur)
           \/ h.cur.rehashing_idx > cur_ht.rehashing_idx
    BY RehashedOK DEF Contents
<1>2. cur_ht' = h.cur /\ backup_ht' = h.backup /\ ret' = <<"At", k, {e.value : e \in found}>>
    BY DEF At
<1> HIDE DEF h
<1>3. FindEntry(h.cur, k) = {e \in TableEntries(h.cur) : e.key = k}
    BY <1>1, FindEntryFinds DEF HashInv, TableOK
<1>4. IF h.backup = NullTable THEN TableEntries(h.backup) = {}
      ELSE FindEntry(h.backup, k) = {e \in TableEntries(h.backup) : e.key = k}
    BY <1>1, FindEntryFinds, NewTableOK DEF HashInv, TableOK, NullTable
<1>5. found = {e \in Contents : e.key = k}
    <2>1. CASE FindEntry(h.cur, k) # {}
        <3>1. \A f \in TableEntries(h.backup) : f.key # k
            BY <1>1, <1>3, <2>1 DEF HashInv, Separate
        <3> QED
            BY <1>1, <1>3, <2>1, <3>1
    <2>2. CASE FindEntry(h.cur, k) = {}
        BY <1>1, <1>3, <1>4, <2>2
    <2> QED
        BY <2>1, <2>2
<1> HIDE DEF found
<1>6. Contents' = Contents
    BY <1>1, <1>2 DEF Contents
<1>7. Dict!Lookup(k)
    BY <1>2, <1>5, <1>6 DEF Dict!Lookup, Dict!At
<1> QED
    BY <1>1, <1>2, <1>7 DEF Inv

\* Every step of HashDict keeps the invariant and is a step of the abstract
\* map.
LEMMA DictStepOK ==
    ASSUME Inv, [DictNext]_vars
    PROVE  Inv' /\ [Dict!Next]_(Dict!vars)
<1>1. ASSUME NEW k \in Key, NEW v \in Val, Update(k, v)
      PROVE  Inv' /\ Dict!Next
    BY <1>1, UpdateOK DEF Dict!Next
<1>2. ASSUME NEW k \in Key, Erase(k)
      PROVE  Inv' /\ Dict!Next
    <2>1. Inv' /\ Held' = {e \in Held : e.key # k}
          /\ ret' = <<"Erase", k, IF {e \in Held : e.key = k} = {} THEN NOT_ERASED ELSE ERASED>>
        BY <1>2, EraseOK
    <2>2. Held = Contents /\ Held' = Contents'
        BY DEF Held, Contents
    <2>3. Contents' = Contents \ {e \in Contents : e.key = k}
        BY <2>1, <2>2
    <2>4. ret' = <<"Erase", k, IF {e \in Contents : e.key = k} = {} THEN 0 ELSE 1>>
        BY <2>1, <2>2 DEF NOT_ERASED, ERASED
    <2> QED
        BY <2>1, <2>3, <2>4 DEF Dict!Next, Dict!Erase, Dict!At
<1>3. ASSUME NEW k \in Key, At(k)
      PROVE  Inv' /\ Dict!Next
    BY <1>3, AtOK DEF Dict!Next
<1>4. ASSUME NEW k \in Key, CheckExists(k)
      PROVE  Inv' /\ Dict!Next
    <2>1. Inv' /\ Contents' = Contents
        BY <1>4 DEF CheckExists, Inv, Contents
    <2>2. (Found(cur_ht, k) \/ Found(backup_ht, k)) <=> {e \in Contents : e.key = k} # {}
        <3>1. Found(cur_ht, k) <=> \E e \in TableEntries(cur_ht) : e.key = k
            BY FoundIffHeld DEF Inv, HashInv
        <3>2. Found(backup_ht, k) <=> \E e \in TableEntries(backup_ht) : e.key = k
            BY FoundIffHeld DEF Inv, HashInv
        <3> QED
            BY <3>1, <3>2 DEF Contents
    <2>3. (Found(cur_ht, k) \/ Found(backup_ht, k)) = ({e \in Contents : e.key = k} # {})
        BY <2>2 DEF Found
    <2>4. Dict!Exists(k)
        BY <1>4, <2>1, <2>3, Zenon DEF CheckExists, Dict!Exists, Dict!At
    <2> QED
        BY <2>1, <2>4 DEF Dict!Next
<1>5. ASSUME AllEntries
      PROVE  Inv' /\ Dict!Next
    <2>1. Inv' /\ Contents' = Contents
        BY <1>5 DEF AllEntries, Inv, Contents
    <2>2. Held = Contents
        BY DEF Held, Contents
    <2>3. ret' = <<"AllEntries", Contents, Cardinality(Contents)>>
        <3>1. /\ Count = Cardinality(Held)
              /\ (IF Count = 0 THEN {} ELSE Listed(cur_ht) \cup Listed(backup_ht)) = Held
            BY CountAndListing
        <3>2. ret' = <<"AllEntries",
                       IF Count = 0 THEN {} ELSE Listed(cur_ht) \cup Listed(backup_ht),
                       Count>>
            BY <1>5 DEF AllEntries
        <3> QED
            BY <2>2, <3>1, <3>2, Zenon
    <2>4. Dict!Cardinality(Contents) = Cardinality(Contents)
        BY DEF Cardinality, Dict!Cardinality
    <2>5. Dict!Entries
        BY <2>1, <2>3, <2>4, Zenon DEF Dict!Entries
    <2> QED
        BY <2>1, <2>5, Zenon DEF Dict!Next
<1>6. ASSUME UNCHANGED vars
      PROVE  Inv' /\ UNCHANGED Dict!vars
    BY <1>6 DEF vars, Inv, Contents, Dict!vars
<1> QED
    BY <1>1, <1>2, <1>3, <1>4, <1>5, <1>6 DEF DictNext

\* The two tables of a HashDict are consistent after every call, for every
\* hash function, size and load factor: each entry sits in the slot its hash
\* selects, no key is held twice, counts are exact.
THEOREM HashDictInvariant == DictSpec => []Inv
<1>1. Init => Inv
    BY InitOK
<1>2. Inv /\ [DictNext]_vars => Inv'
    BY DictStepOK
<1> QED
    BY <1>1, <1>2, PTL DEF DictSpec

\* HashDict implements the abstract map: the incremental rehash of
\* PerformRehash never shows in the answer of any call.
THEOREM HashDictRefinesMap == DictSpec => RefinesDict
<1>1. Init => Dict!Init
    <2> SUFFICES ASSUME Init PROVE Dict!Init
        OBVIOUS
    <2>1. Held = {}
        BY InitOK
    <2> QED
        BY <2>1 DEF Init, Dict!Init, Held, Contents
<1>2. Inv /\ [DictNext]_vars => [Dict!Next]_(Dict!vars)
    BY DictStepOK
<1> QED
    BY <1>1, <1>2, HashDictInvariant, PTL DEF DictSpec, RefinesDict, Dict!Spec

\* A running rehash is never stalled: every Update, Erase and At ends it or
\* moves rehashing_idx_ forward, so it takes at most slot_size_ calls.
THEOREM HashDictRehashProgress == DictSpec => RehashProgress
<1> DEFINE P == (~RehashDone(cur_ht) /\ ret'[1] \in {"Update", "Insert", "Erase", "At"})
                  => RehashDone(cur_ht') \/ cur_ht'.rehashing_idx > cur_ht.rehashing_idx
<1>1. Inv /\ [DictNext]_vars => [P]_vars
    <2> SUFFICES ASSUME Inv, DictNext PROVE P
        OBVIOUS
    <2>1. ASSUME NEW k \in Key, NEW v \in Val, Update(k, v) PROVE P
        BY <2>1, UpdateOK
    <2>2. ASSUME NEW k \in Key, Erase(k) PROVE P
        BY <2>2, EraseOK
    <2>3. ASSUME NEW k \in Key, At(k) PROVE P
        BY <2>3, AtOK
    <2>4. ASSUME NEW k \in Key, CheckExists(k) PROVE P
        BY <2>4 DEF CheckExists
    <2>5. ASSUME AllEntries PROVE P
        BY <2>5 DEF AllEntries
    <2> QED
        BY <2>1, <2>2, <2>3, <2>4, <2>5 DEF DictNext
<1> QED
    BY <1>1, HashDictInvariant, PTL DEF DictSpec, RehashProgress
-----------------------------------------------------------------------------
(* HashSet *)

\* A set entry is an entry with the one value there is.
LEMMA HSEntryType ==
    ASSUME NEW k \in Key
    PROVE  HSEntry(k) \in Entry /\ HSEntry(k).key = k
BY ValueAssumption DEF HSEntry, Entry

\* Add of a new key links its entry in.
LEMMA AddIsPut ==
    ASSUME NEW t, TableOK(t), t.slot_size > 0, NEW k \in Key, FindEntry(t, k) = {}
    PROVE  IsPut(t, HSEntry(k), Add(t, k))
<1> DEFINE i == CalculateSlotIndex(t, k)
           found == FindEntry(t, k)
           new == HSEntry(k)
<1>1. (t.table[i] \ found) \cup {new} = t.table[i] \cup {new}
    OBVIOUS
<1>2. new.key = k
    BY HSEntryType
<1> HIDE DEF new
<1> QED
    BY <1>1, <1>2 DEF IsPut, Add, TableOK, TableType, new

\* Insert keeps the invariant, adds its key and says whether it was there.
LEMMA InsertOK ==
    ASSUME Inv, NEW k \in Key, Insert(k)
    PROVE  /\ Inv'
           /\ Set!Insert(k)
           /\ RehashDone(cur_ht) \/ RehashDone(cur_ht')
                \/ cur_ht'.rehashing_idx > cur_ht.rehashing_idx
<1> DEFINE h == Rehashed
           new == HSEntry(k)
           inCur == RehashDone(h.cur) \/ Found(h.cur, k)
           home == IF inCur THEN h.cur ELSE h.backup
<1>1. /\ HashInv(h.cur, h.backup)
      /\ TableEntries(h.cur) \cup TableEntries(h.backup) = Held
      /\ RehashDone(cur_ht) \/ RehashDone(h.cur)
           \/ h.cur.rehashing_idx > cur_ht.rehashing_idx
    BY RehashedOK DEF Held
<1>2. new \in Entry /\ new.key = k
    BY HSEntryType
<1>3. /\ cur_ht' = IF inCur THEN Add(h.cur, k) ELSE h.cur
      /\ backup_ht' = IF inCur THEN h.backup ELSE Add(h.backup, k)
      /\ ret' = <<"Insert", k, IF FindEntry(home, k) = {} THEN NEW_ADDED ELSE EXISTED>>
    BY DEF Insert
<1> HIDE DEF h, new
<1>4. TableOK(home) /\ home.slot_size > 0
    BY <1>1 DEF HashInv
<1>5. FindEntry(home, k) = {e \in TableEntries(home) : e.key = k}
    BY <1>4, FindEntryFinds DEF TableOK
<1>6. {e \in TableEntries(home) : e.key = k} = {e \in Held : e.key = k}
    <2>1. CASE RehashDone(h.cur)
        <3>1. TableEntries(h.backup) = {}
            BY <1>1, <2>1, NewTableOK DEF HashInv, NullTable
        <3> QED
            BY <1>1, <2>1, <3>1
    <2>2. CASE Found(h.cur, k)
        <3>1. \A f \in TableEntries(h.backup) : f.key # k
            BY <1>1, <2>2, FoundIffHeld DEF HashInv, Separate
        <3> QED
            BY <1>1, <2>2, <3>1
    <2>3. CASE ~inCur
        <3>1. \A f \in TableEntries(h.cur) : f.key # k
            BY <1>1, <2>3, FoundIffHeld DEF HashInv
        <3> QED
            BY <1>1, <2>3, <3>1
    <2> QED
        BY <2>1, <2>2, <2>3
<1>7. k \in Members <=> FindEntry(home, k) # {}
    BY <1>5, <1>6 DEF Members, Held
<1>8. ret' = <<"Insert", k, IF k \in Members THEN 2 ELSE 0>>
    BY <1>3, <1>7 DEF NEW_ADDED, EXISTED
<1>9. CASE FindEntry(home, k) # {}
    <2>1. cur_ht' = h.cur /\ backup_ht' = h.backup
        BY <1>3, <1>9 DEF Add
    <2>2. Members' = Members
        BY <1>1, <2>1 DEF Held, Members
    <2>3. Members' = Members \cup {k}
        BY <1>7, <1>9, <2>2
    <2> QED
        BY <1>1, <1>8, <2>1, <2>3 DEF Inv, Set!Insert
<1>10. CASE FindEntry(home, k) = {} /\ inCur
    <2>1. IsPut(h.cur, new, cur_ht') /\ backup_ht' = h.backup
        BY <1>3, <1>4, <1>10, AddIsPut DEF new
    <2>2. HashInv(cur_ht', backup_ht')
        BY <1>1, <1>2, <1>10, <2>1, PutKeepsHashInv
    <2>3. /\ TableEntries(cur_ht') = {e \in TableEntries(h.cur) : e.key # k} \cup {new}
          /\ cur_ht'.rehashing_idx = h.cur.rehashing_idx
        BY <1>2, <1>4, <1>10, <2>1, PutOK
    <2>4. Held' = Held \cup {new}
        BY <1>1, <1>5, <1>6, <1>10, <2>1, <2>3 DEF Held
    <2>5. Members' = Members \cup {k}
        BY <1>2, <2>4 DEF Members, Held
    <2> QED
        BY <1>1, <1>8, <2>2, <2>3, <2>5 DEF Inv, Set!Insert, RehashDone
<1>11. CASE FindEntry(home, k) = {} /\ ~inCur
    <2>1. IsPut(h.backup, new, backup_ht') /\ cur_ht' = h.cur
        BY <1>3, <1>4, <1>11, AddIsPut DEF new
    <2>2. HashInv(cur_ht', backup_ht')
        BY <1>1, <1>2, <1>11, <2>1, PutKeepsHashInv
    <2>3. TableEntries(backup_ht') = {e \in TableEntries(h.backup) : e.key # k} \cup {new}
        BY <1>2, <1>4, <1>11, <2>1, PutOK
    <2>4. Held' = Held \cup {new}
        BY <1>1, <1>5, <1>6, <1>11, <2>1, <2>3 DEF Held
    <2>5. Members' = Members \cup {k}
        BY <1>2, <2>4 DEF Members, Held
    <2> QED
        BY <1>1, <1>8, <2>1, <2>2, <2>5 DEF Inv, Set!Insert
<1> QED
    BY <1>9, <1>10, <1>11

\* There are as many members as entries.
LEMMA MembersCardinality ==
    ASSUME Inv
    PROVE  Cardinality(Members) = Cardinality(Held)
<1> DEFINE f == [e \in Held |-> e.key]
<1>1. \A d, e \in Held : d.key = e.key => d = e
    BY DEF Inv, HashInv, TableOK, UniqueKeys, Separate, Held
<1>2. Members = {e.key : e \in Held}
    BY DEF Members, Held
<1>3. f \in Bijection(Held, Members)
    <2>1. f \in [Held -> Members]
        BY <1>2
    <2>2. \A d, e \in Held : f[d] = f[e] => d = e
        BY <1>1
    <2>3. \A m \in Members : \E e \in Held : f[e] = m
        BY <1>2
    <2> HIDE DEF f
    <2> QED
        BY <2>1, <2>2, <2>3 DEF Bijection, Injection, Surjection, IsInjective
<1>4. IsFiniteSet(Held)
    BY FS_Union DEF Inv, HashInv, TableOK, CountOK, Held
<1> QED
    BY <1>3, <1>4, FS_Bijection DEF ExistsBijection

\* Every step of HashSet keeps the invariant and is a step of the abstract set.
LEMMA SetStepOK ==
    ASSUME Inv, [SetNext]_vars
    PROVE  Inv' /\ [Set!Next]_(Set!vars)
<1>1. ASSUME NEW k \in Key, Insert(k)
      PROVE  Inv' /\ Set!Next
    BY <1>1, InsertOK DEF Set!Next
<1>2. ASSUME NEW k \in Key, Erase(k)
      PROVE  Inv' /\ Set!Next
    <2>1. Inv' /\ Held' = {e \in Held : e.key # k}
          /\ ret' = <<"Erase", k, IF {e \in Held : e.key = k} = {} THEN NOT_ERASED ELSE ERASED>>
        BY <1>2, EraseOK
    <2>2. Members = {e.key : e \in Held} /\ Members' = {e.key : e \in Held'}
        BY DEF Held, Members
    <2>3. Members' = Members \ {k}
        BY <2>1, <2>2
    <2>4. k \in Members <=> {e \in Held : e.key = k} # {}
        BY <2>2
    <2>5. ret' = <<"Erase", k, IF k \in Members THEN 1 ELSE 0>>
        BY <2>1, <2>4 DEF NOT_ERASED, ERASED
    <2> QED
        BY <2>1, <2>3, <2>5 DEF Set!Next, Set!Erase
<1>3. ASSUME NEW k \in Key, CheckExists(k)
      PROVE  Inv' /\ Set!Next
    <2>1. Inv' /\ Members' = Members
        BY <1>3 DEF CheckExists, Inv, Members
    <2>2. (Found(cur_ht, k) \/ Found(backup_ht, k)) <=> k \in Members
        <3>1. Found(cur_ht, k) <=> \E e \in TableEntries(cur_ht) : e.key = k
            BY FoundIffHeld DEF Inv, HashInv
        <3>2. Found(backup_ht, k) <=> \E e \in TableEntries(backup_ht) : e.key = k
            BY FoundIffHeld DEF Inv, HashInv
        <3> QED
            BY <3>1, <3>2 DEF Members
    <2>3. (Found(cur_ht, k) \/ Found(backup_ht, k)) = (k \in Members)
        BY <2>2 DEF Found
    <2>4. Set!Exists(k)
        BY <1>3, <2>1, <2>3, Zenon DEF CheckExists, Set!Exists
    <2> QED
        BY <2>1, <2>4 DEF Set!Next
<1>4. ASSUME AllKeys
      PROVE  Inv' /\ Set!Next
    <2> DEFINE listed == IF Count = 0 THEN {}
                         ELSE {e.key : e \in Listed(cur_ht) \cup Listed(backup_ht)}
    <2>1. Inv' /\ Members' = Members
        BY <1>4 DEF AllKeys, Inv, Members
    <2>2. /\ Count = Cardinality(Held)
          /\ (IF Count = 0 THEN {} ELSE Listed(cur_ht) \cup Listed(backup_ht)) = Held
        BY CountAndListing
    <2>3. listed = Members
        BY <2>2 DEF Members, Held
    <2>4. ret' = <<"AllKeys", listed, Count>>
        BY <1>4 DEF AllKeys
    <2>5. Set!Cardinality(Members) = Cardinality(Members)
        BY DEF Cardinality, Set!Cardinality
    <2>6. Count = Set!Cardinality(Members)
        BY <2>2, <2>5, MembersCardinality
    <2> HIDE DEF listed
    <2>7. Set!Members
        BY <2>1, <2>3, <2>4, <2>6, Zenon DEF Set!Members
    <2> QED
        BY <2>1, <2>7, Zenon DEF Set!Next
<1>5. ASSUME UNCHANGED vars
      PROVE  Inv' /\ UNCHANGED Set!vars
    BY <1>5 DEF vars, Inv, Members, Set!vars
<1> QED
    BY <1>1, <1>2, <1>3, <1>4, <1>5 DEF SetNext

\* The two tables of a HashSet are consistent after every call.
THEOREM HashSetInvariant == SetSpec => []Inv
<1>1. Init => Inv
    BY InitOK
<1>2. Inv /\ [SetNext]_vars => Inv'
    BY SetStepOK
<1> QED
    BY <1>1, <1>2, PTL DEF SetSpec

\* HashSet implements the abstract set: no answer of Insert, Erase,
\* CheckExists, AllKeys or Count depends on a running rehash.
THEOREM HashSetRefinesSet == SetSpec => RefinesSet
<1>1. Init => Set!Init
    <2> SUFFICES ASSUME Init PROVE Set!Init
        OBVIOUS
    <2>1. Held = {}
        BY InitOK
    <2> QED
        BY <2>1 DEF Init, Set!Init, Held, Members
<1>2. Inv /\ [SetNext]_vars => [Set!Next]_(Set!vars)
    BY SetStepOK
<1> QED
    BY <1>1, <1>2, HashSetInvariant, PTL DEF SetSpec, RefinesSet, Set!Spec

\* A running rehash is never stalled: every Insert and Erase ends it or moves
\* rehashing_idx_ forward.
THEOREM HashSetRehashProgress == SetSpec => RehashProgress
<1> DEFINE P == (~RehashDone(cur_ht) /\ ret'[1] \in {"Update", "Insert", "Erase", "At"})
                  => RehashDone(cur_ht') \/ cur_ht'.rehashing_idx > cur_ht.rehashing_idx
<1>1. Inv /\ [SetNext]_vars => [P]_vars
    <2> SUFFICES ASSUME Inv, SetNext PROVE P
        OBVIOUS
    <2>1. ASSUME NEW k \in Key, Insert(k) PROVE P
        BY <2>1, InsertOK
    <2>2. ASSUME NEW k \in Key, Erase(k) PROVE P
        BY <2>2, EraseOK
    <2>3. ASSUME NEW k \in Key, CheckExists(k) PROVE P
        BY <2>3 DEF CheckExists
    <2>4. ASSUME AllKeys PROVE P
        BY <2>4 DEF AllKeys
    <2> QED
        BY <2>1, <2>2, <2>3, <2>4 DEF SetNext
<1> QED
    BY <1>1, HashSetInvariant, PTL DEF SetSpec, RehashProgress
=============================================================================
