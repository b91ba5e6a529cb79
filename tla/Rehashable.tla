----------------------------- MODULE Rehashable -----------------------------
(***************************************************************************)
(* The hash structure shared by HashDict and HashSet: HashStructBase       *)
(* (hash.h) and Rehashable (rehashable.h).  While a rehash is running the  *)
(* entries are spread over two tables, and every mutating call first moves *)
(* one occupied slot from cur_ht_ to backup_ht_.                           *)
(*                                                                         *)
(* A slot's linked list is the set of its entries: the order of a list     *)
(* decides the order of AllKeys only.                                      *)
(***************************************************************************)
EXTENDS Integers, FiniteSets, FiniteSetsExt

CONSTANTS Key,          \* fields / members
          Val,          \* field values (one value for a HashSet)
          Hash,         \* HEntryKey::Hash, any function to Nat
          InitSlots,    \* slot count of the first table (16 in the code)
          LoadNum, LoadDen   \* max_load_factor_ = LoadNum / LoadDen

ASSUME HashAssumption == Hash \in [Key -> Nat]
ASSUME InitSlotsAssumption == InitSlots \in Nat \ {0}
ASSUME LoadAssumption == LoadNum \in Nat /\ LoadDen \in Nat \ {0}

VARIABLES cur_ht,       \* master hash container
          backup_ht,    \* the one being filled, or NullTable
          ret           \* answer of the last call

vars == <<cur_ht, backup_ht, ret>>

Entry == [key : Key, value : Val]

kGrowFactor == 2

NEW_ADDED == 0
UPDATED == 1
EXISTED == 2
NOT_ERASED == 0
ERASED == 1
-----------------------------------------------------------------------------
(* HashStructBase *)

NewTable(init_size) ==
    [slot_size |-> init_size,
     table |-> [i \in 0..(init_size - 1) |-> {}],
     count |-> 0,
     rehashing_idx |-> -1]

\* nullptr: the code never makes a table without slots.
NullTable == NewTable(0)

CalculateSlotIndex(t, k) == Hash[k] % t.slot_size

\* The entries FindEntry can return: none or one, as lists hold no duplicates.
FindEntry(t, k) == {e \in t.table[CalculateSlotIndex(t, k)] : e.key = k}

TableEntries(t) == UNION {t.table[i] : i \in 0..(t.slot_size - 1)}

EraseKeyMutant(t, k) ==
    [t EXCEPT !.table[CalculateSlotIndex(t, k)] = @ \ FindEntry(t, k)]

EraseKey(t, k) ==
    IF FindEntry(t, k) = {} THEN t
    ELSE [t EXCEPT !.table[CalculateSlotIndex(t, k)] = @ \ FindEntry(t, k),
                   !.count = @ - 1]

StepRehashingIdxMutant(t) ==
    IF t.rehashing_idx # -1 /\ \E i \in 0..(t.slot_size - 1) : t.table[i] # {} THEN t
    ELSE [t EXCEPT !.rehashing_idx =
            IF \A i \in 0..(t.slot_size - 1) : t.table[i] = {} THEN -1
            ELSE Min({i \in 0..(t.slot_size - 1) : t.table[i] # {}})]

StepRehashingIdx(t) ==
    LET occupied == {i \in (t.rehashing_idx + 1)..(t.slot_size - 1) : t.table[i] # {}}
    IN  [t EXCEPT !.rehashing_idx = IF occupied = {} THEN -1 ELSE Min(occupied)]

RehashDone(t) == t.rehashing_idx = -1

EnsureAllSlotsEmpty(t) == \A i \in 0..(t.slot_size - 1) : t.table[i] = {}

\* AddEntry for every entry of one list: an entry whose key is already there
\* overwrites the value, any other is linked in and counted.
AddEntries(t, list) ==
    LET fresh == {e \in list : FindEntry(t, e.key) = {}}
    IN  [t EXCEPT
           !.table = [i \in DOMAIN t.table |->
                        {e \in t.table[i] : \A n \in list : n.key # e.key}
                          \cup {e \in list : CalculateSlotIndex(t, e.key) = i}],
           !.count = @ + Cardinality(fresh)]
-----------------------------------------------------------------------------
(* Rehashable *)

OverLoaded(t) == t.count * LoadDen > LoadNum * t.slot_size

NeedRehash(t) == ~RehashDone(t) \/ OverLoaded(t)

\* CheckNeedRehash also points rehashing_idx_ at the first occupied slot.
CheckNeedRehash(t) ==
    IF RehashDone(t) /\ OverLoaded(t) THEN StepRehashingIdx(t) ELSE t

PerformRehash(cur, backup) ==
    LET back1 == IF backup = NullTable THEN NewTable(cur.slot_size * kGrowFactor) ELSE backup
        list  == cur.table[cur.rehashing_idx]
        cur1  == IF RehashDone(cur) THEN cur
                 ELSE StepRehashingIdx([cur EXCEPT !.table[cur.rehashing_idx] = {},
                                                   !.count = @ - Cardinality(list)])
        back2 == IF RehashDone(cur) THEN back1 ELSE AddEntries(back1, list)
    IN  IF RehashDone(cur1) /\ EnsureAllSlotsEmpty(cur1)
        THEN [cur |-> back2, backup |-> NullTable]
        ELSE [cur |-> cur1, backup |-> back2]

\* The two tables after "if (CheckNeedRehash()) PerformRehash();".
Rehashed ==
    IF NeedRehash(cur_ht) THEN PerformRehash(CheckNeedRehash(cur_ht), backup_ht)
    ELSE [cur |-> cur_ht, backup |-> backup_ht]

Found(t, k) == t # NullTable /\ FindEntry(t, k) # {}

Init ==
    /\ cur_ht = NewTable(InitSlots)
    /\ backup_ht = NullTable
    /\ ret = <<"New">>

Erase(k) ==
    LET h == Rehashed
    IN  IF Found(h.cur, k)
        THEN /\ cur_ht' = EraseKey(h.cur, k)
             /\ backup_ht' = h.backup
             /\ ret' = <<"Erase", k, ERASED>>
        ELSE /\ cur_ht' = h.cur
             /\ backup_ht' = IF Found(h.backup, k) THEN EraseKey(h.backup, k) ELSE h.backup
             /\ ret' = <<"Erase", k, IF Found(h.backup, k) THEN ERASED ELSE NOT_ERASED>>

CheckExists(k) ==
    /\ ret' = <<"CheckExists", k, Found(cur_ht, k) \/ Found(backup_ht, k)>>
    /\ UNCHANGED <<cur_ht, backup_ht>>

Count == IF backup_ht = NullTable THEN cur_ht.count ELSE cur_ht.count + backup_ht.count

\* A table whose count is zero is skipped, whatever its slots hold.
Listed(t) == IF t.count = 0 THEN {} ELSE TableEntries(t)

\* AllKeys, AllValues and Serialize walk the same entries.
AllEntries ==
    /\ ret' = <<"AllEntries",
                IF Count = 0 THEN {} ELSE Listed(cur_ht) \cup Listed(backup_ht),
                Count>>
    /\ UNCHANGED <<cur_ht, backup_ht>>
-----------------------------------------------------------------------------
(* Structural properties *)

TableType(t) ==
    /\ DOMAIN t = {"slot_size", "table", "count", "rehashing_idx"}
    /\ t.slot_size \in Nat
    /\ t.table \in [0..(t.slot_size - 1) -> SUBSET Entry]
    /\ t.count \in Nat
    /\ t.rehashing_idx \in -1..(t.slot_size - 1)

\* Every entry is in the slot its hash selects, so FindEntry looks where the
\* entry is, whatever size the table has grown to.
Placed(t) ==
    \A i \in 0..(t.slot_size - 1) : \A e \in t.table[i] : CalculateSlotIndex(t, e.key) = i

UniqueKeys(t) == \A e, f \in TableEntries(t) : e.key = f.key => e = f

\* count_ is the number of linked entries, although PerformRehash decrements
\* one table's count entry by entry while AddEntry counts in the other.
CountOK(t) == IsFiniteSet(TableEntries(t)) /\ t.count = Cardinality(TableEntries(t))

TableOK(t) == TableType(t) /\ Placed(t) /\ UniqueKeys(t) /\ CountOK(t)

\* No key is in both tables: otherwise an update or an erase in the middle of
\* a rehash would touch one copy and leave a stale one behind.
Separate(cur, backup) ==
    \A e \in TableEntries(cur) : \A f \in TableEntries(backup) : e.key # f.key

EmptyBelow(t, n) == \A i \in 0..(t.slot_size - 1) : i < n => t.table[i] = {}

\* A backup table exists exactly while rehashing_idx_ points at a slot; the
\* slots below it have been emptied into the backup and are never refilled.
HashInv(cur, backup) ==
    /\ TableOK(cur) /\ cur.slot_size > 0
    /\ TableOK(backup) /\ RehashDone(backup)
    /\ backup = NullTable <=> RehashDone(cur)
    /\ backup # NullTable => backup.slot_size > 0
    /\ EmptyBelow(cur, cur.rehashing_idx)
    /\ Separate(cur, backup)

\* The two tables of a HashDict or HashSet are consistent after every call:
\* each entry is in its slot, no key occurs twice in either table or across
\* the two, both counts are exact, and the slots the rehash has passed are
\* empty.
Inv == HashInv(cur_ht, backup_ht)

\* While a rehash is running every mutating call makes progress: it ends the
\* rehash or moves rehashing_idx_ to a later slot.
RehashProgress ==
    [][(~RehashDone(cur_ht) /\ ret'[1] \in {"Update", "Insert", "Erase", "At"})
         => RehashDone(cur_ht') \/ cur_ht'.rehashing_idx > cur_ht.rehashing_idx]_vars
=============================================================================
