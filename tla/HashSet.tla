------------------------------- MODULE HashSet ------------------------------
(***************************************************************************)
(* HashSet (hashset.cpp): the value of an OBJECT_SET key.  It shares the   *)
(* rehashing scheme of HashDict; its entries carry no value, so they all   *)
(* have the same one here.                                                 *)
(***************************************************************************)
EXTENDS Rehashable

ASSUME ValueAssumption == Val # {}

HSEntry(k) == [key |-> k, value |-> CHOOSE u \in Val : TRUE]

\* HashSetImpl::Add
Add(t, k) ==
    IF FindEntry(t, k) # {} THEN t
    ELSE [t EXCEPT !.table[CalculateSlotIndex(t, k)] = @ \cup {HSEntry(k)},
                   !.count = @ + 1]

InsertMutant(k) ==
    LET h == Rehashed
        home == IF RehashDone(h.cur) THEN h.cur ELSE h.backup
    IN  /\ cur_ht' = IF RehashDone(h.cur) THEN Add(h.cur, k) ELSE h.cur
        /\ backup_ht' = IF RehashDone(h.cur) THEN h.backup ELSE Add(h.backup, k)
        /\ ret' = <<"Insert", k, IF FindEntry(home, k) = {} THEN NEW_ADDED ELSE EXISTED>>

Insert(k) ==
    LET h == Rehashed
        inCur == RehashDone(h.cur) \/ Found(h.cur, k)
        home == IF inCur THEN h.cur ELSE h.backup
    IN  /\ cur_ht' = IF inCur THEN Add(h.cur, k) ELSE h.cur
        /\ backup_ht' = IF inCur THEN h.backup ELSE Add(h.backup, k)
        /\ ret' = <<"Insert", k, IF FindEntry(home, k) = {} THEN NEW_ADDED ELSE EXISTED>>

AllKeys ==
    /\ ret' = <<"AllKeys",
                IF Count = 0 THEN {} ELSE {e.key : e \in Listed(cur_ht) \cup Listed(backup_ht)},
                Count>>
    /\ UNCHANGED <<cur_ht, backup_ht>>

SetNext ==
    \/ \E k \in Key : Insert(k) \/ Erase(k) \/ CheckExists(k)
    \/ AllKeys

SetSpec == Init /\ [][SetNext]_vars
-----------------------------------------------------------------------------
Members == {e.key : e \in TableEntries(cur_ht) \cup TableEntries(backup_ht)}

Set == INSTANCE AbstractSet WITH members <- Members, ret <- ret

\* A HashSet answers every call as a mathematical set does, whether or not
\* its entries are spread over two tables by a running rehash.
RefinesSet == Set!Spec
=============================================================================
