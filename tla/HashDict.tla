------------------------------ MODULE HashDict ------------------------------
(***************************************************************************)
(* HashDict (hashdict.cpp): the value of an OBJECT_HASH key.               *)
(***************************************************************************)
EXTENDS Rehashable

\* HashTable::UpdateKV
UpdateKV(t, k, v) ==
    LET i == CalculateSlotIndex(t, k)
        new == [key |-> k, value |-> v]
    IN  IF FindEntry(t, k) = {}
        THEN [t EXCEPT !.table[i] = @ \cup {new}, !.count = @ + 1]
        ELSE [t EXCEPT !.table[i] = (@ \ FindEntry(t, k)) \cup {new}]

UpdateMutant(k, v) ==
    LET h == Rehashed
        home == IF RehashDone(h.cur) THEN h.cur ELSE h.backup
    IN  /\ cur_ht' = IF RehashDone(h.cur) THEN UpdateKV(h.cur, k, v) ELSE h.cur
        /\ backup_ht' = IF RehashDone(h.cur) THEN h.backup ELSE UpdateKV(h.backup, k, v)
        /\ ret' = <<"Update", k, IF FindEntry(home, k) = {} THEN NEW_ADDED ELSE UPDATED>>

\* Mid-rehash a key still in cur_ht_ is updated there; any other goes to
\* backup_ht_.
Update(k, v) ==
    LET h == Rehashed
        inCur == RehashDone(h.cur) \/ Found(h.cur, k)
        home == IF inCur THEN h.cur ELSE h.backup
    IN  /\ cur_ht' = IF inCur THEN UpdateKV(h.cur, k, v) ELSE h.cur
        /\ backup_ht' = IF inCur THEN h.backup ELSE UpdateKV(h.backup, k, v)
        /\ ret' = <<"Update", k, IF FindEntry(home, k) = {} THEN NEW_ADDED ELSE UPDATED>>

\* At throws out_of_range when it finds nothing: the empty set of values.
At(k) ==
    LET h == Rehashed
        found == IF FindEntry(h.cur, k) # {} THEN FindEntry(h.cur, k)
                 ELSE IF h.backup = NullTable THEN {} ELSE FindEntry(h.backup, k)
    IN  /\ cur_ht' = h.cur
        /\ backup_ht' = h.backup
        /\ ret' = <<"At", k, {e.value : e \in found}>>

DictNext ==
    \/ \E k \in Key :
          \/ \E v \in Val : Update(k, v)
          \/ Erase(k)
          \/ At(k)
          \/ CheckExists(k)
    \/ AllEntries

DictSpec == Init /\ [][DictNext]_vars
-----------------------------------------------------------------------------
(* Refinement *)

Contents == TableEntries(cur_ht) \cup TableEntries(backup_ht)

Dict == INSTANCE AbstractDict WITH dict <- Contents, ret <- ret

\* Callers cannot tell whether a rehash is running: whatever sequence of
\* updates, erasures and lookups is made, every answer (added/updated, erased
\* or not, the value found, the entries listed, the count) is the answer of a
\* plain map.
RefinesDict == Dict!Spec
=============================================================================
