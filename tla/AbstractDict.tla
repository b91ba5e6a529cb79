---------------------------- MODULE AbstractDict ----------------------------
(***************************************************************************)
(* What HashDict promises its callers (KVContainer's hash commands): a     *)
(* finite map from fields to values that knows nothing of slots, load      *)
(* factors or rehashing.  The map is a set of entries with distinct keys;  *)
(* ret is the answer of the last call.                                     *)
(***************************************************************************)
EXTENDS Integers, FiniteSets

CONSTANTS Key, Val

VARIABLES dict, ret

vars == <<dict, ret>>

Entry == [key : Key, value : Val]

At(k) == {e \in dict : e.key = k}

Init == dict = {} /\ ret = <<"New">>

Update(k, v) ==
    /\ dict' = (dict \ At(k)) \cup {[key |-> k, value |-> v]}
    /\ ret' = <<"Update", k, IF At(k) = {} THEN 0 ELSE 1>>

Erase(k) ==
    /\ dict' = dict \ At(k)
    /\ ret' = <<"Erase", k, IF At(k) = {} THEN 0 ELSE 1>>

\* The values found under k: none (the call throws) or exactly one.
Lookup(k) ==
    /\ ret' = <<"At", k, {e.value : e \in At(k)}>>
    /\ UNCHANGED dict

Exists(k) ==
    /\ ret' = <<"CheckExists", k, At(k) # {}>>
    /\ UNCHANGED dict

Entries ==
    /\ ret' = <<"AllEntries", dict, Cardinality(dict)>>
    /\ UNCHANGED dict

Next ==
    \/ \E k \in Key :
          \/ \E v \in Val : Update(k, v)
          \/ Erase(k)
          \/ Lookup(k)
          \/ Exists(k)
    \/ Entries

Spec == Init /\ [][Next]_vars
=============================================================================
