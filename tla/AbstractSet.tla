---------------------------- MODULE AbstractSet -----------------------------
(***************************************************************************)
(* What HashSet promises the set commands: a mathematical set.             *)
(***************************************************************************)
EXTENDS Integers, FiniteSets

CONSTANT Key

VARIABLES members, ret

vars == <<members, ret>>

Init == members = {} /\ ret = <<"New">>

Insert(k) ==
    /\ members' = members \cup {k}
    /\ ret' = <<"Insert", k, IF k \in members THEN 2 ELSE 0>>

Erase(k) ==
    /\ members' = members \ {k}
    /\ ret' = <<"Erase", k, IF k \in members THEN 1 ELSE 0>>

Exists(k) ==
    /\ ret' = <<"CheckExists", k, k \in members>>
    /\ UNCHANGED members

Members ==
    /\ ret' = <<"AllKeys", members, Cardinality(members)>>
    /\ UNCHANGED members

Next ==
    \/ \E k \in Key : Insert(k) \/ Erase(k) \/ Exists(k)
    \/ Members

Spec == Init /\ [][Next]_vars
=============================================================================
