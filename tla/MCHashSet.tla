----------------------------- MODULE MCHashSet ------------------------------
(***************************************************************************)
(* Six members and a load factor of 1, starting from a two-slot table: two *)
(* growth steps, with long lists in the small tables.                      *)
(***************************************************************************)
EXTENDS HashSet, TLC

CONSTANTS k1, k2, k3, k4, k5, k6

MCKey == {k1, k2, k3, k4, k5, k6}
MCHash == (k1 :> 0) @@ (k2 :> 2) @@ (k3 :> 3) @@ (k4 :> 8) @@ (k5 :> 5) @@ (k6 :> 4)
=============================================================================
