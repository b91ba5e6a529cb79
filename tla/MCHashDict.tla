----------------------------- MODULE MCHashDict -----------------------------
(***************************************************************************)
(* Four fields whose hashes collide in different ways as the table grows   *)
(* from 2 to 4 to 8 slots; a load factor of 1/2, so that one rehash can    *)
(* start as soon as the previous one ends.                                 *)
(***************************************************************************)
EXTENDS HashDict, TLC

CONSTANTS k1, k2, k3, k4

MCKey == {k1, k2, k3, k4}
MCHash == (k1 :> 0) @@ (k2 :> 2) @@ (k3 :> 3) @@ (k4 :> 8)
=============================================================================
