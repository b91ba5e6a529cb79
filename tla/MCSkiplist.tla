----------------------------- MODULE MCSkiplist -----------------------------
(* Skiplist with five elements of four ranks: texts that are prefixes of each *)
(* other, and two that differ only behind a NUL.                              *)
EXTENDS Skiplist

a == 97

Pair(s, d) == [score |-> s, data |-> d]

MCRank == (Pair(1, <<a>>) :> 1) @@ (Pair(1, <<a, NUL, a>>) :> 2)
          @@ (Pair(1, <<a, NUL, a + 1>>) :> 2) @@ (Pair(1, <<a, a>>) :> 3)
          @@ (Pair(2, <<>>) :> 4)

MCElem == DOMAIN MCRank

MCIndex == {0, 2}
=============================================================================
