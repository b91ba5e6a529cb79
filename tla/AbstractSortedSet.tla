------------------------- MODULE AbstractSortedSet --------------------------
(***************************************************************************)
(* What a Skiplist promises its caller: a set of (score, text) elements    *)
(* listed in one fixed order.  Rank[e] is e's place in that order, and two *)
(* elements of one rank are one element.  ret is the last call's answer.   *)
(***************************************************************************)
EXTENDS Integers, Sequences

CONSTANTS Elem, Rank, nullptr, Index

VARIABLES seq, ret

vars == <<seq, ret>>

Places(e) == {i \in 1..Len(seq) : Rank[seq[i]] = Rank[e]}

Init == seq = <<>> /\ ret = <<"New">>

Insert(e) ==
    LET before == Len(SelectSeq(seq, LAMBDA x : Rank[x] < Rank[e]))
    IN  /\ seq' = IF Places(e) # {} THEN seq
                  ELSE SubSeq(seq, 1, before) \o <<e>> \o SubSeq(seq, before + 1, Len(seq))
        /\ ret' = <<"Insert", e, Places(e) = {}>>

Remove(e) ==
    /\ seq' = SelectSeq(seq, LAMBDA x : Rank[x] # Rank[e])
    /\ ret' = <<"Remove", e, Places(e) # {}>>

Contains(e) == ret' = <<"Contains", e, Places(e) # {}>> /\ UNCHANGED seq

Clear == seq' = <<>> /\ ret' = <<"Clear">>

Count == ret' = <<"Count", Len(seq)>> /\ UNCHANGED seq

Ends ==
    /\ ret' = <<"Ends", IF seq = <<>> THEN nullptr ELSE seq[1],
                        IF seq = <<>> THEN nullptr ELSE seq[Len(seq)]>>
    /\ UNCHANGED seq

At(i) ==
    /\ ret' = IF i < Len(seq) THEN <<"At", i, seq[i + 1]>> ELSE <<"out_of_range", i>>
    /\ UNCHANGED seq

All == ret' = <<"All", seq>> /\ UNCHANGED seq

Next ==
    \/ \E e \in Elem : Insert(e) \/ Remove(e) \/ Contains(e)
    \/ Clear \/ Count \/ Ends \/ All
    \/ \E i \in Index : At(i)

Spec == Init /\ [][Next]_vars
=============================================================================
