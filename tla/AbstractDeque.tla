--------------------------- MODULE AbstractDeque ----------------------------
(***************************************************************************)
(* What an OBJECT_LIST key promises the list commands: a sequence with two *)
(* ends, indexed from either.  ret is the answer of the last call.         *)
(***************************************************************************)
EXTENDS Integers, Sequences

CONSTANTS Val, NoElem, Index

VARIABLES seq, ret

vars == <<seq, ret>>

Init == seq = <<>> /\ ret = <<"New">>

PushLeft(v) == seq' = <<v>> \o seq /\ ret' = <<"Push", Len(seq) + 1>>

PushRight(v) == seq' = seq \o <<v>> /\ ret' = <<"Push", Len(seq) + 1>>

PopLeft ==
    /\ seq' = IF seq = <<>> THEN <<>> ELSE Tail(seq)
    /\ ret' = <<"Pop", IF seq = <<>> THEN NoElem ELSE seq[1]>>

PopRight ==
    /\ seq' = IF seq = <<>> THEN <<>> ELSE SubSeq(seq, 1, Len(seq) - 1)
    /\ ret' = <<"Pop", IF seq = <<>> THEN NoElem ELSE seq[Len(seq)]>>

\* An index below zero counts from the right; pos is one-based.
Pos(i) == IF i < 0 THEN i + Len(seq) + 1 ELSE i + 1

Item(i) ==
    /\ ret' = <<"Item", i, IF Pos(i) \in 1..Len(seq) THEN seq[Pos(i)] ELSE NoElem>>
    /\ UNCHANGED seq

Set(i, v) ==
    /\ seq' = IF Pos(i) \in 1..Len(seq) THEN [seq EXCEPT ![Pos(i)] = v] ELSE seq
    /\ ret' = <<"Set", i, Pos(i) \in 1..Len(seq)>>

\* The slice between two indices, both included and cut to the list: empty for
\* a range outside it.
Slice(b, e) ==
    /\ ret' = <<"Range", b, e, SubSeq(seq, IF Pos(b) < 1 THEN 1 ELSE Pos(b),
                                      IF Pos(e) > Len(seq) THEN Len(seq) ELSE Pos(e))>>
    /\ UNCHANGED seq

Items == ret' = <<"Items", seq>> /\ UNCHANGED seq

Next ==
    \/ \E v \in Val : PushLeft(v) \/ PushRight(v) \/ \E i \in Index : Set(i, v)
    \/ PopLeft \/ PopRight \/ Items
    \/ \E i \in Index : Item(i)
    \/ \E b, e \in Index : Slice(b, e)

Spec == Init /\ [][Next]_vars
=============================================================================
