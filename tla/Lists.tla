------------------------------- MODULE Lists --------------------------------
(***************************************************************************)
(* Erasing elements from a vector or a list: the keys pool, the timers and *)
(* the subscribers of a channel.                                           *)
(***************************************************************************)
EXTENDS Integers, Sequences

\* What is left of s, in its order, when the elements of gone are erased.
Erased(s, gone) ==
    LET upto[n \in 0..Len(s)] ==
            IF n = 0 THEN <<>>
            ELSE IF s[n] \in gone THEN upto[n - 1]
            ELSE Append(upto[n - 1], s[n])
    IN  upto[Len(s)]
=============================================================================
