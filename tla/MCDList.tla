------------------------------ MODULE MCDList -------------------------------
(* DList with blocks of two strings, so that every list crosses blocks. *)
EXTENDS DList

MCIndex == {-3, -1, 0, 2}
MCMinNode == -1
=============================================================================
