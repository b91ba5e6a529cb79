------------------------------ MODULE MCLkvDb -------------------------------
(* LkvDb with bytes of three bits and integers of five: three groups encode  *)
(* the largest integer, and a string of four bytes has a length of two.      *)
EXTENDS LkvDb

Obj(k, t, p) == [key |-> k, type |-> t, ptr |-> p]

k1 == <<1>>
k2 == <<2, 7>>
k3 == <<6>>

\* Strings of all the flags, and of lengths around the first group's limit.
Long == <<7, 6, 0, 4>>

\* Integers at the limits of the groups and of the range, three at a time.
Integers3(n) == <<Obj(k1, OBJECT_INT, n), Obj(k2, OBJECT_INT, -n - 1), Obj(<<>>, OBJECT_INT, 15 - n)>>

MCContents ==
    {Integers3(n) : n \in {3, 4, 15}}
    \cup {<<Obj(k1, OBJECT_STRING, Long), Obj(k2, OBJECT_STRING, <<>>)>>,
          <<Obj(k1, OBJECT_LIST, <<Long, <<1>>, <<7>>, <<6, 6, 6>>>>), Obj(k2, OBJECT_INT, 5)>>,
          <<Obj(k1, OBJECT_HASH, <<<<k3, Long>>, <<k2, k2>>>>), Obj(k2, OBJECT_SET, <<Long, k3>>)>>,
          \* an empty string last, before the last, and alone
          <<Obj(k1, OBJECT_LIST, <<k3, <<>>>>), Obj(k2, OBJECT_INT, 3)>>,
          <<Obj(k2, OBJECT_INT, 3), Obj(k1, OBJECT_SET, <<k3, <<>>, k2>>), Obj(k3, OBJECT_INT, 3)>>,
          <<Obj(k1, OBJECT_LIST, <<<<>>>>), Obj(k2, OBJECT_INT, 3)>>,
          <<Obj(k1, OBJECT_HASH, <<<<k3, <<>>>>>>), Obj(k2, OBJECT_STRING, k1)>>,
          <<Obj(k1, OBJECT_HASH, <<<<<<>>, k3>>>>), Obj(k2, OBJECT_STRING, k1)>>,
          \* an emptied collection in the middle and at the end
          <<Obj(k1, OBJECT_STRING, k3), Obj(k2, OBJECT_LIST, <<>>), Obj(k3, OBJECT_SET, <<k1>>)>>,
          <<Obj(k1, OBJECT_STRING, k3), Obj(k2, OBJECT_HASH, <<>>)>>}
=============================================================================
