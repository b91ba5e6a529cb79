------------------------------ MODULE Snapshot ------------------------------
(***************************************************************************)
(* The binary dump: EncodeVarUnsignedInt64 (encoding.cpp), the Serialize   *)
(* methods, KVContainer::Snapshot (core.cpp) and the decoders of           *)
(* LiteKVLoad (lkvdb.cpp).                                                 *)
(*                                                                         *)
(* A byte has GroupBits + 1 bits and an integer IntBits, 8 and 64 in the   *)
(* source: the last group of an encoded integer is an incomplete one here  *)
(* as there.  The contents of the container are the sequence of entries    *)
(* [key, type, ptr] in the order the buckets list them; the pairs of a     *)
(* hash and the members of a set are in the order of AllEntries.           *)
(***************************************************************************)
EXTENDS Integers, Sequences, FiniteSets, SequencesExt, FiniteSetsExt

CONSTANTS GroupBits, IntBits

ASSUME SnapshotAssumption ==
    /\ GroupBits \in Nat /\ GroupBits >= 2      \* the types and flags fit a byte
    /\ IntBits \in Nat /\ IntBits > GroupBits

More == 2^GroupBits                 \* the bit that announces another group
ByteRange == 2^(GroupBits + 1)
IntRange == 2^IntBits

\* uint64_t can be encoded in 1~10 bytes
MaxGroups == (IntBits + GroupBits - 1) \div GroupBits

LKVDB_ITEM_START_FLAG == ByteRange - 1
LKVDB_ITEM_END_FLAG == ByteRange - 2

OBJECT_INT == 1
OBJECT_STRING == 2
OBJECT_LIST == 3
OBJECT_HASH == 4
OBJECT_SET == 5

Collections == {OBJECT_LIST, OBJECT_HASH, OBJECT_SET}
-----------------------------------------------------------------------------
(* Encoding *)

EncodeVarUnsignedInt64Mutant(value) ==
    LET groups == Min({n \in 1..MaxGroups : value <= More^n})
    IN  [i \in 1..groups |-> ((value \div More^(i - 1)) % More) + (IF i < groups THEN More ELSE 0)]

\* The low group first, all but the last marked.
EncodeVarUnsignedInt64(value) ==
    LET groups == Min({n \in 1..MaxGroups : value < More^n})
    IN  [i \in 1..groups |-> ((value \div More^(i - 1)) % More) + (IF i < groups THEN More ELSE 0)]

EncodeVarSignedInt64(value) == EncodeVarUnsignedInt64(value % IntRange)

FixedBytes == (IntBits + GroupBits) \div (GroupBits + 1)

\* memcpy of a little-endian integer.
EncodeFixed64BitInteger(value) ==
    [i \in 1..FixedBytes |-> (value \div ByteRange^(i - 1)) % ByteRange]

DecodeFixed64BitInteger(bytes) ==
    FoldFunction(+, 0, [i \in 1..FixedBytes |-> bytes[i] * ByteRange^(i - 1)])
-----------------------------------------------------------------------------
(* Serialize *)

SerializeCharBuf(str) == IF str = <<>> THEN <<0>> ELSE EncodeVarUnsignedInt64(Len(str)) \o str

\* An empty collection writes nothing, not even its length.
SerializeElements(elems) ==
    IF elems = <<>> THEN <<>>
    ELSE EncodeVarUnsignedInt64(Len(elems))
         \o FlattenSeq([i \in DOMAIN elems |-> SerializeCharBuf(elems[i])])

SerializePairs(pairs) ==
    IF pairs = <<>> THEN <<>>
    ELSE EncodeVarUnsignedInt64(Len(pairs))
         \o FlattenSeq([i \in DOMAIN pairs |->
                      SerializeCharBuf(pairs[i][1]) \o SerializeCharBuf(pairs[i][2])])

Serialize(obj) ==
    CASE obj.type = OBJECT_INT -> EncodeVarSignedInt64(obj.ptr)
      [] obj.type = OBJECT_STRING -> SerializeCharBuf(obj.ptr)
      [] obj.type = OBJECT_HASH -> SerializePairs(obj.ptr)
      [] obj.type \in {OBJECT_LIST, OBJECT_SET} -> SerializeElements(obj.ptr)

\* The expire flag is 0 for every key: sExpiresMap is a static variable of a
\* header, and nothing fills the copy that core.cpp looks into.
ExpireFlag == 0

Item(obj) ==
    <<LKVDB_ITEM_START_FLAG, obj.type, ExpireFlag>>
    \o SerializeCharBuf(obj.key) \o Serialize(obj) \o <<LKVDB_ITEM_END_FLAG>>

TakeSnapshot(content) ==
    EncodeFixed64BitInteger(Len(content)) \o FlattenSeq([i \in DOMAIN content |-> Item(content[i])])
-----------------------------------------------------------------------------
(* Decoding.  A decoder answers a value and the rest of the bytes. *)

DecodeInteger(bytes) ==
    LET limit == Min({MaxGroups, Len(bytes)})
        last == {i \in 1..limit : bytes[i] < More}
        used == IF last = {} THEN limit ELSE Min(last)
    IN  [val |-> FoldFunction(+, 0, [i \in 1..used |-> (bytes[i] % More) * More^(i - 1)]) % IntRange,
         rest |-> SubSeq(bytes, used + 1, Len(bytes))]

\* int64_t val = DecodeInteger(...)
Signed(n) == IF n >= IntRange \div 2 THEN n - IntRange ELSE n

DecodeStdString(bytes) ==
    LET len == DecodeInteger(bytes)
    IN  IF len.val = 0 \/ Len(len.rest) < len.val
        THEN [val |-> <<>>, rest |-> len.rest]
        ELSE [val |-> SubSeq(len.rest, 1, len.val),
              rest |-> SubSeq(len.rest, len.val + 1, Len(len.rest))]

RECURSIVE DecodeElements(_, _)
\* DecodeDList, DecodeHashSet: they stop at an empty element.
DecodeElements(bytes, count) ==
    LET elem == DecodeStdString(bytes)
    IN  IF count = 0 THEN [val |-> <<>>, rest |-> bytes]
        ELSE IF elem.val = <<>> THEN elem
        ELSE LET others == DecodeElements(elem.rest, count - 1)
             IN  [others EXCEPT !.val = <<elem.val>> \o @]

RECURSIVE DecodePairs(_, _)
\* DecodeHashDict
DecodePairs(bytes, count) ==
    LET key == DecodeStdString(bytes)
        value == DecodeStdString(key.rest)
    IN  IF count = 0 THEN [val |-> <<>>, rest |-> bytes]
        ELSE IF key.val = <<>> THEN key
        ELSE IF value.val = <<>> THEN value
        ELSE LET others == DecodePairs(value.rest, count - 1)
             IN  [others EXCEPT !.val = <<<<key.val, value.val>>>> \o @]

DecodeValue(type, bytes) ==
    LET int == DecodeInteger(bytes)
    IN  CASE type = OBJECT_INT -> [int EXCEPT !.val = Signed(@)]
          [] type = OBJECT_STRING -> DecodeStdString(bytes)
          [] type = OBJECT_HASH -> DecodePairs(int.rest, int.val)
          [] type \in {OBJECT_LIST, OBJECT_SET} -> DecodeElements(int.rest, int.val)

\* What the calls of the container store: a collection comes into being with
\* its first element.
Stored(key, type, ptr) ==
    IF type \in Collections /\ ptr = <<>> THEN <<>>
    ELSE <<[key |-> key, type |-> type, ptr |-> ptr]>>

RECURSIVE LoadItems(_, _)
\* The items up to the first one that is not framed as it should be.  The item
\* itself is stored before its end flag is looked at.
LoadItems(bytes, len) ==
    IF \/ len = 0
       \/ Len(bytes) < 3
       \/ bytes[1] # LKVDB_ITEM_START_FLAG
       \/ bytes[2] \notin {OBJECT_INT, OBJECT_STRING} \cup Collections
    THEN <<>>
    ELSE LET key == DecodeStdString(SubSeq(bytes, 4, Len(bytes)))
             value == DecodeValue(bytes[2], key.rest)
         IN  Stored(key.val, bytes[2], value.val)
             \o (IF value.rest # <<>> /\ value.rest[1] = LKVDB_ITEM_END_FLAG
                 THEN LoadItems(Tail(value.rest), len - 1) ELSE <<>>)

LoadBodyMutant(bytes) ==
    IF Len(bytes) < FixedBytes THEN <<>>
    ELSE LoadItems(SubSeq(bytes, FixedBytes + 1, Len(bytes)), DecodeFixed64BitInteger(bytes) - 1)

\* What follows the header.
LoadBody(bytes) ==
    IF Len(bytes) < FixedBytes THEN <<>>
    ELSE LoadItems(SubSeq(bytes, FixedBytes + 1, Len(bytes)), DecodeFixed64BitInteger(bytes))
=============================================================================
