---------------------------- MODULE KVContainer -----------------------------
(***************************************************************************)
(* KVContainer (core.h, core.cpp): the keys with their typed values, and   *)
(* keys_pool_, the vector of all keys that eviction draws from.  Each      *)
(* operation answers with an error code and a value.                       *)
(*                                                                         *)
(* A string is a sequence of pieces: a number's text is one piece, so is   *)
(* any other word; <<>> is "".  Pieces whose text together is the text of  *)
(* a number are one piece, so that a string is written in one way only.    *)
(* Lists, hashes and sets are plain sequences, maps and sets: the modules  *)
(* DList, HashDict and HashSet show that the structures behave as such.    *)
(* The 512 buckets only partition the keys and are left out.               *)
(***************************************************************************)
EXTENDS Clock, Lists, FiniteSets, FiniteSetsExt, Functions

CONSTANTS
    Key,
    NoName,         \* what is read from a destroyed string: the name of no key
    INT64_MAX,
    kBase,          \* of the texts of numbers: 10
    kCandidates     \* keys drawn by one round of LRU eviction: 10

ASSUME ContainerAssumption ==
    /\ INT64_MAX \in Nat \ {0} /\ kBase \in Nat \ {0, 1}
    /\ kCandidates \in Nat \ {0} /\ NoName \notin Key

VARIABLES content, keys_pool, errcode, ret

container == <<content, keys_pool, errcode, ret>>

OBJECT_INT == "int"
OBJECT_STRING == "string"
OBJECT_LIST == "list"
OBJECT_HASH == "hash"
OBJECT_SET == "set"

kOkCode == "ok"
kFailCode == "fail"
kKeyNotFoundCode == "key not found"
kWrongTypeCode == "wrong type"
kOutOfRangeCode == "out of range"
kOverflowCode == "overflow"
Unset == "unset"        \* the code a caller initialised, never assigned

ContainerInit ==
    /\ content = [k \in {} |-> 0] /\ keys_pool = <<>>
    /\ errcode = kOkCode /\ ret = <<>>

INT64_MIN == -INT64_MAX - 1

\* The int64_t that a sum or difference is stored as.
Int64(n) == ((n - INT64_MIN) % (2 * (INT64_MAX + 1))) + INT64_MIN

Front(s) == SubSeq(s, 1, Len(s) - 1)
Last(s) == s[Len(s)]
Reverse(s) == [i \in 1..Len(s) |-> s[Len(s) - i + 1]]

\* std::to_string, and its inverse on the strings it can produce; stoll throws on
\* a number that does not fit.
IntToString(n) == <<n>>
CanConvertToInt64(s) ==
    Len(s) = 1 /\ s[1] \in Int /\ INT64_MIN <= s[1] /\ s[1] <= INT64_MAX

\* kBase to the number of digits of m.
Shift[m \in Nat] == IF m < kBase THEN kBase ELSE kBase * Shift[m \div kBase]

\* A piece m behind a string.  Digits behind a number make a longer number, but
\* not behind 0: to_string gives no leading zeros.
Glued(s, m) ==
    IF s # <<>> /\ Last(s) \in Int \ {0} /\ m \in Nat
    THEN Append(Front(s), Last(s) * Shift[m] + (IF Last(s) > 0 THEN m ELSE -m))
    ELSE Append(s, m)

\* The string s followed by the string t.
Joined(s, t) ==
    LET upto[n \in 0..Len(t)] == IF n = 0 THEN s ELSE Glued(upto[n - 1], t[n])
    IN  upto[Len(t)]

\* The ways to list n elements of S, each at most once.
Listings(n, S) == {order \in [1..n -> S] : IsInjective(order)}

\* Each field followed by its value.
Entries(fields, hash) ==
    [i \in 1..(2 * Len(fields)) |->
        IF i % 2 = 1 THEN fields[(i + 1) \div 2] ELSE hash[fields[i \div 2]]]

Exists(key) == key \in DOMAIN content

ValueObject(type, ptr) == [type |-> type, ptr |-> ptr, lv_time |-> now]
-----------------------------------------------------------------------------
(* Ways to answer and to change the container *)

Return(code, val) == errcode' = code /\ ret' = val

Unchanged == UNCHANGED <<content, keys_pool>>

\* Create a key, at the end of the pool, or replace the value it has.
Store(key, obj) ==
    /\ content' = [k \in DOMAIN content \cup {key} |-> IF k = key THEN obj ELSE content[k]]
    /\ keys_pool' = IF Exists(key) THEN keys_pool ELSE Append(keys_pool, key)

UpdateLastVisitTime(key) == content' = [content EXCEPT ![key].lv_time = now]

\* IfKeyNotFoundThenReturn, IfKeyNotTypeThenReturn
NotFound(key, val) == ~Exists(key) /\ Return(kKeyNotFoundCode, val) /\ Unchanged
WrongType(key, types, val) ==
    Exists(key) /\ content[key].type \notin types /\ Return(kWrongTypeCode, val) /\ Unchanged
Typed(key, types) == Exists(key) /\ content[key].type \in types

\* The readers: they visit a key of the right type and answer Op(its value).
Read(key, types, nothing, Op(_)) ==
    \/ NotFound(key, nothing)
    \/ WrongType(key, types, nothing)
    \/ /\ Typed(key, types)
       /\ UpdateLastVisitTime(key) /\ UNCHANGED keys_pool
       /\ Return(kOkCode, Op(content[key].ptr))
-----------------------------------------------------------------------------
(* Any type *)

WithoutMutant(keys) ==
    /\ content' = [k \in DOMAIN content \ keys |-> content[k]]
    /\ keys_pool' = keys_pool

Without(keys) ==
    /\ content' = [k \in DOMAIN content \ keys |-> content[k]]
    /\ keys_pool' = Erased(keys_pool, keys)

\* Both overloads: keys is what is to be deleted.
Delete(keys) ==
    Without(keys) /\ Return(kOkCode, Cardinality(keys \cap DOMAIN content))

QueryObjectType(key) == IF Exists(key) THEN content[key].type ELSE "none"

KeyExists(keys) ==
    Return(kOkCode, Len(SelectSeq(keys, Exists))) /\ Unchanged

\* Overview and NumItems: how many keys there are of each type.
Overview ==
    /\ Return(kOkCode, [type \in {OBJECT_INT, OBJECT_STRING, OBJECT_LIST, OBJECT_HASH, OBJECT_SET} |->
                          Cardinality({k \in DOMAIN content : content[k].type = type})])
    /\ Unchanged

\* RecoverCommandFromValue: the command that is to recreate the key.  The
\* fields of a hash, and the members of a set, come in some order.
RecoverCommandFromValue(key) ==
    LET ptr == content[key].ptr
    IN  CASE content[key].type = OBJECT_INT -> {<<"set", key, IntToString(ptr)>>}
          [] content[key].type = OBJECT_STRING -> {<<"set", key, ptr>>}
          [] content[key].type = OBJECT_LIST -> {<<"rpush", key>> \o ptr}
          [] content[key].type = OBJECT_HASH ->
                {<<"hset", key>> \o Entries(fields, ptr)
                    : fields \in Listings(Cardinality(DOMAIN ptr), DOMAIN ptr)}
          [] content[key].type = OBJECT_SET ->
                {<<"sadd", key>> \o members : members \in Listings(Cardinality(ptr), ptr)}
-----------------------------------------------------------------------------
(* Eviction.  order lists the keys in the order they are deleted. *)

PoolAfter(order, i) == Erased(keys_pool, {order[j] : j \in 1..i})

Orders(n) == Listings(n, Range(keys_pool))

\* `key' is a reference into keys_pool_ that is read after Delete has erased
\* its element: by then the next key has moved into its place, or, behind the
\* last one, the string there is destroyed.
NameAfterDelete(order, i) ==
    LET at == CHOOSE p \in 1..Len(PoolAfter(order, i - 1)) : PoolAfter(order, i - 1)[p] = order[i]
    IN  IF at <= Len(PoolAfter(order, i)) THEN PoolAfter(order, i)[at] ELSE NoName

KeyEvictionRandom(num) ==
    \E order \in Orders(Min({Len(keys_pool), num})) :
        /\ Without(Range(order))
        /\ Return(kOkCode, [i \in DOMAIN order |-> NameAfterDelete(order, i)])

\* One of the least recently visited of a group of at most kCandidates keys.
LruPick(pool, key) ==
    \E group \in SUBSET Range(pool) :
        /\ Cardinality(group) <= kCandidates /\ key \in group
        /\ \A k \in group : content[key].lv_time <= content[k].lv_time

KeyEvictionLruMutant(num) ==
    \E n \in IF num = 0 THEN {0} ELSE 1..Len(keys_pool) : \E order \in Orders(n) :
        /\ \A i \in 1..n : LruPick(PoolAfter(order, i - 1), order[i])
        /\ Without(Range(order))
        /\ Return(kOkCode, SubSeq(order, 1, 1))

\* n_deleted stays 0: the rounds go on until 25 ms have passed or no key is left.
KeyEvictionLru(num) ==
    \E n \in IF num = 0 THEN {0} ELSE 1..Len(keys_pool) : \E order \in Orders(n) :
        /\ \A i \in 1..n : LruPick(PoolAfter(order, i - 1), order[i])
        /\ Without(Range(order))
        /\ Return(kOkCode, order)

KeyEviction(lru, num) ==
    \/ keys_pool = <<>> /\ Return(kOkCode, <<>>) /\ Unchanged
    \/ keys_pool # <<>> /\ lru /\ KeyEvictionLru(num)
    \/ keys_pool # <<>> /\ ~lru /\ KeyEvictionRandom(num)
-----------------------------------------------------------------------------
(* Integers and strings *)

SetInt(key, intval) == Store(key, ValueObject(OBJECT_INT, intval)) /\ Return(kOkCode, TRUE)

AddIntMutant(key, val, ans, fits) ==
    Store(key, ValueObject(OBJECT_INT, ans)) /\ Return(kOkCode, ans)

\* The common part of IncrIntBy and DecrIntBy on an existing integer.
AddInt(key, val, ans, fits) ==
    \/ fits /\ Store(key, ValueObject(OBJECT_INT, ans)) /\ Return(kOkCode, ans)
    \/ ~fits /\ Store(key, ValueObject(OBJECT_INT, val)) /\ Return(kOverflowCode, 0)

IncrIntBy(key, increment) ==
    \/ /\ ~Exists(key)
       /\ Store(key, ValueObject(OBJECT_INT, increment)) /\ Return(kOkCode, increment)
    \/ WrongType(key, {OBJECT_INT}, 0)
    \/ /\ Typed(key, {OBJECT_INT})
       /\ LET val == content[key].ptr
          IN  AddInt(key, val, Int64(val + increment), val <= INT64_MAX - increment)

DecrIntBy(key, decrement) ==
    \/ /\ ~Exists(key)
       /\ Store(key, ValueObject(OBJECT_INT, -decrement)) /\ Return(kOkCode, -decrement)
    \/ WrongType(key, {OBJECT_INT}, 0)
    \/ /\ Typed(key, {OBJECT_INT})
       /\ LET val == content[key].ptr
          IN  AddInt(key, val, Int64(val - decrement), val >= INT64_MIN + decrement)

SetString(key, value) == Store(key, ValueObject(OBJECT_STRING, value)) /\ Return(kOkCode, TRUE)

Get(key) == Read(key, {OBJECT_INT, OBJECT_STRING}, <<>>, LAMBDA ptr : ptr)

\* A key of another type leaves errcode as it was (`==' for `=').
StrLen(key) ==
    \/ NotFound(key, 0)
    \/ Exists(key) /\ ~Typed(key, {OBJECT_INT, OBJECT_STRING}) /\ Return(Unset, 0) /\ Unchanged
    \/ /\ Typed(key, {OBJECT_INT, OBJECT_STRING})
       /\ UpdateLastVisitTime(key) /\ UNCHANGED keys_pool
       /\ Return(kOkCode, <<"length of", content[key].ptr>>)

\* Appending turns an integer into a string.
AppendString(key, val) ==
    LET old == IF ~Exists(key) THEN <<>>
               ELSE IF content[key].type = OBJECT_INT THEN IntToString(content[key].ptr)
               ELSE content[key].ptr
    IN  \/ WrongType(key, {OBJECT_INT, OBJECT_STRING}, 0)
        \/ /\ Exists(key) => Typed(key, {OBJECT_INT, OBJECT_STRING})
           /\ Store(key, ValueObject(OBJECT_STRING, Joined(old, val)))
           /\ Return(kOkCode, <<"length of", Joined(old, val)>>)
-----------------------------------------------------------------------------
(* Lists *)

ListPushAux(key, values, leftpush) ==
    LET old == IF Exists(key) THEN content[key].ptr ELSE <<>>
        new == IF leftpush THEN Reverse(values) \o old ELSE old \o values
    IN  \/ WrongType(key, {OBJECT_LIST}, 0)
        \/ /\ Exists(key) => Typed(key, {OBJECT_LIST})
           /\ Store(key, ValueObject(OBJECT_LIST, new)) /\ Return(kOkCode, Len(new))

\* An empty list answers "", and stays.
ListPopAux(key, leftpop) ==
    \/ NotFound(key, <<>>)
    \/ WrongType(key, {OBJECT_LIST}, <<>>)
    \/ /\ Typed(key, {OBJECT_LIST})
       /\ LET old == content[key].ptr
              new == IF old = <<>> THEN <<>> ELSE IF leftpop THEN Tail(old) ELSE Front(old)
          IN  /\ Store(key, ValueObject(OBJECT_LIST, new))
              /\ Return(kOkCode, IF old = <<>> THEN <<>>
                                 ELSE IF leftpop THEN Head(old) ELSE Last(old))

ListLen(key) == Read(key, {OBJECT_LIST}, 0, Len)

ListSetItemAtIndex(key, index, val) ==
    \/ NotFound(key, FALSE)
    \/ WrongType(key, {OBJECT_LIST}, FALSE)
    \/ /\ Typed(key, {OBJECT_LIST})
       /\ LET old == content[key].ptr
              i == IF index < 0 THEN index + Len(old) ELSE index
          IN  \/ i < 0 /\ Return(kFailCode, FALSE) /\ Unchanged
              \/ i >= Len(old) /\ Return(kOutOfRangeCode, FALSE) /\ Unchanged
              \/ /\ i \in 0..(Len(old) - 1)
                 /\ Store(key, ValueObject(OBJECT_LIST, [old EXCEPT ![i + 1] = val]))
                 /\ Return(kOkCode, TRUE)
-----------------------------------------------------------------------------
(* Hashes and sets *)

\* fields and values have the same length; of two equal fields the later wins.
HashUpdateKV(key, fields, values) ==
    LET old == IF Exists(key) THEN content[key].ptr ELSE [f \in {} |-> <<>>]
        at(f) == Max({i \in DOMAIN fields : fields[i] = f})
        new == [f \in DOMAIN old \cup Range(fields) |->
                  IF f \in Range(fields) THEN values[at(f)] ELSE old[f]]
    IN  \/ WrongType(key, {OBJECT_HASH}, 0)
        \/ /\ Exists(key) => Typed(key, {OBJECT_HASH})
           /\ Store(key, ValueObject(OBJECT_HASH, new)) /\ Return(kOkCode, Len(fields))

HashDelField(key, fields) ==
    \/ NotFound(key, 0)
    \/ WrongType(key, {OBJECT_HASH}, 0)
    \/ /\ Typed(key, {OBJECT_HASH})
       /\ LET old == content[key].ptr
          IN  /\ Store(key, ValueObject(OBJECT_HASH, [f \in DOMAIN old \ fields |-> old[f]]))
              /\ Return(kOkCode, Cardinality(DOMAIN old \cap fields))

HashGetValue(key, field) ==
    \/ NotFound(key, <<>>)
    \/ WrongType(key, {OBJECT_HASH}, <<>>)
    \/ /\ Typed(key, {OBJECT_HASH})
       /\ UpdateLastVisitTime(key) /\ UNCHANGED keys_pool
       /\ IF field \in DOMAIN content[key].ptr THEN Return(kOkCode, content[key].ptr[field])
          ELSE Return(kKeyNotFoundCode, <<>>)

\* HashGetAllEntries, and the fields and values it is made of.
HashGetAllEntries(key) == Read(key, {OBJECT_HASH}, <<>>, LAMBDA ptr : ptr)

HashLen(key) == Read(key, {OBJECT_HASH}, 0, LAMBDA ptr : Cardinality(DOMAIN ptr))

SetAddItem(key, members) ==
    LET old == IF Exists(key) THEN content[key].ptr ELSE {}
    IN  \/ WrongType(key, {OBJECT_SET}, 0)
        \/ /\ Exists(key) => Typed(key, {OBJECT_SET})
           /\ Store(key, ValueObject(OBJECT_SET, old \cup members))
           /\ Return(kOkCode, Cardinality(members \ old))

SetRemoveMembers(key, members) ==
    \/ NotFound(key, 0)
    \/ WrongType(key, {OBJECT_SET}, 0)
    \/ /\ Typed(key, {OBJECT_SET})
       /\ Store(key, ValueObject(OBJECT_SET, content[key].ptr \ members))
       /\ Return(kOkCode, Cardinality(content[key].ptr \cap members))

\* SetIsMember, SetMIsMember and SetGetMembers
SetGetMembers(key) == Read(key, {OBJECT_SET}, {}, LAMBDA ptr : ptr)

SetGetMemberCount(key) == Read(key, {OBJECT_SET}, 0, Cardinality)
-----------------------------------------------------------------------------
(* Properties *)

\* keys_pool_ lists every stored key exactly once: eviction can reach every
\* key, never draws one that is gone (and dereferences its missing value) and
\* no key twice as likely as another.
PoolMatchesContent ==
    IsInjective(keys_pool) /\ Range(keys_pool) = DOMAIN content
=============================================================================
