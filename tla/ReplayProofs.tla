---------------------------- MODULE ReplayProofs ----------------------------
(***************************************************************************)
(* A replay of the log brings back what was there, for every history of    *)
(* commands whose effect depends on nothing but the values.                *)
(***************************************************************************)
EXTENDS EngineProofs

\* The types and values there are, without the times of the visits.
Value(type, ptr) == [type |-> type, ptr |-> ptr]
Values(c) == [k \in DOMAIN c |-> Value(c[k].type, c[k].ptr)]

NoValues == [k \in {} |-> 0]
With(v, k, val) == [j \in DOMAIN v \cup {k} |-> IF j = k THEN val ELSE v[j]]
Less(v, keys) == [k \in DOMAIN v \ keys |-> v[k]]

\* w is v after an operation on k that stores a value of the type when it may,
\* and otherwise leaves everything alone.
Puts(v, w, k, may, type, ptr) ==
    /\ may => w = With(v, k, Value(type, ptr))
    /\ ~may => w = v

Has(v, k, type) == k \in DOMAIN v /\ v[k].type = type
IsOrIsNot(v, k, type) == k \in DOMAIN v => v[k].type = type
Old(v, k, none) == IF k \in DOMAIN v THEN v[k].ptr ELSE none

Parsed(s) == IF CanConvertToInt64(s) THEN Value(OBJECT_INT, s[1]) ELSE Value(OBJECT_STRING, s)

Adds(v, w, k, n) ==
    IF k \notin DOMAIN v THEN w = With(v, k, Value(OBJECT_INT, n))
    ELSE Puts(v, w, k, v[k].type = OBJECT_INT /\ v[k].ptr <= INT64_MAX - n,
              OBJECT_INT, Int64(v[k].ptr + n))

Subtracts(v, w, k, n) ==
    IF k \notin DOMAIN v THEN w = With(v, k, Value(OBJECT_INT, -n))
    ELSE Puts(v, w, k, v[k].type = OBJECT_INT /\ v[k].ptr >= INT64_MIN + n,
              OBJECT_INT, Int64(v[k].ptr - n))

IsCount(s) == CanConvertToInt64(s) /\ s[1] >= 0

Appends(v, w, k, s) ==
    IF k \notin DOMAIN v THEN w = With(v, k, Value(OBJECT_STRING, Joined(<<>>, s)))
    ELSE IF v[k].type = OBJECT_INT
    THEN w = With(v, k, Value(OBJECT_STRING, Joined(IntToString(v[k].ptr), s)))
    ELSE Puts(v, w, k, v[k].type = OBJECT_STRING, OBJECT_STRING, Joined(v[k].ptr, s))

Popped(old, left) == IF old = <<>> THEN <<>> ELSE IF left THEN Tail(old) ELSE Front(old)

SetsAt(v, w, k, s, val) ==
    IF ~Has(v, k, OBJECT_LIST) \/ ~CanConvertToInt64(s) THEN w = v
    ELSE LET old == v[k].ptr
             i == IF s[1] < 0 THEN s[1] + Len(old) ELSE s[1]
         IN  Puts(v, w, k, i \in 0..(Len(old) - 1), OBJECT_LIST, [old EXCEPT ![i + 1] = val])

Merged(old, fields, values) ==
    LET at(f) == Max({i \in DOMAIN fields : fields[i] = f})
    IN  [f \in DOMAIN old \cup Range(fields) |->
           IF f \in Range(fields) THEN values[at(f)] ELSE old[f]]

Fields(cmd) == [i \in 1..((Len(cmd) - 2) \div 2) |-> cmd[2 * i + 1]]
FieldValues(cmd) == [i \in 1..((Len(cmd) - 2) \div 2) |-> cmd[2 * i + 2]]

Writers == {"del", "set", "incr", "decr", "incrby", "decrby", "append", "lpop", "rpop", "lpush",
            "rpush", "lsetindex", "hset", "hdel", "sadd", "srem"}
Unrepeatable == {"expire", "expireat", "evict"}

\* w is what the command makes of v.  Every command but the unrepeatable ones
\* depends on nothing but the values there are.
Makes(v, cmd, w) ==
    LET k == cmd[2]
        rest == SubSeq(cmd, 3, Len(cmd))
        op == cmd[1]
    IN  /\ ~CheckSyntax(cmd) \/ op \notin Writers => w = v
        /\ CheckSyntax(cmd) =>
              /\ op = "del" => w = Less(v, Range(Tail(cmd)))
              /\ op = "set" => w = With(v, k, Parsed(cmd[3]))
              /\ op = "incr" => Adds(v, w, k, 1)
              /\ op = "decr" => Subtracts(v, w, k, 1)
              /\ op = "incrby" => IF IsCount(cmd[3]) THEN Adds(v, w, k, cmd[3][1]) ELSE w = v
              /\ op = "decrby" => IF IsCount(cmd[3]) THEN Subtracts(v, w, k, cmd[3][1]) ELSE w = v
              /\ op = "append" => Appends(v, w, k, cmd[3])
              /\ op = "lpop" => Puts(v, w, k, Has(v, k, OBJECT_LIST), OBJECT_LIST, Popped(v[k].ptr, TRUE))
              /\ op = "rpop" => Puts(v, w, k, Has(v, k, OBJECT_LIST), OBJECT_LIST, Popped(v[k].ptr, FALSE))
              /\ op = "lpush" => Puts(v, w, k, IsOrIsNot(v, k, OBJECT_LIST), OBJECT_LIST,
                                      Reverse(rest) \o Old(v, k, <<>>))
              /\ op = "rpush" => Puts(v, w, k, IsOrIsNot(v, k, OBJECT_LIST), OBJECT_LIST,
                                      Old(v, k, <<>>) \o rest)
              /\ op = "lsetindex" => SetsAt(v, w, k, cmd[3], cmd[4])
              /\ op = "hset" => Puts(v, w, k, IsOrIsNot(v, k, OBJECT_HASH), OBJECT_HASH,
                                     Merged(Old(v, k, [f \in {} |-> <<>>]), Fields(cmd), FieldValues(cmd)))
              /\ op = "hdel" => Puts(v, w, k, Has(v, k, OBJECT_HASH), OBJECT_HASH,
                                     [f \in DOMAIN v[k].ptr \ Range(rest) |-> v[k].ptr[f]])
              /\ op = "sadd" => Puts(v, w, k, IsOrIsNot(v, k, OBJECT_SET), OBJECT_SET,
                                     Old(v, k, {}) \cup Range(rest))
              /\ op = "srem" => Puts(v, w, k, Has(v, k, OBJECT_SET), OBJECT_SET,
                                     v[k].ptr \ Range(rest))

\* The replay meets no choice: a command makes one thing of the values.
LEMMA MakesOne ==
    ASSUME NEW v, NEW cmd, NEW w, NEW u, Makes(v, cmd, w), Makes(v, cmd, u)
    PROVE  u = w
<1>1. CASE ~CheckSyntax(cmd) \/ cmd[1] \notin Writers
    BY <1>1 DEF Makes
<1>2. ASSUME NEW k, NEW may, NEW type, NEW ptr, Puts(v, w, k, may, type, ptr), Puts(v, u, k, may, type, ptr)
      PROVE  u = w
    BY <1>2 DEF Puts
<1>3. ASSUME NEW k, NEW n, Adds(v, w, k, n), Adds(v, u, k, n) PROVE u = w
    BY <1>3 DEF Adds, Puts
<1>4. ASSUME NEW k, NEW n, Subtracts(v, w, k, n), Subtracts(v, u, k, n) PROVE u = w
    BY <1>4 DEF Subtracts, Puts
<1>5. ASSUME NEW k, NEW n, Appends(v, w, k, n), Appends(v, u, k, n) PROVE u = w
    BY <1>5 DEF Appends, Puts
<1>6. ASSUME NEW k, NEW n, NEW x, SetsAt(v, w, k, n, x), SetsAt(v, u, k, n, x) PROVE u = w
    BY <1>6 DEF SetsAt, Puts
<1>7. CASE CheckSyntax(cmd) /\ cmd[1] \in {"del", "set", "incr", "decr", "append", "lsetindex"}
    BY <1>3, <1>4, <1>5, <1>6, <1>7, Zenon DEF Makes
<1>9. CASE CheckSyntax(cmd) /\ cmd[1] \in {"incrby", "decrby"}
    <2>1. CASE IsCount(cmd[3])
        BY <1>3, <1>4, <1>9, <2>1, Zenon DEF Makes
    <2>2. CASE ~IsCount(cmd[3])
        BY <1>9, <2>2, Zenon DEF Makes
    <2> QED
        BY <2>1, <2>2
<1>8. CASE CheckSyntax(cmd) /\ cmd[1] \in {"lpop", "rpop", "lpush", "rpush", "hset", "hdel", "sadd", "srem"}
    BY <1>2, <1>8, Zenon DEF Makes
<1> QED
    BY SMTT(20), <1>1, <1>7, <1>8, <1>9 DEF Writers

LEMMA ValuesOf ==
    ASSUME NEW c
    PROVE  /\ DOMAIN Values(c) = DOMAIN c
           /\ \A k \in DOMAIN c : /\ Values(c)[k].type = c[k].type /\ Values(c)[k].ptr = c[k].ptr
BY DEF Values, Value

LEMMA StoreValues ==
    ASSUME NEW k, NEW type, NEW ptr, Store(k, ValueObject(type, ptr))
    PROVE  Values(content)' = With(Values(content), k, Value(type, ptr))
BY DEF Store, ValueObject, Values, Value, With

LEMMA VisitValues ==
    ASSUME NEW k, Exists(k), UpdateLastVisitTime(k)
    PROVE  Values(content)' = Values(content)
<1>1. DOMAIN content' = DOMAIN content
    BY DEF UpdateLastVisitTime
<1>2. ASSUME NEW j \in DOMAIN content
      PROVE content'[j].type = content[j].type /\ content'[j].ptr = content[j].ptr
    BY DEF UpdateLastVisitTime
<1> QED
    BY <1>1, <1>2 DEF Values

LEMMA WithoutValues ==
    ASSUME NEW keys, Without(keys)
    PROVE  Values(content)' = Less(Values(content), keys)
BY DEF Without, Values, Value, Less

LEMMA UnchangedValues ==
    ASSUME Unchanged
    PROVE  Values(content)' = Values(content)
BY DEF Unchanged

\* The operations of the container, seen as what they make of the values.  One
\* that fails leaves them alone.
LEMMA IncrValues ==
    ASSUME NEW k, NEW n, IncrIntBy(k, n)
    PROVE  /\ Adds(Values(content), Values(content)', k, n)
           /\ errcode' # kOkCode => Values(content)' = Values(content)
<1> DEFINE v == Values(content)
           w == Values(content)'
<1>1. DOMAIN v = DOMAIN content /\ \A j \in DOMAIN content : v[j] = Value(content[j].type, content[j].ptr)
    BY DEF Values
<1>2. CASE ~Exists(k)
    <2>1. w = With(v, k, Value(OBJECT_INT, n)) /\ errcode' = kOkCode
        BY <1>2, StoreValues DEF IncrIntBy, WrongType, Typed, Return
    <2> QED
        BY <1>1, <1>2, <2>1 DEF Adds, Exists
<1>3. CASE WrongType(k, {OBJECT_INT}, 0)
    BY <1>1, <1>3, UnchangedValues DEF Adds, Puts, WrongType, Exists, Value
<1>4. CASE Typed(k, {OBJECT_INT})
    <2>1. AddInt(k, content[k].ptr, Int64(content[k].ptr + n), content[k].ptr <= INT64_MAX - n)
        BY <1>4 DEF IncrIntBy, WrongType, Typed
    <2>2. k \in DOMAIN v /\ v[k] = Value(OBJECT_INT, content[k].ptr)
        BY <1>1, <1>4 DEF Typed, Exists
    <2>3. v[k].type = OBJECT_INT /\ v[k].ptr = content[k].ptr
        BY <2>2 DEF Value
    <2>4. CASE v[k].ptr <= INT64_MAX - n
        <3>1. w = With(v, k, Value(OBJECT_INT, Int64(v[k].ptr + n))) /\ errcode' = kOkCode
            BY <2>1, <2>3, <2>4, StoreValues DEF AddInt, Return
        <3> QED
            BY <2>2, <2>3, <2>4, <3>1 DEF Adds, Puts
    <2>5. CASE ~(v[k].ptr <= INT64_MAX - n)
        <3>1. w = With(v, k, v[k])
            BY <2>1, <2>2, <2>3, <2>5, StoreValues DEF AddInt
        <3>2. With(v, k, v[k]) = v
            BY <2>2 DEF With, Values
        <3> QED
            BY <2>2, <2>3, <2>5, <3>1, <3>2 DEF Adds, Puts
    <2> QED
        BY <2>4, <2>5
<1> QED
    BY <1>2, <1>3, <1>4 DEF IncrIntBy

LEMMA DecrValues ==
    ASSUME NEW k, NEW n, DecrIntBy(k, n)
    PROVE  /\ Subtracts(Values(content), Values(content)', k, n)
           /\ errcode' # kOkCode => Values(content)' = Values(content)
<1> DEFINE v == Values(content)
           w == Values(content)'
<1>1. DOMAIN v = DOMAIN content /\ \A j \in DOMAIN content : v[j] = Value(content[j].type, content[j].ptr)
    BY DEF Values
<1>2. CASE ~Exists(k)
    <2>1. w = With(v, k, Value(OBJECT_INT, -n)) /\ errcode' = kOkCode
        BY <1>2, StoreValues DEF DecrIntBy, WrongType, Typed, Return
    <2> QED
        BY <1>1, <1>2, <2>1 DEF Subtracts, Exists
<1>3. CASE WrongType(k, {OBJECT_INT}, 0)
    BY <1>1, <1>3, UnchangedValues DEF Subtracts, Puts, WrongType, Exists, Value
<1>4. CASE Typed(k, {OBJECT_INT})
    <2>1. AddInt(k, content[k].ptr, Int64(content[k].ptr - n), content[k].ptr >= INT64_MIN + n)
        BY <1>4 DEF DecrIntBy, WrongType, Typed
    <2>2. k \in DOMAIN v /\ v[k] = Value(OBJECT_INT, content[k].ptr)
        BY <1>1, <1>4 DEF Typed, Exists
    <2>3. v[k].type = OBJECT_INT /\ v[k].ptr = content[k].ptr
        BY <2>2 DEF Value
    <2>4. CASE v[k].ptr >= INT64_MIN + n
        <3>1. w = With(v, k, Value(OBJECT_INT, Int64(v[k].ptr - n))) /\ errcode' = kOkCode
            BY <2>1, <2>3, <2>4, StoreValues DEF AddInt, Return
        <3> QED
            BY <2>2, <2>3, <2>4, <3>1 DEF Subtracts, Puts
    <2>5. CASE ~(v[k].ptr >= INT64_MIN + n)
        <3>1. w = With(v, k, v[k])
            BY <2>1, <2>2, <2>3, <2>5, StoreValues DEF AddInt
        <3>2. With(v, k, v[k]) = v
            BY <2>2 DEF With, Values
        <3> QED
            BY <2>2, <2>3, <2>5, <3>1, <3>2 DEF Subtracts, Puts
    <2> QED
        BY <2>4, <2>5
<1> QED
    BY <1>2, <1>3, <1>4 DEF DecrIntBy

LEMMA AppendValues ==
    ASSUME NEW k, NEW s, AppendString(k, s)
    PROVE  /\ Appends(Values(content), Values(content)', k, s)
           /\ errcode' # kOkCode => Values(content)' = Values(content)
<1> DEFINE v == Values(content)
           w == Values(content)'
<1>1. DOMAIN v = DOMAIN content
      /\ \A j \in DOMAIN content : v[j].type = content[j].type /\ v[j].ptr = content[j].ptr
    BY ValuesOf
<1> HIDE DEF v
<1>2. CASE ~Exists(k)
    <2>1. w = With(v, k, Value(OBJECT_STRING, Joined(<<>>, s))) /\ errcode' = kOkCode
        BY Zenon, <1>2, StoreValues DEF AppendString, WrongType, Return, v
    <2> QED
        BY <1>1, <1>2, <2>1 DEF Appends, Exists, v
<1>3. CASE WrongType(k, {OBJECT_INT, OBJECT_STRING}, 0)
    <2>1. w = v
        BY <1>3, UnchangedValues DEF WrongType, v
    <2>2. k \in DOMAIN v /\ v[k].type \notin {OBJECT_INT, OBJECT_STRING}
        BY <1>1, <1>3 DEF WrongType, Exists
    <2> QED
        BY <2>1, <2>2 DEF Appends, Puts, v
<1>4. CASE Typed(k, {OBJECT_INT, OBJECT_STRING})
    <2>1. k \in DOMAIN v /\ v[k].type = content[k].type /\ v[k].ptr = content[k].ptr
        BY <1>1, <1>4 DEF Typed, Exists
    <2>2. OBJECT_INT # OBJECT_STRING
        BY DEF OBJECT_INT, OBJECT_STRING
    <2>3. CASE content[k].type = OBJECT_INT
        <3>1. w = With(v, k, Value(OBJECT_STRING, Joined(IntToString(v[k].ptr), s))) /\ errcode' = kOkCode
            BY Zenon, <1>4, <2>1, <2>3, StoreValues DEF AppendString, WrongType, Typed, Return, v
        <3> QED
            BY <2>1, <2>3, <3>1 DEF Appends, v
    <2>4. CASE content[k].type = OBJECT_STRING
        <3>1. w = With(v, k, Value(OBJECT_STRING, Joined(v[k].ptr, s))) /\ errcode' = kOkCode
            BY Zenon, <1>4, <2>1, <2>2, <2>4, StoreValues DEF AppendString, WrongType, Typed, Return, v
        <3> QED
            BY <2>1, <2>2, <2>4, <3>1 DEF Appends, Puts, v
    <2> QED
        BY <1>4, <2>3, <2>4 DEF Typed
<1> QED
    BY Zenon, <1>2, <1>3, <1>4 DEF AppendString, Typed, Exists

\* The strings that clients put into lists; "" is not among them.
Words == {x \in UNION {Range(r) : r \in Requests} : x # <<>>}

\* Every list holds such strings only.
WordLists(v) == \A k \in DOMAIN v : v[k].type = OBJECT_LIST => v[k].ptr \in Seq(Words)

\* What an operation on a list, hash or set of the right type stores.
LEMMA StorePuts ==
    ASSUME NEW k, NEW may, NEW type, NEW ptr, may, Store(k, ValueObject(type, ptr))
    PROVE  Puts(Values(content), Values(content)', k, may, type, ptr)
BY StoreValues DEF Puts

LEMMA UnchangedPuts ==
    ASSUME NEW k, NEW may, NEW type, NEW ptr, ~may, Unchanged
    PROVE  /\ Puts(Values(content), Values(content)', k, may, type, ptr)
           /\ Values(content)' = Values(content)
BY UnchangedValues DEF Puts

LEMMA PopValues ==
    ASSUME WordLists(content), NEW k, NEW left \in BOOLEAN, ListPopAux(k, left)
    PROVE  /\ Puts(Values(content), Values(content)', k, Has(Values(content), k, OBJECT_LIST),
                   OBJECT_LIST, Popped(Values(content)[k].ptr, left))
           /\ ~(errcode' = kOkCode /\ ret' # <<>>) => Values(content)' = Values(content)
<1> DEFINE v == Values(content)
           w == Values(content)'
<1>1. DOMAIN v = DOMAIN content
      /\ \A j \in DOMAIN content : v[j].type = content[j].type /\ v[j].ptr = content[j].ptr
    BY ValuesOf
<1>2. CASE NotFound(k, <<>>) \/ WrongType(k, {OBJECT_LIST}, <<>>)
    <2>1. ~Has(v, k, OBJECT_LIST) /\ Unchanged
        BY <1>1, <1>2 DEF NotFound, WrongType, Has, Exists
    <2> QED
        BY <2>1, UnchangedPuts
<1>3. CASE Typed(k, {OBJECT_LIST})
    <2>1. k \in DOMAIN v /\ v[k].type = OBJECT_LIST /\ v[k].ptr = content[k].ptr
          /\ content[k].ptr \in Seq(Words)
        BY <1>1, <1>3 DEF Typed, Exists, WordLists
    <2> HIDE DEF v
    <2>2. /\ Store(k, ValueObject(OBJECT_LIST, Popped(v[k].ptr, left)))
          /\ errcode' = kOkCode
          /\ ret' = IF v[k].ptr = <<>> THEN <<>> ELSE IF left THEN Head(v[k].ptr) ELSE Last(v[k].ptr)
        BY <1>3, <2>1 DEF ListPopAux, NotFound, WrongType, Typed, Popped, Return
    <2>3. Puts(v, w, k, Has(v, k, OBJECT_LIST), OBJECT_LIST, Popped(v[k].ptr, left))
        BY Zenon, <2>1, <2>2, StorePuts DEF Has, v
    <2>4. CASE v[k].ptr = <<>>
        <3>1. v[k] = Value(OBJECT_LIST, <<>>)
            BY <2>1, <2>4 DEF v, Values, Value
        <3>2. w = With(v, k, v[k])
            BY <2>2, <2>4, <3>1, StoreValues DEF Popped, v
        <3>3. With(v, k, v[k]) = v
            BY Zenon, <2>1 DEF With, v, Values
        <3> QED
            BY <2>3, <3>2, <3>3 DEF v
    <2>5. CASE v[k].ptr # <<>>
        <3>1. Head(v[k].ptr) \in Words /\ Last(v[k].ptr) \in Words
            BY <2>1, <2>5 DEF Last
        <3>2. ret' # <<>>
            BY <2>2, <2>5, <3>1 DEF Words
        <3> QED
            BY <2>2, <2>3, <3>2 DEF v
    <2> QED
        BY <2>4, <2>5
<1> QED
    BY <1>2, <1>3 DEF ListPopAux

LEMMA PushValues ==
    ASSUME NEW k, NEW s, NEW left \in BOOLEAN, ListPushAux(k, s, left)
    PROVE  LET v == Values(content)
               old == Old(v, k, <<>>)
           IN  /\ Puts(v, Values(content)', k, IsOrIsNot(v, k, OBJECT_LIST), OBJECT_LIST,
                       IF left THEN Reverse(s) \o old ELSE old \o s)
               /\ errcode' # kOkCode => Values(content)' = v
<1> DEFINE v == Values(content)
           old == Old(v, k, <<>>)
<1>1. DOMAIN v = DOMAIN content
      /\ \A j \in DOMAIN content : v[j].type = content[j].type /\ v[j].ptr = content[j].ptr
    BY ValuesOf
<1>2. CASE WrongType(k, {OBJECT_LIST}, 0)
    <2>1. ~IsOrIsNot(v, k, OBJECT_LIST) /\ Unchanged
        BY <1>1, <1>2 DEF WrongType, IsOrIsNot, Exists
    <2> QED
        BY <2>1, UnchangedPuts
<1>3. CASE Exists(k) => Typed(k, {OBJECT_LIST})
    <2>1. IsOrIsNot(v, k, OBJECT_LIST)
        BY <1>1, <1>3 DEF Typed, IsOrIsNot, Exists
    <2>2. old = IF Exists(k) THEN content[k].ptr ELSE <<>>
        BY <1>1 DEF Old, Exists
    <2>3. /\ Store(k, ValueObject(OBJECT_LIST, IF left THEN Reverse(s) \o old ELSE old \o s))
          /\ errcode' = kOkCode
        BY <1>3, <2>2 DEF ListPushAux, WrongType, Typed, Return
    <2> QED
        BY Zenon, <2>1, <2>3, StorePuts
<1> QED
    BY <1>2, <1>3 DEF ListPushAux

LEMMA SetAtValues ==
    ASSUME NEW k, NEW s, CanConvertToInt64(s), NEW val, ListSetItemAtIndex(k, s[1], val)
    PROVE  /\ SetsAt(Values(content), Values(content)', k, s, val)
           /\ errcode' # kOkCode => Values(content)' = Values(content)
<1> DEFINE v == Values(content)
           old == v[k].ptr
           i == IF s[1] < 0 THEN s[1] + Len(old) ELSE s[1]
<1>1. DOMAIN v = DOMAIN content
      /\ \A j \in DOMAIN content : v[j].type = content[j].type /\ v[j].ptr = content[j].ptr
    BY ValuesOf
<1>2. CASE NotFound(k, FALSE) \/ WrongType(k, {OBJECT_LIST}, FALSE)
    <2>1. ~Has(v, k, OBJECT_LIST) /\ Unchanged
        BY Zenon, <1>1, <1>2 DEF NotFound, WrongType, Has, Exists
    <2> QED
        BY <2>1, UnchangedValues DEF SetsAt
<1>3. CASE Typed(k, {OBJECT_LIST})
    <2>1. Has(v, k, OBJECT_LIST) /\ old = content[k].ptr
        BY <1>1, <1>3 DEF Typed, Exists, Has
    <2> HIDE DEF v
    <2>2. \/ i < 0 /\ Unchanged
          \/ i >= Len(old) /\ Unchanged
          \/ /\ i \in 0..(Len(old) - 1)
             /\ Store(k, ValueObject(OBJECT_LIST, [old EXCEPT ![i + 1] = val]))
             /\ errcode' = kOkCode
        BY <1>3, <2>1 DEF ListSetItemAtIndex, NotFound, WrongType, Typed, Return
    <2> DEFINE new == [old EXCEPT ![i + 1] = val]
    <2>3. SetsAt(v, Values(content)', k, s, val)
             <=> Puts(v, Values(content)', k, i \in 0..(Len(old) - 1), OBJECT_LIST, new)
        BY <2>1 DEF SetsAt
    <2> HIDE DEF i, old, new
    <2>4. (i < 0 \/ i >= Len(old)) => i \notin 0..(Len(old) - 1)
        BY DEF i
    <2>5. CASE i \in 0..(Len(old) - 1)
        BY Zenon, <2>2, <2>3, <2>4, <2>5, StorePuts DEF v, new
    <2>6. CASE i \notin 0..(Len(old) - 1)
        BY Zenon, <2>2, <2>3, <2>6, UnchangedPuts DEF v
    <2> QED
        BY <2>5, <2>6 DEF v
<1> QED
    BY Zenon, <1>2, <1>3 DEF ListSetItemAtIndex

LEMMA HashSetValues ==
    ASSUME NEW k, NEW fields, NEW values, HashUpdateKV(k, fields, values)
    PROVE  LET v == Values(content)
           IN  /\ Puts(v, Values(content)', k, IsOrIsNot(v, k, OBJECT_HASH), OBJECT_HASH,
                       Merged(Old(v, k, [f \in {} |-> <<>>]), fields, values))
               /\ errcode' # kOkCode => Values(content)' = v
<1> DEFINE v == Values(content)
           old == Old(v, k, [f \in {} |-> <<>>])
<1>1. DOMAIN v = DOMAIN content
      /\ \A j \in DOMAIN content : v[j].type = content[j].type /\ v[j].ptr = content[j].ptr
    BY ValuesOf
<1>2. CASE WrongType(k, {OBJECT_HASH}, 0)
    <2>1. ~IsOrIsNot(v, k, OBJECT_HASH) /\ Unchanged
        BY <1>1, <1>2 DEF WrongType, IsOrIsNot, Exists
    <2> QED
        BY <2>1, UnchangedPuts
<1>3. CASE Exists(k) => Typed(k, {OBJECT_HASH})
    <2>1. IsOrIsNot(v, k, OBJECT_HASH)
        BY <1>1, <1>3 DEF Typed, IsOrIsNot, Exists
    <2>2. old = IF Exists(k) THEN content[k].ptr ELSE [f \in {} |-> <<>>]
        BY <1>1 DEF Old, Exists
    <2>3. Store(k, ValueObject(OBJECT_HASH, Merged(old, fields, values))) /\ errcode' = kOkCode
        BY <1>3, <2>2, Zenon DEF HashUpdateKV, WrongType, Typed, Return, Merged
    <2> QED
        BY Zenon, <2>1, <2>3, StorePuts
<1> QED
    BY <1>2, <1>3 DEF HashUpdateKV

LEMMA HashDelValues ==
    ASSUME NEW k, NEW fields, HashDelField(k, fields)
    PROVE  LET v == Values(content)
           IN  /\ Puts(v, Values(content)', k, Has(v, k, OBJECT_HASH), OBJECT_HASH,
                       [f \in DOMAIN v[k].ptr \ fields |-> v[k].ptr[f]])
               /\ errcode' = kWrongTypeCode => Values(content)' = v
<1> DEFINE v == Values(content)
<1>1. DOMAIN v = DOMAIN content
      /\ \A j \in DOMAIN content : v[j].type = content[j].type /\ v[j].ptr = content[j].ptr
    BY ValuesOf
<1>2. CASE NotFound(k, 0) \/ WrongType(k, {OBJECT_HASH}, 0)
    <2>1. ~Has(v, k, OBJECT_HASH) /\ Unchanged
        BY <1>1, <1>2 DEF NotFound, WrongType, Has, Exists
    <2> QED
        BY <2>1, UnchangedPuts
<1>3. CASE Typed(k, {OBJECT_HASH})
    <2>1. Has(v, k, OBJECT_HASH) /\ v[k].ptr = content[k].ptr
        BY <1>1, <1>3 DEF Typed, Exists, Has
    <2> HIDE DEF v
    <2>2. /\ Store(k, ValueObject(OBJECT_HASH, [f \in DOMAIN v[k].ptr \ fields |-> v[k].ptr[f]]))
          /\ errcode' # kWrongTypeCode
        BY Zenon, <1>3, <2>1
           DEF HashDelField, NotFound, WrongType, Typed, Return, kOkCode, kWrongTypeCode
    <2> QED
        BY Zenon, <2>1, <2>2, StorePuts DEF v
<1> QED
    BY <1>2, <1>3 DEF HashDelField

LEMMA SetAddValues ==
    ASSUME NEW k, NEW members, SetAddItem(k, members)
    PROVE  LET v == Values(content)
           IN  /\ Puts(v, Values(content)', k, IsOrIsNot(v, k, OBJECT_SET), OBJECT_SET,
                       Old(v, k, {}) \cup members)
               /\ errcode' # kOkCode => Values(content)' = v
<1> DEFINE v == Values(content)
           old == Old(v, k, {})
<1>1. DOMAIN v = DOMAIN content
      /\ \A j \in DOMAIN content : v[j].type = content[j].type /\ v[j].ptr = content[j].ptr
    BY ValuesOf
<1>2. CASE WrongType(k, {OBJECT_SET}, 0)
    <2>1. ~IsOrIsNot(v, k, OBJECT_SET) /\ Unchanged
        BY <1>1, <1>2 DEF WrongType, IsOrIsNot, Exists
    <2> QED
        BY <2>1, UnchangedPuts
<1>3. CASE Exists(k) => Typed(k, {OBJECT_SET})
    <2>1. IsOrIsNot(v, k, OBJECT_SET)
        BY <1>1, <1>3 DEF Typed, IsOrIsNot, Exists
    <2>2. old = IF Exists(k) THEN content[k].ptr ELSE {}
        BY <1>1 DEF Old, Exists
    <2>3. Store(k, ValueObject(OBJECT_SET, old \cup members)) /\ errcode' = kOkCode
        BY <1>3, <2>2 DEF SetAddItem, WrongType, Typed, Return
    <2> QED
        BY Zenon, <2>1, <2>3, StorePuts
<1> QED
    BY <1>2, <1>3 DEF SetAddItem

LEMMA SetRemoveValues ==
    ASSUME NEW k, NEW members, SetRemoveMembers(k, members)
    PROVE  LET v == Values(content)
           IN  /\ Puts(v, Values(content)', k, Has(v, k, OBJECT_SET), OBJECT_SET,
                       v[k].ptr \ members)
               /\ errcode' = kWrongTypeCode => Values(content)' = v
<1> DEFINE v == Values(content)
<1>1. DOMAIN v = DOMAIN content
      /\ \A j \in DOMAIN content : v[j].type = content[j].type /\ v[j].ptr = content[j].ptr
    BY ValuesOf
<1>2. CASE NotFound(k, 0) \/ WrongType(k, {OBJECT_SET}, 0)
    <2>1. ~Has(v, k, OBJECT_SET) /\ Unchanged
        BY <1>1, <1>2 DEF NotFound, WrongType, Has, Exists
    <2> QED
        BY <2>1, UnchangedPuts
<1>3. CASE Typed(k, {OBJECT_SET})
    <2>1. Has(v, k, OBJECT_SET) /\ v[k].ptr = content[k].ptr
        BY <1>1, <1>3 DEF Typed, Exists, Has
    <2> HIDE DEF v
    <2>2. /\ Store(k, ValueObject(OBJECT_SET, v[k].ptr \ members))
          /\ errcode' # kWrongTypeCode
        BY Zenon, <1>3, <2>1
           DEF SetRemoveMembers, NotFound, WrongType, Typed, Return, kOkCode, kWrongTypeCode
    <2> QED
        BY Zenon, <2>1, <2>2, StorePuts DEF v
<1> QED
    BY <1>2, <1>3 DEF SetRemoveMembers

LEMMA ReadersValues ==
    ASSUME NEW k, NEW f,
           \/ Get(k) \/ StrLen(k) \/ ListLen(k)
           \/ HashGetValue(k, f) \/ HashGetAllEntries(k) \/ HashLen(k)
           \/ SetGetMembers(k) \/ SetGetMemberCount(k)
    PROVE  Values(content)' = Values(content)
<1> USE DEF NotFound, WrongType, Typed
<1>1. CASE Get(k)
    BY <1>1, UnchangedValues, VisitValues DEF Get, Read
<1>2. CASE StrLen(k)
    BY Zenon, <1>2, UnchangedValues, VisitValues DEF StrLen
<1>3. CASE ListLen(k)
    BY <1>3, UnchangedValues, VisitValues DEF ListLen, Read
<1>4. CASE HashGetValue(k, f)
    BY <1>4, UnchangedValues, VisitValues DEF HashGetValue
<1>5. CASE HashGetAllEntries(k)
    BY <1>5, UnchangedValues, VisitValues DEF HashGetAllEntries, Read
<1>6. CASE HashLen(k)
    BY <1>6, UnchangedValues, VisitValues DEF HashLen, Read
<1>7. CASE SetGetMembers(k)
    BY <1>7, UnchangedValues, VisitValues DEF SetGetMembers, Read
<1>8. CASE SetGetMemberCount(k)
    BY <1>8, UnchangedValues, VisitValues DEF SetGetMemberCount, Read
<1> QED
    BY <1>1, <1>2, <1>3, <1>4, <1>5, <1>6, <1>7, <1>8

\* The command is as good as its replay: what it does depends only on the values
\* there are, and a served command that is not logged has changed none of them.
Repeats ==
    /\ Makes(Values(content), cur, Values(content)')
    /\ \/ log' = log /\ (sync => Values(content)' = Values(content))
       \/ sync /\ log' = Append(log, cur)

LEMMA ReadersRepeat ==
    ASSUME \/ IncorrectArguments \/ NotAnInteger \/ PingCommand \/ OverviewCommand
           \/ ExistsCommand \/ TypeCommand \/ TTLCommand
           \/ GetCommand \/ StrlenCommand \/ LLenCommand \/ HGetCommand \/ HGetAllCommand
           \/ HLenCommand \/ SMembersCommand \/ SCardCommand,
           cur[1] \notin Unrepeatable
    PROVE  Repeats
<1>1. log' = log
    BY DEF IncorrectArguments, NotAnInteger, PingCommand, OverviewCommand, ExistsCommand, TypeCommand,
           TTLCommand, GetCommand, StrlenCommand, LLenCommand, HGetCommand, HGetAllCommand,
           HLenCommand, SMembersCommand, SCardCommand
<1>2. Values(content)' = Values(content)
    <2>1. CASE \/ IncorrectArguments \/ NotAnInteger \/ PingCommand \/ OverviewCommand
               \/ ExistsCommand \/ TypeCommand \/ TTLCommand
        BY Zenon, <2>1, UnchangedValues
           DEF IncorrectArguments, NotAnInteger, PingCommand, OverviewCommand, Overview,
               ExistsCommand, KeyExists, TypeCommand, TTLCommand
    <2>2. CASE \/ GetCommand \/ StrlenCommand \/ LLenCommand \/ HGetCommand \/ HGetAllCommand
               \/ HLenCommand \/ SMembersCommand \/ SCardCommand
        BY <2>2, ReadersValues
           DEF GetCommand, StrlenCommand, LLenCommand, HGetCommand, HGetAllCommand, HLenCommand,
               SMembersCommand, SCardCommand
    <2> QED
        BY <2>1, <2>2
<1>3. Makes(Values(content), cur, Values(content))
    <2>1. CASE IncorrectArguments
        BY Zenon, <2>1 DEF IncorrectArguments, Makes
    <2>2. CASE NotAnInteger
        <3>1. \/ cur[1] \in {"incrby", "decrby", "lsetindex"} /\ ~CanConvertToInt64(cur[3])
                 /\ CheckSyntax(cur)
            BY <2>2 DEF NotAnInteger, Is, Unrepeatable
        <3>2. ASSUME NEW v PROVE ~IsCount(cur[3]) /\ SetsAt(v, v, cur[2], cur[3], cur[4])
            BY <3>1 DEF IsCount, SetsAt
        <3> QED
            BY Zenon, <3>1, <3>2 DEF Makes, Writers
    <2>3. CASE \/ PingCommand \/ OverviewCommand \/ ExistsCommand \/ TypeCommand \/ TTLCommand
               \/ GetCommand \/ StrlenCommand \/ LLenCommand \/ HGetCommand \/ HGetAllCommand
               \/ HLenCommand \/ SMembersCommand \/ SCardCommand
        <3>1. cur[1] \notin Writers
            BY Zenon, <2>3
               DEF Writers, Is, PingCommand, OverviewCommand, ExistsCommand, TypeCommand, TTLCommand,
                   GetCommand, StrlenCommand, LLenCommand, HGetCommand, HGetAllCommand, HLenCommand,
                   SMembersCommand, SCardCommand
        <3> QED
            BY <3>1, Zenon DEF Makes, Writers
    <2> QED
        BY <2>1, <2>2, <2>3
<1> QED
    BY <1>1, <1>2, <1>3 DEF Repeats

\* When a command is logged: if it succeeded, or unless the key has another type.
LEMMA LoggedIfOk ==
    ASSUME LogIfOk, errcode' # kOkCode => Values(content)' = Values(content)
    PROVE  \/ log' = log /\ (sync => Values(content)' = Values(content))
           \/ sync /\ log' = Append(log, cur)
BY DEF LogIfOk, AppendWhen

LEMMA NumbersRepeat ==
    ASSUME DelCommand \/ SetCommand \/ IncrCommand \/ DecrCommand \/ IncrByCommand \/ DecrByCommand
           \/ AppendCommand
    PROVE  Repeats
<1> DEFINE v == Values(content)
           w == Values(content)'
<1>1. CASE DelCommand
    <2>1. cur[1] = "del" /\ CheckSyntax(cur) /\ w = Less(v, Range(Tail(cur)))
        BY <1>1, WithoutValues DEF DelCommand, Delete, Is
    <2> HIDE DEF v, w
    <2>2. Makes(v, cur, w)
        BY <2>1 DEF Makes, Writers
    <2> QED
        BY <1>1, <2>2 DEF Repeats, DelCommand, AppendWhen, v, w
<1>2. CASE SetCommand
    <2>1. cur[1] = "set" /\ CheckSyntax(cur) /\ w = With(v, cur[2], Parsed(cur[3]))
        BY Zenon, <1>2, StoreValues DEF SetCommand, SetInt, SetString, Is, key, Parsed
    <2> HIDE DEF v, w
    <2>2. Makes(v, cur, w)
        BY <2>1 DEF Makes, Writers
    <2> QED
        BY <1>2, <2>2 DEF Repeats, SetCommand, AppendWhen, v, w
<1>3. CASE IncrCommand
    <2>1. /\ cur[1] = "incr" /\ CheckSyntax(cur) /\ Adds(v, w, cur[2], 1)
          /\ errcode' # kOkCode => w = v
        BY <1>3, IncrValues DEF IncrCommand, Is, key
    <2> HIDE DEF v, w
    <2>2. Makes(v, cur, w)
        BY <2>1 DEF Makes, Writers
    <2> QED
        BY <1>3, <2>1, <2>2, LoggedIfOk DEF Repeats, IncrCommand, v, w
<1>4. CASE DecrCommand
    <2>1. /\ cur[1] = "decr" /\ CheckSyntax(cur) /\ Subtracts(v, w, cur[2], 1)
          /\ errcode' # kOkCode => w = v
        BY <1>4, DecrValues DEF DecrCommand, Is, key
    <2> HIDE DEF v, w
    <2>2. Makes(v, cur, w)
        BY <2>1 DEF Makes, Writers
    <2> QED
        BY <1>4, <2>1, <2>2, LoggedIfOk DEF Repeats, DecrCommand, v, w
<1>5. CASE IncrByCommand
    <2>0. cur[1] = "incrby" /\ CheckSyntax(cur) /\ CanConvertToInt64(cur[3]) /\ cur[3][1] \in Int
        BY <1>5, ConvertedFits DEF IncrByCommand, Is
    <2>1. CASE cur[3][1] < 0
        <3>1. ~IsCount(cur[3]) /\ w = v /\ log' = log
            <4>1. cur[3][1] >= 0 \/ (Unchanged /\ log' = log)
                BY <1>5, Zenon DEF IncrByCommand, Operand
            <4>2. ~(cur[3][1] >= 0)
                BY <2>0, <2>1
            <4> QED
                BY <4>1, <4>2, UnchangedValues, Zenon DEF IsCount
        <3> HIDE DEF v, w
        <3>2. Makes(v, cur, w)
            BY <2>0, <3>1 DEF Makes, Writers
        <3> QED
            BY <3>1, <3>2 DEF Repeats, v, w
    <2>2. CASE cur[3][1] >= 0
        <3>1. IncrIntBy(cur[2], cur[3][1]) /\ LogIfOk /\ IsCount(cur[3])
            <4>1. cur[3][1] < 0 \/ (IncrIntBy(cur[2], cur[3][1]) /\ LogIfOk)
                BY <1>5, Zenon DEF IncrByCommand, Operand, key
            <4>2. ~(cur[3][1] < 0)
                BY <2>0, <2>2
            <4>3. IsCount(cur[3])
                BY <2>0, <2>2, Zenon DEF IsCount
            <4> QED
                BY <4>1, <4>2, <4>3, Zenon
        <3>2. Adds(v, w, cur[2], cur[3][1]) /\ (errcode' # kOkCode => w = v)
            BY <3>1, IncrValues
        <3> HIDE DEF v, w
        <3>3. Makes(v, cur, w)
            BY <2>0, <3>1, <3>2 DEF Makes, Writers
        <3> QED
            BY <3>1, <3>2, <3>3, LoggedIfOk DEF Repeats, v, w
    <2> QED
        BY <2>0, <2>1, <2>2
<1>6. CASE DecrByCommand
    <2>0. cur[1] = "decrby" /\ CheckSyntax(cur) /\ CanConvertToInt64(cur[3]) /\ cur[3][1] \in Int
        BY <1>6, ConvertedFits DEF DecrByCommand, Is
    <2>1. CASE cur[3][1] < 0
        <3>1. ~IsCount(cur[3]) /\ w = v /\ log' = log
            <4>1. cur[3][1] >= 0 \/ (Unchanged /\ log' = log)
                BY <1>6, Zenon DEF DecrByCommand, Operand
            <4>2. ~(cur[3][1] >= 0)
                BY <2>0, <2>1
            <4> QED
                BY <4>1, <4>2, UnchangedValues, Zenon DEF IsCount
        <3> HIDE DEF v, w
        <3>2. Makes(v, cur, w)
            BY <2>0, <3>1 DEF Makes, Writers
        <3> QED
            BY <3>1, <3>2 DEF Repeats, v, w
    <2>2. CASE cur[3][1] >= 0
        <3>1. DecrIntBy(cur[2], cur[3][1]) /\ LogIfOk /\ IsCount(cur[3])
            <4>1. cur[3][1] < 0 \/ (DecrIntBy(cur[2], cur[3][1]) /\ LogIfOk)
                BY <1>6, Zenon DEF DecrByCommand, Operand, key
            <4>2. ~(cur[3][1] < 0)
                BY <2>0, <2>2
            <4>3. IsCount(cur[3])
                BY <2>0, <2>2, Zenon DEF IsCount
            <4> QED
                BY <4>1, <4>2, <4>3, Zenon
        <3>2. Subtracts(v, w, cur[2], cur[3][1]) /\ (errcode' # kOkCode => w = v)
            BY <3>1, DecrValues
        <3> HIDE DEF v, w
        <3>3. Makes(v, cur, w)
            BY <2>0, <3>1, <3>2 DEF Makes, Writers
        <3> QED
            BY <3>1, <3>2, <3>3, LoggedIfOk DEF Repeats, v, w
    <2> QED
        BY <2>0, <2>1, <2>2
<1>7. CASE AppendCommand
    <2>1. /\ cur[1] = "append" /\ CheckSyntax(cur) /\ Appends(v, w, cur[2], cur[3])
          /\ errcode' # kOkCode => w = v
        BY <1>7, AppendValues DEF AppendCommand, Is, key
    <2> HIDE DEF v, w
    <2>2. Makes(v, cur, w)
        BY <2>1 DEF Makes, Writers
    <2> QED
        BY <1>7, <2>1, <2>2, LoggedIfOk DEF Repeats, AppendCommand, v, w
<1> QED
    BY <1>1, <1>2, <1>3, <1>4, <1>5, <1>6, <1>7

LEMMA CollectionsRepeat ==
    ASSUME WordLists(content),
           \/ ListPopCommand \/ ListPushCommand \/ LSetCommand
           \/ HSetCommand \/ HDelCommand \/ SAddCommand \/ SRemCommand
    PROVE  Repeats
<1> DEFINE v == Values(content)
           w == Values(content)'
           k == cur[2]
           rest == SubSeq(cur, 3, Len(cur))
<1>1. ASSUME NEW left \in BOOLEAN, ListPopCommand,
             IF left THEN Is("lpop") ELSE Is("rpop"), ListPopAux(k, left)
      PROVE  Repeats
    <2>1. /\ cur[1] = IF left THEN "lpop" ELSE "rpop"
          /\ CheckSyntax(cur)
          /\ Puts(v, w, k, Has(v, k, OBJECT_LIST), OBJECT_LIST, Popped(v[k].ptr, left))
          /\ ~(errcode' = kOkCode /\ ret' # <<>>) => w = v
        BY <1>1, PopValues DEF Is
    <2> HIDE DEF v, w
    <2>2. Makes(v, cur, w)
        BY Zenon, <2>1 DEF Makes, Writers
    <2> QED
        BY <1>1, <2>1, <2>2 DEF Repeats, ListPopCommand, AppendWhen, v, w
<1>2. ASSUME NEW left \in BOOLEAN, ListPushCommand,
             IF left THEN Is("lpush") ELSE Is("rpush"), ListPushAux(k, rest, left)
      PROVE  Repeats
    <2> DEFINE old == Old(v, k, <<>>)
    <2>1. /\ cur[1] = IF left THEN "lpush" ELSE "rpush"
          /\ CheckSyntax(cur)
          /\ Puts(v, w, k, IsOrIsNot(v, k, OBJECT_LIST), OBJECT_LIST,
                  IF left THEN Reverse(rest) \o old ELSE old \o rest)
          /\ errcode' # kOkCode => w = v
        BY <1>2, PushValues DEF Is
    <2> HIDE DEF v, w
    <2>2. Makes(v, cur, w)
        BY <2>1 DEF Makes, Writers
    <2> QED
        BY <1>2, <2>1, <2>2, LoggedIfOk DEF Repeats, ListPushCommand, v, w
<1>3. CASE LSetCommand
    <2>1. /\ cur[1] = "lsetindex" /\ CheckSyntax(cur) /\ SetsAt(v, w, k, cur[3], cur[4])
          /\ errcode' # kOkCode => w = v
        BY <1>3, SetAtValues DEF LSetCommand, Is, key
    <2> HIDE DEF v, w
    <2>2. Makes(v, cur, w)
        BY <2>1 DEF Makes, Writers
    <2> QED
        BY <1>3, <2>1, <2>2, LoggedIfOk DEF Repeats, LSetCommand, v, w
<1>4. CASE HSetCommand
    <2>1. HashUpdateKV(k, Fields(cur), FieldValues(cur))
        BY <1>4 DEF HSetCommand, key, Fields, FieldValues
    <2>2. /\ cur[1] = "hset" /\ CheckSyntax(cur)
          /\ Puts(v, w, k, IsOrIsNot(v, k, OBJECT_HASH), OBJECT_HASH,
                  Merged(Old(v, k, [f \in {} |-> <<>>]), Fields(cur), FieldValues(cur)))
          /\ errcode' # kOkCode => w = v
        BY <1>4, <2>1, HashSetValues DEF HSetCommand, Is
    <2> HIDE DEF v, w
    <2>3. Makes(v, cur, w)
        BY <2>2 DEF Makes, Writers
    <2> QED
        BY <1>4, <2>2, <2>3, LoggedIfOk DEF Repeats, HSetCommand, v, w
<1>5. CASE HDelCommand
    <2>1. /\ cur[1] = "hdel" /\ CheckSyntax(cur)
          /\ Puts(v, w, k, Has(v, k, OBJECT_HASH), OBJECT_HASH,
                  [f \in DOMAIN v[k].ptr \ Range(rest) |-> v[k].ptr[f]])
          /\ errcode' = kWrongTypeCode => w = v
        BY Zenon, <1>5, HashDelValues DEF HDelCommand, Is, key, operands
    <2> HIDE DEF v, w
    <2>2. Makes(v, cur, w)
        BY <2>1 DEF Makes, Writers
    <2> QED
        BY <1>5, <2>1, <2>2 DEF Repeats, HDelCommand, AppendWhen, v, w
<1>6. CASE SAddCommand
    <2>1. /\ cur[1] = "sadd" /\ CheckSyntax(cur)
          /\ Puts(v, w, k, IsOrIsNot(v, k, OBJECT_SET), OBJECT_SET, Old(v, k, {}) \cup Range(rest))
          /\ errcode' # kOkCode => w = v
        BY <1>6, SetAddValues DEF SAddCommand, Is, key, operands
    <2> HIDE DEF v, w
    <2>2. Makes(v, cur, w)
        BY <2>1 DEF Makes, Writers
    <2> QED
        BY <1>6, <2>1, <2>2, LoggedIfOk DEF Repeats, SAddCommand, v, w
<1>7. CASE SRemCommand
    <2>1. /\ cur[1] = "srem" /\ CheckSyntax(cur)
          /\ Puts(v, w, k, Has(v, k, OBJECT_SET), OBJECT_SET, v[k].ptr \ Range(rest))
          /\ errcode' = kWrongTypeCode => w = v
        BY <1>7, SetRemoveValues DEF SRemCommand, Is, key, operands
    <2> HIDE DEF v, w
    <2>2. Makes(v, cur, w)
        BY <2>1 DEF Makes, Writers
    <2> QED
        BY <1>7, <2>1, <2>2 DEF Repeats, SRemCommand, AppendWhen, v, w
<1>8. CASE ListPopCommand
    BY Zenon, <1>1, <1>8 DEF ListPopCommand, key
<1>9. CASE ListPushCommand
    BY Zenon, <1>2, <1>9 DEF ListPushCommand, key, operands
<1> QED
    BY <1>3, <1>4, <1>5, <1>6, <1>7, <1>8, <1>9

LEMMA HandlerRepeats ==
    ASSUME WordLists(content), Handler, cur[1] \notin Unrepeatable
    PROVE  Repeats
<1>1. ~ExpireCommand /\ ~ExpireAtCommand /\ ~EvictCommand
    BY Zenon DEF ExpireCommand, ExpireAtCommand, EvictCommand, Is, Unrepeatable
<1> QED
    BY <1>1, ReadersRepeat, NumbersRepeat, CollectionsRepeat DEF Handler

\* No client sets an expiry.
NothingExpires == \A r \in Requests : r[1] \notin {"expire", "expireat"}

\* No client puts the empty string into a list.
NoEmptyElements ==
    \A r \in Requests :
        r[1] \in {"lpush", "rpush", "lsetindex"} => IsList(r) /\ \A i \in 3..Len(r) : r[i] # <<>>

\* What is handled: a request, or the del that an eviction has logged.
Line(cmd) == cmd # <<>> /\ (cmd \in Requests \/ cmd[1] = "del")

LEMMA ReversedWords ==
    ASSUME NEW X, NEW s \in Seq(X)
    PROVE  Reverse(s) \in Seq(X)
<1>1. Len(s) \in Nat /\ \A i \in 1..Len(s) : Len(s) - i + 1 \in 1..Len(s) /\ s[Len(s) - i + 1] \in X
    OBVIOUS
<1>2. Reverse(s) \in [1..Len(s) -> X]
    BY <1>1 DEF Reverse
<1> QED
    BY <1>1, <1>2

LEMMA OperandsAreWords ==
    ASSUME NoEmptyElements, NEW cmd, Line(cmd), CheckSyntax(cmd),
           cmd[1] \in {"lpush", "rpush", "lsetindex"}
    PROVE  /\ SubSeq(cmd, 3, Len(cmd)) \in Seq(Words)
           /\ cmd[1] = "lsetindex" => cmd[4] \in Words
<1>1. cmd \in Requests /\ IsList(cmd) /\ \A i \in 3..Len(cmd) : cmd[i] # <<>>
    BY DEF NoEmptyElements, Line
<1>2. cmd \in Seq(Range(cmd)) /\ Len(cmd) \in Nat /\ \A i \in 1..Len(cmd) : cmd[i] \in Range(cmd)
    BY <1>1 DEF IsList, Range
<1>3. \A i \in 3..Len(cmd) : cmd[i] \in Words
    BY <1>1, <1>2 DEF Words
<1>4. Len(cmd) >= 3 /\ (cmd[1] = "lsetindex" => Len(cmd) = 4)
    BY DEF CheckSyntax, Operands, Operands2
<1> DEFINE rest == SubSeq(cmd, 3, Len(cmd))
<1>5. Len(rest) = Len(cmd) - 2 /\ \A i \in 1..Len(rest) : rest[i] = cmd[i + 2]
    BY <1>2, <1>4
<1>6. rest \in Seq(Range(cmd))
    BY <1>2, <1>4
<1> HIDE DEF rest
<1>7. \A i \in 1..Len(rest) : rest[i] \in Words
    BY <1>2, <1>3, <1>4, <1>5
<1>8. rest \in Seq(Words)
    BY <1>6, <1>7
<1> QED
    BY <1>2, <1>3, <1>4, <1>8 DEF rest

LEMMA WithWords ==
    ASSUME NEW v, WordLists(v), NEW k, NEW type, NEW ptr, type = OBJECT_LIST => ptr \in Seq(Words)
    PROVE  WordLists(With(v, k, Value(type, ptr)))
BY DEF WordLists, With, Value

LEMMA PutsWords ==
    ASSUME NEW v, WordLists(v), NEW w, NEW k, NEW may, NEW type, NEW ptr, Puts(v, w, k, may, type, ptr),
           may /\ type = OBJECT_LIST => ptr \in Seq(Words)
    PROVE  WordLists(w)
BY WithWords DEF Puts

\* No command puts anything else into a list.
LEMMA MakesWords ==
    ASSUME NoEmptyElements, NEW v, WordLists(v), NEW cmd, Line(cmd), NEW w, Makes(v, cmd, w)
    PROVE  WordLists(w)
<1> DEFINE k == cmd[2]
           rest == SubSeq(cmd, 3, Len(cmd))
<1>0. /\ OBJECT_INT # OBJECT_LIST /\ OBJECT_STRING # OBJECT_LIST /\ OBJECT_HASH # OBJECT_LIST
      /\ OBJECT_SET # OBJECT_LIST
    BY DEF OBJECT_INT, OBJECT_STRING, OBJECT_LIST, OBJECT_HASH, OBJECT_SET
<1>1. CASE ~CheckSyntax(cmd) \/ cmd[1] \notin Writers
    BY <1>1 DEF Makes
<1>2. CASE CheckSyntax(cmd) /\ cmd[1] = "del"
    <2>1. w = Less(v, Range(Tail(cmd)))
        BY <1>2 DEF Makes
    <2> QED
        BY <2>1 DEF Less, WordLists
<1>3. CASE CheckSyntax(cmd) /\ cmd[1] = "set"
    <2>1. w = With(v, k, Parsed(cmd[3]))
        BY <1>3 DEF Makes
    <2> QED
        BY <1>0, <2>1, WithWords DEF Parsed
<1>4. ASSUME NEW j, NEW n, Adds(v, w, j, n) \/ Subtracts(v, w, j, n) PROVE WordLists(w)
    BY <1>0, <1>4, WithWords, PutsWords DEF Adds, Subtracts
<1>5. CASE CheckSyntax(cmd) /\ cmd[1] \in {"incr", "decr", "incrby", "decrby"}
    <2>1. w = v \/ \E n : Adds(v, w, k, n) \/ Subtracts(v, w, k, n)
        BY <1>5 DEF Makes
    <2> QED
        BY <1>4, <2>1
<1>6. CASE CheckSyntax(cmd) /\ cmd[1] = "append"
    <2>1. Appends(v, w, k, cmd[3])
        BY <1>6 DEF Makes
    <2> QED
        BY <1>0, <2>1, WithWords, PutsWords DEF Appends
<1>7. ASSUME NEW left \in BOOLEAN, CheckSyntax(cmd), cmd[1] = IF left THEN "lpop" ELSE "rpop"
      PROVE  WordLists(w)
    <2>1. Puts(v, w, k, Has(v, k, OBJECT_LIST), OBJECT_LIST, Popped(v[k].ptr, left))
        BY Zenon, <1>7 DEF Makes
    <2>2. ASSUME NEW s \in Seq(Words) PROVE Popped(s, left) \in Seq(Words)
        <3>1. CASE s = <<>>
            BY <3>1 DEF Popped
        <3>2. CASE s # <<>>
            <4>1. Len(s) >= 1 /\ Len(s) \in Nat
                BY <3>2
            <4>2. Tail(s) \in Seq(Words) /\ SubSeq(s, 1, Len(s) - 1) \in Seq(Words)
                BY <3>2, <4>1
            <4> QED
                BY <3>2, <4>2 DEF Popped, Front
        <3> QED
            BY <3>1, <3>2
    <2>3. Has(v, k, OBJECT_LIST) => v[k].ptr \in Seq(Words)
        BY DEF Has, WordLists
    <2> QED
        BY <2>1, <2>2, <2>3, PutsWords
<1>8. ASSUME NEW left \in BOOLEAN, CheckSyntax(cmd), cmd[1] = IF left THEN "lpush" ELSE "rpush"
      PROVE  WordLists(w)
    <2> DEFINE old == Old(v, k, <<>>)
    <2>1. Puts(v, w, k, IsOrIsNot(v, k, OBJECT_LIST), OBJECT_LIST,
               IF left THEN Reverse(rest) \o old ELSE old \o rest)
        BY <1>8 DEF Makes
    <2>2. rest \in Seq(Words)
        BY <1>8, OperandsAreWords
    <2> HIDE DEF rest
    <2>3. Reverse(rest) \in Seq(Words)
        BY <2>2, ReversedWords
    <2>4. <<>> \in Seq(Words)
        OBVIOUS
    <2>5. IsOrIsNot(v, k, OBJECT_LIST) => old \in Seq(Words)
        BY <2>4 DEF IsOrIsNot, Old, WordLists
    <2> HIDE DEF old
    <2>6. ASSUME old \in Seq(Words) PROVE Reverse(rest) \o old \in Seq(Words) /\ old \o rest \in Seq(Words)
        BY <2>2, <2>3, <2>6
    <2> QED
        BY Zenon, <2>1, <2>5, <2>6, PutsWords
<1>9. CASE CheckSyntax(cmd) /\ cmd[1] = "lsetindex"
    <2>1. SetsAt(v, w, k, cmd[3], cmd[4])
        BY <1>9 DEF Makes
    <2>2. cmd[4] \in Words
        BY <1>9, OperandsAreWords
    <2>3. ASSUME NEW s \in Seq(Words), NEW i \in 0..(Len(s) - 1)
          PROVE  [s EXCEPT ![i + 1] = cmd[4]] \in Seq(Words)
        BY <2>2, <2>3
    <2>4. Has(v, k, OBJECT_LIST) => v[k].ptr \in Seq(Words)
        BY DEF Has, WordLists
    <2> QED
        BY Zenon, <2>1, <2>3, <2>4, PutsWords DEF SetsAt
<1>10. CASE CheckSyntax(cmd) /\ cmd[1] \in {"hset", "hdel", "sadd", "srem"}
    <2>1. \E may, type, ptr : type # OBJECT_LIST /\ Puts(v, w, k, may, type, ptr)
        BY <1>0, <1>10, Zenon DEF Makes
    <2> QED
        BY <2>1, PutsWords
<1> QED
    BY Zenon, <1>1, <1>2, <1>3, <1>5, <1>6, <1>7, <1>8, <1>9, <1>10 DEF Writers

\* The del that an LRU eviction logs makes of the values what the eviction did.
LEMMA LruMakes ==
    ASSUME ContainerInv, NEW num, KeyEviction(TRUE, num)
    PROVE  /\ Makes(Values(content), <<"del">> \o ret', Values(content)')
           /\ Line(<<"del">> \o ret') /\ (<<"del">> \o ret')[1] = "del"
<1> DEFINE line == <<"del">> \o ret'
           v == Values(content)
           w == Values(content)'
<1>1. IsList(ret') /\ Gone = Range(ret')
    BY Zenon, LruAnswers
<1>2. w = Less(v, Range(ret'))
    <2>1. CASE Unchanged
        <3>1. Range(ret') = {} /\ w = v
            BY <1>1, <2>1, UnchangedValues DEF Unchanged, Gone
        <3> QED
            BY <3>1 DEF Less, Values
    <2>2. CASE KeyEvictionLru(num)
        <3>1. PICK keys : Without(keys) /\ Range(ret') = keys
            BY <2>2 DEF KeyEvictionLru, Return
        <3> QED
            BY <3>1, WithoutValues
    <2> QED
        BY <2>1, <2>2 DEF KeyEviction
<1>3. /\ IsList(line) /\ Tail(line) = ret' /\ Range(line) = {"del"} \cup Range(ret')
    BY <1>1, PrependElements
<1>4. ret' \in Seq(Range(ret')) /\ Len(ret') \in Nat
    BY <1>1 DEF IsList
<1>5. line[1] = "del" /\ Len(line) = Len(ret') + 1 /\ line # <<>>
    <2> DEFINE X == Range(ret') \cup {"del"}
    <2>1. ret' \in Seq(X) /\ <<"del">> \in Seq(X)
        BY <1>4
    <2> HIDE DEF X
    <2>2. Len(line) = Len(ret') + 1 /\ line[1] = "del" /\ line \in Seq(X)
        BY <1>4, <2>1
    <2> QED
        BY <1>4, <2>2
<1> HIDE DEF line, v, w
<1>6. CASE Len(ret') = 0
    <2>1. ~CheckSyntax(line)
        BY <1>5, <1>6 DEF CheckSyntax, Keys
    <2>2. Range(ret') = {}
        BY <1>4, <1>6 DEF Range
    <2>3. w = v
        BY <1>2, <2>2 DEF Less, v, Values
    <2> QED
        BY <1>5, <2>1, <2>3 DEF Makes, Line, line, v, w
<1>7. CASE Len(ret') # 0
    <2>1. CheckSyntax(line)
        BY <1>4, <1>5, <1>7
           DEF CheckSyntax, NoKey, Keys, Operands0, Operands1, Operands2, Operands
    <2>2. Makes(v, line, w)
        BY Zenon, <1>2, <1>3, <1>5, <2>1 DEF Makes, Writers
    <2> QED
        BY <1>5, <2>2 DEF Line, line, v, w
<1> QED
    BY <1>6, <1>7

\* h lists the values before the first command of l, and after each of them.
History(h, l) == h[1] = NoValues /\ \A i \in 1..Len(l) : Makes(h[i], l[i], h[i + 1])

\* While serving, the values are the last of the history of the log.  While
\* restoring, those at the shutdown are the last, and the values are the ones
\* where the replay has come to.
At(h) ==
    IF mode = "serve" THEN Values(content) = h[Len(log) + 1]
    ELSE /\ file_len = Len(log) /\ Values(saved.content) = h[Len(log) + 1]
         /\ IF cur = <<>>
            THEN pos \in 1..(Len(log) + 1) /\ Values(content) = h[pos]
            ELSE pos \in 2..(Len(log) + 1) /\ Values(content) = h[pos - 1] /\ cur = log[pos - 1]

CanRepeat(l) == \A i \in 1..Len(l) : Line(l[i]) /\ l[i][1] \notin Unrepeatable

\* As long as the log has not been rewritten: nothing waits to expire, the log
\* can be repeated, and its history leads to the values there are.
ReplayInv ==
    ~rewritten =>
        /\ event_list = <<>>
        /\ WordLists(content)
        /\ cur # <<>> => Line(cur)
        /\ CanRepeat(log)
        /\ \E h : History(h, log) /\ At(h)

\* A logged command continues the history.
LEMMA HistoryGoesOn ==
    ASSUME LogInv, NEW cmd, Line(cmd), cmd[1] \notin Unrepeatable,
           CanRepeat(log),
           NEW h, History(h, log), NEW w, Makes(h[Len(log) + 1], cmd, w),
           NEW l, l = Append(log, cmd)
    PROVE  /\ CanRepeat(l)
           /\ \E g : History(g, l) /\ g[Len(l) + 1] = w
<1> DEFINE n == Len(log)
           g == [i \in 1..(n + 2) |-> IF i = n + 2 THEN w ELSE h[i]]
<1>1. /\ n \in Nat /\ Len(l) = n + 1 /\ l[n + 1] = cmd
      /\ \A i \in 1..n : l[i] = log[i]
    <2> DEFINE X == Range(log) \cup {cmd}
    <2>1. log \in Seq(X) /\ cmd \in X
        BY DEF LogInv, IsList
    <2> HIDE DEF X
    <2> QED
        BY <2>1
<1> HIDE DEF n
<1>2. g[n + 2] = w /\ \A i \in 1..(n + 1) : g[i] = h[i]
    BY <1>1
<1> HIDE DEF g
<1>3. ASSUME NEW i \in 1..Len(l)
      PROVE  /\ Line(l[i]) /\ l[i][1] \notin Unrepeatable
             /\ Makes(g[i], l[i], g[i + 1])
    <2>1. CASE i \in 1..n
        <3>1. Makes(h[i], log[i], h[i + 1]) /\ Line(log[i]) /\ log[i][1] \notin Unrepeatable
            BY <2>1 DEF History, CanRepeat, n
        <3>2. g[i] = h[i] /\ g[i + 1] = h[i + 1]
            BY <1>1, <1>2, <2>1
        <3> QED
            BY <1>1, <2>1, <3>1, <3>2
    <2>2. CASE i = n + 1
        <3>1. g[i] = h[n + 1] /\ g[i + 1] = w
            BY <1>1, <1>2, <2>2
        <3> QED
            BY <1>1, <2>2, <3>1 DEF n
    <2>3. i \in 1..n \/ i = n + 1
        BY <1>1
    <2> QED
        BY Zenon, <2>1, <2>2, <2>3
<1>4. g[1] = NoValues /\ g[Len(l) + 1] = w
    BY <1>1, <1>2 DEF History
<1> QED
    BY <1>3, <1>4 DEF History, CanRepeat

\* So does an eviction.
LEMMA EvictionGoesOn ==
    ASSUME ContainerInv, LogInv, ReplayInv, ~rewritten, NoEmptyElements, mode = "serve",
           NEW num, KeyEviction(TRUE, num), log' = Append(log, <<"del">> \o ret')
    PROVE  /\ WordLists(content)'
           /\ CanRepeat(log')
           /\ \E h : History(h, log') /\ Values(content)' = h[Len(log') + 1]
<1> DEFINE line == <<"del">> \o ret'
<1>1. PICK h : History(h, log) /\ Values(content) = h[Len(log) + 1]
    BY DEF ReplayInv, At
<1>2. Makes(Values(content), line, Values(content)') /\ Line(line) /\ line[1] = "del"
    BY Zenon, LruMakes
<1>3. line[1] \notin Unrepeatable
    BY <1>2 DEF Unrepeatable
<1>4. WordLists(Values(content))
    BY ValuesOf DEF ReplayInv, WordLists
<1>5. WordLists(Values(content)')
    BY <1>2, <1>4, MakesWords
<1>6. WordLists(content)'
    BY Zenon, <1>5, ValuesOf DEF WordLists
<1> HIDE DEF line
<1>7. log' = Append(log, line)
    BY DEF line
<1>8. PICK w : w = Values(content)'
    OBVIOUS
<1>9. PICK l : l = Append(log, line)
    BY Zenon
<1>10. /\ CanRepeat(l)
       /\ \E g : History(g, l) /\ g[Len(l) + 1] = w
    <2>1. CanRepeat(log)
        BY DEF ReplayInv
    <2>2. Makes(h[Len(log) + 1], line, w)
        BY <1>1, <1>2, <1>8
    <2> QED
        BY ZenonT(30), <1>1, <1>2, <1>3, <1>9, <2>1, <2>2, HistoryGoesOn
<1> QED
    BY Zenon, <1>6, <1>7, <1>8, <1>9, <1>10

LEMMA HandlerNoTimers ==
    ASSUME Handler, cur[1] \notin {"expire", "expireat"}
    PROVE  event_list' = event_list
<1>1. ~ExpireCommand /\ ~ExpireAtCommand
    BY DEF ExpireCommand, ExpireAtCommand, Is
<1>2. NoTimers
    BY <1>1, OthersLeaveTimers
<1> QED
    BY <1>2 DEF NoTimers, timers

\* The premises under which a replay is exact.
Repeatable ==
    /\ Lru = TRUE /\ TRUE \notin RestorePressure
    /\ NothingExpires /\ NoEmptyElements

LEMMA ServedHandler ==
    ASSUME Repeatable, ContainerInv, LogInv, ReplayInv, ~rewritten, mode = "serve", Handler
    PROVE  /\ WordLists(content)'
           /\ CanRepeat(log')
           /\ \E h : History(h, log') /\ Values(content)' = h[Len(log') + 1]
<1>1. PICK h : History(h, log) /\ Values(content) = h[Len(log) + 1]
    BY DEF ReplayInv, At
<1>2. WordLists(content) /\ WordLists(Values(content))
    BY ValuesOf DEF ReplayInv, WordLists
<1>3. cur # <<>> /\ Line(cur) /\ cur[1] \notin {"expire", "expireat"}
    <2>1. cur # <<>>
        BY HandlerRuns
    <2> QED
        BY <2>1 DEF ReplayInv, Line, Repeatable, NothingExpires
<1>4. CanRepeat(log)
    BY DEF ReplayInv
<1>5. CASE Values(content)' = Values(content) /\ log' = log
    <2>1. WordLists(content)'
        BY <1>2, <1>5, ValuesOf DEF WordLists
    <2> QED
        BY <1>1, <1>4, <1>5, <2>1
<1>6. CASE cur[1] \notin Unrepeatable
    <2>1. Makes(Values(content), cur, Values(content)')
          /\ ((log' = log /\ Values(content)' = Values(content)) \/ log' = Append(log, cur))
        BY <1>2, <1>6, HandlerRepeats DEF Repeats, sync
    <2>2. PICK w : w = Values(content)'
        OBVIOUS
    <2>3. PICK l : l = Append(log, cur)
        BY Zenon
    <2>4. /\ CanRepeat(l)
          /\ \E g : History(g, l) /\ g[Len(l) + 1] = w
        <3>1. Makes(h[Len(log) + 1], cur, w) /\ Line(cur)
            BY <1>1, <1>3, <2>1, <2>2
        <3> QED
            BY Zenon, <1>1, <1>4, <1>6, <2>3, <3>1, HistoryGoesOn
    <2>5. WordLists(w)
        BY <1>2, <1>3, <2>1, <2>2, MakesWords DEF Repeatable
    <2>6. WordLists(content)'
        BY <2>2, <2>5, ValuesOf DEF WordLists
    <2> QED
        BY Zenon, <1>5, <2>1, <2>2, <2>3, <2>4, <2>6
<1>7. CASE cur[1] = "evict"
    <2>1. EvictCommand \/ (Unchanged /\ log' = log)
        <3>1. CASE IncorrectArguments
            BY <3>1 DEF IncorrectArguments
        <3>2. CASE NotAnInteger
            BY <1>7, <3>2 DEF NotAnInteger, Is
        <3>3. CASE \/ PingCommand \/ OverviewCommand \/ DelCommand \/ ExistsCommand \/ TypeCommand
                   \/ ExpireCommand \/ ExpireAtCommand \/ TTLCommand \/ SetCommand \/ GetCommand
                   \/ IncrCommand \/ DecrCommand \/ IncrByCommand \/ DecrByCommand \/ StrlenCommand
                   \/ AppendCommand \/ LLenCommand \/ ListPopCommand \/ ListPushCommand \/ LSetCommand
                   \/ HSetCommand \/ HGetCommand \/ HDelCommand \/ HGetAllCommand \/ HLenCommand
                   \/ SAddCommand \/ SRemCommand \/ SMembersCommand \/ SCardCommand
            BY Zenon, <1>7, <3>3
               DEF Is, PingCommand, OverviewCommand, DelCommand, ExistsCommand, TypeCommand,
                   ExpireCommand, ExpireAtCommand, TTLCommand, SetCommand, GetCommand, IncrCommand,
                   DecrCommand, IncrByCommand, DecrByCommand, StrlenCommand, AppendCommand,
                   LLenCommand, ListPopCommand, ListPushCommand, LSetCommand, HSetCommand,
                   HGetCommand, HDelCommand, HGetAllCommand, HLenCommand, SAddCommand, SRemCommand,
                   SMembersCommand, SCardCommand
        <3> QED
            BY <3>1, <3>2, <3>3 DEF Handler
    <2>2. CASE Unchanged /\ log' = log
        BY <1>5, <2>2, UnchangedValues
    <2>3. CASE KeyEviction(TRUE, key[1] % U64) /\ log' = Append(log, <<"del">> \o ret')
        BY Zenon, <2>3, EvictionGoesOn DEF Repeatable
    <2> QED
        BY Zenon, <2>1, <2>2, <2>3 DEF EvictCommand, AppendWhen, sync, Repeatable
<1> QED
    BY <1>3, <1>6, <1>7 DEF Unrepeatable

\* A replayed command takes the values from one place in the history to the next.
LEMMA RestoredHandler ==
    ASSUME Repeatable, ReplayInv, ~rewritten, mode # "serve", cur # <<>>, Handler,
           NEW h, History(h, log), At(h)
    PROVE  WordLists(content)' /\ log' = log /\ Values(content)' = h[pos]
<1>1. pos \in 2..(Len(log) + 1) /\ Values(content) = h[pos - 1] /\ cur = log[pos - 1]
    BY DEF At
<1>2. pos - 1 \in 1..Len(log) /\ (pos - 1) + 1 = pos
    BY <1>1
<1>3. Makes(h[pos - 1], cur, h[pos]) /\ Line(cur) /\ cur[1] \notin Unrepeatable
    BY <1>1, <1>2 DEF History, ReplayInv, CanRepeat
<1>4. WordLists(content) /\ WordLists(Values(content))
    BY ValuesOf DEF ReplayInv, WordLists
<1>5. Makes(Values(content), cur, Values(content)') /\ log' = log
    BY <1>3, <1>4, HandlerRepeats DEF Repeats, sync
<1>6. PICK w : w = Values(content)'
    OBVIOUS
<1>7. w = h[pos]
    BY <1>1, <1>3, <1>5, <1>6, MakesOne
<1>8. WordLists(w)
    BY <1>3, <1>4, <1>5, <1>6, MakesWords DEF Repeatable
<1>9. WordLists(content)'
    BY <1>6, <1>8, ValuesOf DEF WordLists
<1> QED
    BY <1>5, <1>6, <1>7, <1>9

LEMMA ReplayStep ==
    ASSUME Repeatable, ContainerInv, LogInv, ReplayInv, [Next]_vars
    PROVE  ReplayInv'
<1> SUFFICES ASSUME ~rewritten'
             PROVE  /\ event_list' = <<>>
                    /\ WordLists(content)'
                    /\ cur' # <<>> => Line(cur')
                    /\ CanRepeat(log')
                    /\ \E h : History(h, log') /\ At(h)'
    BY DEF ReplayInv, CanRepeat, Line, History
<1>1. ~rewritten
    BY Zenon DEF Next, vars, Serve, Handler, FireTimers, TimePasses, Restart, RestoreFromAppendableFile,
           StartServing, session
<1>2. /\ event_list = <<>>
      /\ WordLists(content)
      /\ cur # <<>> => Line(cur)
      /\ CanRepeat(log)
    BY <1>1 DEF ReplayInv
<1>3. PICK h : History(h, log) /\ At(h)
    BY <1>1 DEF ReplayInv
<1>4. CASE Serve
    <2>1. PICK cmd \in Requests : \E pressure : HandleCommand(cmd, pressure)
        BY <1>4 DEF Serve
    <2>2. /\ event_list' = <<>> /\ cur = <<>> /\ cur' = cmd /\ mode = "serve" /\ mode' = "serve"
        BY <1>2, <1>4, <2>1 DEF Serve, HandleCommand, NoTimers, timers, session
    <2>3. cur' # <<>> => Line(cur')
        BY <2>2 DEF Line
    <2>4. CASE UNCHANGED <<container, log>>
        <3>1. content' = content /\ log' = log
            BY <2>4 DEF container
        <3> QED
            BY <1>2, <1>3, <2>2, <2>3, <3>1 DEF At
    <2>5. CASE Evict
        <3>1. /\ WordLists(content)'
              /\ CanRepeat(log')
              /\ \E g : History(g, log') /\ Values(content)' = g[Len(log') + 1]
            BY Zenon, <1>1, <2>2, <2>5, EvictionGoesOn DEF Evict, Repeatable
        <3> QED
            BY <2>2, <2>3, <3>1 DEF At
    <2> QED
        BY Zenon, <2>1, <2>4, <2>5 DEF HandleCommand
<1>5. CASE Handler
    <2>1. cur' = <<>> /\ UNCHANGED <<mode, pos, file_len, saved>>
        BY <1>5 DEF Handler, session
    <2>2. cur # <<>>
        BY <1>5, HandlerRuns
    <2>3. event_list' = <<>>
        <3>1. CASE mode = "serve"
            <4>1. cur[1] \notin {"expire", "expireat"}
                BY <1>2, <2>2 DEF Line, Repeatable, NothingExpires
            <4> QED
                BY <1>2, <1>5, <4>1, HandlerNoTimers
        <3>2. CASE mode # "serve"
            <4>1. pos - 1 \in 1..Len(log) /\ cur = log[pos - 1]
                BY <1>3, <2>2, <3>2 DEF At
            <4>2. cur[1] \notin {"expire", "expireat"}
                BY <1>2, <4>1 DEF CanRepeat, Unrepeatable
            <4> QED
                BY <1>2, <1>5, <4>2, HandlerNoTimers
        <3> QED
            BY <3>1, <3>2
    <2>4. CASE mode = "serve"
        <3>1. /\ WordLists(content)'
              /\ CanRepeat(log')
              /\ \E g : History(g, log') /\ Values(content)' = g[Len(log') + 1]
            BY <1>1, <1>5, <2>4, ServedHandler
        <3> QED
            BY <2>1, <2>3, <2>4, <3>1 DEF At
    <2>5. CASE mode # "serve"
        <3>1. WordLists(content)' /\ log' = log /\ Values(content)' = h[pos]
            BY SMTT(20), <1>1, <1>3, <1>5, <2>2, <2>5, RestoredHandler
        <3>2. /\ file_len = Len(log) /\ Values(saved.content) = h[Len(log) + 1]
              /\ pos \in 2..(Len(log) + 1)
            BY <1>3, <2>2, <2>5 DEF At
        <3>3. pos \in 1..(Len(log) + 1)
            BY <3>2
        <3>4. At(h)'
            BY <2>1, <2>5, <3>1, <3>2, <3>3 DEF At
        <3> QED
            BY <1>2, <1>3, <2>1, <2>3, <3>1, <3>4
    <2> QED
        BY <2>4, <2>5
<1>6. CASE FireTimers
    BY <1>2, <1>6 DEF FireTimers, Fired, Range
<1>7. CASE RestoreFromAppendableFile
    <2>1. /\ cur = <<>> /\ cur' = log[pos] /\ content' = content /\ log' = log
          /\ event_list' = <<>> /\ pos <= Len(log) /\ pos' = pos + 1 /\ mode = "restore"
          /\ UNCHANGED <<mode, file_len, saved>>
        BY Zenon, <1>2, <1>7
           DEF RestoreFromAppendableFile, HandleCommand, Repeatable, container, NoTimers, timers
    <2>2. /\ file_len = Len(log) /\ Values(saved.content) = h[Len(log) + 1]
          /\ pos \in 1..(Len(log) + 1) /\ Values(content) = h[pos]
        BY <1>3, <2>1 DEF At
    <2>3. /\ pos \in 1..Len(log) /\ pos' \in 2..(Len(log) + 1) /\ pos' - 1 = pos
        <3>1. Len(log) \in Nat
            BY DEF LogInv, IsList
        <3> QED
            BY <2>1, <2>2, <3>1
    <2>4. Line(cur') /\ cur' # <<>>
        BY <1>2, <2>1, <2>3 DEF CanRepeat, Line
    <2>5. At(h)'
        BY <2>1, <2>2, <2>3, <2>4 DEF At
    <2> QED
        BY <1>2, <1>3, <2>1, <2>4, <2>5
<1>8. CASE Restart
    <2>1. /\ cur = <<>> /\ cur' = <<>> /\ log' = log /\ event_list' = <<>>
          /\ content' = [k \in {} |-> 0] /\ saved' = [content |-> content, expiring |-> DOMAIN sExpiresMap]
          /\ mode = "serve" /\ mode' = "restore" /\ pos' = 1 /\ file_len' = Len(log)
        BY Zenon, <1>1, <1>8 DEF Restart
    <2>2. saved'.content = content /\ Values(content) = h[Len(log) + 1]
        BY <1>3, <2>1 DEF At
    <2>3. Values(content') = NoValues /\ h[1] = NoValues
        BY <1>3, <2>1 DEF Values, NoValues, History
    <2>4. Len(log) \in Nat
        BY DEF LogInv, IsList
    <2>5. 1 \in 1..(Len(log) + 1)
        BY <2>4
    <2>6. At(h)'
        BY <2>1, <2>2, <2>3, <2>5 DEF At
    <2>7. WordLists(content)'
        BY <2>1 DEF WordLists
    <2> QED
        BY <1>2, <1>3, <2>1, <2>6, <2>7
<1>9. CASE StartServing
    <2>1. /\ mode = "restore" /\ pos > file_len /\ cur = <<>> /\ mode' = "serve"
          /\ content' = content /\ log' = log /\ cur' = cur /\ event_list' = event_list
        BY <1>9 DEF StartServing, Restored, container, timers
    <2>2. /\ file_len = Len(log) /\ pos \in 1..(Len(log) + 1) /\ Values(content) = h[pos]
        BY <1>3, <2>1 DEF At
    <2>3. pos = Len(log) + 1
        <3>1. Len(log) \in Nat
            BY DEF LogInv, IsList
        <3> QED
            BY <2>1, <2>2, <3>1
    <2>4. At(h)'
        BY <2>1, <2>2, <2>3 DEF At
    <2> QED
        BY <1>2, <1>3, <2>1, <2>4
<1>10. CASE TimePasses \/ UNCHANGED vars
    <2>1. UNCHANGED <<content, log, cur, event_list, mode, pos, file_len, saved>>
        BY <1>10 DEF TimePasses, vars, container, timers, session
    <2>2. At(h)'
        BY <1>3, <2>1 DEF At
    <2> QED
        BY SMTT(20), <1>2, <1>3, <2>1, <2>2
<1> QED
    BY <1>4, <1>5, <1>6, <1>7, <1>8, <1>9, <1>10 DEF Next

LEMMA ReplayInitially == Init => ReplayInv
<1> SUFFICES ASSUME Init PROVE ReplayInv
    OBVIOUS
<1>1. /\ content = [k \in {} |-> 0] /\ event_list = <<>> /\ cur = <<>> /\ log = <<>>
      /\ mode = "serve"
    BY DEF Init, ContainerInit, TimersInit
<1>2. Len(log) = 0
    BY <1>1
<1>3. Values(content) = NoValues
    BY <1>1 DEF Values, NoValues
<1> DEFINE h == [i \in {1} |-> NoValues]
<1>4. History(h, log) /\ At(h)
    BY <1>1, <1>2, <1>3 DEF History, At
<1>5. WordLists(content)
    BY <1>1 DEF WordLists
<1>6. \E g : History(g, log) /\ At(g)
    BY <1>4
<1> QED
    BY <1>1, <1>2, <1>5, <1>6 DEF ReplayInv, CanRepeat

\* The same keys and values, without an exception.
RestoreIsExact ==
    Restored /\ ~rewritten =>
        /\ DOMAIN content = DOMAIN saved.content
        /\ \A k \in DOMAIN content : SameValue(content[k], saved.content[k])

\* Under the LRU policy, with memory below its limit while the file is replayed,
\* with no expiry set and no empty string put into a list, a restart brings back
\* exactly the keys and values there were: for any other commands of any clients,
\* with failures, wrong types and overflows, evictions logged in between, and any
\* number of restarts on the same log.
THEOREM ReplayIsExact == Repeatable => (Spec => [](RestoreBringsBack /\ RestoreIsExact))
<1> SUFFICES ASSUME Repeatable PROVE Spec => [](RestoreBringsBack /\ RestoreIsExact)
    OBVIOUS
<1>1. Spec => []LogInv
    <2>1. Init => LogInv
        BY DEF Init, LogInv, IsList, Range
    <2> QED
        BY <2>1, LogStep, PTL DEF Spec
<1>2. Spec => []ReplayInv
    BY <1>1, ContainerAlways, ReplayInitially, ReplayStep, PTL DEF Spec
<1>3. LogInv /\ ReplayInv => RestoreIsExact
    <2> SUFFICES ASSUME LogInv, ReplayInv, Restored, ~rewritten
                 PROVE  /\ DOMAIN content = DOMAIN saved.content
                        /\ \A k \in DOMAIN content : SameValue(content[k], saved.content[k])
        BY DEF RestoreIsExact
    <2>1. PICK h : History(h, log) /\ At(h)
        BY DEF ReplayInv
    <2>2. /\ file_len = Len(log) /\ Values(saved.content) = h[Len(log) + 1]
          /\ pos \in 1..(Len(log) + 1) /\ Values(content) = h[pos] /\ pos > file_len
        BY <2>1 DEF At, Restored
    <2>3. Len(log) \in Nat
        BY DEF LogInv, IsList
    <2>4. Values(content) = Values(saved.content)
        BY <2>2, <2>3
    <2> QED
        BY <2>4, ValuesOf DEF SameValue
<1>4. ReplayInv /\ RestoreIsExact => RestoreBringsBack
    <2> SUFFICES ASSUME ReplayInv, RestoreIsExact, Restored, ~rewritten
                 PROVE  RestoreBringsBack
        BY DEF RestoreBringsBack
    <2>1. Fired = {}
        BY DEF ReplayInv, Fired, Range
    <2>2. DOMAIN content \ {ev.callback : ev \in Fired} = DOMAIN content
        BY <2>1
    <2> QED
        BY <2>2 DEF RestoreIsExact, RestoreBringsBack
<1> QED
    BY <1>1, <1>2, <1>3, <1>4, PTL
=============================================================================
