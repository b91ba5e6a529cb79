---------------------------- MODULE EngineProofs ----------------------------
(***************************************************************************)
(* What holds of the engine for every set of requests, every eviction      *)
(* policy and batch, any number of keys, commands and restarts.            *)
(***************************************************************************)
EXTENDS Engine, ListLemmas

-----------------------------------------------------------------------------
(* The keys pool *)

Int64s == INT64_MIN..INT64_MAX

\* An object that a handler may store: an integer fits its 64 bits.
Fits(obj) == obj.type = OBJECT_INT => obj.ptr \in Int64s

\* The pool is a vector of the stored keys, each once, and the integers fit.
ContainerInv ==
    /\ IsList(keys_pool)
    /\ PoolMatchesContent
    /\ \A k \in DOMAIN content : Fits(content[k])

\* Creating a key appends it to the pool, replacing its value does not.
LEMMA StoreKeeps ==
    ASSUME ContainerInv, NEW k, NEW obj, Fits(obj), Store(k, obj)
    PROVE  ContainerInv'
<1>1. DOMAIN content' = DOMAIN content \cup {k}
    BY DEF Store
<1>2. \A j \in DOMAIN content' : Fits(content'[j])
    <2> SUFFICES ASSUME NEW j \in DOMAIN content' PROVE Fits(content'[j])
        OBVIOUS
    <2>1. content'[j] = IF j = k THEN obj ELSE content[j]
        BY DEF Store
    <2>2. CASE j = k
        BY <2>1, <2>2
    <2>3. CASE j # k
        BY <1>1, <2>1, <2>3 DEF ContainerInv
    <2> QED
        BY <2>2, <2>3
<1>3. IsList(keys_pool') /\ PoolMatchesContent'
    <2>1. CASE Exists(k)
        <3>1. keys_pool' = keys_pool /\ DOMAIN content' = DOMAIN content
            BY <1>1, <2>1 DEF Store, Exists
        <3> QED
            BY <3>1 DEF ContainerInv, PoolMatchesContent
    <2>2. CASE ~Exists(k)
        <3>1. keys_pool' = Append(keys_pool, k) /\ k \notin Range(keys_pool)
            BY <2>2 DEF Store, Exists, ContainerInv, PoolMatchesContent
        <3> QED
            BY <1>1, <3>1, AppendElements DEF ContainerInv, PoolMatchesContent
    <2> QED
        BY <2>1, <2>2
<1> QED
    BY <1>2, <1>3 DEF ContainerInv, Fits, Int64s, INT64_MIN

\* Deleting keys takes them from the pool.
LEMMA WithoutKeeps ==
    ASSUME ContainerInv, NEW keys, Without(keys)
    PROVE  ContainerInv'
<1>1. DOMAIN content' = DOMAIN content \ keys /\ \A j \in DOMAIN content' : content'[j] = content[j]
    BY DEF Without
<1>2. /\ IsList(keys_pool') /\ Range(keys_pool') = Range(keys_pool) \ keys
      /\ IsInjective(keys_pool) => IsInjective(keys_pool')
    BY EraseElements DEF Without, ContainerInv
<1>3. \A j \in DOMAIN content' : Fits(content'[j])
    BY <1>1 DEF ContainerInv
<1> QED
    BY <1>1, <1>2, <1>3 DEF ContainerInv, PoolMatchesContent, Fits, Int64s, INT64_MIN

\* So does a visit, which changes only the time of it.
LEMMA VisitKeeps ==
    ASSUME ContainerInv, NEW k, Exists(k), UpdateLastVisitTime(k), UNCHANGED keys_pool
    PROVE  ContainerInv'
<1>1. DOMAIN content' = DOMAIN content
    BY DEF UpdateLastVisitTime
<1>2. ASSUME NEW j \in DOMAIN content PROVE Fits(content'[j])
    <2>1. content'[j].type = content[j].type /\ content'[j].ptr = content[j].ptr
        BY DEF UpdateLastVisitTime
    <2>2. Fits(content[j])
        BY DEF ContainerInv
    <2> QED
        BY <2>1, <2>2 DEF Fits
<1> QED
    BY <1>1, <1>2 DEF ContainerInv, PoolMatchesContent, Fits, Int64s, INT64_MIN

LEMMA UnchangedKeeps ==
    ASSUME ContainerInv, Unchanged
    PROVE  ContainerInv'
BY DEF ContainerInv, Unchanged, PoolMatchesContent, Fits, Int64s, INT64_MIN

\* A result in the 64-bit range is stored as it is.
LEMMA Int64Identity ==
    ASSUME NEW n \in Int64s
    PROVE  Int64(n) = n
<1> DEFINE m == 2 * (INT64_MAX + 1)
           x == n - INT64_MIN
<1>1. m \in Nat /\ m > 0 /\ x \in Nat /\ x < m
    BY ContainerAssumption DEF Int64s, INT64_MIN
<1> HIDE DEF m, x
<1>2. x % m = x
    BY <1>1
<1>3. Int64(n) = (x % m) + INT64_MIN
    BY DEF Int64, m, x
<1> QED
    BY <1>2, <1>3, ContainerAssumption DEF x, Int64s, INT64_MIN

\* Only an integer has to fit.
LEMMA OtherTypesFit ==
    ASSUME NEW type, type # OBJECT_INT, NEW ptr
    PROVE  Fits(ValueObject(type, ptr))
BY DEF Fits, ValueObject

LEMMA IntegersFit ==
    ASSUME NEW n \in Int64s
    PROVE  Fits(ValueObject(OBJECT_INT, n))
BY DEF Fits, ValueObject

\* An integer that fits is stored and read back.
LEMMA StoreIntKeeps ==
    ASSUME ContainerInv, NEW k, NEW n \in Int64s, Store(k, ValueObject(OBJECT_INT, n))
    PROVE  ContainerInv' /\ content'[k].ptr = n
<1>1. ContainerInv'
    BY StoreKeeps, IntegersFit
<1>2. content'[k] = ValueObject(OBJECT_INT, n)
    BY DEF Store
<1> QED
    BY <1>1, <1>2 DEF ValueObject

\* incr and incrby keep the integers in range, and never make one smaller.
LEMMA IncrKeeps ==
    ASSUME ContainerInv, NEW k, NEW n \in Int64s, n >= 0, IncrIntBy(k, n)
    PROVE  /\ ContainerInv'
           /\ Typed(k, {OBJECT_INT}) => content[k].ptr <= content'[k].ptr
<1>1. CASE ~Exists(k)
    <2>1. Store(k, ValueObject(OBJECT_INT, n)) /\ Fits(ValueObject(OBJECT_INT, n))
        BY <1>1, IntegersFit DEF IncrIntBy, WrongType, Typed
    <2> QED
        BY <1>1, <2>1, StoreKeeps DEF Typed
<1>2. CASE WrongType(k, {OBJECT_INT}, 0)
    BY <1>2, UnchangedKeeps DEF WrongType, Typed
<1>3. CASE Typed(k, {OBJECT_INT})
    <2> DEFINE val == content[k].ptr
    <2>1. val \in Int64s /\ val \in Int /\ n \in Int
        BY <1>3 DEF Typed, Exists, ContainerInv, Fits, Int64s
    <2>2. AddInt(k, val, Int64(val + n), val <= INT64_MAX - n)
        BY <1>3 DEF IncrIntBy, Typed, WrongType
    <2> HIDE DEF val
    <2>3. val <= INT64_MAX - n => val + n \in Int64s
        BY <2>1, ContainerAssumption DEF Int64s, INT64_MIN
    <2>4. CASE val <= INT64_MAX - n
        <3>1. Int64(val + n) = val + n /\ val + n \in Int64s
            BY <2>3, <2>4, Int64Identity
        <3>2. Store(k, ValueObject(OBJECT_INT, val + n))
            BY <2>2, <2>4, <3>1 DEF AddInt
        <3>3. ContainerInv' /\ content'[k].ptr = val + n
            BY <3>1, <3>2, StoreIntKeeps
        <3> QED
            BY <2>1, <3>3 DEF val
    <2>5. CASE ~(val <= INT64_MAX - n)
        <3>1. Store(k, ValueObject(OBJECT_INT, val))
            BY <2>2, <2>5 DEF AddInt
        <3>2. ContainerInv' /\ content'[k].ptr = val
            BY <2>1, <3>1, StoreIntKeeps
        <3> QED
            BY <2>1, <3>2 DEF val
    <2> QED
        BY <2>4, <2>5
<1> QED
    BY <1>1, <1>2, <1>3 DEF IncrIntBy

\* decr and decrby keep the integers in range, and never make one larger.
LEMMA DecrKeeps ==
    ASSUME ContainerInv, NEW k, NEW n \in Int64s, n >= 0, DecrIntBy(k, n)
    PROVE  /\ ContainerInv'
           /\ Typed(k, {OBJECT_INT}) => content[k].ptr >= content'[k].ptr
<1>1. CASE ~Exists(k)
    <2>1. -n \in Int64s
        BY ContainerAssumption DEF Int64s, INT64_MIN
    <2>2. Store(k, ValueObject(OBJECT_INT, -n)) /\ Fits(ValueObject(OBJECT_INT, -n))
        BY <1>1, <2>1, IntegersFit DEF DecrIntBy, WrongType, Typed
    <2> QED
        BY <1>1, <2>2, StoreKeeps DEF Typed
<1>2. CASE WrongType(k, {OBJECT_INT}, 0)
    BY <1>2, UnchangedKeeps DEF WrongType, Typed
<1>3. CASE Typed(k, {OBJECT_INT})
    <2> DEFINE val == content[k].ptr
    <2>1. val \in Int64s /\ val \in Int /\ n \in Int
        BY <1>3 DEF Typed, Exists, ContainerInv, Fits, Int64s
    <2>2. AddInt(k, val, Int64(val - n), val >= INT64_MIN + n)
        BY <1>3 DEF DecrIntBy, Typed, WrongType
    <2> HIDE DEF val
    <2>3. val >= INT64_MIN + n => val - n \in Int64s
        BY <2>1, ContainerAssumption DEF Int64s, INT64_MIN
    <2>4. CASE val >= INT64_MIN + n
        <3>1. Int64(val - n) = val - n /\ val - n \in Int64s
            BY <2>3, <2>4, Int64Identity
        <3>2. Store(k, ValueObject(OBJECT_INT, val - n))
            BY <2>2, <2>4, <3>1 DEF AddInt
        <3>3. ContainerInv' /\ content'[k].ptr = val - n
            BY <3>1, <3>2, StoreIntKeeps
        <3> QED
            BY <2>1, <3>3 DEF val
    <2>5. CASE ~(val >= INT64_MIN + n)
        <3>1. Store(k, ValueObject(OBJECT_INT, val))
            BY <2>2, <2>5 DEF AddInt
        <3>2. ContainerInv' /\ content'[k].ptr = val
            BY <2>1, <3>1, StoreIntKeeps
        <3> QED
            BY <2>1, <3>2 DEF val
    <2> QED
        BY <2>4, <2>5
<1> QED
    BY <1>1, <1>2, <1>3 DEF DecrIntBy

\* Strings, lists, hashes and sets are stored as they are.
LEMMA StoreOtherKeeps ==
    ASSUME ContainerInv, NEW k, NEW type \in {OBJECT_STRING, OBJECT_LIST, OBJECT_HASH, OBJECT_SET},
           NEW ptr, Store(k, ValueObject(type, ptr))
    PROVE  ContainerInv'
<1>1. type # OBJECT_INT
    BY DEF OBJECT_STRING, OBJECT_LIST, OBJECT_HASH, OBJECT_SET, OBJECT_INT
<1> QED
    BY <1>1, StoreKeeps, OtherTypesFit

\* Both policies delete the keys they have drawn.
LEMMA EvictionKeeps ==
    ASSUME ContainerInv, NEW lru, NEW num, KeyEviction(lru, num)
    PROVE  ContainerInv'
<1>1. CASE keys_pool = <<>> /\ Return(kOkCode, <<>>) /\ Unchanged
    BY <1>1, UnchangedKeeps
<1>2. CASE KeyEvictionLru(num)
    BY <1>2, WithoutKeeps DEF KeyEvictionLru
<1>3. CASE KeyEvictionRandom(num)
    BY <1>3, WithoutKeeps DEF KeyEvictionRandom
<1> QED
    BY <1>1, <1>2, <1>3 DEF KeyEviction

\* Readers visit a key or leave everything alone.
LEMMA ReadersKeep ==
    ASSUME ContainerInv, NEW k, NEW f,
           \/ Get(k) \/ StrLen(k) \/ ListLen(k)
           \/ HashGetValue(k, f) \/ HashGetAllEntries(k) \/ HashLen(k)
           \/ SetGetMembers(k) \/ SetGetMemberCount(k)
    PROVE  ContainerInv'
<1> USE DEF NotFound, WrongType, Typed
<1>1. CASE Get(k)
    BY <1>1, UnchangedKeeps, VisitKeeps DEF Get, Read
<1>2. CASE StrLen(k)
    BY Zenon, <1>2, UnchangedKeeps, VisitKeeps DEF StrLen
<1>3. CASE ListLen(k)
    BY <1>3, UnchangedKeeps, VisitKeeps DEF ListLen, Read
<1>4. CASE HashGetValue(k, f)
    BY <1>4, UnchangedKeeps, VisitKeeps DEF HashGetValue
<1>5. CASE HashGetAllEntries(k)
    BY <1>5, UnchangedKeeps, VisitKeeps DEF HashGetAllEntries, Read
<1>6. CASE HashLen(k)
    BY <1>6, UnchangedKeeps, VisitKeeps DEF HashLen, Read
<1>7. CASE SetGetMembers(k)
    BY <1>7, UnchangedKeeps, VisitKeeps DEF SetGetMembers, Read
<1>8. CASE SetGetMemberCount(k)
    BY <1>8, UnchangedKeeps, VisitKeeps DEF SetGetMemberCount, Read
<1> QED
    BY <1>1, <1>2, <1>3, <1>4, <1>5, <1>6, <1>7, <1>8

\* Writers of strings and collections store one object or leave everything alone.
LEMMA WritersKeep ==
    ASSUME ContainerInv, NEW k, NEW x, NEW y,
           \/ SetString(k, x) \/ AppendString(k, x)
           \/ ListPushAux(k, x, TRUE) \/ ListPushAux(k, x, FALSE)
           \/ ListPopAux(k, TRUE) \/ ListPopAux(k, FALSE) \/ ListSetItemAtIndex(k, x, y)
           \/ HashUpdateKV(k, x, y) \/ HashDelField(k, x)
           \/ SetAddItem(k, x) \/ SetRemoveMembers(k, x)
    PROVE  ContainerInv'
<1> USE DEF NotFound, WrongType
<1>1. CASE SetString(k, x)
    BY <1>1, StoreOtherKeeps DEF SetString
<1>2. CASE AppendString(k, x)
    BY Zenon, <1>2, UnchangedKeeps, StoreOtherKeeps DEF AppendString
<1>3. CASE ListPushAux(k, x, TRUE) \/ ListPushAux(k, x, FALSE)
    BY <1>3, UnchangedKeeps, StoreOtherKeeps DEF ListPushAux
<1>4. CASE ListPopAux(k, TRUE) \/ ListPopAux(k, FALSE)
    BY <1>4, UnchangedKeeps, StoreOtherKeeps DEF ListPopAux
<1>5. CASE ListSetItemAtIndex(k, x, y)
    BY Zenon, <1>5, UnchangedKeeps, StoreOtherKeeps DEF ListSetItemAtIndex
<1>6. CASE HashUpdateKV(k, x, y)
    BY <1>6, UnchangedKeeps, StoreOtherKeeps DEF HashUpdateKV
<1>7. CASE HashDelField(k, x)
    BY <1>7, UnchangedKeeps, StoreOtherKeeps DEF HashDelField
<1>8. CASE SetAddItem(k, x)
    BY <1>8, UnchangedKeeps, StoreOtherKeeps DEF SetAddItem
<1>9. CASE SetRemoveMembers(k, x)
    BY <1>9, UnchangedKeeps, StoreOtherKeeps DEF SetRemoveMembers
<1> QED
    BY Zenon, <1>1, <1>2, <1>3, <1>4, <1>5, <1>6, <1>7, <1>8, <1>9

\* A number that CanConvertToInt64 accepts is in range.
LEMMA ConvertedFits ==
    ASSUME NEW s, CanConvertToInt64(s)
    PROVE  s[1] \in Int64s /\ s[1] \in Int
BY ContainerAssumption DEF CanConvertToInt64, Int64s, INT64_MIN

LEMMA OneFits == 1 \in Int64s
BY ContainerAssumption DEF Int64s, INT64_MIN

\* Every command leaves the pool and the integers right.
LEMMA HandlerKeepsContainer ==
    ASSUME ContainerInv, Handler
    PROVE  ContainerInv'
<1>1. CASE \/ IncorrectArguments \/ NotAnInteger \/ PingCommand \/ OverviewCommand
           \/ ExistsCommand \/ TypeCommand \/ TTLCommand
    BY Zenon, <1>1, UnchangedKeeps
       DEF IncorrectArguments, NotAnInteger, PingCommand, OverviewCommand, Overview,
           ExistsCommand, KeyExists, TypeCommand, TTLCommand
<1>2. CASE EvictCommand
    BY Zenon, <1>2, UnchangedKeeps, EvictionKeeps DEF EvictCommand
<1>3. CASE DelCommand
    BY <1>3, WithoutKeeps DEF DelCommand, Delete
<1>4. ASSUME NEW interval, Expire(interval) PROVE ContainerInv'
    <2>1. Unchanged \/ FirstExpire(interval) \/ NextExpire(interval)
        BY Zenon, <1>4 DEF Expire
    <2> QED
        BY <2>1, UnchangedKeeps, WithoutKeeps DEF FirstExpire, NextExpire
<1>5. CASE ExpireCommand \/ ExpireAtCommand
    BY <1>4, <1>5 DEF ExpireCommand, ExpireAtCommand
<1>6. CASE SetCommand
    BY Zenon, <1>6, ConvertedFits, StoreIntKeeps, WritersKeep DEF SetCommand, SetInt
<1>7. CASE IncrCommand \/ DecrCommand
    BY <1>7, OneFits, IncrKeeps, DecrKeeps DEF IncrCommand, DecrCommand
<1>8. CASE IncrByCommand
    <2>1. CASE cur[3][1] < 0
        BY <1>8, <2>1, UnchangedKeeps, ConvertedFits DEF IncrByCommand, Operand
    <2>2. CASE cur[3][1] >= 0
        BY <1>8, <2>2, ConvertedFits, IncrKeeps, UnchangedKeeps DEF IncrByCommand, Operand
    <2> QED
        BY <1>8, <2>1, <2>2, ConvertedFits DEF IncrByCommand
<1>9. CASE DecrByCommand
    <2>1. CASE cur[3][1] < 0
        BY <1>9, <2>1, UnchangedKeeps, ConvertedFits DEF DecrByCommand, Operand
    <2>2. CASE cur[3][1] >= 0
        BY <1>9, <2>2, ConvertedFits, DecrKeeps, UnchangedKeeps DEF DecrByCommand, Operand
    <2> QED
        BY <1>9, <2>1, <2>2, ConvertedFits DEF DecrByCommand
<1>10. CASE \/ GetCommand \/ StrlenCommand \/ LLenCommand \/ HGetCommand \/ HGetAllCommand
            \/ HLenCommand \/ SMembersCommand \/ SCardCommand
    BY <1>10, ReadersKeep
       DEF GetCommand, StrlenCommand, LLenCommand, HGetCommand, HGetAllCommand, HLenCommand,
           SMembersCommand, SCardCommand
<1>11. CASE \/ AppendCommand \/ ListPopCommand \/ ListPushCommand \/ LSetCommand
            \/ HSetCommand \/ HDelCommand \/ SAddCommand \/ SRemCommand
    BY Zenon, <1>11, WritersKeep
       DEF AppendCommand, ListPopCommand, ListPushCommand, LSetCommand, HSetCommand, HDelCommand,
           SAddCommand, SRemCommand
<1> QED
    BY <1>1, <1>2, <1>3, <1>5, <1>6, <1>7, <1>8, <1>9, <1>10, <1>11 DEF Handler

\* So does every step.
LEMMA ContainerStep ==
    ASSUME ContainerInv, [Next]_vars
    PROVE  ContainerInv'
<1>1. ASSUME NEW cmd, NEW pressure, HandleCommand(cmd, pressure) PROVE ContainerInv'
    BY Zenon, <1>1, EvictionKeeps, UnchangedKeeps DEF HandleCommand, Evict, Unchanged, container
<1>2. CASE Serve \/ RestoreFromAppendableFile
    BY <1>1, <1>2 DEF Serve, RestoreFromAppendableFile
<1>3. CASE Handler
    BY <1>3, HandlerKeepsContainer
<1>4. CASE FireTimers
    BY <1>4, WithoutKeeps DEF FireTimers
<1>5. CASE Restart
    <2>1. DOMAIN content' = {} /\ keys_pool' = <<>>
        BY <1>5 DEF Restart
    <2> QED
        BY <2>1 DEF ContainerInv, PoolMatchesContent, IsList, Range, IsInjective
<1>6. CASE TimePasses \/ StartServing \/ UNCHANGED vars
    BY <1>6, UnchangedKeeps DEF TimePasses, StartServing, vars, container, Unchanged
<1> QED
    BY <1>2, <1>3, <1>4, <1>5, <1>6 DEF Next

LEMMA ContainerInitially == Init => ContainerInv
<1> SUFFICES ASSUME Init PROVE ContainerInv
    OBVIOUS
<1>1. DOMAIN content = {} /\ keys_pool = <<>>
    BY DEF Init, ContainerInit
<1> QED
    BY <1>1 DEF ContainerInv, PoolMatchesContent, IsList, Range, IsInjective

LEMMA ContainerAlways == Spec => []ContainerInv
BY ContainerInitially, ContainerStep, PTL DEF Spec

\* keys_pool_ lists every stored key exactly once, through every command,
\* expiry, eviction by either policy, restart and replay.
THEOREM PoolHasEveryKeyOnce == Spec => []PoolMatchesContent
<1>1. ContainerInv => PoolMatchesContent
    BY DEF ContainerInv
<1> QED
    BY <1>1, ContainerAlways, PTL

\* What IntegersNeverWrap says of one step.
IntegersStep ==
    /\ IntegerStep({"incr", "incrby"}, LAMBDA old, new : old <= new)
    /\ IntegerStep({"decr", "decrby"}, LAMBDA old, new : old >= new)

\* A command whose operation is one of the four, and the handler that runs it.
LEMMA IntegerHandlers ==
    ASSUME ContainerInv, Handler, cur # <<>>, Typed(cur[2], {OBJECT_INT})
    PROVE  /\ cur[1] \in {"incr", "incrby"} => content[cur[2]].ptr <= content'[cur[2]].ptr
           /\ cur[1] \in {"decr", "decrby"} => content[cur[2]].ptr >= content'[cur[2]].ptr
<1>1. content[cur[2]].ptr \in Int
    BY ContainerAssumption DEF ContainerInv, Typed, Exists, Fits, Int64s, INT64_MIN
<1>2. CASE Unchanged
    BY <1>1, <1>2 DEF Unchanged
<1>3. CASE IncrCommand
    <2>1. cur[1] = "incr" /\ IncrIntBy(cur[2], 1)
        BY <1>3 DEF IncrCommand, Is, key
    <2>2. ASSUME NEW n \in Int64s, n >= 0, IncrIntBy(cur[2], n)
          PROVE  content[cur[2]].ptr <= content'[cur[2]].ptr
        BY Zenon, <2>2, IncrKeeps
    <2>3. content[cur[2]].ptr <= content'[cur[2]].ptr
        BY <2>1, <2>2, OneFits
    <2> QED
        BY <2>1, <2>3
<1>4. CASE DecrCommand
    <2>1. cur[1] = "decr" /\ DecrIntBy(cur[2], 1)
        BY <1>4 DEF DecrCommand, Is, key
    <2>2. ASSUME NEW n \in Int64s, n >= 0, DecrIntBy(cur[2], n)
          PROVE  content[cur[2]].ptr >= content'[cur[2]].ptr
        BY Zenon, <2>2, DecrKeeps
    <2>3. content[cur[2]].ptr >= content'[cur[2]].ptr
        BY <2>1, <2>2, OneFits
    <2> QED
        BY <2>1, <2>3
<1>5. CASE IncrByCommand
    <2>1. cur[3][1] \in Int64s /\ cur[1] = "incrby"
        BY <1>5, ConvertedFits DEF IncrByCommand, Is
    <2>2. Unchanged \/ (cur[3][1] >= 0 /\ IncrIntBy(cur[2], cur[3][1]))
        BY <1>5 DEF IncrByCommand, Operand, key
    <2> QED
        BY Zenon, <1>2, <2>1, <2>2, IncrKeeps
<1>6. CASE DecrByCommand
    <2>1. cur[3][1] \in Int64s /\ cur[1] = "decrby"
        BY <1>6, ConvertedFits DEF DecrByCommand, Is
    <2>2. Unchanged \/ (cur[3][1] >= 0 /\ DecrIntBy(cur[2], cur[3][1]))
        BY <1>6 DEF DecrByCommand, Operand, key
    <2> QED
        BY Zenon, <1>2, <2>1, <2>2, DecrKeeps
<1>7. CASE IncorrectArguments \/ NotAnInteger
    BY <1>2, <1>7 DEF IncorrectArguments, NotAnInteger
<1>8. CASE \/ PingCommand \/ OverviewCommand \/ EvictCommand \/ DelCommand \/ ExistsCommand
           \/ TypeCommand \/ ExpireCommand \/ ExpireAtCommand \/ TTLCommand
           \/ SetCommand \/ GetCommand \/ StrlenCommand \/ AppendCommand
           \/ LLenCommand \/ ListPopCommand \/ ListPushCommand \/ LSetCommand
           \/ HSetCommand \/ HGetCommand \/ HDelCommand \/ HGetAllCommand \/ HLenCommand
           \/ SAddCommand \/ SRemCommand \/ SMembersCommand \/ SCardCommand
    <2>1. cur[1] \notin {"incr", "incrby", "decr", "decrby"}
        BY Zenon, <1>8
           DEF Is, PingCommand, OverviewCommand, EvictCommand, DelCommand, ExistsCommand,
               TypeCommand, ExpireCommand, ExpireAtCommand, TTLCommand, SetCommand, GetCommand,
               StrlenCommand, AppendCommand, LLenCommand, ListPopCommand, ListPushCommand,
               LSetCommand, HSetCommand, HGetCommand, HDelCommand, HGetAllCommand, HLenCommand,
               SAddCommand, SRemCommand, SMembersCommand, SCardCommand
    <2> QED
        BY <2>1
<1> QED
    BY <1>3, <1>4, <1>5, <1>6, <1>7, <1>8 DEF Handler

\* incr and incrby never make an integer smaller, decr and decrby never make it
\* larger, whatever 64-bit operands and values there are.
THEOREM IntegersDoNotWrap == Spec => IntegersNeverWrap
<1>1. ASSUME ContainerInv, [Next]_vars PROVE [IntegersStep]_cur
    <2> SUFFICES ASSUME cur # <<>>, cur' = <<>>, Typed(cur[2], {OBJECT_INT})
                 PROVE  /\ cur[1] \in {"incr", "incrby"} =>
                              content[cur[2]].ptr <= content'[cur[2]].ptr
                        /\ cur[1] \in {"decr", "decrby"} =>
                              content[cur[2]].ptr >= content'[cur[2]].ptr
        BY DEF IntegersStep, IntegerStep, Runs
    <2>1. CASE Handler
        BY <1>1, <2>1, IntegerHandlers
    <2>2. ~Handler => cur = <<>> \/ UNCHANGED cur
        BY Zenon, <1>1 DEF Next, vars, Serve, HandleCommand, RestoreFromAppendableFile, FireTimers, Restart,
                    StartServing, TimePasses
    <2> QED
        BY <2>1, <2>2
<1>2. Spec => [][IntegersStep]_cur
    BY <1>1, ContainerAlways, PTL DEF Spec
<1> QED
    BY <1>2 DEF IntegersNeverWrap, IntegersStep
-----------------------------------------------------------------------------
(* The timers *)

\* A timer of a key: it fires once, and has an id that was given out.
KeyTimer(ev) ==
    /\ ev = [id |-> ev.id, when |-> ev.when, interval |-> ev.interval,
             callback |-> ev.callback, count |-> 1]
    /\ ev.id \in 1..sTimeEventId

\* The list of timers and the map agree, and an id names one timer.
TimersInv ==
    /\ sTimeEventId \in Nat
    /\ IsList(event_list)
    /\ \A ev \in Range(event_list) :
          /\ KeyTimer(ev)
          /\ ev.callback \in DOMAIN sExpiresMap /\ sExpiresMap[ev.callback] = ev.id
          /\ \A other \in Range(event_list) : other.id = ev.id => other = ev
    /\ \A k \in DOMAIN sExpiresMap :
          \E ev \in Range(event_list) : ev.id = sExpiresMap[k] /\ ev.callback = k

\* What TimersInv says suffices for ExpiresMapMatchesTimers: looking a timer up
\* by its id finds the one the map means.
LEMMA TimersAgree == TimersInv => ExpiresMapMatchesTimers
<1> SUFFICES ASSUME TimersInv PROVE ExpiresMapMatchesTimers
    OBVIOUS
<1>1. ASSUME NEW k \in DOMAIN sExpiresMap
      PROVE  sExpiresMap[k] \in EventIds /\ Event(sExpiresMap[k]).callback = k
    <2>1. PICK ev \in Range(event_list) : ev.id = sExpiresMap[k] /\ ev.callback = k
        BY DEF TimersInv
    <2>2. PICK i \in DOMAIN event_list : event_list[i] = ev
        BY <2>1 DEF Range
    <2> DEFINE found == CHOOSE j \in DOMAIN event_list : event_list[j].id = sExpiresMap[k]
    <2>3. found \in DOMAIN event_list /\ event_list[found].id = sExpiresMap[k]
        BY <2>1, <2>2
    <2> HIDE DEF found
    <2>4. event_list[found] = ev
        BY <2>1, <2>3 DEF TimersInv, Range
    <2> QED
        BY <2>1, <2>2, <2>4 DEF EventIds, Event, found
<1> QED
    BY <1>1 DEF TimersInv, ExpiresMapMatchesTimers

\* The timers after CreateTimeEvent, RemoveTimeEvent, UpdateTimeEvent and
\* HandleFiredTimeEvent.
LEMMA CreatedTimers ==
    ASSUME TimersInv, NEW interval, NEW callback, NEW count, CreateTimeEvent(interval, callback, count)
    PROVE  /\ IsList(event_list')
           /\ Range(event_list') = {NewEvent(sTimeEventId + 1, interval, callback, count)}
                                   \cup Range(event_list)
BY PrependElements DEF TimersInv, CreateTimeEvent

LEMMA RemovedTimers ==
    ASSUME TimersInv, NEW id, RemoveTimeEvent(id)
    PROVE  /\ IsList(event_list')
           /\ Range(event_list') = {ev \in Range(event_list) : ev.id # id}
<1>1. /\ IsList(event_list')
      /\ Range(event_list') = Range(event_list) \ {ev \in Range(event_list) : ev.id = id}
    BY EraseElements DEF TimersInv, RemoveTimeEvent
<1> QED
    BY <1>1

LEMMA UpdatedTimers ==
    ASSUME TimersInv, NEW id, NEW interval, NEW count, UpdateTimeEvent(id, interval, count)
    PROVE  /\ IsList(event_list')
           /\ Range(event_list') = {IF ev.id = id THEN NewEvent(id, interval, ev.callback, count)
                                    ELSE ev : ev \in Range(event_list)}
<1> DEFINE F(ev) == IF ev.id = id THEN NewEvent(id, interval, ev.callback, count) ELSE ev
<1>1. event_list' = [i \in DOMAIN event_list |-> F(event_list[i])]
    BY DEF UpdateTimeEvent
<1> HIDE DEF F
<1>2. Len(event_list) \in Nat /\ DOMAIN event_list = 1..Len(event_list)
    BY DEF TimersInv, IsList
<1>3. event_list' \in Seq({F(event_list[i]) : i \in 1..Len(event_list)})
    BY <1>1, <1>2
<1>4. IsList(event_list')
    BY <1>3, SequencesAreLists
<1>5. Range(event_list') = {F(ev) : ev \in Range(event_list)}
    BY <1>1 DEF Range
<1> QED
    BY <1>4, <1>5 DEF F

LEMMA RemainingTimers ==
    ASSUME TimersInv, HandleFiredTimeEvent
    PROVE  /\ IsList(event_list')
           /\ Range(event_list') = {ev \in Range(event_list) : ~Fires(ev)}
<1> DEFINE visited == [i \in DOMAIN event_list |-> Consumed(event_list[i])]
<1>1. Len(event_list) \in Nat /\ DOMAIN event_list = 1..Len(event_list)
    BY DEF TimersInv, IsList
<1>2. visited \in Seq({Consumed(event_list[i]) : i \in 1..Len(event_list)})
    BY <1>1
<1>3. IsList(visited)
    BY <1>2, SequencesAreLists
<1>4. Range(visited) = {Consumed(ev) : ev \in Range(event_list)}
    BY DEF Range
<1>5. event_list' = Erased(visited, {ev \in Range(visited) : ~CanFire(ev)})
    BY DEF HandleFiredTimeEvent
<1> HIDE DEF visited
<1>6. /\ IsList(event_list')
      /\ Range(event_list') = Range(visited) \ {ev \in Range(visited) : ~CanFire(ev)}
    BY <1>3, <1>5, EraseElements
<1>7. ASSUME NEW ev \in Range(event_list)
      PROVE  /\ Fires(ev) => ~CanFire(Consumed(ev))
             /\ ~Fires(ev) => Consumed(ev) = ev /\ CanFire(ev)
    <2>1. ev = [id |-> ev.id, when |-> ev.when, interval |-> ev.interval,
                callback |-> ev.callback, count |-> 1]
        BY DEF TimersInv, KeyTimer
    <2>2. ev.count = 1
        BY <2>1
    <2>3. ASSUME Fires(ev) PROVE Consumed(ev).count = 0
        BY <2>1, <2>2, <2>3 DEF Consumed, FireForever
    <2> QED
        BY <2>2, <2>3 DEF CanFire, Consumed
<1> QED
    BY <1>4, <1>6, <1>7

LEMMA NoTimersKeeps ==
    ASSUME TimersInv, NoTimers
    PROVE  TimersInv'
BY DEF TimersInv, NoTimers, timers, KeyTimer, IsList

\* A first expire gives the key the only timer with a new id.
LEMMA FirstExpireKeeps ==
    ASSUME TimersInv, NEW interval, FirstExpire(interval)
    PROVE  TimersInv'
<1>1. CASE NoTimers
    BY <1>1, NoTimersKeeps
<1>2. CASE /\ CreateTimeEvent((interval * kMsPerSec) % U64, key, 1)
           /\ sExpiresMap' = [k \in DOMAIN sExpiresMap \cup {key} |->
                                IF k = key THEN sTimeEventId + 1 ELSE sExpiresMap[k]]
    <2>0. PICK e : e = NewEvent(sTimeEventId + 1, (interval * kMsPerSec) % U64, key, 1)
        OBVIOUS
    <2>1. IsList(event_list') /\ Range(event_list') = {e} \cup Range(event_list)
        BY <1>2, <2>0, CreatedTimers
    <2>2. /\ sTimeEventId \in Nat /\ sTimeEventId' = sTimeEventId + 1
          /\ key \notin DOMAIN sExpiresMap
        BY <1>2 DEF TimersInv, CreateTimeEvent, FirstExpire
    <2>3. /\ e = [id |-> e.id, when |-> e.when, interval |-> e.interval,
                  callback |-> e.callback, count |-> 1]
          /\ e.id = sTimeEventId + 1 /\ e.callback = key
        BY <2>0 DEF NewEvent
    <2>4. /\ DOMAIN sExpiresMap' = DOMAIN sExpiresMap \cup {key}
          /\ sExpiresMap'[key] = sTimeEventId + 1
          /\ \A k \in DOMAIN sExpiresMap : k # key /\ sExpiresMap'[k] = sExpiresMap[k]
        BY <1>2, <2>2
    <2>5. ASSUME NEW ev \in Range(event_list)
          PROVE  /\ KeyTimer(ev)' /\ ev.id # e.id
                 /\ ev.callback \in DOMAIN sExpiresMap' /\ sExpiresMap'[ev.callback] = ev.id
        BY <2>2, <2>3, <2>4 DEF TimersInv, KeyTimer
    <2>6. KeyTimer(e)'
        BY <2>2, <2>3 DEF KeyTimer
    <2>7. ASSUME NEW ev \in Range(event_list')
          PROVE  /\ KeyTimer(ev)'
                 /\ ev.callback \in DOMAIN sExpiresMap' /\ sExpiresMap'[ev.callback] = ev.id
                 /\ \A other \in Range(event_list') : other.id = ev.id => other = ev
        BY <2>1, <2>3, <2>4, <2>5, <2>6 DEF TimersInv
    <2>8. ASSUME NEW k \in DOMAIN sExpiresMap'
          PROVE  \E ev \in Range(event_list') : ev.id = sExpiresMap'[k] /\ ev.callback = k
        BY <2>1, <2>3, <2>4 DEF TimersInv
    <2> QED
        BY <2>1, <2>2, <2>7, <2>8 DEF TimersInv, KeyTimer
<1> QED
    BY <1>1, <1>2 DEF FirstExpire

\* A later one moves the timer of the key, or removes it together with its entry.
LEMMA NextExpireKeeps ==
    ASSUME TimersInv, NEW interval, NextExpire(interval)
    PROVE  TimersInv'
<1>1. PICK old \in Range(event_list) : old.id = sExpiresMap[key] /\ old.callback = key
    BY DEF NextExpire, TimersInv
<1>2. sTimeEventId' = sTimeEventId
    BY DEF NextExpire, UpdateTimeEvent, RemoveTimeEvent
<1>3. \A ev \in Range(event_list) : ev.id = sExpiresMap[key] <=> ev = old
    BY <1>1 DEF TimersInv
<1>4. CASE /\ UpdateTimeEvent(sExpiresMap[key], (interval * kMsPerSec) % U64, 1)
           /\ UNCHANGED sExpiresMap
    <2>0. PICK e : e = NewEvent(sExpiresMap[key], (interval * kMsPerSec) % U64, key, 1)
        OBVIOUS
    <2>1. /\ IsList(event_list')
          /\ Range(event_list') = {IF ev.id = sExpiresMap[key]
                                   THEN NewEvent(sExpiresMap[key], (interval * kMsPerSec) % U64,
                                                 ev.callback, 1)
                                   ELSE ev : ev \in Range(event_list)}
        BY <1>4, UpdatedTimers
    <2>2. Range(event_list') = {e} \cup (Range(event_list) \ {old})
        BY <1>1, <1>3, <2>0, <2>1
    <2>3. /\ e = [id |-> e.id, when |-> e.when, interval |-> e.interval,
                  callback |-> e.callback, count |-> 1]
          /\ e.id = old.id /\ e.callback = key
        BY <1>1, <2>0 DEF NewEvent
    <2>4. ASSUME NEW ev \in Range(event_list), ev # old
          PROVE  KeyTimer(ev)' /\ ev.id # e.id
        BY <1>1, <1>2, <2>3, <2>4 DEF TimersInv, KeyTimer
    <2>5. KeyTimer(e)'
        BY <1>1, <1>2, <2>3 DEF KeyTimer, TimersInv
    <2>6. ASSUME NEW ev \in Range(event_list')
          PROVE  /\ KeyTimer(ev)'
                 /\ ev.callback \in DOMAIN sExpiresMap' /\ sExpiresMap'[ev.callback] = ev.id
                 /\ \A other \in Range(event_list') : other.id = ev.id => other = ev
        BY SMTT(20), <1>1, <1>4, <2>2, <2>3, <2>4, <2>5 DEF TimersInv
    <2>7. ASSUME NEW k \in DOMAIN sExpiresMap'
          PROVE  \E ev \in Range(event_list') : ev.id = sExpiresMap'[k] /\ ev.callback = k
        <3>1. PICK ev \in Range(event_list) : ev.id = sExpiresMap[k] /\ ev.callback = k
            BY <1>4 DEF TimersInv
        <3> QED
            BY <1>1, <1>4, <2>2, <2>3, <3>1
    <2> QED
        BY <1>2, <2>1, <2>6, <2>7 DEF TimersInv, KeyTimer
<1>5. CASE RemoveTimeEvent(sExpiresMap[key]) /\ sExpiresMap' = Unmapped(key)
    <2>1. IsList(event_list') /\ Range(event_list') = Range(event_list) \ {old}
        BY <1>3, <1>5, RemovedTimers
    <2>2. /\ DOMAIN sExpiresMap' = DOMAIN sExpiresMap \ {key}
          /\ \A k \in DOMAIN sExpiresMap' : sExpiresMap'[k] = sExpiresMap[k]
        BY <1>5 DEF Unmapped
    <2>3. ASSUME NEW ev \in Range(event_list')
          PROVE  /\ KeyTimer(ev)'
                 /\ ev.callback \in DOMAIN sExpiresMap' /\ sExpiresMap'[ev.callback] = ev.id
                 /\ \A other \in Range(event_list') : other.id = ev.id => other = ev
        BY <1>1, <1>2, <1>3, <2>1, <2>2 DEF TimersInv, KeyTimer
    <2>4. ASSUME NEW k \in DOMAIN sExpiresMap'
          PROVE  \E ev \in Range(event_list') : ev.id = sExpiresMap'[k] /\ ev.callback = k
        BY <1>1, <2>1, <2>2 DEF TimersInv
    <2> QED
        BY <1>2, <2>1, <2>3, <2>4 DEF TimersInv, KeyTimer
<1> QED
    BY <1>4, <1>5 DEF NextExpire

\* A timer that fires is gone, and so is the entry of its key.
LEMMA FireTimersKeeps ==
    ASSUME TimersInv, FireTimers
    PROVE  TimersInv'
<1> DEFINE due == {ev.callback : ev \in Fired}
<1>1. IsList(event_list') /\ Range(event_list') = {ev \in Range(event_list) : ~Fires(ev)}
    BY RemainingTimers DEF FireTimers
<1>2. /\ sTimeEventId' = sTimeEventId
      /\ DOMAIN sExpiresMap' = DOMAIN sExpiresMap \ due
      /\ \A k \in DOMAIN sExpiresMap' : sExpiresMap'[k] = sExpiresMap[k]
    BY DEF FireTimers, HandleFiredTimeEvent
<1>3. ASSUME NEW ev \in Range(event_list) PROVE ev.callback \in due <=> Fires(ev)
    BY DEF TimersInv, Fired
<1> HIDE DEF due
<1>4. ASSUME NEW ev \in Range(event_list')
      PROVE  /\ KeyTimer(ev)'
             /\ ev.callback \in DOMAIN sExpiresMap' /\ sExpiresMap'[ev.callback] = ev.id
             /\ \A other \in Range(event_list') : other.id = ev.id => other = ev
    BY <1>1, <1>2, <1>3 DEF TimersInv, KeyTimer
<1>5. ASSUME NEW k \in DOMAIN sExpiresMap'
      PROVE  \E ev \in Range(event_list') : ev.id = sExpiresMap'[k] /\ ev.callback = k
    BY <1>1, <1>2, <1>3 DEF TimersInv
<1> QED
    BY <1>1, <1>2, <1>4, <1>5 DEF TimersInv, KeyTimer

\* Only expire and expireat touch the timers.
LEMMA OthersLeaveTimers ==
    ASSUME Handler, ~ExpireCommand, ~ExpireAtCommand
    PROVE  NoTimers
BY Zenon DEF Handler, IncorrectArguments, NotAnInteger, PingCommand, OverviewCommand, EvictCommand,
       DelCommand, ExistsCommand, TypeCommand, TTLCommand, SetCommand, GetCommand, IncrCommand,
       DecrCommand, IncrByCommand, DecrByCommand, StrlenCommand, AppendCommand, LLenCommand,
       ListPopCommand, ListPushCommand, LSetCommand, HSetCommand, HGetCommand, HDelCommand,
       HGetAllCommand, HLenCommand, SAddCommand, SRemCommand, SMembersCommand, SCardCommand

LEMMA HandlerTimers ==
    ASSUME Handler
    PROVE  \/ NoTimers
           \/ \E interval : FirstExpire(interval) \/ NextExpire(interval)
<1>1. ASSUME NEW interval, Expire(interval)
      PROVE  NoTimers \/ FirstExpire(interval) \/ NextExpire(interval)
    BY Zenon, <1>1 DEF Expire
<1>2. CASE ExpireCommand \/ ExpireAtCommand
    BY <1>1, <1>2 DEF ExpireCommand, ExpireAtCommand
<1> QED
    BY <1>2, OthersLeaveTimers

LEMMA TimersStep ==
    ASSUME TimersInv, [Next]_vars
    PROVE  TimersInv'
<1>1. CASE Handler
    BY <1>1, HandlerTimers, NoTimersKeeps, FirstExpireKeeps, NextExpireKeeps
<1>2. CASE FireTimers
    BY <1>2, FireTimersKeeps
<1>3. CASE Restart
    <2>1. event_list' = <<>> /\ sTimeEventId' = 0 /\ DOMAIN sExpiresMap' = {}
        BY <1>3 DEF Restart
    <2>2. IsList(<<>>) /\ Range(<<>>) = {}
        BY DEF IsList, Range
    <2> QED
        BY <2>1, <2>2 DEF TimersInv
<1>4. CASE \/ Serve \/ RestoreFromAppendableFile \/ TimePasses \/ StartServing \/ UNCHANGED vars
    <2>1. NoTimers
        BY Zenon, <1>4
           DEF Serve, RestoreFromAppendableFile, HandleCommand, TimePasses, StartServing, vars,
               NoTimers, timers
    <2> QED
        BY <2>1, NoTimersKeeps
<1> QED
    BY <1>1, <1>2, <1>3, <1>4 DEF Next

LEMMA TimersInitially == Init => TimersInv
<1> SUFFICES ASSUME Init PROVE TimersInv
    OBVIOUS
<1>1. event_list = <<>> /\ sTimeEventId = 0 /\ DOMAIN sExpiresMap = {}
    BY DEF Init, TimersInit
<1>2. IsList(<<>>) /\ Range(<<>>) = {}
    BY DEF IsList, Range
<1> QED
    BY <1>1, <1>2 DEF TimersInv

\* Every entry of sExpiresMap points to a timer that exists and deletes this
\* very key, and every timer has its entry, through creations, moves, removals,
\* firings, restarts and replays.
THEOREM ExpiresMapIsExact == Spec => []ExpiresMapMatchesTimers
<1>1. Spec => []TimersInv
    BY TimersInitially, TimersStep, PTL DEF Spec
<1> QED
    BY <1>1, TimersAgree, PTL
-----------------------------------------------------------------------------
(* What evictions log *)

\* A rewritten log is a sequence: a finite set can be listed.
LEMMA InSomeOrderDomain ==
    ASSUME NEW S, IsFiniteSet(S)
    PROVE  Cardinality(S) \in Nat /\ DOMAIN InSomeOrder(S) = 1..Cardinality(S)
<1>1. Cardinality(S) \in Nat /\ ExistsBijection(1..Cardinality(S), S)
    BY FS_CardinalityType
<1>2. \E f \in [1..Cardinality(S) -> S] : IsInjective(f)
    BY <1>1 DEF ExistsBijection, Bijection, Injection, IsInjective
<1>3. InSomeOrder(S) \in [1..Cardinality(S) -> S]
    BY <1>2 DEF InSomeOrder, Listings
<1> QED
    BY <1>1, <1>3

LEMMA RewrittenIsList ==
    ASSUME NEW l, IsList(l)
    PROVE  IsList(RemoveRedundancy(l))
<1> DEFINE keys == {cmd[2] : cmd \in Range(l)}
           live == {k \in keys : Sequential(CommandsOf(l, k)) # <<>>}
           order == InSomeOrder(live)
           Line(k) == Generated(k, Sequential(CommandsOf(l, k)))
           r == [i \in DOMAIN order |-> Line(order[i])]
<1>1. RemoveRedundancy(l) = r
    BY DEF RemoveRedundancy
<1>2. IsFiniteSet(keys)
    <2> DEFINE f == [i \in 1..Len(l) |-> l[i][2]]
    <2>1. Len(l) \in Nat /\ DOMAIN l = 1..Len(l)
        BY DEF IsList
    <2>2. f \in Surjection(1..Len(l), keys)
        BY <2>1 DEF Surjection, Range
    <2>3. IsFiniteSet(1..Len(l))
        BY <2>1, FS_Interval
    <2> HIDE DEF f, keys
    <2> QED
        BY <2>2, <2>3, FS_Surjection
<1> HIDE DEF keys
<1>3. IsFiniteSet(live)
    BY <1>2, FS_Subset
<1> HIDE DEF live, Line
<1>4. Cardinality(live) \in Nat /\ DOMAIN order = 1..Cardinality(live)
    BY <1>3, InSomeOrderDomain
<1> HIDE DEF order
<1>5. r \in Seq({Line(order[i]) : i \in 1..Cardinality(live)})
    BY <1>4
<1> QED
    BY <1>1, <1>5, SequencesAreLists

\* A handler runs on a command.
LEMMA HandlerRuns ==
    ASSUME Handler
    PROVE  cur # <<>>
BY Zenon DEF Handler, Is, IncorrectArguments, NotAnInteger, PingCommand, OverviewCommand, EvictCommand,
       DelCommand, ExistsCommand, TypeCommand, ExpireCommand, ExpireAtCommand, TTLCommand,
       SetCommand, GetCommand, IncrCommand, DecrCommand, IncrByCommand, DecrByCommand,
       StrlenCommand, AppendCommand, LLenCommand, ListPopCommand, ListPushCommand,
       LSetCommand, HSetCommand, HGetCommand, HDelCommand, HGetAllCommand, HLenCommand,
       SAddCommand, SRemCommand, SMembersCommand, SCardCommand

\* Commands only ever append to the log.
LEMMA HandlerLog ==
    ASSUME Handler
    PROVE  log' = log \/ \E cmd : log' = Append(log, cmd)
<1> USE DEF AppendWhen, LogIfOk
<1>1. ASSUME NEW interval, Expire(interval)
      PROVE  log' = log \/ \E cmd : log' = Append(log, cmd)
    BY <1>1 DEF Expire
<1>2. CASE ExpireCommand \/ ExpireAtCommand
    BY <1>1, <1>2 DEF ExpireCommand, ExpireAtCommand
<1>3. CASE \/ IncorrectArguments \/ NotAnInteger \/ PingCommand \/ OverviewCommand \/ EvictCommand
           \/ DelCommand \/ ExistsCommand \/ TypeCommand \/ TTLCommand \/ SetCommand \/ GetCommand
    BY <1>3
       DEF IncorrectArguments, NotAnInteger, PingCommand, OverviewCommand, EvictCommand,
           DelCommand, ExistsCommand, TypeCommand, TTLCommand, SetCommand, GetCommand
<1>4. CASE \/ IncrCommand \/ DecrCommand \/ IncrByCommand \/ DecrByCommand \/ StrlenCommand
           \/ AppendCommand \/ LLenCommand \/ ListPopCommand \/ ListPushCommand \/ LSetCommand
    BY Zenon, <1>4
       DEF IncrCommand, DecrCommand, IncrByCommand, DecrByCommand, Operand, StrlenCommand,
           AppendCommand, LLenCommand, ListPopCommand, ListPushCommand, LSetCommand
<1>5. CASE \/ HSetCommand \/ HGetCommand \/ HDelCommand \/ HGetAllCommand \/ HLenCommand
           \/ SAddCommand \/ SRemCommand \/ SMembersCommand \/ SCardCommand
    BY <1>5
       DEF HSetCommand, HGetCommand, HDelCommand, HGetAllCommand, HLenCommand, SAddCommand,
           SRemCommand, SMembersCommand, SCardCommand
<1> QED
    BY <1>2, <1>3, <1>4, <1>5 DEF Handler

LogInv == IsList(log)

LEMMA LogStep ==
    ASSUME LogInv, [Next]_vars
    PROVE  LogInv'
<1> USE DEF LogInv
<1>1. CASE Handler
    BY Zenon, <1>1, HandlerLog, AppendElements
<1>2. CASE Serve \/ RestoreFromAppendableFile
    <2>1. log' = log \/ log' = Append(log, <<"del">> \o ret')
        BY Zenon, <1>2 DEF Serve, RestoreFromAppendableFile, HandleCommand, Evict
    <2> QED
        BY Zenon, <2>1, AppendElements
<1>3. CASE Restart
    BY Zenon, <1>3, RewrittenIsList DEF Restart
<1>4. CASE FireTimers \/ TimePasses \/ StartServing \/ UNCHANGED vars
    BY <1>4 DEF FireTimers, TimePasses, StartServing, vars
<1> QED
    BY <1>1, <1>2, <1>3, <1>4 DEF Next

\* An eviction by the LRU policy answers with the keys that it deletes.
LEMMA LruAnswers ==
    ASSUME ContainerInv, NEW num, KeyEviction(TRUE, num)
    PROVE  IsList(ret') /\ Gone = Range(ret')
<1>1. CASE keys_pool = <<>> /\ Return(kOkCode, <<>>) /\ Unchanged
    <2>1. IsList(<<>>) /\ Range(<<>>) = {}
        BY DEF IsList, Range
    <2> QED
        BY <1>1, <2>1 DEF Return, Unchanged, Gone
<1>2. CASE KeyEvictionLru(num)
    <2>0. PICK n \in IF num = 0 THEN {0} ELSE 1..Len(keys_pool) :
             \E order \in Orders(n) : Without(Range(order)) /\ Return(kOkCode, order)
        BY <1>2 DEF KeyEvictionLru
    <2>1. PICK order \in Orders(n) : Without(Range(order)) /\ Return(kOkCode, order)
        BY <2>0
    <2>2. n \in Nat
        BY <2>0
    <2>3. order \in Seq(Range(keys_pool)) /\ DOMAIN order = 1..n
        BY <2>2 DEF Orders, Listings
    <2>4. Range(order) \subseteq DOMAIN content
        BY <2>3 DEF ContainerInv, PoolMatchesContent, Range
    <2>5. DOMAIN content' = DOMAIN content \ Range(order)
        BY <2>1 DEF Without
    <2> QED
        BY <2>1, <2>3, <2>4, <2>5, SequencesAreLists DEF Return, Gone
<1> QED
    BY <1>1, <1>2 DEF KeyEviction

\* What EvictionsAreLogged says of one step.
EvictionStep ==
    log' # log /\ mode' = mode /\ cur = <<>> => Gone = Range(Tail(log'[Len(log')]))

\* Under the LRU policy the keys that an eviction logs as deleted are the keys
\* it deleted, while serving and while replaying: the eviction can be replayed.
THEOREM LruEvictionsAreLogged == Lru = TRUE => (Spec => EvictionsAreLogged)
<1> SUFFICES ASSUME Lru = TRUE PROVE Spec => EvictionsAreLogged
    OBVIOUS
<1>1. ASSUME ContainerInv, LogInv, [Next]_vars PROVE [EvictionStep]_cur
    <2> SUFFICES ASSUME log' # log, cur = <<>>, cur' # cur
                 PROVE  Gone = Range(Tail(log'[Len(log')]))
        BY DEF EvictionStep
    <2>1. ~Handler
        BY HandlerRuns
    <2>2. Serve \/ RestoreFromAppendableFile
        BY Zenon, <1>1, <2>1 DEF Next, vars, FireTimers, TimePasses, Restart, StartServing
    <2>3. Evict
        BY Zenon, <2>2 DEF Serve, RestoreFromAppendableFile, HandleCommand
    <2>4. IsList(ret') /\ Gone = Range(ret')
        BY Zenon, <1>1, <2>3, LruAnswers DEF Evict
    <2> DEFINE line == <<"del">> \o ret'
    <2>5. log' = Append(log, line)
        BY <2>3 DEF Evict
    <2>6. Tail(line) = ret'
        BY <2>4, PrependElements
    <2> HIDE DEF line
    <2>7. log'[Len(log')] = line
        BY <1>1, <2>5, AppendElements DEF LogInv
    <2> QED
        BY Zenon, <2>4, <2>6, <2>7
<1>2. Init => LogInv
    BY DEF Init, LogInv, IsList, Range
<1>3. Spec => []LogInv
    BY <1>2, LogStep, PTL DEF Spec
<1>4. Spec => [][EvictionStep]_cur
    BY <1>1, <1>3, ContainerAlways, PTL DEF Spec
<1> QED
    BY <1>4 DEF EvictionsAreLogged, EvictionStep
=============================================================================
