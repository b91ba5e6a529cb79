------------------------------- MODULE Engine -------------------------------
(***************************************************************************)
(* Engine and the command handlers (commands.cpp) over KVContainer, the    *)
(* timers and the log of commands handed to AppendableFile.  Everything    *)
(* here runs on the event-loop thread, one command at a time: first the    *)
(* lazy eviction of HandleCommand, then the handler of the command.        *)
(*                                                                         *)
(* A command is its argv: the operation, then keys and strings.  After a   *)
(* restart the engine replays the log with sync = false.  That what was    *)
(* logged is on disk by then is the concern of AppendableFile.             *)
(***************************************************************************)
EXTENDS Rewrite, TimeEvent

CONSTANTS
    Requests,          \* the commands the clients send
    Lru,               \* is the policy LRU or random
    kEvictBatch,       \* 16 in the code
    ServePressure,     \* whether memory can be found above its limit while
    RestorePressure,   \*   serving and while restoring: subsets of BOOLEAN
    MaxLog, MaxLogAfter,         \* bounds on the log before and after a restart,
    MaxRestarts, MaxEventId,     \*   on restarts and timers,
    MaxEvictions,                \*   and on the evictions of a restore
    Rewrites           \* whether a log is rewritten before a restart: subset of BOOLEAN

ASSUME EngineAssumption ==
    /\ Lru \in BOOLEAN /\ kEvictBatch \in Nat
    /\ ServePressure \subseteq BOOLEAN /\ RestorePressure \subseteq BOOLEAN
    /\ MaxLog \in Nat /\ MaxLogAfter \in Nat /\ MaxRestarts \in Nat /\ MaxEventId \in Nat
    /\ MaxEvictions \in Nat
    /\ Rewrites \subseteq BOOLEAN

VARIABLES
    sExpiresMap,   \* key -> id of the timer that will delete it
    log,           \* commands appended, oldest first
    mode,          \* "serve" or "restore"
    cur,           \* the command being handled; <<>> between commands
    pos, file_len, \* restoring: the next command of the file, its length
    restarts,
    saved,         \* the contents and the keys with a timer at the last shutdown
    rewritten,     \* was the log rewritten
    overlooked,    \* keys whose history the rewrite does not see as it was
    relogged,      \* keys logged once more by an expire with a negative time
    deadline,      \* key -> when it is to expire by the last expire or expireat served
    outlived       \* keys made anew while the timer of their predecessor is pending

vars == <<now, container, timers, sExpiresMap, log, mode, cur, pos, file_len, restarts, saved,
          rewritten, overlooked, relogged, deadline, outlived>>

session == <<mode, pos, file_len, restarts, saved, rewritten, overlooked>>
notes == <<relogged, deadline, outlived>>

Init ==
    /\ now = 0 /\ ContainerInit /\ TimersInit
    /\ sExpiresMap = [k \in {} |-> 0]
    /\ log = <<>> /\ mode = "serve" /\ cur = <<>>
    /\ pos = 1 /\ file_len = 0 /\ restarts = 0
    /\ saved = [content |-> content, expiring |-> {}]
    /\ rewritten = FALSE /\ overlooked = {}
    /\ relogged = {} /\ deadline = [k \in {} |-> 0] /\ outlived = {}

sync == mode = "serve"

\* AddIntoAppendableDirectly
AppendWhen(cond, cmd) == log' = IF sync /\ cond THEN Append(log, cmd) ELSE log
-----------------------------------------------------------------------------
(* CheckSyntax: what each handler asks for, by operation *)

NoKey == {"overview", "total", "ping"}
Keys == {"del", "exists"}
Operands0 == {"evict", "type", "ttl", "get", "incr", "decr", "strlen", "llen", "lpop", "rpop",
              "hgetall", "hlen", "smembers", "scard"}
Operands1 == {"expire", "expireat", "set", "incrby", "decrby", "append", "hexists", "sismember"}
Operands2 == {"lsetindex"}
Operands == {"lpush", "rpush", "hset", "hget", "hdel", "sadd", "srem"}

OpCodeValid(op) == op \in NoKey \cup Keys \cup Operands0 \cup Operands1 \cup Operands2 \cup Operands

CheckSyntax(cmd) ==
    LET len == Len(cmd)
    IN  /\ cmd[1] = "hset" => len % 2 = 0
        /\ cmd[1] \in NoKey => len = 1
        /\ cmd[1] \in Keys => len >= 2
        /\ cmd[1] \in Operands0 => len = 2
        /\ cmd[1] \in Operands1 => len = 3
        /\ cmd[1] \in Operands2 => len = 4
        /\ cmd[1] \in Operands => len >= 3

Is(op) == cur # <<>> /\ cur[1] = op /\ CheckSyntax(cur)

key == cur[2]
operands == SubSeq(cur, 3, Len(cur))

\* Handlers that leave the timers alone.
NoTimers == UNCHANGED <<timers, sExpiresMap>>
-----------------------------------------------------------------------------
(* Generic commands *)

IncorrectArguments ==
    /\ cur # <<>> /\ ~CheckSyntax(cur)
    /\ Unchanged /\ Return(Unset, <<>>) /\ UNCHANGED log /\ NoTimers

PingCommand == Is("ping") /\ Unchanged /\ Return(kOkCode, "PONG") /\ UNCHANGED log /\ NoTimers

OverviewCommand == (Is("overview") \/ Is("total")) /\ Overview /\ UNCHANGED log /\ NoTimers

\* CanConvertToUInt64 wraps a negative number.
EvictCommand ==
    /\ Is("evict")
    /\ \/ /\ ~CanConvertToInt64(key)
          /\ Unchanged /\ Return(Unset, <<>>) /\ UNCHANGED log
       \/ /\ CanConvertToInt64(key)
          /\ KeyEviction(Lru, key[1] % U64)
          /\ AppendWhen(TRUE, <<"del">> \o ret')
    /\ NoTimers

DelCommand ==
    Is("del") /\ Delete(Range(Tail(cur))) /\ AppendWhen(TRUE, cur) /\ NoTimers

ExistsCommand == Is("exists") /\ KeyExists(Tail(cur)) /\ UNCHANGED log /\ NoTimers

\* There is no branch for sets.
TypeCommand ==
    /\ Is("type")
    /\ LET type == QueryObjectType(key)
       IN  Return(kOkCode, <<"type", key, IF type = OBJECT_SET THEN "none" ELSE type>>)
    /\ Unchanged /\ UNCHANGED log /\ NoTimers
-----------------------------------------------------------------------------
(* Expiry *)

Unmapped(k) == [j \in DOMAIN sExpiresMap \ {k} |-> sExpiresMap[j]]

\* No timer for the key yet.
FirstExpire(interval) ==
    /\ key \notin DOMAIN sExpiresMap
    /\ \/ /\ interval > 0
          /\ CreateTimeEvent((interval * kMsPerSec) % U64, key, 1)
          /\ sExpiresMap' = [k \in DOMAIN sExpiresMap \cup {key} |->
                               IF k = key THEN sTimeEventId + 1 ELSE sExpiresMap[k]]
          /\ Unchanged
       \/ interval = 0 /\ Without({key}) /\ NoTimers
       \/ interval < 0 /\ Unchanged /\ NoTimers

NextExpireMutant(interval) ==
    /\ key \in DOMAIN sExpiresMap
    /\ \/ /\ interval >= 0
          /\ UpdateTimeEvent(sExpiresMap[key], (interval * kMsPerSec) % U64, 1)
       \/ interval < 0 /\ RemoveTimeEvent(sExpiresMap[key])
    /\ Unchanged /\ UNCHANGED sExpiresMap

\* A pending timer is moved, or removed by a negative interval.
NextExpire(interval) ==
    /\ key \in DOMAIN sExpiresMap
    /\ \/ /\ interval >= 0
          /\ UpdateTimeEvent(sExpiresMap[key], (interval * kMsPerSec) % U64, 1)
          /\ UNCHANGED sExpiresMap
       \/ /\ interval < 0
          /\ RemoveTimeEvent(sExpiresMap[key])
          /\ sExpiresMap' = Unmapped(key)
    /\ Unchanged

\* The key exists, and UpdateTimeEvent or RemoveTimeEvent would find its timer.
CanExpire == Exists(key) /\ (key \in DOMAIN sExpiresMap => sExpiresMap[key] \in EventIds)

Expire(interval) ==
    \/ /\ ~CanExpire
       /\ Return(kOkCode, 0) /\ Unchanged /\ NoTimers /\ UNCHANGED log
    \/ /\ CanExpire
       /\ FirstExpire(interval) \/ NextExpire(interval)
       /\ Return(kOkCode, 1)
       /\ IF interval >= 0
          THEN AppendWhen(TRUE, <<"expireat", key, IntToString(GetCurrentSec + interval)>>)
          ELSE \E recovered \in RecoverCommandFromValue(key) : AppendWhen(TRUE, recovered)

\* Whether the key exists is looked at before the number is.
ExpireCommand ==
    Is("expire") /\ (Exists(key) => CanConvertToInt64(cur[3])) /\ Expire(cur[3][1])

\* std::max(unix_sec - now, 0): when the difference overflows, the comparison may
\* be made with what it wraps to or with what it should be.
ExpireAtCommand ==
    /\ Is("expireat") /\ CanConvertToInt64(cur[3])
    /\ LET diff == cur[3][1] - GetCurrentSec
       IN  \E left \in {diff, Int64(diff)} : Expire(Max({left, 0}))

\* Seconds to live; -1 without a timer, -2 without the key.  The subtraction
\* is unsigned.
TTLCommand ==
    /\ Is("ttl")
    /\ Return(kOkCode, <<"ttl", IF ~Exists(key) THEN -2
                                ELSE IF key \notin DOMAIN sExpiresMap THEN -1
                                ELSE Distance(Event(sExpiresMap[key])) \div kMsPerSec>>)
    /\ Unchanged /\ UNCHANGED log /\ NoTimers

NotAnInteger ==
    /\ \E op \in {"expire", "expireat", "incrby", "decrby", "lsetindex"} :
          Is(op) /\ ~CanConvertToInt64(cur[3]) /\ (op = "expire" => Exists(key))
    /\ Return(Unset, <<>>) /\ Unchanged /\ NoTimers /\ UNCHANGED log

\* The callbacks of the timers that are due: Delete the key, forget the timer.
FireTimers ==
    /\ cur = <<>> /\ mode = "serve" /\ Fired # {}
    /\ LET due == {ev.callback : ev \in Fired}
       IN  /\ Without(due)
           /\ sExpiresMap' = [k \in DOMAIN sExpiresMap \ due |-> sExpiresMap[k]]
    /\ HandleFiredTimeEvent
    /\ UNCHANGED <<now, errcode, ret, log, cur, session, notes>>
-----------------------------------------------------------------------------
(* Integers and strings *)

SetCommand ==
    /\ Is("set")
    /\ \/ CanConvertToInt64(cur[3]) /\ SetInt(key, cur[3][1])
       \/ ~CanConvertToInt64(cur[3]) /\ SetString(key, cur[3])
    /\ AppendWhen(TRUE, cur) /\ NoTimers

GetCommand == Is("get") /\ Get(key) /\ UNCHANGED log /\ NoTimers

LogIfOk == AppendWhen(errcode' = kOkCode, cur)

IncrCommand == Is("incr") /\ IncrIntBy(key, 1) /\ LogIfOk /\ NoTimers
DecrCommand == Is("decr") /\ DecrIntBy(key, 1) /\ LogIfOk /\ NoTimers

\* A negative operand is refused.
Operand(num, Op(_, _)) ==
    \/ num < 0 /\ Return(Unset, <<>>) /\ Unchanged /\ UNCHANGED log
    \/ num >= 0 /\ Op(key, num) /\ LogIfOk

IncrByCommand ==
    Is("incrby") /\ CanConvertToInt64(cur[3]) /\ Operand(cur[3][1], IncrIntBy) /\ NoTimers
DecrByCommand ==
    Is("decrby") /\ CanConvertToInt64(cur[3]) /\ Operand(cur[3][1], DecrIntBy) /\ NoTimers

StrlenCommand == Is("strlen") /\ StrLen(key) /\ UNCHANGED log /\ NoTimers

AppendCommand == Is("append") /\ AppendString(key, cur[3]) /\ LogIfOk /\ NoTimers
-----------------------------------------------------------------------------
(* Lists *)

LLenCommand == Is("llen") /\ ListLen(key) /\ UNCHANGED log /\ NoTimers

\* A popped "" is answered like an empty list, and is not logged.
ListPopCommand ==
    /\ \/ Is("lpop") /\ ListPopAux(key, TRUE)
       \/ Is("rpop") /\ ListPopAux(key, FALSE)
    /\ AppendWhen(errcode' = kOkCode /\ ret' # <<>>, cur)
    /\ NoTimers

ListPushCommand ==
    /\ \/ Is("lpush") /\ ListPushAux(key, operands, TRUE)
       \/ Is("rpush") /\ ListPushAux(key, operands, FALSE)
    /\ LogIfOk /\ NoTimers

LSetCommandMutant ==
    /\ Is("lsetindex") /\ CanConvertToInt64(cur[3])
    /\ ListSetItemAtIndex(key, cur[3][1], cur[4])
    /\ UNCHANGED log /\ NoTimers

LSetCommand ==
    /\ Is("lsetindex") /\ CanConvertToInt64(cur[3])
    /\ ListSetItemAtIndex(key, cur[3][1], cur[4])
    /\ LogIfOk /\ NoTimers
-----------------------------------------------------------------------------
(* Hashes and sets *)

HSetCommand ==
    LET n == (Len(cur) - 2) \div 2
    IN  /\ Is("hset")
        /\ HashUpdateKV(key, [i \in 1..n |-> cur[2 * i + 1]], [i \in 1..n |-> cur[2 * i + 2]])
        /\ LogIfOk /\ NoTimers

HGetCommand ==
    /\ Is("hget")
    /\ IF Len(cur) = 3 THEN HashGetValue(key, cur[3]) ELSE HashGetAllEntries(key)
    /\ UNCHANGED log /\ NoTimers

\* Logged unless the key has another type.
HDelCommand ==
    /\ Is("hdel") /\ HashDelField(key, Range(operands))
    /\ AppendWhen(errcode' # kWrongTypeCode, cur) /\ NoTimers

\* hexists, hgetall, hkeys, hvals
HGetAllCommand ==
    (Is("hgetall") \/ Is("hexists")) /\ HashGetAllEntries(key) /\ UNCHANGED log /\ NoTimers

HLenCommand == Is("hlen") /\ HashLen(key) /\ UNCHANGED log /\ NoTimers

SAddCommand == Is("sadd") /\ SetAddItem(key, Range(operands)) /\ LogIfOk /\ NoTimers

SRemCommand ==
    /\ Is("srem") /\ SetRemoveMembers(key, Range(operands))
    /\ AppendWhen(errcode' # kWrongTypeCode, cur) /\ NoTimers

SMembersCommand ==
    (Is("smembers") \/ Is("sismember")) /\ SetGetMembers(key) /\ UNCHANGED log /\ NoTimers

SCardCommand == Is("scard") /\ SetGetMemberCount(key) /\ UNCHANGED log /\ NoTimers
-----------------------------------------------------------------------------
(* HandleCommand *)

\* The evicted keys are logged, whatever sync is and even if there are none.
Evict ==
    /\ KeyEviction(Lru, kEvictBatch)
    /\ log' = Append(log, <<"del">> \o ret')

HandleCommand(cmd, pressure) ==
    /\ cur = <<>> /\ OpCodeValid(cmd[1])
    /\ cur' = cmd
    /\ \/ TRUE \in pressure /\ Evict
       \/ FALSE \in pressure /\ UNCHANGED <<container, log>>
    /\ NoTimers

\* A rewritten log is shorter; nothing more is served on it.
AtBound ==
    \/ Len(log) >= IF restarts = 0 THEN MaxLog ELSE MaxLogAfter
    \/ sTimeEventId >= MaxEventId \/ rewritten

Serve ==
    /\ mode = "serve"
    /\ \E cmd \in Requests :
          /\ AtBound => cmd = <<"ping">>
          /\ HandleCommand(cmd, IF AtBound THEN {FALSE} ELSE ServePressure)
    /\ UNCHANGED <<now, session, notes>>

Created == DOMAIN content' \ DOMAIN content

\* An expire or expireat of the key that succeeds.
SetsExpiry ==
    (Is("expire") \/ Is("expireat")) /\ CanConvertToInt64(cur[3]) /\ CanExpire

\* What its client is promised: a time that does not wrap around, for as long as
\* the key is not made anew.
NoteDeadline ==
    LET interval == IF cur[1] = "expire" THEN cur[3][1] ELSE Max({cur[3][1] - GetCurrentSec, 0})
        keep == DOMAIN deadline \ (Created \cup IF SetsExpiry THEN {key} ELSE {})
        new == IF SetsExpiry /\ interval >= 0 THEN {key} ELSE {}
    IN  IF ~sync THEN deadline
        ELSE [k \in keep \cup new |->
                 IF k \in new THEN now + interval * kMsPerSec ELSE deadline[k]]

NoteOutlived ==
    ((outlived \cup Created) \ IF SetsExpiry THEN {key} ELSE {}) \cap DOMAIN sExpiresMap'

\* A value logged once more is made a second time when the log is replayed: that
\* shows as long as it is a list, or the same string, one that reads as a number.
NoteRelogged ==
    LET again == IF Is("expire") /\ CanConvertToInt64(cur[3]) /\ cur[3][1] < 0 THEN {key} ELSE {}
        Shows(k) ==
            /\ k \in DOMAIN content \cap DOMAIN content' /\ content'[k].type = content[k].type
            /\ \/ content[k].type = OBJECT_LIST
               \/ /\ content[k].type = OBJECT_STRING /\ content'[k].ptr = content[k].ptr
                  /\ CanConvertToInt64(content[k].ptr)
    IN  IF sync THEN {k \in relogged \cup again : Shows(k)} ELSE relogged

Handler ==
    /\ \/ IncorrectArguments \/ NotAnInteger
       \/ PingCommand \/ OverviewCommand \/ EvictCommand \/ DelCommand \/ ExistsCommand
       \/ TypeCommand \/ ExpireCommand \/ ExpireAtCommand \/ TTLCommand
       \/ SetCommand \/ GetCommand \/ IncrCommand \/ DecrCommand \/ IncrByCommand
       \/ DecrByCommand \/ StrlenCommand \/ AppendCommand
       \/ LLenCommand \/ ListPopCommand \/ ListPushCommand \/ LSetCommand
       \/ HSetCommand \/ HGetCommand \/ HDelCommand \/ HGetAllCommand \/ HLenCommand
       \/ SAddCommand \/ SRemCommand \/ SMembersCommand \/ SCardCommand
    /\ cur' = <<>>
    /\ relogged' = NoteRelogged /\ deadline' = NoteDeadline /\ outlived' = NoteOutlived
    /\ UNCHANGED <<now, session>>
-----------------------------------------------------------------------------
(* Restart: the process ends after AppendableFile has written everything,  *)
(* a new one starts empty and RestoreFromAppendableFile replays the file,  *)
(* which litekv-rewrite-dump may have rewritten in between.                *)

\* Keys that a del of several keys, by a client or an eviction, names behind the
\* first: the rewrite files the del under the first one only.
OverlookedDels ==
    UNION {Range(SubSeq(cmd, 3, Len(cmd))) : cmd \in {c \in Range(log) : c[1] = "del"}}

\* An expireat that the server, whose timers wrap around, or the replay, which
\* reads an int64_t, does not take for the time it names.
TooFar(cmd) == (cmd[3][1] + 1) * kMsPerSec > U64 \/ ~CanConvertToInt64(cmd[3])

\* Keys with an expireat in the log that is not what it was when it is replayed:
\* one too far away, or one whose time has come, so that the key is deleted there
\* and not, if at all, behind the later commands on it.
Misdated ==
    {log[i][2] : i \in {i \in DOMAIN log :
        /\ log[i][1] = "expireat"
        /\ \/ TooFar(log[i])
           \/ /\ log[i][3][1] <= GetCurrentSec
              /\ \E j \in (i + 1)..Len(log) : log[i][2] \in Range(Tail(log[j]))}}

Restart ==
    /\ mode = "serve" /\ cur = <<>> /\ restarts < MaxRestarts
    /\ restarts' = restarts + 1
    /\ saved' = [content |-> content, expiring |-> DOMAIN sExpiresMap]
    /\ content' = [k \in {} |-> 0] /\ keys_pool' = <<>>
    /\ event_list' = <<>> /\ sTimeEventId' = 0 /\ sExpiresMap' = [k \in {} |-> 0]
    /\ \/ FALSE \in Rewrites /\ UNCHANGED <<log, rewritten, overlooked>>
       \/ /\ TRUE \in Rewrites /\ Rewritable(log)
          /\ log' = RemoveRedundancy(log)
          /\ rewritten' = TRUE /\ overlooked' = OverlookedDels \cup Misdated
    /\ mode' = "restore" /\ pos' = 1 /\ file_len' = Len(log')
    /\ UNCHANGED <<now, errcode, ret, cur, notes>>

\* The file is read to its end: records that the evictions of the replay append
\* may have been flushed to it by then, and are read too.
RestoreFromAppendableFile ==
    /\ mode = "restore" /\ pos <= Len(log)
    /\ HandleCommand(log[pos], IF Len(log) < file_len + MaxEvictions THEN RestorePressure
                               ELSE {FALSE})
    /\ pos' = pos + 1
    /\ UNCHANGED <<now, mode, file_len, restarts, saved, rewritten, overlooked, notes>>

Restored == mode = "restore" /\ pos > file_len /\ cur = <<>>

StartServing ==
    /\ Restored
    /\ mode' = "serve" /\ overlooked' = {} /\ relogged' = {}
    /\ UNCHANGED <<now, container, timers, sExpiresMap, log, cur, pos, file_len, restarts, saved,
                   rewritten, deadline, outlived>>

TimePasses == Tick /\ UNCHANGED <<container, timers, sExpiresMap, log, cur, session, notes>>

Next ==
    \/ Serve \/ Handler \/ FireTimers \/ TimePasses
    \/ Restart \/ RestoreFromAppendableFile \/ StartServing

Spec == Init /\ [][Next]_vars
-----------------------------------------------------------------------------
(* Properties *)

SameValue(a, b) == a.type = b.type /\ a.ptr = b.ptr

\* Replaying the log brings back exactly the keys and values there were when
\* the process ended, not counting those that a due timer is about to delete.
\* A key that had a pending expiry may be gone: its deadline may have passed, and
\* the log keeps whole seconds.  The other
\* exceptions are real.  An expire with a negative time logs a command that is
\* to make the value anew: that makes a list longer, and an integer of a string
\* that reads as one.  And an expireat is replayed where it stands in the log:
\* when its time has come, it deletes the key in front of the commands that
\* followed while it was pending, even if one of them had moved or removed it.
RestoreBringsBack ==
    Restored /\ ~rewritten =>
        LET back == DOMAIN content \ {ev.callback : ev \in Fired}
        IN  /\ back \subseteq DOMAIN saved.content \cup Misdated
            /\ DOMAIN saved.content \subseteq back \cup saved.expiring \cup Misdated
            /\ \A k \in back \ (relogged \cup Misdated) :
                  SameValue(content[k], saved.content[k])

EmptyCollection(obj) ==
    \/ obj.type \in {OBJECT_LIST, OBJECT_HASH} /\ DOMAIN obj.ptr = {}
    \/ obj.type = OBJECT_SET /\ obj.ptr = {}

\* The rewrite makes a set of every string, and set an integer of some.
AsSet(obj) ==
    IF obj.type = OBJECT_STRING /\ CanConvertToInt64(obj.ptr)
    THEN [obj EXCEPT !.type = OBJECT_INT, !.ptr = @[1]] ELSE obj

\* Replaying a rewritten log gives the same keys and values as there were, up to
\* emptied collections, which are lost, strings that read as a number, which are
\* integers then, the overlooked keys, which may come back, and the lists logged
\* once more.  A key that had a pending expiry may be gone.
RewriteBringsBack ==
    Restored /\ rewritten =>
        LET kept == {k \in DOMAIN saved.content : ~EmptyCollection(saved.content[k])}
        IN  \A k \in Key \ (overlooked \cup relogged) :
                /\ k \in DOMAIN content =>
                      k \in kept /\ SameValue(content[k], AsSet(saved.content[k]))
                /\ k \in kept => k \in DOMAIN content \cup saved.expiring

\* sExpiresMap and the timer list agree: each entry points to a timer that
\* still exists (it is dereferenced without a check), that timer deletes this
\* very key, and no timer is left that the map has forgotten (no command could
\* cancel it any more).
ExpiresMapMatchesTimers ==
    /\ \A k \in DOMAIN sExpiresMap :
          sExpiresMap[k] \in EventIds /\ Event(sExpiresMap[k]).callback = k
    /\ \A ev \in Range(event_list) :
          ev.callback \in DOMAIN sExpiresMap /\ sExpiresMap[ev.callback] = ev.id

Runs(ops) == cur # <<>> /\ cur' = <<>> /\ cur[1] \in ops

IntegerStep(ops, Ordered(_, _)) ==
    Runs(ops) /\ Typed(cur[2], {OBJECT_INT}) => Ordered(content[cur[2]].ptr, content'[cur[2]].ptr)

\* incr and incrby never make an integer smaller, decr and decrby never make
\* it larger: at the ends of the 64-bit range they are refused, they do not
\* wrap around.
IntegersNeverWrap ==
    [][/\ IntegerStep({"incr", "incrby"}, LAMBDA old, new : old <= new)
       /\ IntegerStep({"decr", "decrby"}, LAMBDA old, new : old >= new)]_cur

Gone == DOMAIN content \ DOMAIN content'

\* Expired in this step: deleted by a timer, or by the expire or expireat that
\* found its time come.
ByExpiry ==
    /\ mode' = mode
    /\ IF cur = <<>> THEN cur' = <<>> ELSE cur[1] \in {"expire", "expireat"}

\* An expireat of the replayed log that a later command has replaced.
Replaced(k) ==
    \E i, j \in 1..Len(log) :
        i < j /\ log[i][1] = "expireat" /\ k = log[i][2] /\ k \in Range(Tail(log[j]))

\* No key expires more than a second before the deadline last set for it, over
\* moved and removed expiries, deletions and restarts.  (The log keeps whole
\* seconds.)  The exceptions are real.  A time of 2^64 ms or later wraps around.
\* A timer outlives the deletion or eviction of its key, and deletes a later key
\* of the same name.  After a restart, each expireat is replayed as if it were
\* the last, and one that a later command has moved or removed deletes the key
\* when its time has come.
NoEarlyExpiry ==
    [][ByExpiry =>
         \A k \in Gone :
            \/ /\ k \in DOMAIN deadline'
               /\ now > deadline'[k] - kMsPerSec \/ deadline'[k] >= U64
            \/ k \in outlived
            \/ restarts > 0 /\ Replaced(k)]_vars

\* The keys logged as deleted by an eviction are the keys it evicted.
EvictionsAreLogged ==
    [][log' # log /\ mode' = mode /\ cur = <<>> => Gone = Range(Tail(log'[Len(log')]))]_cur
=============================================================================
