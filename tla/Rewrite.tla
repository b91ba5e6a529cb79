------------------------------ MODULE Rewrite -------------------------------
(***************************************************************************)
(* AppendableFile::RemoveRedundancy (persistence.cpp), the offline rewrite *)
(* of a log: the commands are filed by their first key, what a later set,  *)
(* del or passed expireat makes void is dropped, and the rest is played on *)
(* plain containers to give one command per key.                           *)
(***************************************************************************)
EXTENDS KVContainer

\* populate_caches_func: a command is filed under argv[1] alone.
CommandsOf(log, key) == SelectSeq(log, LAMBDA cmd : cmd[2] = key)

Clears(cmd) ==
    \/ cmd[1] \in {"del", "set"}
    \/ cmd[1] = "expireat" /\ GetCurrentSec >= cmd[3][1]

SequentialMutant(cmds) == SelectSeq(cmds, LAMBDA cmd : cmd[1] \notin {"del", "expireat"})

\* The queue `sequential': the commands from the last one that clears it on.
Sequential(cmds) ==
    LET from == Max({1} \cup {i \in DOMAIN cmds : Clears(cmds[i])})
    IN  SelectSeq(SubSeq(cmds, from, Len(cmds)), LAMBDA cmd : cmd[1] \notin {"del", "expireat"})

ListOps == {"lpush", "rpush", "lpop", "rpop", "lsetindex"}
HashOps == {"hset", "hdel"}
SetOps == {"sadd", "srem"}
IntOps == {"incr", "decr", "incrby", "decrby"}

Emptied == [list |-> <<>>, hash |-> [f \in {} |-> <<>>], uset |-> {}, string |-> <<>>]

AuxList(list, op, args) ==
    CASE op = "lpush" -> Reverse(args) \o list
      [] op = "rpush" -> list \o args
      [] op = "lpop" -> Tail(list)
      [] op = "rpop" -> Front(list)
      [] op = "lsetindex" -> [list EXCEPT ![args[1][1] + 1] = args[2]]

AuxHash(hash, op, args) ==
    LET fields == Range(args)
        new == {2 * i - 1 : i \in 1..(Len(args) \div 2)}
        at(f) == Max({i \in new : args[i] = f})
    IN  IF op = "hdel" THEN [f \in DOMAIN hash \ fields |-> hash[f]]
        ELSE [f \in DOMAIN hash \cup {args[i] : i \in new} |->
                 IF \E i \in new : args[i] = f THEN args[at(f) + 1] ELSE hash[f]]

AuxInt(string, op, args) ==
    LET val == IF CanConvertToInt64(string) THEN string[1] ELSE 0
        by == IF args = <<>> THEN 1 ELSE args[1][1]
    IN  IF string # <<>> /\ ~CanConvertToInt64(string) THEN string
        ELSE IntToString(Int64(IF op \in {"incr", "incrby"} THEN val + by ELSE val - by))

\* One command played on the auxiliary containers.
Play(aux, cmd) ==
    LET op == cmd[1]
        args == SubSeq(cmd, 3, Len(cmd))
    IN  CASE op \in ListOps -> [aux EXCEPT !.list = AuxList(@, op, args)]
          [] op \in HashOps -> [aux EXCEPT !.hash = AuxHash(@, op, args)]
          [] op = "sadd" -> [aux EXCEPT !.uset = @ \cup Range(args)]
          [] op = "srem" -> [aux EXCEPT !.uset = @ \ Range(args)]
          [] op = "append" -> [aux EXCEPT !.string = Joined(@, args[1])]
          [] op \in IntOps -> [aux EXCEPT !.string = AuxInt(@, op, args)]
          [] op = "set" -> [aux EXCEPT !.string = args[1]]

\* The containers after each of the commands, from the first on.
Auxiliaries(cmds) ==
    LET aux[n \in 0..Len(cmds)] == IF n = 0 THEN Emptied ELSE Play(aux[n - 1], cmds[n])
    IN  aux

\* The elements of a hash map or hash set, in some order.
InSomeOrder(S) == CHOOSE order \in Listings(Cardinality(S), S) : TRUE

\* The last command decides what kind of command is generated; the fields of a
\* hash and the members of a set come in some order.
Generated(key, cmds) ==
    LET aux == Auxiliaries(cmds)[Len(cmds)]
        op == Last(cmds)[1]
    IN  CASE op \in ListOps -> <<"rpush", key>> \o aux.list
          [] op \in HashOps -> <<"hset", key>> \o Entries(InSomeOrder(DOMAIN aux.hash), aux.hash)
          [] op \in SetOps -> <<"sadd", key>> \o InSomeOrder(aux.uset)
          [] OTHER -> <<"set", key, aux.string>>

\* One command for each key that has any left, in the order of a hash map.
RemoveRedundancy(log) ==
    LET live == {k \in {cmd[2] : cmd \in Range(log)} : Sequential(CommandsOf(log, k)) # <<>>}
        order == InSomeOrder(live)
    IN  [i \in DOMAIN order |-> Generated(order[i], Sequential(CommandsOf(log, order[i])))]

\* The deque has what is popped from it or set in it.
Playable(aux, cmd) ==
    /\ cmd[1] \in {"lpop", "rpop"} => aux.list # <<>>
    /\ cmd[1] = "lsetindex" => cmd[3][1] \in 0..(Len(aux.list) - 1)

\* Where the rewrite is defined: elsewhere it reads argv[1] of a command without
\* keys, aborts by its assertion on an expireat whose time has not come, indexes
\* a list by a wrapped negative number, or pops from a list that it has taken to
\* be gone with its expired key.
Rewritable(log) ==
    /\ \A cmd \in Range(log) : Len(cmd) > 1 /\ (cmd[1] = "expireat" => Clears(cmd))
    /\ \A k \in {cmd[2] : cmd \in Range(log)} :
          LET cmds == Sequential(CommandsOf(log, k))
          IN  \A n \in DOMAIN cmds : Playable(Auxiliaries(cmds)[n - 1], cmds[n])
=============================================================================
