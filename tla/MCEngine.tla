------------------------------ MODULE MCEngine ------------------------------
(* The commands the runs of Engine let the clients send, by theme. *)
EXTENDS Engine

CONSTANTS k1, k2, a, b

Str(w) == <<w>>     \* a word, or the text of a number

\* Integers at both ends of their range, strings, and keys that change type.
NumberRequests ==
    {<<op, k1>> : op \in {"incr", "decr", "get", "strlen", "type"}}
    \cup {<<op, k1, Str(2)>> : op \in {"set", "incrby", "decrby"}}
    \cup {<<"set", k1, Str(a)>>, <<"append", k1, Str(a)>>, <<"incrby", k1, Str(-1)>>,
          <<"append", k1, Str(0)>>, <<"expire", k1, Str(1)>>, <<"expire", k1, Str(0)>>,
          <<"incrby", k1, Str(a)>>, <<"incrby", k1>>, <<"ping">>}

\* The three kinds of collection, and commands of the wrong kind.
CollectionRequests ==
    {<<"lpush", k1, Str(a), Str(b)>>, <<"rpush", k1, Str(b)>>, <<"lpop", k1>>, <<"rpop", k1>>,
     <<"llen", k1>>, <<"lsetindex", k1, Str(-1), Str(a)>>, <<"lsetindex", k1, Str(1), Str(b)>>,
     <<"hset", k1, Str(a), Str(a), Str(b), Str(b)>>,
     <<"hset", k1, Str(a), Str(a), Str(b)>>,
     <<"hdel", k1, Str(a)>>, <<"hget", k1, Str(a)>>, <<"hget", k1, Str(a), Str(b)>>,
     <<"hgetall", k1>>, <<"hexists", k1, Str(a)>>, <<"hlen", k1>>, <<"sismember", k1, Str(a)>>,
     <<"sadd", k1, Str(a), Str(b)>>, <<"srem", k1, Str(a)>>, <<"smembers", k1>>, <<"scard", k1>>,
     <<"expire", k1, Str(-1)>>, <<"del", k1, k2>>, <<"exists", k1, k1>>,
     <<"overview">>, <<"total">>, <<"ping">>}

\* Keys that come, are visited and go, by deletion and by eviction.
EvictionRequests ==
    {<<"incr", k>> : k \in Key} \cup {<<"del", k>> : k \in Key}
    \cup {<<"rpush", k2, Str(a)>>, <<"evict", Str(1)>>, <<"evict", Str(-1)>>,
          <<"evict", Str(a)>>, <<"ping">>}

\* Expiries set, moved, removed, on keys that are overwritten and deleted.
ExpiryRequests ==
    {<<"expire", k1, Str(n)>> : n \in {-1, 0, 1, 7}}
    \cup {<<"expire", k2, Str(1)>>, <<"expireat", k1, Str(1)>>,
          <<"set", k1, Str(a)>>, <<"set", k2, Str(a)>>, <<"del", k1>>, <<"ttl", k1>>, <<"ping">>}

DataRequests == NumberRequests \cup CollectionRequests \cup EvictionRequests
=============================================================================
