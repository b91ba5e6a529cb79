# TLA+ models of LiteKV

LiteKV is a key-value server in C++. These modules model the parts of it whose
correctness is hard to test: the hash table that rehashes a slot at a time, the
blocked deque behind lists, the skiplist, the key space with eviction and expiry,
the command handlers with what they log, the rewriting and the replay of that
log, the timers of the event loop, the two threads behind the append-only file,
the parsing of requests that arrive in pieces, the server's sessions and
subscriptions, and the binary snapshot. TLC checks them on small instances;
TLAPS proves, for every instance, the hash table, the deque, the bookkeeping and
the replay of the engine, the firing of timers, the order of the append-only
file, and what the server keeps about its sessions and subscribers.

## The system and its parts

| Part | Code (`src/src/`) | Module |
|---|---|---|
| Hash table with incremental rehash | `hash.h`, `rehashable.h`, `hashdict.*`, `hashset.*` | `Rehashable`, `HashDict`, `HashSet`; promises: `AbstractDict`, `AbstractSet` |
| List value | `dlist.*`, list functions of `core.cpp` | `DList`; promise: `AbstractDeque` |
| Skiplist (no command uses it yet) | `skiplist.*` | `Skiplist`; promise: `AbstractSortedSet` |
| Key space, eviction | `core.*`, `valueobject.*` | `KVContainer` |
| Commands, logging, expiry, replay | `net/commands.*`, `main.cpp` | `Engine` |
| Rewriting of the log | `persistence.cpp` (`RemoveRedundancy`) | `Rewrite`, used by `Engine` |
| Clock and timers | `net/time_event.*` | `Clock`, `TimeEvent` |
| Event loop | `net/net.*` | `EventLoop` (timers), `Server` (sessions) |
| Append-only file, SIGINT | `persistence.*`, `main.cpp` | `AppendableFile`; reading it: `RequestReader` |
| Buffer, request parser | `net/buffer.*`, `net/protocol.*` | `Buffer`, `Protocol`, `RequestReader` |
| Server, sessions, pub/sub | `net/server.*`, `net/utils.cpp`, `net/commands.cpp` | `Server` |
| Binary snapshot, integer encoding | `lkvdb.*`, `encoding.*`, the `Serialize` functions | `Snapshot` (bytes), `LkvDb` (files and processes) |
| Erasing from a vector or list | `core.cpp`, `net/time_event.cpp`, `net/server.cpp` | `Lists`, used by `KVContainer`, `TimeEvent`, `Server` |
| Strings, configuration, addresses, memory statistics | `str.*`, `config.*`, `net/addr.*`, `mem.h` | see "Not modelled" |

One thread runs the event loop: it sleeps until a session is ready or a timer is
due, handles requests one at a time, and fires timers. Handling a request first
evicts keys if memory is short, then runs the handler of the command, which
changes `KVContainer`, creates or moves timers, and hands the command to
`AppendableFile`. A worker thread writes the commands to disk. At start the file
is replayed through the same handlers; a tool rewrites it to fewer commands.
`bgsave` forks a child that writes a snapshot of the key space and, before that,
closes its copies of the server's sockets.

## Modules

**Rehashable, HashDict, HashSet.** State: `cur_ht`, `backup_ht`, and `ret`, the
answer of the last call. A table is a record of its slots, `count` and
`rehashing_idx`; a slot is the set of the entries in its list, since the order of
a list only decides the order of listings. Each public call is one action,
including the slot it moves. `AbstractDict` and `AbstractSet` say what the calls
promise; `RefinesDict` and `RefinesSet` map the union of both tables to the
abstract contents. In all four refinements `ret` carries the call's arguments
with its answer, so that an answer to another question is not taken for a step.

**DList.** Nodes are integers along the chain, because the code links nodes only
at the two ends; `begin` and `end` are a node and an offset. All list operations
are actions, and `RefinesDeque` maps the chain to a sequence. A range is taken
through `KVContainer`'s treatment of negative indices; the abstract step is the
slice of the sequence. Two calls are undefined in some states, `ListRange` of a
range outside the list and `FreeRedundantNodes` of an emptied list: the answer is
then `Undefined`, and the behaviour is not followed any further (`Alive`).

**Skiplist.** `nodes` maps an element (score and text) to its `nexts` and
`prev`; an insertion draws any level up to `kMaxLevel`. The comparison is the
code's: by score, by `strncmp` over the shorter text, by length. The abstract
sorted set is given the order as a rank and knows nothing of lanes; it promises
the i-th element for an index, which `operator[]` does not look up yet.

**KVContainer.** `content` maps keys to a type, a value and the time of the last
visit; `keys_pool` is the vector eviction draws from. Values are plain sequences,
maps and sets, which the three modules above justify. A string is the sequence
of the pieces it was made of, and a number's text is one piece; digits appended
to a number make a longer number, in base `kBase` (`Joined`). The 512
buckets only partition the keys and are left out. A read through a reference to
an erased pool element yields what the build leaves there: the next key, or a
destroyed string (`NameAfterDelete`).

**Engine.** A command is its argv. `HandleCommand` evicts and dispatches; then
one action per handler changes the container and the timers, and appends to
`log`. Memory pressure is a free choice, as a second thread measures it.
`Restart` empties everything but the log; `RestoreFromAppendableFile` feeds the
log to `HandleCommand` with `sync` false, to the end of the file, which the
evictions of the replay may have made longer meanwhile. The engine assumes that the log is
complete on disk when the process ends; `AppendableFile` is about exactly that.
Before the replay `RemoveRedundancy` (module `Rewrite`) may be applied to the
log. It asserts that no `expireat` in the log is still to come, indexes lists
by non-negative numbers only, and pops from a deque without asking whether it is
empty; it is applied where that holds (`Rewritable`).
Four history variables are not in the code: `deadline`, the time last set for a
key, without wrapping around; `outlived`, the keys made anew while the timer of
their predecessor is pending; `relogged`, the lists and strings logged once more
by an `expire` with a negative time; `overlooked`, the keys whose history the
rewrite does not see as it was.

**Clock, TimeEvent, EventLoop.** Deadlines are unsigned (`% U64`), and the sleep
is truncated to an int (`AsInt`). The clock may move between any two steps. The
callback of a timer is what it closes over: in `Engine`, the key to delete.

**AppendableFile.** `main` and `worker` are the program counters of the two
threads. `Append` reads the size, switches under `mtx_`, reads the pointer and
grows the vector in separate steps, as it holds no lock; a push that overlaps
the worker's `clear` leaves destroyed records behind, and one that outgrows the
vector moves the records away under the worker's loop (`PushBackMoves`). The condition variable
loses notifications to a worker that is not asleep. `SigIntHandler` runs the
destructor on the loop thread; the signal may come at any point, also inside
`Switch`.

**Buffer, Protocol, RequestReader.** A buffer is its vector of bytes and the two
indices, stale bytes included. `TryParseFromBuffer` is one operator from a
buffer and a command cache to the same and a result. `RequestReader` drives it:
`ReadProc` for a socket, whose bytes are read in any pieces, and `ReadChunk` and
`ParseTheRest` for a log that may end anywhere. `strtoll` does not know
`p_writer_`: it goes on over stale bytes and, in a full buffer, over whatever
lies behind the vector (any byte, `beyond`).

**Server.** `sock` is the kernel's and the client's side of a connection,
`session`, `sessions_`, `subscription_sessions_` and `epoll` the server's;
`fdTable` maps descriptor numbers, which are reused, to connections. `Wait`
takes what is ready; then each handler is an action, in the order of
`EventLoop::Loop`. Clients connect, send, read, half-close or break off at any
time. `BgsaveCommand` gives a child its copies, `StopServeSockets` closes them.
A reply or a message is a tag and its two halves, so that writes can be cut;
`publish` writes to the members of a list one after the other (`Published`). If
the loop uses a freed `Session` (`undefined`) the behaviour is not followed any
further.

**Snapshot, LkvDb.** `Snapshot` has the encoders and the decoder on sequences of
small bytes, item by item. `LkvDb` has the children of `bgsave`: the temporary
file, the dump, writes that are cut or fail, a rename that fails and the unlink
that follows it, death at any point. Two children share the temporary file by
name, and each keeps the file it opened.

## Runs

| Run | Instance | Result |
|---|---|---|
| `hashdict` | 4 colliding keys, 2 values, 2 to 8 slots, load factor 1/2 | `Inv`, `RefinesDict`, `RehashProgress` hold |
| `hashset` | 6 members, 2 to 8 slots, load factor 1 | `Inv`, `RefinesSet`, `RehashProgress` hold |
| `dlist` | blocks of 2, up to 4 blocks and 4 strings | `ChainInv`, `RefinesDeque` hold |
| `event_loop` | 2 timers, counts 1, 2 and unlimited, intervals beyond half the int range | `FiringBudget`, `DueTimersFire` hold |
| `engine_data` | 2 keys, all data commands, expiries that come due, LRU eviction, the log rewritten or not | `RestoreBringsBack`, `RewriteBringsBack`, `EvictionsAreLogged`, `IntegersNeverWrap` hold |
| `engine_expiry` | 2 keys, expiries up to one that wraps around, random eviction while restoring | `ExpiresMapMatchesTimers`, `PoolMatchesContent`, `NoEarlyExpiry` hold |
| `appendable_file` | caches of 2, 6 commands, SIGINT anywhere | `WrittenAtMostOnce`, `InOrderUnlessOverrun`, `ShutdownCompletes` hold |
| `appendable_file_shutdown` | caches of 1, 4 commands | `ShutdownWritesAll` violated |
| `protocol` | 2 streams of 2 requests, all cuts, a buffer of 8 bytes that grows | `StreamKept`, `ErrorsOnlyAtStarOrFullBuffer`, `EveryRecordLoaded`, `StallsOnlyAfterAnArgument`, `AtMostOneReadLate` hold |
| `server` | 2 connections, 3 requests, one fork, socket buffers of 3 half replies | `SessionsAreWatched`, `FreedSessionsAreForgotten`, `SubscriptionsAgree`, `MessagesGoToSubscribers`, `OnlyMessagesCutOff`, `RepliesAreWhole`, `EverythingIsAnswered` hold |
| `skiplist` | 5 elements of 4 ranks, 3 lanes | `LanesAreSublists`, `PrevMirrorsNext`, `CurMaxLevelIsTight`, `RefinesSortedSet` hold |
| `lkvdb` | 13 contents, 2 saves, one failure | `DumpIsLastSnapshot`, `LoadBringsBack`, `TornDumpKeepsWholeItems`, `DumpOnlyReplaced` hold |

`appendable_file_shutdown` shows that a worker that sees `stopped_` at the top of
its loop exits without writing, and the destructor writes only one cache.

Several properties hold with an exception that is part of their statement. Each
exception names one cause in the code, and the run shows that there is no other:

- `DueTimersFire`: the sleep is computed in 64 bits and passed as an int. A
  timer 2^31 ms away (25 days) makes it negative, and `epoll_wait` then sleeps
  until a client sends something, past any deadline (`net.cpp:42`).
- `RefinesDeque`: `lrange` with a begin behind the list, or a begin in front of it
  and an end at its first element, dereferences null or reads in front of a block,
  where the comment says `handle negative index out of range` (`core.cpp:577`)
  and the repository's `README.md:173` promises the items in the range.
  `FreeRedundantNodes` of an emptied list frees the whole chain and writes through
  null, unless a spare node stops it at either end (`dlist.cpp:264`).
- `RefinesSortedSet`: `Skiplist::operator[]` answers the first node for every
  index.
- `RestoreBringsBack`, `RewriteBringsBack`: `expire key -1` logs a command that
  makes the value, which the replay applies on top of it (`core.cpp:228`): an
  `rpush` makes a list longer, and a `set` makes an integer of a string such as
  `append` had made from digits.
- `RestoreBringsBack`, `RewriteBringsBack`: an `expireat` in the log whose time has
  come deletes the key where it stands, in front of the commands that followed
  while it was pending; one too far away is not replayed as it was (`Misdated`;
  the second cause lies beyond the bounds of `engine_data`). A key with a pending
  expiry may be gone.
- `RewriteBringsBack`: the rewrite sees a `del` of several keys only for the
  first of them (`persistence.cpp:205`), drops emptied collections, and brings a
  string back by `set`, so that one that reads as a number is an integer (`AsSet`).
- `NoEarlyExpiry`: the interval is multiplied by 1000 and added to the time in 64
  bits, so that a time of 2^64 ms or later wraps around (`commands.cpp:386`). The
  timer of a deleted or evicted key deletes its successor (`outlived`). And an
  `expireat` in the log that was moved or removed later is still in force after a
  restart (`commands.cpp:447`).
- `ShutdownCompletes`: SIGINT inside `Switch` leaves the mutex locked; the
  worker, or the destructor itself, waits for it for ever (`main.cpp:14`).
- `InOrderUnlessOverrun`: a cache is switched to before it was written.
- `StreamKept`: the third read of one `ReadToBuf` overwrites the second's bytes
  (`utils.cpp:8`). `RepliesAreWhole`: the third send of one `WriteFromBuf` goes on
  in the wrong place (`utils.cpp:29`), and messages cut into replies
  (`commands.cpp:987`).
- `ErrorsOnlyAtStarOrFullBuffer`: a well-formed request is refused when a read
  ends behind its `*` (`protocol.cpp:57`) or fills the buffer.
- `StallsOnlyAfterAnArgument`: arguments left in the cache by a read that ended
  between two of them are counted twice (`protocol.cpp:76`); the request is
  handled one read later.
- `SubscriptionsAgree`, `MessagesGoToSubscribers`: `WriteProc` closes a session
  without taking it off the lists (`server.cpp:231`), and its descriptor number
  may have been given to another client.
- `OnlyMessagesCutOff`: a full socket is taken for a closed one
  (`server.cpp:226`), which only published messages can bring about.
- `FreedSessionsAreForgotten`: a child that still has a connection open keeps it
  registered with epoll after the server has closed it.
- `DumpIsLastSnapshot`, `DumpOnlyReplaced`: overlapping saves share the temporary
  file; a failed write goes unnoticed (`lkvdb.cpp:43`).
- `LoadBringsBack`: the reader loses its place behind an empty collection, and
  behind an empty string inside one that is not its last.

The models also keep behaviour that no run states a property about. Random
eviction reads the name of an evicted key through a reference after the element
was erased, so that the log deletes another key (`core.cpp:150`);
`EvictionsAreLogged` is therefore checked for LRU. LRU eviction ignores the
number asked for (`core.cpp:161`), `set` keeps a pending expiry, an eviction is
logged even while the log is replayed, `ttl` wraps around for an overdue timer, a
popped empty string is not logged, and `type` answers `none` for a set.

### Bounds

Constants stand for large numbers of the code where only order matters:
`kBlockSize`, `InitSlots`, `kEvictBatch`, `cache_max_size`, `INT64_MAX`,
`kBase`, `kMsPerSec`, `U64` and `U32`. `U64` is `2 * (INT64_MAX + 1)`, as in the
code: products, sums and differences of times wrap around it.

- Two growth steps of the hash table show a rehash starting while entries of
  the previous one have just arrived; collisions differ in each size.
- Blocks of two put every second push at a block boundary, on both sides.
- `MaxLog` (3 and 4) ends a run after so many logged commands, `MaxLogAfter` after
  a restart; every pair of data commands on a key, with an eviction between them,
  is reached. At the bound only `ping` is served, so the system is never stuck.
- `INT64_MAX = 2` and `kBase = 2` put both ends of the range, and a number made
  of two appended digits, within two commands. In `engine_expiry` it is 8 with
  seconds of 3 ms: an `expire` of 7 seconds is 21 ms and wraps around `U64 = 18`.
- `MaxTime` 1 in `engine_data` is one second: an expiry is pending, or has come due
  before or behind the commands that follow it.
- One restart, after any number of logged commands: a second one would replay
  the same log, with at most a few commands more. `MaxEvictions` bounds the
  commands that evictions add to the log during the replay.
- Caches of 2 and 6 commands allow two switches without a write between them.
- `U32 = 8` puts intervals on both sides of the largest int.
- `protocol`: arguments that are empty, that look like markers, or that outgrow
  the buffer; every split of the stream into reads. Only the first reads
  (`MaxFirstReads`) of a socket are split further into up to three system calls.
- `server`: two connections are a slow subscriber and another client, or a
  client and its successor on the same descriptor. `SndBuf = 3` cuts the second
  reply in half. Three requests suffice for subscribe, publish and one more.
- `skiplist`: three lanes give nodes that are passed below, met and passed above;
  texts that are prefixes of each other, and two that differ behind a NUL.
- `lkvdb`: bytes of 3 bits, groups of 2 and integers of 5, so that one to three
  groups occur and flags can be mistaken for data; all interleavings of 2 saves.

Deadlock is not checked where the environment may stop: a stream that has been
read, clients that have left, saves that are over.

### Fairness

`EventLoop`: the loop thread keeps running and time passes; clients owe nothing.
`AppendableFile`: both threads keep running and a timed wait ends; no command has
to come and no signal. Weak fairness is enough, because after SIGINT the loop
thread takes the mutex only once the worker has gone. `Server`: the loop thread
and the forked child run, and a client that has not left reads what it is sent;
nothing makes a client connect, send or leave. Safety runs need none.

## Proofs

### The hash table

`RehashableProofs` has the lemmas on tables and the theorems on both users of
them, `HashDict` (`DictSpec`) and `HashSet` (`SetSpec`). They hold for every set
of keys and values, every hash function into the naturals, every initial size and
load factor.

- `HashDictInvariant`, `HashSetInvariant`: `DictSpec => []Inv`, `SetSpec => []Inv`.
- `HashDictRefinesMap`, `HashSetRefinesSet`: the detailed specification
  implements the abstract one.
- `HashDictRehashProgress`, `HashSetRehashProgress`: every call that changes the
  table, or looks a key up in a `HashDict`, takes a running rehash further.

`Inv` is inductive as it stands. It says that every entry is in the slot its
hash selects (`Placed`), that a key occurs once in a table (`UniqueKeys`), that
`count` is the number of entries (`CountOK`), that no key is in both tables
(`Separate`) and that slots below `rehashing_idx` are empty (`EmptyBelow`). The
last two are what refinement needs: a lookup that asks one table and then the
other finds the only entry there can be, and a table is dropped only when it is
empty. The argument goes through one lemma per table operation (put, erase, move
a slot), then one per call, then the temporal step.

The assumptions are the named `ASSUME`s of the modules: `HashAssumption`,
`InitSlotsAssumption`, `LoadAssumption`, and for sets `ValueAssumption`
(there is a value for the entries of a set to carry).

### Induction on lists

`ListLemmas` states induction as a fact about a set of naturals (`Induction`: a
set with 0 and all successors holds every natural), so that no operator has to
be passed to a theorem. From it come the lemmas on the recursive functions of the
models: what `Erased` keeps, in which order and how often, what `Append` and
`Reverse` do to the elements of a list.

### The deque

`DListProofs`, for every block size, set of strings and set of indices
(`BlockAssumption`):

- `ChainIsConsistent`: `Spec => []ChainInv`. `ChainInv` with the types is
  inductive. A node and an offset are one number (`Place`), so that a step across
  a block boundary is an addition; each operation is one lemma on the places that
  are live before and after it.
- `ChainIsADeque`: `Spec => RefinesDeque`, whose exceptions (`Undone`) are the two
  undefined calls, in exactly the states where they are undefined. `ContentsOK` gives the i-th element as
  the cell at `Place(begin) + i - 1`; the walks of slices and listings are folded
  by induction on the number of steps.

### The engine

`EngineProofs`, for every set of requests, every eviction batch and any number of
keys, commands and restarts:

- `PoolHasEveryKeyOnce` and `IntegersDoNotWrap`, from `ContainerInv`: the pool is
  a list of the stored keys without repetition, and every stored integer fits its
  width. Both policies of eviction are covered, random eviction with the names it
  reads after the element was erased.
- `ExpiresMapIsExact`, from `TimersInv`: every timer deletes one key, has an entry
  in `sExpiresMap`, and its id names no other timer; that ids are unique is what
  a lookup or a removal by id relies on.
- `LruEvictionsAreLogged`: for LRU the keys in the logged `del` are those erased.
- `ReplayIsExact` (`ReplayProofs`):
  `Repeatable => (Spec => [](RestoreBringsBack /\ RestoreIsExact))`, where
  `RestoreIsExact` makes no exceptions. The premises (`Repeatable`) are: LRU eviction, no memory pressure while the file is replayed,
  no request `expire` or `expireat`, and no empty string put into a list. Each one
  is needed, see "Only model-checked".

The argument for `ReplayIsExact` has three parts. `Makes(v, cmd, w)` says what a
command makes of values, types and all, with the times of visits left out. Every
handler, for any command that is not an expiry or an eviction, makes of the
values what `Makes` says, and logs the command unless it changed nothing
(`HandlerRepeats`, from one lemma per operation of `KVContainer`). `Makes` is a
function of the values and the command (`MakesOne`): a command that fails, meets
a wrong type or an overflow does so again. A `History` of a log lists the values
before and after each of its commands; an eviction continues it with the `del`
it logs (`LruMakes`). The inductive invariant `ReplayInv` says that the log has a
history which ends with the values there are while serving, and with the values
at the shutdown while restoring, when the values are those at the place the replay
has come to. At the end of the replay the two places are the same.

### The event loop

`EventLoopProofs`, for any number of timers, any intervals and counts and any
width of the clock (`LoopAssumption`):

- `TimersFireAsArmed`: `0 \notin Count => (Spec => []FiringBudget)`. The inductive
  invariant adds that an id names one timer: `HandleFiredTimeEvent` fires entries
  of the list, the budget is kept by id, and the two agree only if no other
  timer answers to the id. The callers arm a timer once; a count of 0 is left
  out, because such a timer sits in the list until the next round drops it.

### The append-only file

`AppendableFileProofs`: `CommandsWrittenAtMostOnce` and `CommandsWrittenInOrder`,
for any size of the caches, any number of commands and a signal at any point
(`CacheAssumption`). The inductive invariant `IInv` has four parts. `Exclusion`
says where the mutex is held and that the destructor goes on without a worker.
`OnceInv` says that file and caches have no command in common, except between
`Write` and `Clear`, when the worker's cache is in the file as well. `OrderInv`,
until a cache is overrun, orders file, backup cache and current cache; it needs
the fact that a push overtaken by the worker's exchange of the caches meets an
empty current cache. Lemmas on concatenation, on `Grown` and on what a worker sees
of records that are moved away (`TornRelations`) carry the data, and
all steps that move no record are dealt with at once (`Quiet`).

### Sessions and subscribers

`ServerProofs`, for any number of connections, requests, forks and channels and a
socket buffer of any size (`ServerAssumption`; `RequestsAssumption`: a request is
a list of words, and `subscribe` and `publish` name a channel).

- `OpenSessionsAreWatched` and `FreedOnlyWithAChild`. The strengthening (`IInv`)
  is `EventsAreCurrent`: the events still to be handled belong to open sessions,
  because a handler that closes a session drops its events. Without it a handler
  might close a descriptor that belongs to another session by now.
- `ListsMatchSessions`, `OnlyInheritedNumbersMislead`, `RepliesAloneNeverCutOff`
  and `WritesGoOnWhereTheyStopped`, from one further invariant (`JInv`). An open
  descriptor is the one of an open session, and a session that `WriteProc` closed
  keeps its number (`DescriptorsOK`). A client that has not been accepted yet is
  in no list (`Fresh`). When epoll has reported room, only a message can have
  taken it before `WriteProc` runs (`WritableUnlessMessaged`). The bytes in
  `write_buf` go on where the last byte sent stopped and end with a whole reply
  (`RepliesGoOn`), until a message or a third send comes between. A publish is
  followed through its list by induction on the members told.

### Only model-checked

- Liveness is out of the prover's reach: `DueTimersFire`, `ShutdownCompletes`,
  `EverythingIsAnswered`.
- `RequestReader`, `Snapshot`, `LkvDb` and `Skiplist` use recursive operators over
  bytes and lanes, which the prover's SMT backend does not take.
- `RestoreBringsBack` without `Repeatable`. An eviction during the replay is
  logged and deletes keys; random eviction logs wrong names; a popped empty
  string is not logged; an expiry in the log is still in force when it has been
  moved or removed. The `engine_data` run has expiries that are pending, passed
  and removed, with the exceptions the statement makes.
- `RewriteBringsBack`: the rewrite folds the log into maps per key, and what a
  fold computes would need an invariant for every type of value.
- `NoEarlyExpiry`: it would need an invariant that ties the timer of every key, or
  every `expireat` still to be replayed, to the deadline or to one of the causes.
- `EvictionsAreLogged` for random eviction does not hold; see above.

## Not modelled

- Commands that the source answers as not supported: `getrange`, `setrange`,
  `linsert`, `lrem`, `spop`.
- Functions without a caller: `Buffer`'s readers that forward, search or return
  other string types, the remaining decoders and estimates of `encoding.cpp`.
- The branches of `LiteKVLoad` for keys with an expiry. `sExpiresMap` is a static
  variable of a header (`core.h:24`), each source file has its own, and the one
  `Snapshot` asks is always empty: the flag it writes is 0.
- Configuration, addresses, socket options and memory statistics: parsing at
  start-up and wrappers of system calls. Their results are constants, and memory
  pressure is a free choice. Strings are values or sequences of bytes.
- Failing `fork`, `accept` and `epoll_ctl`, and interrupted calls: the only signal
  handler does not return.
- Destructors that only free memory. `~Session` closes its descriptor once more;
  for a session that a subscription list kept this happens when the server ends.

## Plan

A proof of `RewriteBringsBack` for strings and integers, on top of `Makes`. A
property of the names that random eviction logs.
