--------------------------- MODULE AppendableFile ---------------------------
(***************************************************************************)
(* AppendableFile (persistence.cpp): the event-loop thread appends         *)
(* commands to one cache while a worker thread writes the other to disk.   *)
(* The worker and Switch hold mtx_; Append reads the caches' size and      *)
(* pushes without it.  SIGINT runs the destructor on the loop thread.      *)
(*                                                                         *)
(* The commands are numbered in the order they are appended; a record      *)
(* whose destructor has run is Destroyed, whatever it will be written as.  *)
(***************************************************************************)
EXTENDS Integers, Sequences, Functions

CONSTANTS
    cache_max_size,
    MaxCommands

ASSUME CacheAssumption == cache_max_size \in Nat \ {0} /\ MaxCommands \in Nat

VARIABLES
    cache,        \* cache1_ and cache2_
    cur,          \* the one cur_caches_ points to; backup_caches_ the other
    file,
    mtx,          \* who holds mtx_
    stopped, auto_flush,
    main, worker, \* where the two threads are
    next,         \* the next command to be appended
    target, slot, \* the cache push_back was called on, its size then
    overrun       \* was a cache switched to before it had been written

vars == <<cache, cur, file, mtx, stopped, auto_flush, main, worker, next, target, slot, overrun>>

Destroyed == 0

backup == 3 - cur

Init ==
    /\ cache = [c \in {1, 2} |-> <<>>] /\ cur = 1 /\ file = <<>>
    /\ mtx = "free" /\ stopped = FALSE /\ auto_flush = TRUE
    /\ main = "loop" /\ worker = "top" /\ next = 1 /\ target = 1 /\ slot = 0 /\ overrun = FALSE
-----------------------------------------------------------------------------
(* cond_ *)

\* What the worker waits for.
WorkerNeeded == auto_flush /\ (Len(cache[backup]) * 5 >= cache_max_size * 4 \/ stopped)

\* notify_one: lost unless the worker is asleep.
Notify == worker' = IF worker = "asleep" THEN "woken" ELSE worker
-----------------------------------------------------------------------------
(* The event-loop thread *)

SetAutoFlush(on) ==
    /\ main = "loop"
    /\ auto_flush' = on
    /\ IF on THEN Notify ELSE UNCHANGED worker
    /\ UNCHANGED <<cache, cur, file, mtx, stopped, main, next, target, slot, overrun>>

\* Append: the caches' size is looked at first.
StartAppend ==
    /\ main = "loop" /\ next <= MaxCommands
    /\ main' = IF Len(cache[cur]) >= cache_max_size THEN "lock" ELSE "load"
    /\ UNCHANGED <<cache, cur, file, mtx, stopped, auto_flush, worker, next, target, slot, overrun>>

\* Switch: mtx_ is held from here ...
LockSwitch ==
    /\ main \in {"lock", "final lock"} /\ mtx = "free"
    /\ mtx' = "main"
    /\ main' = IF main = "lock" THEN "swap" ELSE "final swap"
    /\ UNCHANGED <<cache, cur, file, stopped, auto_flush, worker, next, target, slot, overrun>>

\* ... to here.
Switch ==
    /\ cur' = backup
    /\ mtx' = "free"
    /\ UNCHANGED <<cache, file, stopped, auto_flush, next, target, slot>>

AppendSwitch ==
    /\ main = "swap"
    /\ Switch
    /\ main' = "load"
    /\ overrun' = (overrun \/ cache[backup] # <<>>)
    /\ IF auto_flush THEN Notify ELSE UNCHANGED worker

\* cur_caches_->push_back(cache): the pointer is read, the record is put
\* behind the last one, and the end of the vector is moved.
LoadCur ==
    /\ main = "load"
    /\ target' = cur /\ main' = "construct"
    /\ UNCHANGED <<cache, cur, file, mtx, stopped, auto_flush, worker, next, slot, overrun>>

Construct ==
    /\ main = "construct"
    /\ slot' = Len(cache[target]) /\ main' = "grow"
    /\ UNCHANGED <<cache, cur, file, mtx, stopped, auto_flush, worker, next, target, overrun>>

\* If the worker has cleared the vector since, its end is moved from where it
\* is now or from where it was.
Grown ==
    IF Len(cache[target]) = slot THEN {Append(cache[target], next)}
    ELSE {<<Destroyed>>, Append([i \in 1..slot |-> Destroyed], next)}

PushBack ==
    /\ main = "grow"
    /\ \E records \in Grown : cache' = [cache EXCEPT ![target] = records]
    /\ next' = next + 1 /\ main' = "loop"
    /\ UNCHANGED <<cur, file, mtx, stopped, auto_flush, worker, target, slot, overrun>>

\* Beyond the reserved size push_back may move the records to a larger array.
\* If the worker is in its loop over them, having written some, it reads the
\* others where they were.
PushBackMoves ==
    /\ main = "grow" /\ worker = "write" /\ target = backup
    /\ slot = Len(cache[target]) /\ slot >= cache_max_size
    /\ cache' = [cache EXCEPT ![target] = Append(@, next)]
    /\ \E written \in 0..slot :
          file' = file \o [i \in 1..slot |-> IF i <= written THEN cache[target][i] ELSE Destroyed]
    /\ next' = next + 1 /\ main' = "loop" /\ worker' = "clear"
    /\ UNCHANGED <<cur, mtx, stopped, auto_flush, target, slot, overrun>>

\* SigIntHandler: `delete history', wherever the signal finds the thread.
SigIntHandler ==
    /\ ~stopped
    /\ main \in {"loop", "lock", "swap", "load", "construct", "grow"}
    /\ stopped' = TRUE /\ auto_flush' = TRUE /\ main' = "notify"
    /\ UNCHANGED <<cache, cur, file, mtx, worker, next, target, slot, overrun>>

NotifyStopped ==
    /\ main = "notify"
    /\ Notify /\ main' = "join"
    /\ UNCHANGED <<cache, cur, file, mtx, stopped, auto_flush, next, target, slot, overrun>>

JoinWorker ==
    /\ main = "join" /\ worker = "exited"
    /\ main' = "final lock"
    /\ UNCHANGED <<cache, cur, file, mtx, stopped, auto_flush, worker, next, target, slot, overrun>>

FinalSwitch ==
    main = "final swap" /\ Switch /\ main' = "final flush" /\ UNCHANGED <<worker, overrun>>

FlushFromMutant == IF cache[cur] # <<>> THEN cur ELSE backup

\* The cache Flush writes: backup_caches_, unless only cur_caches_ has anything.
FlushFrom == IF cache[backup] # <<>> THEN backup ELSE cur

\* Flush in one piece: the worker is gone.
FinalFlush ==
    /\ main = "final flush"
    /\ file' = file \o cache[FlushFrom]
    /\ cache' = [c \in {1, 2} |-> <<>>]
    /\ main' = "exit"
    /\ UNCHANGED <<cur, mtx, stopped, auto_flush, worker, next, target, slot, overrun>>
-----------------------------------------------------------------------------
(* The worker thread: BackgroundHandler *)

Top ==
    /\ worker = "top"
    /\ \/ stopped /\ worker' = "exited"
       \/ ~stopped /\ worker' = "lock"
    /\ UNCHANGED <<cache, cur, file, mtx, stopped, auto_flush, main, next, target, slot, overrun>>

\* Taking mtx_: at the start of a round, after a notification, after a timeout.
LockWorker ==
    /\ worker \in {"lock", "woken", "timed out"} /\ mtx = "free"
    /\ mtx' = "worker"
    /\ worker' = IF worker = "timed out" THEN "flush" ELSE "check"
    /\ UNCHANGED <<cache, cur, file, stopped, auto_flush, main, next, target, slot, overrun>>

CheckNeeded ==
    /\ worker = "check"
    /\ worker' = IF WorkerNeeded THEN "flush" ELSE "falling asleep"
    /\ UNCHANGED <<cache, cur, file, mtx, stopped, auto_flush, main, next, target, slot, overrun>>

FallAsleep ==
    /\ worker = "falling asleep"
    /\ worker' = "asleep" /\ mtx' = "free"
    /\ UNCHANGED <<cache, cur, file, stopped, auto_flush, main, next, target, slot, overrun>>

FlushIntervalMutant == FALSE /\ UNCHANGED vars

\* wait_for gives up after flush_interval_ and the worker flushes anyway.
FlushInterval ==
    /\ worker = "asleep"
    /\ worker' = "timed out"
    /\ UNCHANGED <<cache, cur, file, mtx, stopped, auto_flush, main, next, target, slot, overrun>>

StartFlush ==
    /\ worker = "flush"
    /\ IF cache[1] = <<>> /\ cache[2] = <<>>
       THEN worker' = "top" /\ mtx' = "free" /\ UNCHANGED cur
       ELSE worker' = "write" /\ cur' = 3 - FlushFrom /\ UNCHANGED mtx
    /\ UNCHANGED <<cache, file, stopped, auto_flush, main, next, target, slot, overrun>>

\* The range-based for fixes the end of the cache when it starts.
Write ==
    /\ worker = "write"
    /\ file' = file \o cache[backup]
    /\ worker' = "clear"
    /\ UNCHANGED <<cache, cur, mtx, stopped, auto_flush, main, next, target, slot, overrun>>

ClearMutant ==
    /\ worker = "clear"
    /\ mtx' = "free" /\ worker' = "top"
    /\ UNCHANGED <<cache, cur, file, stopped, auto_flush, main, next, target, slot, overrun>>

Clear ==
    /\ worker = "clear"
    /\ cache' = [cache EXCEPT ![backup] = <<>>]
    /\ mtx' = "free" /\ worker' = "top"
    /\ UNCHANGED <<cur, file, stopped, auto_flush, main, next, target, slot, overrun>>

\* The signal has interrupted Switch, which will not release the mutex any more:
\* the handler waits for a worker that waits for it, or waits for it itself.
HandlerDeadlocked ==
    /\ mtx = "main"
    /\ \/ main = "join" /\ worker \in {"lock", "woken", "timed out"}
       \/ main = "final lock"

Exited == (main = "exit" \/ HandlerDeadlocked) /\ UNCHANGED vars

MainSteps ==
    \/ LockSwitch \/ AppendSwitch \/ LoadCur \/ Construct \/ PushBack \/ PushBackMoves
    \/ NotifyStopped \/ JoinWorker \/ FinalSwitch \/ FinalFlush

WorkerSteps ==
    Top \/ LockWorker \/ CheckNeeded \/ FallAsleep \/ FlushInterval \/ StartFlush \/ Write \/ Clear

Next ==
    \/ \E on \in BOOLEAN : SetAutoFlush(on)
    \/ StartAppend \/ SigIntHandler
    \/ MainSteps \/ WorkerSteps \/ Exited

\* Both threads run, and timed waits end; no client has to send a command and
\* no signal has to come.
Spec == Init /\ [][Next]_vars /\ WF_vars(MainSteps) /\ WF_vars(WorkerSteps)
-----------------------------------------------------------------------------
(* Properties *)

\* What a Destroyed record is written as, nobody knows: only the commands count.
Distinct(s) == \A i, j \in DOMAIN s : i < j /\ s[i] # Destroyed => s[i] # s[j]

Ascending(s) ==
    \A i, j \in DOMAIN s : i < j /\ s[i] # Destroyed /\ s[j] # Destroyed => s[i] < s[j]

\* No command is written twice, by the worker and again by a later round or by
\* the destructor, whichever pointers were swapped meanwhile.
WrittenAtMostOnce == Distinct(file)

\* Commands reach the file in the order they were appended, for as long as
\* Append never switches back to a cache the worker has not written yet.
InOrderUnlessOverrun == ~overrun => Ascending(file)

\* SIGINT ends the process: the worker wakes up and exits, even though it is
\* notified without the mutex and may not be asleep yet, and the destructor
\* gets the mutex.  The one exception is real: a signal that interrupts Append
\* while it holds the mutex.
ShutdownCompletes == stopped ~> main = "exit" \/ HandlerDeadlocked

\* Every command whose Append returned before SIGINT is in the file when the
\* process ends.
ShutdownWritesAll == main = "exit" => 1..(next - 1) \subseteq Range(file)
=============================================================================
