----------------------------- MODULE EventLoop ------------------------------
(***************************************************************************)
(* EventLoop::Loop (net.cpp): compute how long until the next timer, sleep *)
(* in epoll_wait for at most that long, serve the sessions that are ready, *)
(* fire the timers that are due.  The clock moves between any two of these *)
(* steps.  While it serves, the loop creates, updates and removes timers.  *)
(***************************************************************************)
EXTENDS TimeEvent

CONSTANTS Interval, Count, kIdleWait, U32, MaxEvents

ASSUME LoopAssumption ==
    /\ Interval \subseteq Nat /\ Count \subseteq Int
    /\ kIdleWait \in Nat /\ U32 \in Nat /\ MaxEvents \in Nat

VARIABLES
    pc,        \* the step of the loop that comes next
    timeout,   \* what epoll_wait still sleeps; below zero: until I/O
    fired,     \* how often each timer has fired since it was last armed
    granted    \* the count it was last armed with

vars == <<now, timers, pc, timeout, fired, granted>>

Ids == 1..MaxEvents

Init ==
    /\ now = 0 /\ TimersInit
    /\ pc = "find" /\ timeout = 0
    /\ fired = [i \in Ids |-> 0] /\ granted = [i \in Ids |-> 0]

HowLongTillNextFiredMutant ==
    LET nearest == FindNearestTimeEvent
    IN  IF nearest = {} THEN U32 \div 2 ELSE Distance(CHOOSE ev \in nearest : TRUE)

HowLongTillNextFired ==
    LET nearest == FindNearestTimeEvent
    IN  IF nearest = {} THEN kIdleWait ELSE Distance(CHOOSE ev \in nearest : TRUE)

\* Epoller::Wait takes an int.
AsInt(ms) == LET m == ms % U32 IN IF m >= U32 \div 2 THEN m - U32 ELSE m

Wait ==
    /\ pc = "find"
    /\ timeout' = AsInt(HowLongTillNextFired)
    /\ pc' = "wait"
    /\ UNCHANGED <<now, timers, fired, granted>>

TimedOut ==
    /\ pc = "wait" /\ timeout = 0
    /\ pc' = "fire"
    /\ UNCHANGED <<now, timers, timeout, fired, granted>>

\* Some session is ready: the clients decide when.
Ready ==
    /\ pc = "wait"
    /\ pc' = "serve" /\ timeout' = 0
    /\ UNCHANGED <<now, timers, fired, granted>>

Arm(id, count) ==
    fired' = [fired EXCEPT ![id] = 0] /\ granted' = [granted EXCEPT ![id] = count]

AddTimeEvent ==
    /\ pc = "serve" /\ sTimeEventId < MaxEvents
    /\ \E i \in Interval, c \in Count :
          /\ c < 0 => i > 0      \* else due again in every round, for ever
          /\ CreateTimeEvent(i, "callback", c)
          /\ Arm(sTimeEventId + 1, c)
    /\ UNCHANGED <<now, pc, timeout>>

Update ==
    /\ pc = "serve"
    /\ \E id \in EventIds, i \in Interval : UpdateTimeEvent(id, i, 1) /\ Arm(id, 1)
    /\ UNCHANGED <<now, pc, timeout>>

Cancel ==
    /\ pc = "serve"
    /\ \E id \in EventIds : RemoveTimeEvent(id)
    /\ UNCHANGED <<now, pc, timeout, fired, granted>>

Served ==
    /\ pc = "serve"
    /\ pc' = "fire"
    /\ UNCHANGED <<now, timers, timeout, fired, granted>>

Fire ==
    /\ pc = "fire"
    /\ HandleFiredTimeEvent
    /\ fired' = [i \in Ids |-> IF \E ev \in Fired : ev.id = i THEN fired[i] + 1 ELSE fired[i]]
    /\ pc' = "find"
    /\ UNCHANGED <<now, timeout, granted>>

\* Time passes.  Past MaxTime the clock stands still and only the sleep goes
\* on, so that the bound cuts no wait short.
TimePasses ==
    /\ now < MaxTime \/ (pc = "wait" /\ timeout > 0)
    /\ now' = IF now < MaxTime THEN now + 1 ELSE now
    /\ timeout' = IF pc = "wait" /\ timeout > 0 THEN timeout - 1 ELSE timeout
    /\ UNCHANGED <<timers, pc, fired, granted>>

Next ==
    \/ Wait \/ TimedOut \/ Ready \/ AddTimeEvent \/ Update \/ Cancel \/ Served \/ Fire
    \/ TimePasses

\* The loop thread keeps running and time keeps passing; no client has to
\* send anything.
Fairness ==
    WF_vars(Wait) /\ WF_vars(TimedOut) /\ WF_vars(Served) /\ WF_vars(Fire)
    /\ WF_vars(TimePasses)

Spec == Init /\ [][Next]_vars /\ Fairness
-----------------------------------------------------------------------------
(* Properties *)

\* A timer armed for n firings is in the list exactly as long as it has some
\* left, and what it has fired and what it has left add up to n; one armed for
\* ever stays (unless removed).
FiringBudget ==
    \A ev \in Range(event_list) :
        /\ CanFire(ev)
        /\ ~FireForever(ev) => fired[ev.id] + ev.count = granted[ev.id]
        /\ FireForever(ev) <=> granted[ev.id] < 0

Overdue(id) == \E ev \in Fired : ev.id = id

\* epoll_wait sleeps until there is I/O, because of a timer armed for a time
\* that an int of milliseconds cannot hold.
SleepsOnFarTimer ==
    /\ pc = "wait" /\ timeout < 0
    /\ \E ev \in Range(event_list) : ev.interval >= U32 \div 2

\* Whatever the clients do, a timer that is due is not left waiting: it fires,
\* or a client removes it or puts it off.  The loop may pass an overdue timer
\* over when it computes its sleep (it became due after the last firing
\* round), but then sleeps only until the next one.  The one exception is
\* real: the sleep is cut to an int, and a far timer makes it endless.
DueTimersFire == \A id \in Ids : Overdue(id) ~> ~Overdue(id) \/ SleepsOnFarTimer
=============================================================================
