----------------------------- MODULE TimeEvent ------------------------------
(***************************************************************************)
(* TimeEventHolder (time_event.h, time_event.cpp): the list of timers, new *)
(* ones at its head.  A timer fires `count' times (for ever if negative),  *)
(* every `interval' milliseconds.  Its callback is represented by what it  *)
(* closes over.                                                            *)
(***************************************************************************)
EXTENDS Clock, Lists, Functions

VARIABLES event_list, sTimeEventId

timers == <<event_list, sTimeEventId>>

NewEvent(id, interval, callback, count) ==
    [id |-> id, when |-> AddMillSecToNowMillSec(interval), interval |-> interval,
     callback |-> callback, count |-> count]

TimersInit == event_list = <<>> /\ sTimeEventId = 0

EventIds == {event_list[i].id : i \in DOMAIN event_list}

Event(id) == event_list[CHOOSE i \in DOMAIN event_list : event_list[i].id = id]

CanFire(ev) == ev.count # 0
FireForever(ev) == ev.count < 0

CreateTimeEvent(interval, callback, count) ==
    /\ sTimeEventId' = sTimeEventId + 1
    /\ event_list' = <<NewEvent(sTimeEventId + 1, interval, callback, count)>> \o event_list

UpdateTimeEventMutant(id, interval, count) ==
    /\ event_list' = [i \in DOMAIN event_list |->
                        IF event_list[i].id = id
                        THEN [event_list[i] EXCEPT !.interval = interval, !.count = count]
                        ELSE event_list[i]]
    /\ UNCHANGED sTimeEventId

\* The bodies of the loops that look for an id; callers handle "not found".
UpdateTimeEvent(id, interval, count) ==
    /\ event_list' = [i \in DOMAIN event_list |->
                        IF event_list[i].id = id
                        THEN NewEvent(id, interval, event_list[i].callback, count)
                        ELSE event_list[i]]
    /\ UNCHANGED sTimeEventId

RemoveTimeEvent(id) ==
    /\ event_list' = Erased(event_list, {ev \in Range(event_list) : ev.id = id})
    /\ UNCHANGED sTimeEventId

\* `when - now' is unsigned: a timer that is overdue is further away than
\* INT64_MAX and is passed over.
Distance(ev) == (ev.when - now) % U64

FindNearestTimeEvent ==
    {ev \in Range(event_list) :
        /\ CanFire(ev)
        /\ Distance(ev) < U64 \div 2 - 1
        /\ \A other \in Range(event_list) : CanFire(other) => Distance(ev) <= Distance(other)}

Fires(ev) == ev.when <= now /\ CanFire(ev)

Fired == {ev \in Range(event_list) : Fires(ev)}

ConsumedMutant(ev) ==
    IF Fires(ev) THEN [ev EXCEPT !.when = AddMillSecToNowMillSec(ev.interval)] ELSE ev

\* A timer after HandleFiredTimeEvent has visited it.
Consumed(ev) ==
    IF Fires(ev)
    THEN [ev EXCEPT !.count = IF FireForever(ev) THEN @ ELSE @ - 1,
                    !.when = AddMillSecToNowMillSec(ev.interval)]
    ELSE ev

\* What HandleFiredTimeEvent leaves of the list; the callbacks of Fired run.
HandleFiredTimeEvent ==
    /\ LET visited == [i \in DOMAIN event_list |-> Consumed(event_list[i])]
       IN  event_list' = Erased(visited, {ev \in Range(visited) : ~CanFire(ev)})
    /\ UNCHANGED sTimeEventId
=============================================================================
