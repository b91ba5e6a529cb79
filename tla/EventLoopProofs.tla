-------------------------- MODULE EventLoopProofs ---------------------------
(***************************************************************************)
(* For any number of timers, any intervals, counts and widths of the       *)
(* clock: no timer fires more or less often than it was armed for.         *)
(***************************************************************************)
EXTENDS EventLoop, ListLemmas

\* A timer in the list: its id was given out and it has firings left.
ArmedTimer(ev, lastId) ==
    /\ ev = [id |-> ev.id, when |-> ev.when, interval |-> ev.interval,
             callback |-> ev.callback, count |-> ev.count]
    /\ ev.id \in 1..lastId /\ ev.count \in Int \ {0}

\* What the timer may still do is what it was armed for less what it has done.
WithinBudget(ev, done, armedFor) ==
    /\ ev.count > 0 => done[ev.id] + ev.count = armedFor[ev.id]
    /\ ev.count < 0 <=> armedFor[ev.id] < 0

\* FiringBudget, the types it needs, and that an id names one timer: else the
\* firing of one would be counted for another.
TimersInv ==
    /\ sTimeEventId \in 0..MaxEvents
    /\ fired \in [Ids -> Nat] /\ granted \in [Ids -> Int]
    /\ IsList(event_list)
    /\ \A ev \in Range(event_list) :
          /\ ArmedTimer(ev, sTimeEventId)
          /\ WithinBudget(ev, fired, granted)
          /\ \A other \in Range(event_list) : other.id = ev.id => other = ev

LEMMA BudgetHolds == TimersInv => FiringBudget
  BY DEF TimersInv, ArmedTimer, WithinBudget, FiringBudget, CanFire, FireForever

\* A timer that is visited as it becomes due has one firing less.
LEMMA ConsumedTimer ==
    ASSUME NEW ev, ArmedTimer(ev, sTimeEventId)
    PROVE  /\ ~Fires(ev) => Consumed(ev) = ev
           /\ Consumed(ev).id = ev.id
           /\ Fires(ev) => Consumed(ev).count = IF ev.count < 0 THEN ev.count ELSE ev.count - 1
           /\ Consumed(ev) = [id |-> Consumed(ev).id, when |-> Consumed(ev).when,
                              interval |-> Consumed(ev).interval,
                              callback |-> Consumed(ev).callback, count |-> Consumed(ev).count]
<1>1. ev = [id |-> ev.id, when |-> ev.when, interval |-> ev.interval,
            callback |-> ev.callback, count |-> ev.count]
    BY DEF ArmedTimer
<1>2. CASE ~Fires(ev)
    BY <1>1, <1>2, Zenon DEF Consumed
<1>3. CASE Fires(ev)
    <2> DEFINE left == IF ev.count < 0 THEN ev.count ELSE ev.count - 1
               when == AddMillSecToNowMillSec(ev.interval)
    <2>1. Consumed(ev) = [ev EXCEPT !.count = left, !.when = when]
        BY <1>3, Zenon DEF Consumed, FireForever
    <2> HIDE DEF left, when
    <2>2. Consumed(ev) = [id |-> ev.id, when |-> when, interval |-> ev.interval,
                          callback |-> ev.callback, count |-> left]
        BY <1>1, <2>1
    <2> QED
        BY <1>3, <2>2 DEF left
<1> QED
    BY <1>2, <1>3

\* AddTimeEvent: the new timer has a new id and all its firings left.
LEMMA AddKeeps ==
    ASSUME TimersInv, 0 \notin Count, AddTimeEvent
    PROVE  TimersInv'
<1>1. PICK i \in Interval, c \in Count :
        CreateTimeEvent(i, "callback", c) /\ Arm(sTimeEventId + 1, c)
    BY DEF AddTimeEvent
<1> DEFINE id == sTimeEventId + 1
           new == NewEvent(id, i, "callback", c)
<1>2. /\ sTimeEventId' = id /\ id \in Ids /\ id \in Nat /\ sTimeEventId \in Nat
      /\ sTimeEventId' \in 0..MaxEvents /\ c \in Int \ {0}
    BY <1>1, LoopAssumption DEF AddTimeEvent, CreateTimeEvent, TimersInv, Ids
<1>3. IsList(event_list') /\ Range(event_list') = {new} \cup Range(event_list)
    BY <1>1, PrependElements DEF TimersInv, CreateTimeEvent
<1>4. /\ fired' \in [Ids -> Nat] /\ granted' \in [Ids -> Int]
      /\ fired'[id] = 0 /\ granted'[id] = c
      /\ \A k \in Ids : k # id => fired'[k] = fired[k] /\ granted'[k] = granted[k]
    BY <1>1, <1>2 DEF Arm, TimersInv
<1>5. new.id = id /\ new.count = c /\ ArmedTimer(new, sTimeEventId') /\ WithinBudget(new, fired', granted')
    BY <1>2, <1>4 DEF NewEvent, ArmedTimer, WithinBudget
<1> HIDE DEF id, new
<1>6. ASSUME NEW ev \in Range(event_list)
      PROVE  ev.id \in Ids /\ ev.id # id /\ ArmedTimer(ev, sTimeEventId') /\ WithinBudget(ev, fired', granted')
    <2>1. ArmedTimer(ev, sTimeEventId) /\ WithinBudget(ev, fired, granted)
        BY DEF TimersInv
    <2>2. ev.id \in Ids /\ ev.id # id /\ ev.id \in 1..sTimeEventId'
        BY <1>2, <2>1, LoopAssumption DEF ArmedTimer, TimersInv, Ids, id
    <2> QED
        BY <1>4, <2>1, <2>2 DEF ArmedTimer, WithinBudget
<1>7. \A ev \in Range(event_list') :
        \A other \in Range(event_list') : other.id = ev.id => other = ev
    BY <1>3, <1>5, <1>6 DEF TimersInv
<1> QED
    BY <1>2, <1>3, <1>4, <1>5, <1>6, <1>7 DEF TimersInv

\* UpdateTimeEvent arms a timer anew, for one firing.
LEMMA UpdateKeeps ==
    ASSUME TimersInv, Update
    PROVE  TimersInv'
<1>1. PICK id \in EventIds, i \in Interval : UpdateTimeEvent(id, i, 1) /\ Arm(id, 1)
    BY DEF Update
<1> DEFINE F(ev) == IF ev.id = id THEN NewEvent(id, i, ev.callback, 1) ELSE ev
<1>2. event_list' = [n \in DOMAIN event_list |-> F(event_list[n])] /\ sTimeEventId' = sTimeEventId
    BY <1>1 DEF UpdateTimeEvent
<1> HIDE DEF F
<1>3. Len(event_list) \in Nat /\ DOMAIN event_list = 1..Len(event_list)
    BY DEF TimersInv, IsList
<1>4. event_list' \in Seq({F(event_list[n]) : n \in 1..Len(event_list)})
    BY <1>2, <1>3
<1>5. IsList(event_list') /\ Range(event_list') = {F(ev) : ev \in Range(event_list)}
    BY <1>2, <1>4, SequencesAreLists DEF Range
<1>6. id \in Ids /\ id \in 1..sTimeEventId
    <2>1. PICK n \in DOMAIN event_list : event_list[n].id = id
        BY DEF EventIds
    <2>2. event_list[n] \in Range(event_list)
        BY DEF Range
    <2> QED
        BY <2>1, <2>2, LoopAssumption DEF TimersInv, ArmedTimer, Ids
<1>7. /\ fired' \in [Ids -> Nat] /\ granted' \in [Ids -> Int]
      /\ fired'[id] = 0 /\ granted'[id] = 1
      /\ \A k \in Ids : k # id => fired'[k] = fired[k] /\ granted'[k] = granted[k]
    BY <1>1, <1>6 DEF Arm, TimersInv
<1>8. ASSUME NEW ev \in Range(event_list)
      PROVE  F(ev).id = ev.id /\ ArmedTimer(F(ev), sTimeEventId') /\ WithinBudget(F(ev), fired', granted')
    <2>1. ArmedTimer(ev, sTimeEventId) /\ WithinBudget(ev, fired, granted)
        BY DEF TimersInv
    <2>2. CASE ev.id = id
        <3>1. F(ev) = [id |-> id, when |-> AddMillSecToNowMillSec(i), interval |-> i,
                       callback |-> ev.callback, count |-> 1]
            BY <2>2 DEF F, NewEvent
        <3> QED
            BY <1>2, <1>6, <1>7, <2>2, <3>1 DEF ArmedTimer, WithinBudget
    <2>3. CASE ev.id # id
        <3>1. F(ev) = ev /\ ev.id \in Ids
            BY <2>1, <2>3, LoopAssumption DEF F, ArmedTimer, TimersInv, Ids
        <3> QED
            BY <1>2, <1>7, <2>1, <2>3, <3>1 DEF ArmedTimer, WithinBudget
    <2> QED
        BY <2>2, <2>3
<1>9. \A e \in Range(event_list') :
        \A f \in Range(event_list') : f.id = e.id => f = e
    BY <1>5, <1>8 DEF TimersInv
<1> QED
    BY <1>2, <1>5, <1>7, <1>8, <1>9 DEF TimersInv

\* RemoveTimeEvent takes a timer away with whatever firings it has left.
LEMMA CancelKeeps ==
    ASSUME TimersInv, Cancel
    PROVE  TimersInv'
<1>1. PICK id \in EventIds : RemoveTimeEvent(id)
    BY DEF Cancel
<1>2. IsList(event_list') /\ Range(event_list') \subseteq Range(event_list)
    BY <1>1, EraseElements DEF TimersInv, RemoveTimeEvent
<1>3. UNCHANGED <<sTimeEventId, fired, granted>>
    BY <1>1 DEF Cancel, RemoveTimeEvent
<1> QED
    BY <1>2, <1>3 DEF TimersInv, ArmedTimer, WithinBudget

\* HandleFiredTimeEvent: a firing is counted for the timer that fired, and the
\* timer goes when it was the last one.
LEMMA FireKeeps ==
    ASSUME TimersInv, Fire
    PROVE  TimersInv'
<1> DEFINE visited == [i \in DOMAIN event_list |-> Consumed(event_list[i])]
<1>1. /\ event_list' = Erased(visited, {ev \in Range(visited) : ~CanFire(ev)})
      /\ UNCHANGED <<sTimeEventId, granted>>
      /\ fired' = [i \in Ids |-> IF \E ev \in Fired : ev.id = i THEN fired[i] + 1 ELSE fired[i]]
    BY DEF Fire, HandleFiredTimeEvent
<1>2. Len(event_list) \in Nat /\ DOMAIN event_list = 1..Len(event_list)
    BY DEF TimersInv, IsList
<1>3. visited \in Seq({Consumed(event_list[i]) : i \in 1..Len(event_list)})
    BY <1>2
<1>4. IsList(visited) /\ Range(visited) = {Consumed(ev) : ev \in Range(event_list)}
    BY <1>3, SequencesAreLists DEF Range
<1> HIDE DEF visited
<1>5. /\ IsList(event_list')
      /\ Range(event_list') = {ev \in Range(visited) : CanFire(ev)}
    BY <1>1, <1>4, EraseElements
<1>6. fired' \in [Ids -> Nat]
    BY <1>1 DEF TimersInv
<1>7. ASSUME NEW ev \in Range(event_list), CanFire(Consumed(ev))
      PROVE  ArmedTimer(Consumed(ev), sTimeEventId') /\ WithinBudget(Consumed(ev), fired', granted')
    <2>1. ArmedTimer(ev, sTimeEventId) /\ WithinBudget(ev, fired, granted) /\ ev.id \in Ids
        BY LoopAssumption DEF TimersInv, ArmedTimer, Ids
    <2>2. fired[ev.id] \in Nat /\ granted[ev.id] \in Int /\ ev.count \in Int
        BY <2>1 DEF TimersInv, ArmedTimer
    <2>3. fired'[ev.id] = IF Fires(ev) THEN fired[ev.id] + 1 ELSE fired[ev.id]
        <3>1. (\E e \in Fired : e.id = ev.id) <=> Fires(ev)
            BY DEF Fired, TimersInv
        <3> QED
            BY <1>1, <2>1, <3>1
    <2>4. /\ ~Fires(ev) => Consumed(ev) = ev
          /\ Consumed(ev).id = ev.id
          /\ Fires(ev) => Consumed(ev).count = IF ev.count < 0 THEN ev.count ELSE ev.count - 1
          /\ Consumed(ev) = [id |-> Consumed(ev).id, when |-> Consumed(ev).when,
                             interval |-> Consumed(ev).interval,
                             callback |-> Consumed(ev).callback, count |-> Consumed(ev).count]
        BY <2>1, ConsumedTimer
    <2> DEFINE c == Consumed(ev)
    <2>5. c.count # 0
        BY <1>7 DEF CanFire
    <2> HIDE DEF c
    <2> SUFFICES ArmedTimer(c, sTimeEventId') /\ WithinBudget(c, fired', granted')
        BY DEF c
    <2> QED
        BY <1>1, <2>1, <2>2, <2>3, <2>4, <2>5 DEF ArmedTimer, WithinBudget, c
<1>8. \A e \in Range(event_list') :
        \A f \in Range(event_list') : f.id = e.id => f = e
    <2>1. \A ev \in Range(event_list) : Consumed(ev).id = ev.id
        BY ConsumedTimer DEF TimersInv
    <2> QED
        BY <1>4, <1>5, <2>1 DEF TimersInv
<1> QED
    BY <1>1, <1>4, <1>5, <1>6, <1>7, <1>8 DEF TimersInv

\* The timers at the start: none.
LEMMA TimersInitially == Init => TimersInv
  BY LoopAssumption DEF Init, TimersInit, TimersInv, IsList, Range, Ids

\* Every step of the loop.
LEMMA TimersStep ==
    ASSUME TimersInv, 0 \notin Count, [Next]_vars
    PROVE  TimersInv'
<1>1. CASE UNCHANGED <<timers, fired, granted>>
    BY <1>1 DEF timers, TimersInv, ArmedTimer, WithinBudget
<1>2. CASE AddTimeEvent
    BY <1>2, AddKeeps
<1>3. CASE Update
    BY <1>3, UpdateKeeps
<1>4. CASE Cancel
    BY <1>4, CancelKeeps
<1>5. CASE Fire
    BY <1>5, FireKeeps
<1>6. CASE Wait \/ TimedOut \/ Ready \/ Served \/ TimePasses \/ UNCHANGED vars
    BY <1>1, <1>6 DEF Wait, TimedOut, Ready, Served, TimePasses, vars
<1> QED
    BY <1>2, <1>3, <1>4, <1>5, <1>6 DEF Next

\* However the timers are added, moved, removed and fired, and whatever their
\* number, a timer armed for n firings is in the list as long as it has some
\* left, fired and left add up to n, and one armed for ever stays.  Arming for
\* no firing at all is left out: HandleFiredTimeEvent drops such a timer.
THEOREM TimersFireAsArmed == 0 \notin Count => (Spec => []FiringBudget)
<1> SUFFICES ASSUME 0 \notin Count PROVE Spec => []FiringBudget
    OBVIOUS
<1>1. TimersInv /\ [Next]_vars => TimersInv'
    BY TimersStep
<1> QED
    BY <1>1, TimersInitially, BudgetHolds, PTL DEF Spec
=============================================================================
