------------------------ MODULE AppendableFileProofs ------------------------
(***************************************************************************)
(* For any size of the caches and any number of commands, any              *)
(* interleaving of the two threads and a signal at any point: no command   *)
(* is written twice, and the order is kept unless a cache was overrun.     *)
(***************************************************************************)
EXTENDS AppendableFile, TLAPS

Records == Seq(Nat)

MainPlaces == {"loop", "lock", "swap", "load", "construct", "grow", "notify", "join",
               "final lock", "final swap", "final flush", "exit"}
WorkerPlaces == {"top", "lock", "check", "falling asleep", "asleep", "woken", "timed out",
                 "flush", "write", "clear", "exited"}

TypeOK ==
    /\ cache \in [{1, 2} -> Records] /\ file \in Records
    /\ cur \in {1, 2} /\ target \in {1, 2}
    /\ next \in Nat \ {0} /\ slot \in Nat
    /\ mtx \in {"free", "main", "worker"}
    /\ main \in MainPlaces /\ worker \in WorkerPlaces

\* The mutex is held where the code holds it, and the destructor goes on only
\* when the worker has gone.
Exclusion ==
    /\ worker \in {"check", "falling asleep", "flush", "write", "clear"} => mtx = "worker"
    /\ main \in {"swap", "final swap"} => mtx = "main"
    /\ main \in {"final lock", "final swap", "final flush", "exit"} => worker = "exited"

Apart(s, t) == \A i \in DOMAIN s, j \in DOMAIN t : s[i] # Destroyed => s[i] # t[j]

Below(s, t) ==
    \A i \in DOMAIN s, j \in DOMAIN t : s[i] # Destroyed /\ t[j] # Destroyed => s[i] < t[j]

Older(s, n) == \A i \in DOMAIN s : s[i] < n

\* Between Write and Clear the worker's cache is in the file as well.
Unwritten(c) == ~(worker = "clear" /\ c = backup)

OnceInv ==
    /\ Older(file, next) /\ \A c \in {1, 2} : Older(cache[c], next)
    /\ Distinct(file) /\ \A c \in {1, 2} : Distinct(cache[c])
    /\ Apart(cache[1], cache[2])
    /\ \A c \in {1, 2} : Unwritten(c) => Apart(file, cache[c])

\* A push that the worker's exchange of the caches overtakes goes to the other
\* cache, but then cur_caches_ is still empty.
OrderInv ==
    /\ Ascending(file) /\ \A c \in {1, 2} : Ascending(cache[c])
    /\ \A c \in {1, 2} : Unwritten(c) => Below(file, cache[c])
    /\ main \notin {"final flush", "exit"} => Below(cache[backup], cache[cur])
    /\ main \in {"construct", "grow"} /\ target # cur => cache[cur] = <<>>

IInv == TypeOK /\ Exclusion /\ OnceInv /\ (~overrun => OrderInv)
-----------------------------------------------------------------------------
(* Lemmas on sequences of records *)

\* An element of a concatenation is one of the first or of the second part.
LEMMA Concatenation ==
    ASSUME NEW s \in Records, NEW t \in Records
    PROVE  /\ s \o t \in Records
           /\ \A i \in DOMAIN (s \o t) :
                 \/ i \in DOMAIN s /\ (s \o t)[i] = s[i]
                 \/ i > Len(s) /\ i - Len(s) \in DOMAIN t /\ (s \o t)[i] = t[i - Len(s)]
  BY DEF Records

\* Writing a cache behind the file keeps the commands distinct.
LEMMA ConcatDistinct ==
    ASSUME NEW s \in Records, NEW t \in Records, Distinct(s), Distinct(t), Apart(s, t)
    PROVE  Distinct(s \o t)
<1> SUFFICES ASSUME NEW i \in DOMAIN (s \o t), NEW j \in DOMAIN (s \o t),
                    i < j, (s \o t)[i] # Destroyed
             PROVE  (s \o t)[i] # (s \o t)[j]
  BY DEF Distinct
<1>1. \/ i \in DOMAIN s /\ (s \o t)[i] = s[i]
      \/ i > Len(s) /\ i - Len(s) \in DOMAIN t /\ (s \o t)[i] = t[i - Len(s)]
  BY Concatenation
<1>2. \/ j \in DOMAIN s /\ (s \o t)[j] = s[j]
      \/ j > Len(s) /\ j - Len(s) \in DOMAIN t /\ (s \o t)[j] = t[j - Len(s)]
  BY Concatenation
<1>3. i \in Nat /\ j \in Nat /\ Len(s) \in Nat /\ DOMAIN s = 1..Len(s)
  BY Concatenation DEF Records
<1> QED  BY <1>1, <1>2, <1>3 DEF Distinct, Apart

\* Writing a cache of younger commands behind the file keeps the order.
LEMMA ConcatAscending ==
    ASSUME NEW s \in Records, NEW t \in Records, Ascending(s), Ascending(t), Below(s, t)
    PROVE  Ascending(s \o t)
<1> SUFFICES ASSUME NEW i \in DOMAIN (s \o t), NEW j \in DOMAIN (s \o t),
                    i < j, (s \o t)[i] # Destroyed, (s \o t)[j] # Destroyed
             PROVE  (s \o t)[i] < (s \o t)[j]
  BY DEF Ascending
<1>1. \/ i \in DOMAIN s /\ (s \o t)[i] = s[i]
      \/ i > Len(s) /\ i - Len(s) \in DOMAIN t /\ (s \o t)[i] = t[i - Len(s)]
  BY Concatenation
<1>2. \/ j \in DOMAIN s /\ (s \o t)[j] = s[j]
      \/ j > Len(s) /\ j - Len(s) \in DOMAIN t /\ (s \o t)[j] = t[j - Len(s)]
  BY Concatenation
<1>3. i \in Nat /\ j \in Nat /\ Len(s) \in Nat /\ DOMAIN s = 1..Len(s)
  BY Concatenation DEF Records
<1> QED  BY <1>1, <1>2, <1>3 DEF Ascending, Below

\* What holds of the file and of a cache, in relation to the other cache, holds
\* when one has been written behind the other.
LEMMA ConcatRelations ==
    ASSUME NEW s \in Records, NEW t \in Records
    PROVE  /\ \A n \in Nat : Older(s, n) /\ Older(t, n) => Older(s \o t, n)
           /\ \A u \in Records : Apart(s, u) /\ Apart(t, u) => Apart(s \o t, u)
           /\ \A u \in Records : Below(s, u) /\ Below(t, u) => Below(s \o t, u)
<1>1. \A n \in Nat : Older(s, n) /\ Older(t, n) => Older(s \o t, n)
  BY Concatenation DEF Older
<1>2. \A u \in Records : Apart(s, u) /\ Apart(t, u) => Apart(s \o t, u)
  BY Concatenation DEF Apart
<1>3. \A u \in Records : Below(s, u) /\ Below(t, u) => Below(s \o t, u)
  BY Concatenation DEF Below
<1> QED  BY <1>1, <1>2, <1>3

\* Every record of r is command n, destroyed, or one of s.
From(s, n, r) ==
    \A i \in DOMAIN r : r[i] \in {n, Destroyed} \/ \E j \in DOMAIN s : r[i] = s[j]

\* What Append yields, as the proofs use it.
LEMMA Appended ==
    ASSUME NEW s \in Records, NEW n \in Nat
    PROVE  /\ Append(s, n) \in Records
           /\ DOMAIN Append(s, n) = 1..(Len(s) + 1) /\ DOMAIN s = 1..Len(s) /\ Len(s) \in Nat
           /\ Append(s, n)[Len(s) + 1] = n
           /\ \A i \in DOMAIN s : Append(s, n)[i] = s[i]
  BY DEF Records

\* push_back, also one that the worker's clear has overtaken, leaves a cache that
\* is distinct and ascending if it was, with nothing new but the next command.
LEMMA GrownCache ==
    ASSUME TypeOK, NEW records \in Grown, Older(cache[target], next)
    PROVE  /\ records \in Records
           /\ From(cache[target], next, records)
           /\ Distinct(cache[target]) => Distinct(records)
           /\ Ascending(cache[target]) => Ascending(records)
<1> DEFINE s == cache[target]
<1>1. s \in Seq(Nat) /\ next \in Nat \ {0} /\ slot \in Nat
  BY DEF TypeOK, Records
<1>2. CASE records = Append(s, next)
  <2>1. /\ records \in Seq(Nat) /\ DOMAIN records = 1..(Len(s) + 1) /\ DOMAIN s = 1..Len(s)
        /\ records[Len(s) + 1] = next /\ \A i \in DOMAIN s : records[i] = s[i]
    BY <1>1, <1>2, Appended DEF Records
  <2>2. Len(s) \in Nat /\ \A i \in DOMAIN s : s[i] \in Nat /\ s[i] < next
    BY <1>1 DEF Older
  <2> HIDE DEF s
  <2>3. \A i \in DOMAIN records : i = Len(s) + 1 \/ i \in DOMAIN s
    BY <2>1, <2>2
  <2>4. From(s, next, records)
    BY <2>1, <2>3 DEF From
  <2>5. ASSUME Distinct(s)
        PROVE  Distinct(records)
    <3> SUFFICES ASSUME NEW i \in DOMAIN records, NEW j \in DOMAIN records, i < j,
                        records[i] # Destroyed
                 PROVE  records[i] # records[j]
      BY DEF Distinct
    <3>1. i \in DOMAIN s
      BY <2>1, <2>2, <2>3
    <3>2. CASE j = Len(s) + 1
      BY <2>1, <2>2, <3>1, <3>2
    <3>3. CASE j \in DOMAIN s
      BY <2>1, <2>5, <3>1, <3>3 DEF Distinct
    <3> QED  BY <2>3, <3>2, <3>3
  <2>6. ASSUME Ascending(s)
        PROVE  Ascending(records)
    <3> SUFFICES ASSUME NEW i \in DOMAIN records, NEW j \in DOMAIN records, i < j,
                        records[i] # Destroyed, records[j] # Destroyed
                 PROVE  records[i] < records[j]
      BY DEF Ascending
    <3>1. i \in DOMAIN s
      BY <2>1, <2>2, <2>3
    <3>2. CASE j = Len(s) + 1
      BY <2>1, <2>2, <3>1, <3>2
    <3>3. CASE j \in DOMAIN s
      BY <2>1, <2>6, <3>1, <3>3 DEF Ascending
    <3> QED  BY <2>3, <3>2, <3>3
  <2> QED  BY <2>1, <2>4, <2>5, <2>6 DEF s, Records
<1>3. CASE records = <<Destroyed>>
  <2>1. records \in Seq(Nat) /\ DOMAIN records = {1} /\ records[1] = Destroyed
    BY <1>3 DEF Destroyed
  <2> QED  BY <2>1 DEF Records, From, Distinct, Ascending
<1>4. CASE records = Append([i \in 1..slot |-> Destroyed], next)
  <2> DEFINE t == [i \in 1..slot |-> Destroyed]
  <2>1. t \in Seq(Nat) /\ Len(t) = slot
    BY <1>1 DEF Destroyed
  <2>2. /\ records \in Seq(Nat) /\ DOMAIN records = 1..(slot + 1)
        /\ records[slot + 1] = next /\ \A i \in 1..slot : records[i] = t[i]
    BY <1>1, <1>4, <2>1, Appended DEF Records
  <2>3. \A i \in 1..slot : records[i] = Destroyed
    BY <2>2
  <2>4. \A i \in DOMAIN records : i = slot + 1 \/ i \in 1..slot
    BY <1>1, <2>2
  <2>5. From(s, next, records) /\ Distinct(records) /\ Ascending(records)
    BY <1>1, <2>2, <2>3, <2>4 DEF From, Distinct, Ascending
  <2> QED  BY <2>2, <2>5 DEF Records
<1> QED  BY <1>2, <1>3, <1>4 DEF Grown

\* How the cache a command was pushed to stands to older records u.
LEMMA PushRelations ==
    ASSUME NEW s \in Records, NEW r \in Records, NEW n \in Nat \ {0}, From(s, n, r)
    PROVE  /\ Older(s, n) => Older(r, n + 1)
           /\ \A u \in Records : Older(u, n) => Older(u, n + 1)
           /\ \A u \in Records : Older(u, n) /\ Apart(u, s) => Apart(u, r)
           /\ \A u \in Records : Older(u, n) /\ Apart(s, u) => Apart(r, u)
           /\ \A u \in Records : Older(u, n) /\ Below(u, s) => Below(u, r)
<1>1. /\ \A i \in DOMAIN s : s[i] \in Nat
      /\ \A i \in DOMAIN r : r[i] \in Nat
      /\ \A u \in Records : \A i \in DOMAIN u : u[i] \in Nat
  BY DEF Records
<1>2. Older(s, n) => Older(r, n + 1)
  BY <1>1 DEF Older, From, Destroyed
<1>3. \A u \in Records : Older(u, n) => Older(u, n + 1)
  BY <1>1 DEF Older
<1>4. \A u \in Records : Older(u, n) /\ Apart(u, s) => Apart(u, r)
  BY <1>1 DEF Older, Apart, From
<1>5. \A u \in Records : Older(u, n) /\ Apart(s, u) => Apart(r, u)
  BY <1>1 DEF Older, Apart, From
<1>6. \A u \in Records : Older(u, n) /\ Below(u, s) => Below(u, r)
  BY <1>1 DEF Older, Below, From
<1> QED  BY <1>2, <1>3, <1>4, <1>5, <1>6

\* The records s as a loop that has written w of them gets to see them.
Torn(s, w) == [i \in 1..Len(s) |-> IF i <= w THEN s[i] ELSE Destroyed]

\* They are in no relation that s itself is not in.
LEMMA TornRelations ==
    ASSUME NEW s \in Records, NEW w \in Nat
    PROVE  /\ Torn(s, w) \in Records
           /\ \A n \in Nat \ {0} : Older(s, n) => Older(Torn(s, w), n)
           /\ Distinct(s) => Distinct(Torn(s, w))
           /\ Ascending(s) => Ascending(Torn(s, w))
           /\ \A u \in Records : Apart(u, s) => Apart(u, Torn(s, w))
           /\ \A u \in Records : Apart(s, u) => Apart(Torn(s, w), u)
           /\ \A u \in Records : Below(u, s) => Below(u, Torn(s, w))
<1> DEFINE r == Torn(s, w)
<1>1. /\ Len(s) \in Nat /\ DOMAIN s = 1..Len(s) /\ DOMAIN r = 1..Len(s)
      /\ \A i \in DOMAIN s : s[i] \in Nat /\ r[i] \in {s[i], Destroyed}
  BY DEF Torn, Records
<1>2. r \in Records
  BY <1>1 DEF Torn, Records, Destroyed
<1> HIDE DEF r
<1>3. \A n \in Nat \ {0} : Older(s, n) => Older(r, n)
  BY <1>1 DEF Older, Destroyed
<1>4. Distinct(s) => Distinct(r)
  BY <1>1 DEF Distinct
<1>5. Ascending(s) => Ascending(r)
  BY <1>1 DEF Ascending
<1>6. \A u \in Records : Apart(u, s) => Apart(u, r)
  BY <1>1 DEF Apart
<1>7. \A u \in Records : Apart(s, u) => Apart(r, u)
  BY <1>1 DEF Apart
<1>8. \A u \in Records : Below(u, s) => Below(u, r)
  BY <1>1 DEF Below
<1> QED  BY <1>2, <1>3, <1>4, <1>5, <1>6, <1>7, <1>8 DEF r

\* Being apart is symmetric.
LEMMA Symmetric ==
    ASSUME NEW s, NEW t, Apart(s, t)
    PROVE  Apart(t, s)
  BY DEF Apart

\* An empty cache stands in every relation.
LEMMA EmptyCache ==
    /\ <<>> \in Records /\ Distinct(<<>>) /\ Ascending(<<>>)
    /\ \A n : Older(<<>>, n)
    /\ \A u : Apart(<<>>, u) /\ Apart(u, <<>>) /\ Below(<<>>, u) /\ Below(u, <<>>)
  BY DEF Records, Distinct, Ascending, Older, Apart, Below
-----------------------------------------------------------------------------
(* The invariant *)

\* The two caches.
LEMMA Caches ==
    ASSUME TypeOK
    PROVE  /\ backup \in {1, 2} /\ backup # cur /\ 3 - cur = backup /\ 3 - backup = cur
           /\ FlushFrom \in {1, 2} /\ 3 - FlushFrom \in {1, 2}
           /\ \A c \in {1, 2} : cache[c] \in Records /\ (c = cur \/ c = backup)
           /\ Len(cache[target]) \in Nat
<1>1. cur \in {1, 2}
  BY DEF TypeOK
<1>2. backup \in {1, 2} /\ backup # cur /\ 3 - cur = backup /\ 3 - backup = cur
  BY <1>1 DEF backup
<1>3. FlushFrom \in {1, 2} /\ 3 - FlushFrom \in {1, 2}
  BY <1>1, <1>2 DEF FlushFrom
<1>4. \A c \in {1, 2} : cache[c] \in Records /\ (c = cur \/ c = backup)
  BY <1>1, <1>2 DEF TypeOK
<1>5. Len(cache[target]) \in Nat
  BY DEF TypeOK, Records
<1> QED  BY <1>2, <1>3, <1>4, <1>5

\* What a push that moves the records does to the cache and to the file.
LEMMA Moved ==
    ASSUME TypeOK, PushBackMoves, \A c \in {1, 2} : Older(cache[c], next)
    PROVE  /\ Append(cache[backup], next) \in Grown
           /\ cache' = [cache EXCEPT ![backup] = Append(cache[backup], next)]
           /\ cache'[backup] = Append(cache[backup], next) /\ cache'[cur] = cache[cur]
           /\ \E w \in Nat : file' = file \o Torn(cache[backup], w)
           /\ next' \in Nat \ {0} /\ next' = next + 1
           /\ main = "grow" /\ main' = "loop" /\ worker = "write" /\ worker' = "clear"
           /\ target = backup /\ UNCHANGED <<cur, mtx, target, slot, overrun>>
<1>1. /\ target = backup /\ slot = Len(cache[backup])
      /\ cache' = [cache EXCEPT ![backup] = Append(cache[backup], next)]
  BY DEF PushBackMoves
<1>2. Append(cache[backup], next) \in Grown
  BY <1>1 DEF Grown
<1>3. cache'[backup] = Append(cache[backup], next) /\ cache'[cur] = cache[cur]
  BY <1>1, Caches DEF TypeOK
<1>4. PICK w \in 0..slot :
         file' = file \o [i \in 1..slot |-> IF i <= w THEN cache[target][i] ELSE Destroyed]
  BY DEF PushBackMoves
<1>5. file' = file \o Torn(cache[backup], w)
  BY <1>1, <1>4 DEF Torn
<1>6. w \in Nat
  BY <1>4 DEF TypeOK
<1>7. next' = next + 1 /\ next \in Nat
  BY DEF PushBackMoves, TypeOK
<1>8. next' \in Nat \ {0}
  BY <1>7
<1> QED  BY <1>1, <1>2, <1>3, <1>5, <1>6, <1>7, <1>8 DEF PushBackMoves

\* Every step keeps the types; a push needs the commands to be older than next.
LEMMA TypePreserved ==
    ASSUME TypeOK, [Next]_vars, \A c \in {1, 2} : Older(cache[c], next)
    PROVE  TypeOK'
<1> USE Caches DEF TypeOK, MainPlaces, WorkerPlaces
<1>1. CASE UNCHANGED vars
  BY ZenonT(30), <1>1 DEF vars
<1>2. ASSUME NEW on \in BOOLEAN, SetAutoFlush(on) PROVE TypeOK'
  BY <1>2 DEF SetAutoFlush, Notify
<1>3. CASE StartAppend
  BY <1>3 DEF StartAppend
<1>4. CASE SigIntHandler
  BY <1>4 DEF SigIntHandler
<1>5. CASE LockSwitch
  BY <1>5 DEF LockSwitch
<1>6. CASE AppendSwitch
  BY <1>6 DEF AppendSwitch, Switch, Notify
<1>7. CASE LoadCur
  BY <1>7 DEF LoadCur
<1>8. CASE Construct
  BY <1>8 DEF Construct
<1>9. CASE PushBack
  <2>1. PICK records \in Grown : cache' = [cache EXCEPT ![target] = records]
    BY <1>9 DEF PushBack
  <2>2. records \in Records
    BY <2>1, GrownCache
  <2>3. cache' \in [{1, 2} -> Records]
    BY <2>1, <2>2
  <2>4. next \in Nat /\ next' = next + 1
    BY <1>9 DEF PushBack
  <2>5. next' \in Nat \ {0}
    BY ONLY <2>4
  <2> QED  BY <1>9, <2>3, <2>5 DEF PushBack
<1>10. CASE NotifyStopped
  BY <1>10 DEF NotifyStopped, Notify
<1>11. CASE JoinWorker
  BY <1>11 DEF JoinWorker
<1>12. CASE FinalSwitch
  BY <1>12 DEF FinalSwitch, Switch
<1>13. CASE FinalFlush
  <2>1. cache' \in [{1, 2} -> Records]
    BY <1>13, EmptyCache DEF FinalFlush
  <2>2. file' \in Records
    BY <1>13, Concatenation DEF FinalFlush
  <2> QED  BY <1>13, <2>1, <2>2 DEF FinalFlush
<1>14. CASE Top
  BY <1>14 DEF Top
<1>15. CASE LockWorker
  BY <1>15 DEF LockWorker
<1>16. CASE CheckNeeded
  BY <1>16 DEF CheckNeeded
<1>17. CASE FallAsleep
  BY <1>17 DEF FallAsleep
<1>18. CASE FlushInterval
  BY <1>18 DEF FlushInterval
<1>19. CASE StartFlush
  BY <1>19 DEF StartFlush
<1>20. CASE Write
  <2>1. file' \in Records
    BY <1>20, Concatenation DEF Write
  <2> QED  BY <1>20, <2>1 DEF Write
<1>21. CASE Clear
  BY <1>21, EmptyCache DEF Clear
<1>22. CASE Exited
  BY ZenonT(30), <1>22 DEF Exited, vars
<1>23. CASE PushBackMoves
  <2>1. PICK w \in Nat : file' = file \o Torn(cache[backup], w)
    BY <1>23, Moved
  <2>2. file' \in Records
    BY <2>1, TornRelations, Concatenation
  <2>3. target = backup /\ Append(cache[backup], next) \in Grown
        /\ cache' = [cache EXCEPT ![backup] = Append(cache[backup], next)]
    BY <1>23, Moved
  <2>4. Append(cache[backup], next) \in Records
    BY <2>3, GrownCache
  <2>5. cache' \in [{1, 2} -> Records]
    BY <2>3, <2>4
  <2> QED  BY <1>23, <2>2, <2>5, Moved
<1> QED
  BY <1>1, <1>2, <1>3, <1>4, <1>5, <1>6, <1>7, <1>8, <1>9, <1>10, <1>11, <1>12, <1>13,
     <1>14, <1>15, <1>16, <1>17, <1>18, <1>19, <1>20, <1>21, <1>22, <1>23
  DEF Next, MainSteps, WorkerSteps

\* Every step keeps to the mutex.
LEMMA ExclusionPreserved ==
    ASSUME TypeOK, Exclusion, [Next]_vars
    PROVE  Exclusion'
<1> USE DEF Exclusion
<1>1. CASE UNCHANGED vars
  BY <1>1 DEF vars
<1>2. ASSUME NEW on \in BOOLEAN, SetAutoFlush(on) PROVE Exclusion'
  BY <1>2 DEF SetAutoFlush, Notify
<1>3. CASE StartAppend \/ SigIntHandler \/ LockSwitch
  BY <1>3 DEF StartAppend, SigIntHandler, LockSwitch
<1>4. CASE AppendSwitch
  BY <1>4 DEF AppendSwitch, Switch, Notify
<1>5. CASE LoadCur \/ Construct \/ PushBack \/ PushBackMoves
  BY <1>5 DEF LoadCur, Construct, PushBack, PushBackMoves
<1>6. CASE NotifyStopped \/ JoinWorker
  BY <1>6 DEF NotifyStopped, Notify, JoinWorker
<1>7. CASE FinalSwitch \/ FinalFlush
  BY <1>7 DEF FinalSwitch, Switch, FinalFlush
<1>8. CASE Top \/ LockWorker \/ CheckNeeded
  BY <1>8 DEF Top, LockWorker, CheckNeeded
<1>9. CASE FallAsleep \/ FlushInterval \/ StartFlush
  BY <1>9 DEF FallAsleep, FlushInterval, StartFlush
<1>10. CASE Write \/ Clear
  BY <1>10 DEF Write, Clear
<1>11. CASE Exited
  BY <1>11 DEF Exited, vars
<1> QED
  BY <1>1, <1>2, <1>3, <1>4, <1>5, <1>6, <1>7, <1>8, <1>9, <1>10, <1>11
  DEF Next, MainSteps, WorkerSteps

\* A step that moves no record.
Quiet ==
    /\ UNCHANGED <<cache, file, next, cur, overrun>>
    /\ worker = "clear" <=> worker' = "clear"
    /\ main \in {"final flush", "exit"} => main' = main
    /\ main' \in {"construct", "grow"} =>
          target' = cur \/ (main \in {"construct", "grow"} /\ target' = target)

\* All steps but the exchanges, the push and the flushes are quiet.
LEMMA QuietSteps ==
    /\ UNCHANGED vars => Quiet
    /\ \A on \in BOOLEAN : SetAutoFlush(on) => Quiet
    /\ StartAppend \/ SigIntHandler \/ LockSwitch \/ LoadCur \/ Construct => Quiet
    /\ NotifyStopped \/ JoinWorker => Quiet
    /\ Top \/ LockWorker \/ CheckNeeded \/ FallAsleep \/ FlushInterval => Quiet
    /\ Exited => Quiet
<1> USE DEF Quiet
<1>1. UNCHANGED vars => Quiet
  BY DEF vars
<1>2. \A on \in BOOLEAN : SetAutoFlush(on) => Quiet
  BY DEF SetAutoFlush, Notify
<1>3. StartAppend \/ SigIntHandler \/ LockSwitch \/ LoadCur \/ Construct => Quiet
  BY DEF StartAppend, SigIntHandler, LockSwitch, LoadCur, Construct
<1>4. NotifyStopped \/ JoinWorker => Quiet
  BY DEF NotifyStopped, Notify, JoinWorker
<1>5. Top \/ LockWorker \/ CheckNeeded \/ FallAsleep \/ FlushInterval => Quiet
  BY DEF Top, LockWorker, CheckNeeded, FallAsleep, FlushInterval
<1>6. Exited => Quiet
  BY DEF Exited, vars
<1> QED  BY <1>1, <1>2, <1>3, <1>4, <1>5, <1>6

\* Exchanging the caches: the worker is not between Write and Clear.
LEMMA Exchange ==
    ASSUME TypeOK, Exclusion, AppendSwitch \/ FinalSwitch \/ StartFlush
    PROVE  UNCHANGED <<cache, file, next>> /\ worker # "clear" /\ worker' # "clear"
  BY DEF AppendSwitch, FinalSwitch, StartFlush, Switch, Notify, Exclusion

\* Every step keeps the commands apart: in the caches, and in the file.
LEMMA OncePreserved ==
    ASSUME TypeOK, Exclusion, OnceInv, [Next]_vars
    PROVE  OnceInv'
<1>1. CASE Quiet
  BY <1>1 DEF Quiet, OnceInv, Unwritten, backup
<1>2. CASE AppendSwitch \/ FinalSwitch \/ StartFlush
  BY <1>2, Exchange DEF OnceInv, Unwritten
<1>3. CASE PushBack
  <2> DEFINE other == 3 - target
  <2>1. PICK records \in Grown : cache' = [cache EXCEPT ![target] = records]
    BY <1>3 DEF PushBack
  <2>2. /\ target \in {1, 2} /\ other \in {1, 2} /\ other # target
        /\ \A c \in {1, 2} : c = target \/ c = other
    BY DEF TypeOK
  <2>3. /\ next \in Nat \ {0} /\ next' = next + 1 /\ UNCHANGED <<file, cur, worker>>
        /\ cache[target] \in Records /\ cache[other] \in Records /\ file \in Records
    BY <1>3, <2>2 DEF PushBack, TypeOK
  <2>4. cache'[target] = records /\ cache'[other] = cache[other]
    BY <2>1, <2>2 DEF TypeOK
  <2> HIDE DEF other
  <2>5. Older(cache[target], next) /\ Older(cache[other], next) /\ Older(file, next)
    BY <2>2 DEF OnceInv
  <2>6. records \in Records /\ From(cache[target], next, records) /\ Distinct(records)
    BY <2>2, <2>5, GrownCache DEF OnceInv
  <2>7. /\ Older(records, next + 1) /\ Older(cache[other], next + 1) /\ Older(file, next + 1)
    BY <2>3, <2>5, <2>6, PushRelations
  <2>8. /\ Apart(cache[target], cache[other]) => Apart(records, cache[other])
        /\ Apart(cache[other], cache[target]) => Apart(cache[other], records)
        /\ Apart(file, cache[target]) => Apart(file, records)
    BY <2>3, <2>5, <2>6, PushRelations
  <2>9. Apart(cache'[1], cache'[2])
    BY <2>2, <2>4, <2>8 DEF OnceInv, other
  <2>10. \A c \in {1, 2} : Unwritten(c)' => Apart(file', cache'[c])
    BY <2>2, <2>3, <2>4, <2>8 DEF OnceInv, Unwritten, backup
  <2>11. \A c \in {1, 2} : Older(cache'[c], next') /\ Distinct(cache'[c])
    BY <2>2, <2>3, <2>4, <2>6, <2>7 DEF OnceInv
  <2> QED  BY <2>3, <2>7, <2>9, <2>10, <2>11 DEF OnceInv
<1>4. CASE Write
  <2>1. /\ backup \in {1, 2} /\ cache[backup] \in Records /\ file \in Records
        /\ \A c \in {1, 2} : cache[c] \in Records /\ next \in Nat
    BY Caches DEF TypeOK
  <2>2. /\ file' = file \o cache[backup] /\ UNCHANGED <<cache, cur, next>>
        /\ worker = "write" /\ worker' = "clear"
    BY <1>4 DEF Write
  <2>3. Apart(file, cache[1]) /\ Apart(file, cache[2]) /\ Apart(file, cache[backup])
    BY <2>1, <2>2 DEF OnceInv, Unwritten
  <2>4. Distinct(file') /\ Older(file', next')
    BY <2>1, <2>2, <2>3, ConcatDistinct, ConcatRelations DEF OnceInv
  <2>5. Apart(cache[backup], cache[cur])
    BY Caches, Symmetric DEF OnceInv, TypeOK
  <2>6. Apart(file', cache'[cur])
    BY <2>1, <2>2, <2>3, <2>5, Caches, ConcatRelations DEF TypeOK
  <2>7. \A c \in {1, 2} : Unwritten(c)' => Apart(file', cache'[c])
    BY <2>2, <2>6, Caches DEF Unwritten, backup
  <2> QED  BY <2>2, <2>4, <2>7 DEF OnceInv
<1>5. CASE Clear
  <2>1. /\ cache' = [cache EXCEPT ![backup] = <<>>] /\ UNCHANGED <<file, cur, next>>
        /\ worker = "clear" /\ worker' # "clear"
    BY <1>5 DEF Clear
  <2>2. cache'[backup] = <<>> /\ cache'[cur] = cache[cur]
    BY <2>1, Caches DEF TypeOK
  <2>3. Apart(file, cache'[cur]) /\ Apart(file, cache'[backup])
    BY <2>1, <2>2, Caches, EmptyCache DEF OnceInv, Unwritten, TypeOK
  <2>4. Apart(cache'[1], cache'[2])
    BY <2>2, Caches, EmptyCache
  <2>5. \A c \in {1, 2} : Older(cache'[c], next) /\ Distinct(cache'[c])
    BY <2>2, Caches, EmptyCache DEF OnceInv
  <2> QED  BY <2>1, <2>3, <2>4, <2>5, Caches DEF OnceInv
<1>6. CASE FinalFlush
  <2>1. /\ file' = file \o cache[FlushFrom] /\ UNCHANGED next
        /\ cache'[1] = <<>> /\ cache'[2] = <<>> /\ worker # "clear"
    BY <1>6 DEF FinalFlush, Exclusion
  <2>2. /\ FlushFrom \in {1, 2} /\ cache[FlushFrom] \in Records /\ file \in Records /\ next \in Nat
    BY Caches DEF TypeOK
  <2>3. Apart(file, cache[FlushFrom]) /\ Distinct(cache[FlushFrom]) /\ Older(cache[FlushFrom], next)
    BY <2>1, <2>2 DEF OnceInv, Unwritten
  <2>4. Distinct(file') /\ Older(file', next')
    BY <2>1, <2>2, <2>3, ConcatDistinct, ConcatRelations DEF OnceInv
  <2> QED  BY <2>1, <2>4, EmptyCache DEF OnceInv
<1>7. CASE PushBackMoves
  <2> DEFINE old == cache[backup]
             records == Append(old, next)
             rest == cache[cur]
  <2>1. /\ old \in Records /\ rest \in Records /\ file \in Records /\ next \in Nat \ {0}
        /\ Older(old, next) /\ Older(rest, next) /\ Older(file, next)
    BY Caches DEF TypeOK, OnceInv
  <2>2. /\ cache'[backup] = records /\ cache'[cur] = rest /\ next' = next + 1 /\ cur' = cur
        /\ target = backup /\ records \in Grown /\ worker = "write" /\ worker' = "clear"
    BY <1>7, Moved DEF OnceInv
  <2>3. PICK w \in Nat : file' = file \o Torn(old, w)
    BY <1>7, Moved DEF OnceInv
  <2>4. /\ Apart(file, old) /\ Apart(file, rest) /\ Apart(old, rest) /\ Apart(rest, old)
        /\ Distinct(old) /\ Distinct(rest) /\ Distinct(file)
    BY <2>2, Caches, Symmetric DEF OnceInv, Unwritten, TypeOK
  <2>5. records \in Records /\ From(old, next, records) /\ Distinct(records)
    BY <2>1, <2>2, <2>4, GrownCache
  <2> DEFINE torn == Torn(old, w)
  <2>6. /\ torn \in Records /\ Older(torn, next) /\ Distinct(torn)
        /\ Apart(file, torn) /\ Apart(torn, rest)
    BY <2>1, <2>4, TornRelations
  <2> HIDE DEF old, records, rest, torn
  <2>7. file' = file \o torn
    BY <2>3 DEF torn
  <2>8. Distinct(file') /\ Older(file', next) /\ Apart(file', rest) /\ file' \in Records
    BY <2>1, <2>4, <2>6, <2>7, Concatenation, ConcatDistinct, ConcatRelations
  <2>9. Older(records, next + 1) /\ Older(rest, next + 1) /\ Older(file', next + 1)
    BY <2>1, <2>5, <2>8, PushRelations
  <2>10. Apart(records, rest) /\ Apart(rest, records)
    BY <2>1, <2>4, <2>5, PushRelations
  <2>11. Apart(cache'[1], cache'[2])
    BY <2>2, <2>10, Caches
  <2>12. \A c \in {1, 2} : Older(cache'[c], next') /\ Distinct(cache'[c])
    BY <2>2, <2>4, <2>5, <2>9, Caches
  <2>13. \A c \in {1, 2} : Unwritten(c)' => Apart(file', cache'[c])
    BY <2>2, <2>8, Caches DEF Unwritten, backup
  <2> QED  BY <2>2, <2>8, <2>9, <2>11, <2>12, <2>13 DEF OnceInv
<1> QED
  BY <1>1, <1>2, <1>3, <1>4, <1>5, <1>6, <1>7, QuietSteps DEF Next, MainSteps, WorkerSteps

\* Every step that overruns no cache keeps the order: file, backup, current.
LEMMA OrderPreserved ==
    ASSUME TypeOK, Exclusion, OnceInv, OrderInv, ~overrun', [Next]_vars
    PROVE  OrderInv'
<1>1. CASE Quiet
  BY <1>1 DEF Quiet, OrderInv, Unwritten, backup
<1>2. CASE AppendSwitch
  <2>1. /\ UNCHANGED <<cache, file>> /\ cur' = backup /\ main' = "load" /\ cache[backup] = <<>>
    BY <1>2 DEF AppendSwitch, Switch
  <2>2. \A c \in {1, 2} : Below(file, cache[c])
    BY <1>2, Exchange DEF OrderInv, Unwritten
  <2>3. Below(cache'[backup'], cache'[cur'])
    BY <2>1, EmptyCache
  <2> QED  BY <2>1, <2>2, <2>3 DEF OrderInv
<1>3. CASE FinalSwitch
  <2>1. UNCHANGED <<cache, file>> /\ main' = "final flush"
    BY <1>3 DEF FinalSwitch, Switch
  <2>2. \A c \in {1, 2} : Below(file, cache[c])
    BY <1>3, Exchange DEF OrderInv, Unwritten
  <2> QED  BY <2>1, <2>2 DEF OrderInv
<1>4. CASE StartFlush
  <2>1. /\ UNCHANGED <<cache, file, main, target>>
        /\ \A c \in {1, 2} : Below(file, cache[c])
    BY <1>4, Exchange DEF StartFlush, OrderInv, Unwritten
  <2>2. CASE cur' = cur
    BY <2>1, <2>2 DEF OrderInv, backup
  <2>3. CASE cur' # cur
    <3>1. cur' = backup /\ cache[backup] = <<>>
      BY <1>4, <2>3, Caches DEF StartFlush, FlushFrom
    <3>2. Below(cache'[backup'], cache'[cur']) /\ cache'[cur'] = <<>>
      BY <2>1, <3>1, EmptyCache
    <3> QED  BY <2>1, <3>2 DEF OrderInv
  <2> QED  BY <2>2, <2>3
<1>5. CASE PushBack
  <2>1. PICK records \in Grown : cache' = [cache EXCEPT ![target] = records]
    BY <1>5 DEF PushBack
  <2>2. /\ main = "grow" /\ main' = "loop" /\ UNCHANGED <<file, cur, worker>>
        /\ target \in {1, 2} /\ next \in Nat \ {0} /\ file \in Records
        /\ \A c \in {1, 2} : cache[c] \in Records
    BY <1>5 DEF PushBack, TypeOK
  <2>3. cache'[target] = records /\ \A c \in {1, 2} : c # target => cache'[c] = cache[c]
    BY <2>1, <2>2 DEF TypeOK
  <2>4. Older(file, next) /\ \A c \in {1, 2} : Older(cache[c], next)
    BY DEF OnceInv
  <2>5. records \in Records /\ From(cache[target], next, records) /\ Ascending(records)
    BY <2>2, <2>4, GrownCache DEF OrderInv
  <2>6. \A c \in {1, 2} : Ascending(cache'[c])
    BY <2>3, <2>5 DEF OrderInv
  <2>7. \A u \in Records : Older(u, next) /\ Below(u, cache[target]) => Below(u, records)
    BY <2>2, <2>5, PushRelations
  <2>8. \A c \in {1, 2} : Unwritten(c)' => Below(file', cache'[c])
    BY <2>2, <2>3, <2>4, <2>7 DEF OrderInv, Unwritten, backup
  <2>9. Below(cache'[backup], cache'[cur])
    <3>1. CASE target = cur
      BY <2>2, <2>3, <2>4, <2>7, <3>1, Caches DEF OrderInv
    <3>2. CASE target # cur
      BY <2>2, <2>3, <3>2, Caches, EmptyCache DEF OrderInv, TypeOK
    <3> QED  BY <3>1, <3>2
  <2> QED  BY <2>2, <2>6, <2>8, <2>9 DEF OrderInv, backup
<1>6. CASE Write
  <2>1. /\ file' = file \o cache[backup] /\ UNCHANGED <<cache, cur, main, target>>
        /\ worker = "write" /\ worker' = "clear"
    BY <1>6 DEF Write
  <2>2. /\ backup \in {1, 2} /\ cur \in {1, 2} /\ file \in Records
        /\ cache[backup] \in Records /\ cache[cur] \in Records
    BY Caches DEF TypeOK
  <2>3. Below(file, cache[backup]) /\ Below(file, cache[cur]) /\ Ascending(file')
    BY <2>1, <2>2, ConcatAscending DEF OrderInv, Unwritten
  <2>4. Below(cache[backup], cache[cur])
    BY <2>1, <2>2 DEF OrderInv, Exclusion
  <2>5. Below(file', cache[cur])
    BY <2>1, <2>2, <2>3, <2>4, ConcatRelations
  <2>6. \A c \in {1, 2} : Unwritten(c)' => Below(file', cache'[c])
    BY <2>1, <2>5, Caches DEF Unwritten, backup
  <2> QED  BY <2>1, <2>3, <2>6 DEF OrderInv, backup
<1>7. CASE Clear
  <2>1. /\ cache' = [cache EXCEPT ![backup] = <<>>] /\ UNCHANGED <<file, cur, main, target>>
        /\ worker = "clear"
    BY <1>7 DEF Clear
  <2>2. cache'[backup] = <<>> /\ cache'[cur] = cache[cur]
    BY <2>1, Caches DEF TypeOK
  <2>3. Below(file, cache'[cur]) /\ Below(file, cache'[backup]) /\ Below(cache'[backup], cache'[cur])
    BY <2>1, <2>2, Caches, EmptyCache DEF OrderInv, Unwritten, TypeOK
  <2>4. \A c \in {1, 2} : Ascending(cache'[c])
    BY <2>2, Caches, EmptyCache DEF OrderInv
  <2> QED  BY <2>1, <2>2, <2>3, <2>4, Caches DEF OrderInv, backup
<1>8. CASE FinalFlush
  <2>1. /\ file' = file \o cache[FlushFrom] /\ main' = "exit"
        /\ cache'[1] = <<>> /\ cache'[2] = <<>> /\ worker # "clear"
    BY <1>8 DEF FinalFlush, Exclusion
  <2>2. FlushFrom \in {1, 2} /\ cache[FlushFrom] \in Records /\ file \in Records
    BY Caches DEF TypeOK
  <2>3. Ascending(file')
    BY <2>1, <2>2, ConcatAscending DEF OrderInv, Unwritten
  <2> QED  BY <2>1, <2>3, EmptyCache DEF OrderInv
<1>9. CASE PushBackMoves
  <2> DEFINE old == cache[backup]
             records == Append(old, next)
  <2>1. /\ old \in Records /\ file \in Records /\ Older(old, next) /\ Ascending(old)
        /\ Ascending(file) /\ cur # backup
    BY Caches DEF TypeOK, OnceInv, OrderInv
  <2>2. /\ cache'[backup] = records /\ cache'[cur] = cache[cur] /\ cur' = cur
        /\ target = backup /\ records \in Grown /\ worker = "write" /\ worker' = "clear"
        /\ main = "grow" /\ main' = "loop"
    BY <1>9, Moved DEF OnceInv
  <2>3. PICK w \in Nat : file' = file \o Torn(old, w)
    BY <1>9, Moved DEF OnceInv
  <2>4. Below(file, old) /\ cache'[cur] = <<>>
    BY <2>1, <2>2, Caches DEF OrderInv, Unwritten
  <2>5. Ascending(records)
    BY <2>1, <2>2, GrownCache
  <2>6. Torn(old, w) \in Records /\ Ascending(Torn(old, w)) /\ Below(file, Torn(old, w))
    BY <2>1, <2>4, TornRelations
  <2> HIDE DEF old, records
  <2>7. Ascending(file')
    BY <2>1, <2>3, <2>6, ConcatAscending
  <2>8. Below(file', cache'[cur]) /\ Below(cache'[backup], cache'[cur])
    BY <2>4, EmptyCache
  <2>9. \A c \in {1, 2} : Ascending(cache'[c])
    BY <2>2, <2>4, <2>5, Caches, EmptyCache
  <2>10. \A c \in {1, 2} : Unwritten(c)' => Below(file', cache'[c])
    BY <2>2, <2>8, Caches DEF Unwritten, backup
  <2> QED  BY <2>2, <2>7, <2>8, <2>9, <2>10 DEF OrderInv, backup
<1> QED
  BY <1>1, <1>2, <1>3, <1>4, <1>5, <1>6, <1>7, <1>8, <1>9, QuietSteps DEF Next, MainSteps, WorkerSteps

\* Once a cache is overrun, that stays on record.
LEMMA OverrunStays ==
    ASSUME [Next]_vars, overrun
    PROVE  overrun'
<1>1. CASE Quiet
  BY <1>1 DEF Quiet
<1>2. CASE AppendSwitch
  BY <1>2 DEF AppendSwitch
<1>3. CASE \/ FinalSwitch \/ StartFlush \/ PushBack \/ PushBackMoves
           \/ Write \/ Clear \/ FinalFlush
  BY <1>3 DEF FinalSwitch, StartFlush, PushBack, PushBackMoves, Write, Clear, FinalFlush
<1> QED
  BY <1>1, <1>2, <1>3, QuietSteps DEF Next, MainSteps, WorkerSteps

\* IInv is inductive.
LEMMA InductiveInvariant == Spec => []IInv
<1>1. Init => IInv
  <2> SUFFICES ASSUME Init PROVE IInv
    OBVIOUS
  <2>1. cache[1] = <<>> /\ cache[2] = <<>> /\ file = <<>> /\ cache \in [{1, 2} -> Records]
    BY EmptyCache DEF Init
  <2>2. TypeOK
    BY <2>1, EmptyCache DEF Init, TypeOK, MainPlaces, WorkerPlaces
  <2>3. Exclusion
    BY DEF Init, Exclusion
  <2>4. OnceInv
    BY <2>1, EmptyCache DEF OnceInv
  <2>5. OrderInv
    BY <2>1, <2>2, EmptyCache, Caches DEF OrderInv, TypeOK
  <2> QED  BY <2>2, <2>3, <2>4, <2>5 DEF IInv
<1>2. IInv /\ [Next]_vars => IInv'
  <2> SUFFICES ASSUME IInv, [Next]_vars PROVE IInv'
    OBVIOUS
  <2>1. TypeOK /\ Exclusion /\ OnceInv /\ (~overrun => OrderInv)
    BY DEF IInv
  <2>2. TypeOK'
    BY <2>1, TypePreserved DEF OnceInv
  <2>3. Exclusion'
    BY <2>1, ExclusionPreserved
  <2>4. OnceInv'
    BY <2>1, OncePreserved
  <2>5. ASSUME ~overrun' PROVE OrderInv'
    BY <2>1, <2>5, OverrunStays, OrderPreserved
  <2> QED  BY <2>2, <2>3, <2>4, <2>5 DEF IInv
<1> QED  BY <1>1, <1>2, PTL DEF Spec
-----------------------------------------------------------------------------
(* The theorems *)

\* For any size of the caches and however Append, the worker, the signal and the
\* destructor interleave, no command is written to the file twice.
THEOREM CommandsWrittenAtMostOnce == Spec => []WrittenAtMostOnce
<1>1. IInv => WrittenAtMostOnce
  BY DEF IInv, OnceInv, WrittenAtMostOnce
<1> QED  BY <1>1, InductiveInvariant, PTL

\* As long as Append has not switched to a cache that was still to be written,
\* the file has the commands in the order in which they were appended.
THEOREM CommandsWrittenInOrder == Spec => []InOrderUnlessOverrun
<1>1. IInv => InOrderUnlessOverrun
  BY DEF IInv, OrderInv, InOrderUnlessOverrun
<1> QED  BY <1>1, InductiveInvariant, PTL
=============================================================================
