---------------------------- MODULE ServerProofs ----------------------------
(***************************************************************************)
(* For any number of connections, requests, forked children and channels:  *)
(* no open session is left unwatched, epoll has a freed Session only while *)
(* a child keeps its connection open, the subscription lists and the       *)
(* sessions agree but for numbers a later connection inherited, a client   *)
(* is cut off only after messages, and a write goes on where the socket    *)
(* stopped it.                                                             *)
(***************************************************************************)
EXTENDS Server, ListLemmas

\* What the argument needs of the types.  Descriptors are reused, so a session's
\* number says nothing any more once the session is closed.
TypeOK ==
    /\ fdTable \in [Connections -> Nat]
    /\ DOMAIN session = Connections /\ session = [n \in Connections |-> session[n]]
    /\ sessions_ \subseteq Connections
    /\ \A n \in sessions_ : session[n].fd \in Connections
    /\ epoll = [n \in DOMAIN epoll |-> epoll[n]]

\* The events still to be handled are those of open sessions: a handler that
\* closes a session takes its events with it.
EventsAreCurrent == ~undefined => DOMAIN fired \ {Listen} \subseteq sessions_

IInv == TypeOK /\ EventsAreCurrent /\ SessionsAreWatched /\ FreedSessionsAreForgotten
-----------------------------------------------------------------------------
\* Connections are numbers from 1 on, other than the listening session's.
LEMMA Numbers == Connections \subseteq Nat \ {0} /\ Listen \notin Connections
  BY ServerAssumption DEF Connections, Listen

\* A session that is being handled is open.
LEMMA HandledIsOpen ==
    ASSUME IInv, NEW n \in Connections, NEW event, Turn(n, event)
    PROVE  n \in sessions_ /\ ~undefined
  BY Numbers DEF IInv, EventsAreCurrent, Turn

\* The handlers only take events away.
LEMMA EventsGoAway ==
    ASSUME NEW n, ReadHandled(n) \/ NextEvent(n)
    PROVE  DOMAIN fired' \subseteq DOMAIN fired
  BY DEF ReadHandled, NextEvent

\* A step that leaves the sessions and their registrations alone.
LEMMA Untouched ==
    ASSUME IInv, UNCHANGED <<fdTable, session, sessions_, epoll, child, undefined>>,
           DOMAIN fired' \subseteq DOMAIN fired
    PROVE  IInv'
  BY DEF IInv, TypeOK, EventsAreCurrent, SessionsAreWatched, FreedSessionsAreForgotten

\* SetRead or SetWrite on an open session, with a mask that has EPOLLIN, and
\* EPOLLOUT if there is something to write.
LEMMA WatchKeeps ==
    ASSUME IInv, NEW n \in sessions_, NEW mask, NEW write_buf, NEW channels,
           Watch(n, mask, write_buf, channels),
           EPOLLIN \in mask, write_buf # <<>> => EPOLLOUT \in mask,
           UNCHANGED <<fdTable, sessions_, undefined>>, child \subseteq child',
           DOMAIN fired' \subseteq DOMAIN fired
    PROVE  IInv'
<1> USE DEF IInv
<1>1. n \in Connections /\ n \in DOMAIN epoll
  BY DEF TypeOK, SessionsAreWatched
<1>2. /\ session'[n].fd = session[n].fd /\ session'[n].mask = mask /\ session'[n].write_buf = write_buf
      /\ \A m \in Connections : m # n => session'[m] = session[m]
      /\ DOMAIN session' = Connections
  BY <1>1 DEF Watch, TypeOK
<1>3. /\ DOMAIN epoll' = DOMAIN epoll /\ epoll'[n] = mask
      /\ \A m \in DOMAIN epoll : m # n => epoll'[m] = epoll[m]
  BY <1>1 DEF Watch, TypeOK
<1>4. TypeOK'
  BY <1>2, <1>3 DEF TypeOK, Watch
<1>5. ASSUME NEW m \in sessions_
      PROVE  /\ fdTable'[session'[m].fd] = m
             /\ m \in DOMAIN epoll' /\ epoll'[m] = session'[m].mask /\ EPOLLIN \in epoll'[m]
             /\ session'[m].write_buf # <<>> => EPOLLOUT \in epoll'[m]
  <2>1. /\ fdTable[session[m].fd] = m /\ m \in Connections
        /\ m \in DOMAIN epoll /\ epoll[m] = session[m].mask /\ EPOLLIN \in epoll[m]
        /\ session[m].write_buf # <<>> => EPOLLOUT \in epoll[m]
    BY DEF SessionsAreWatched, TypeOK
  <2>2. CASE m = n
    BY <1>2, <1>3, <2>1, <2>2
  <2>3. CASE m # n
    BY <1>2, <1>3, <2>1, <2>3
  <2> QED  BY <2>2, <2>3
<1>6. EventsAreCurrent' /\ FreedSessionsAreForgotten'
  BY <1>3 DEF EventsAreCurrent, FreedSessionsAreForgotten
<1>7. SessionsAreWatched'
  BY <1>5 DEF SessionsAreWatched
<1> QED  BY <1>4, <1>6, <1>7

\* The end of ReadProc, whatever the command.
LEMMA ReadProcKeeps ==
    ASSUME IInv, NEW n \in sessions_, NEW replies, NEW channels, ReadProc(n, replies, channels),
           child \subseteq child'
    PROVE  IInv'
<1>1. EPOLLIN \in session[n].mask
  BY DEF IInv, SessionsAreWatched
<1>2. DOMAIN fired' \subseteq DOMAIN fired
  BY EventsGoAway DEF ReadProc
<1> QED  BY <1>1, <1>2, WatchKeeps DEF ReadProc

\* Closing an open session: no other session has its descriptor.
LEMMA CloseKeeps ==
    ASSUME IInv, NEW n \in sessions_, ~undefined, CloseSession(n), Forget(n, n \in child),
           UNCHANGED <<child, undefined>>
    PROVE  IInv'
<1> USE DEF IInv
<1>1. n \in Connections /\ n # Listen /\ session[n].fd \in Connections
  BY Numbers DEF TypeOK
<1>2. /\ sessions_' = sessions_ \ {n} /\ DOMAIN fired' = DOMAIN fired \ {n}
      /\ \A m \in Connections : m # n => session'[m] = session[m]
      /\ DOMAIN session' = Connections /\ session' = [m \in Connections |-> session'[m]]
  BY <1>1 DEF CloseSession, NextEvent, TypeOK
<1>3. \A m \in sessions_ : m # n => session[m].fd # session[n].fd
  BY DEF SessionsAreWatched
<1>4. \A m \in sessions_ : m # n => fdTable'[session[m].fd] = fdTable[session[m].fd]
  BY <1>1, <1>3 DEF CloseSession, TypeOK
<1>5. fdTable' \in [Connections -> Nat]
  BY <1>1 DEF CloseSession, TypeOK
<1>6. /\ DOMAIN epoll' \subseteq DOMAIN epoll /\ epoll' = [m \in DOMAIN epoll' |-> epoll'[m]]
      /\ \A m \in DOMAIN epoll : m # n => m \in DOMAIN epoll' /\ epoll'[m] = epoll[m]
      /\ n \in DOMAIN epoll' => n \in child
  BY DEF Forget, TypeOK
<1>7. TypeOK'
  BY <1>2, <1>5, <1>6 DEF TypeOK
<1>8. SessionsAreWatched'
  BY <1>2, <1>4, <1>6 DEF SessionsAreWatched, TypeOK
<1>9. EventsAreCurrent'
  BY <1>2 DEF EventsAreCurrent
<1>10. FreedSessionsAreForgotten'
  BY <1>2, <1>6 DEF FreedSessionsAreForgotten
<1> QED  BY <1>7, <1>8, <1>9, <1>10

\* accept: the descriptor was free, so no open session has it.
LEMMA AcceptKeeps ==
    ASSUME IInv, AcceptProc
    PROVE  IInv'
<1> USE DEF IInv
<1>1. PICK n \in Connections, fd \in FreeFds :
        /\ fdTable' = [fdTable EXCEPT ![fd] = n]
        /\ session' = [session EXCEPT ![n] = NewSession(fd, {EPOLLIN})]
        /\ sessions_' = sessions_ \cup {n}
        /\ epoll' = [m \in DOMAIN epoll \cup {n} |-> IF m = n THEN {EPOLLIN} ELSE epoll[m]]
  BY DEF AcceptProc
<1>2. fd \in Connections /\ fdTable[fd] = 0 /\ n \in Nat /\ UNCHANGED <<child, undefined>>
  BY Numbers DEF FreeFds, TypeOK, AcceptProc
<1>3. DOMAIN fired' \subseteq DOMAIN fired
  BY EventsGoAway DEF AcceptProc
<1>4. /\ session'[n].fd = fd /\ session'[n].mask = {EPOLLIN} /\ session'[n].write_buf = <<>>
      /\ \A m \in Connections : m # n => session'[m] = session[m]
      /\ DOMAIN session' = Connections /\ session' = [m \in Connections |-> session'[m]]
  BY <1>1 DEF TypeOK, NewSession
<1>5. /\ fdTable' \in [Connections -> Nat] /\ fdTable'[fd] = n
      /\ \A f \in Connections : f # fd => fdTable'[f] = fdTable[f]
  BY <1>1, <1>2 DEF TypeOK
<1>6. \A m \in sessions_ : m # 0 /\ session[m].fd \in Connections /\ fdTable[session[m].fd] = m
  BY Numbers DEF SessionsAreWatched, TypeOK
<1>7. TypeOK'
  <2>1. ASSUME NEW m \in sessions_'
        PROVE  m \in Connections /\ session'[m].fd \in Connections
    <3>1. CASE m = n
      BY <1>2, <1>4, <3>1
    <3>2. CASE m # n
      <4>1. m \in sessions_
        BY <1>1, <2>1, <3>2
      <4>2. m \in Connections
        BY <4>1 DEF TypeOK
      <4> QED  BY <1>4, <1>6, <3>2, <4>1, <4>2
    <3> QED  BY <3>1, <3>2
  <2>2. epoll' = [m \in DOMAIN epoll' |-> epoll'[m]]
    BY <1>1
  <2> QED  BY <1>4, <1>5, <2>1, <2>2 DEF TypeOK
<1>8. ASSUME NEW m \in sessions_ \cup {n}
      PROVE  /\ fdTable'[session'[m].fd] = m
             /\ m \in DOMAIN epoll' /\ epoll'[m] = session'[m].mask /\ EPOLLIN \in epoll'[m]
             /\ session'[m].write_buf # <<>> => EPOLLOUT \in epoll'[m]
  <2>1. CASE m = n
    BY <1>1, <1>4, <1>5, <2>1
  <2>2. CASE m # n
    <3>1. /\ m \in sessions_ /\ m \in Connections /\ session'[m] = session[m]
          /\ session[m].fd # fd /\ fdTable'[session[m].fd] = m
      BY <1>2, <1>4, <1>5, <1>6, <2>2 DEF TypeOK
    <3>2. m \in DOMAIN epoll /\ m \in DOMAIN epoll' /\ epoll'[m] = epoll[m]
      BY <1>1, <2>2, <3>1 DEF SessionsAreWatched
    <3> QED  BY <3>1, <3>2 DEF SessionsAreWatched
  <2> QED  BY <2>1, <2>2
<1>9. SessionsAreWatched'
  BY <1>1, <1>8 DEF SessionsAreWatched
<1>10. EventsAreCurrent' /\ FreedSessionsAreForgotten'
  BY <1>1, <1>2, <1>3 DEF EventsAreCurrent, FreedSessionsAreForgotten
<1> QED  BY <1>7, <1>9, <1>10

\* A child that closes its copy of a connection takes the registration away
\* only if the server has closed the connection, too.
LEMMA StopServeSocketsKeeps ==
    ASSUME IInv, NEW n \in Connections, StopServeSockets(n)
    PROVE  IInv'
<1> USE DEF IInv
<1>1. /\ UNCHANGED <<fdTable, session, sessions_, fired, undefined>> /\ child' = child \ {n} /\ ~undefined
      /\ epoll' = IF n \in sessions_ THEN epoll ELSE [m \in DOMAIN epoll \ {n} |-> epoll[m]]
  BY DEF StopServeSockets, Forget
<1>2. TypeOK'
  BY <1>1 DEF TypeOK
<1>3. SessionsAreWatched'
  BY <1>1 DEF SessionsAreWatched
<1>4. EventsAreCurrent' /\ FreedSessionsAreForgotten'
  BY <1>1 DEF EventsAreCurrent, FreedSessionsAreForgotten
<1> QED  BY <1>2, <1>3, <1>4

\* epoll_wait: the first event of a freed Session is on record.
LEMMA WaitKeeps ==
    ASSUME IInv, Wait
    PROVE  IInv'
<1> USE DEF IInv
<1> DEFINE all == {n \in DOMAIN epoll \cup {Listen} : Ready(n) # {}}
<1>1. /\ UNCHANGED <<fdTable, session, sessions_, epoll, child>>
      /\ DOMAIN fired' = all /\ undefined' = ~(all \ {Listen} \subseteq sessions_)
  BY DEF Wait
<1>2. all \subseteq DOMAIN epoll \cup {Listen}
  OBVIOUS
<1> HIDE DEF all
<1>3. TypeOK' /\ SessionsAreWatched'
  BY <1>1 DEF TypeOK, SessionsAreWatched
<1>4. EventsAreCurrent'
  BY <1>1 DEF EventsAreCurrent
<1>5. FreedSessionsAreForgotten'
  BY <1>1, <1>2 DEF FreedSessionsAreForgotten
<1> QED  BY <1>3, <1>4, <1>5

\* WriteProc asks for EPOLLOUT as long as something is left to be written.
LEMMA WriteProcKeeps ==
    ASSUME IInv, NEW n \in Connections, WriteProc(n)
    PROVE  IInv'
<1> DEFINE write_buf == session[n].write_buf
           nbytes == Room(sock, n, Len(write_buf))
           channels == session[n].subscribed_channels
<1>1. n \in sessions_ /\ ~undefined /\ UNCHANGED <<child, undefined>>
  BY HandledIsOpen DEF WriteProc
<1>2. EPOLLIN \in session[n].mask /\ (write_buf # <<>> => EPOLLOUT \in session[n].mask)
  BY <1>1 DEF IInv, SessionsAreWatched
<1>3. \/ /\ NextEvent(n) /\ UNCHANGED <<fdTable, sessions_>>
         /\ \/ Watch(n, {EPOLLIN}, <<>>, channels)
            \/ write_buf # <<>>
               /\ Watch(n, session[n].mask, SubSeq(write_buf, nbytes + 1, Len(write_buf)), channels)
      \/ CloseSession(n) /\ Forget(n, n \in child)
  BY DEF WriteProc
<1>4. CASE NextEvent(n) /\ UNCHANGED <<fdTable, sessions_>> /\ Watch(n, {EPOLLIN}, <<>>, channels)
  BY <1>1, <1>4, WatchKeeps, EventsGoAway
<1>5. CASE /\ NextEvent(n) /\ UNCHANGED <<fdTable, sessions_>> /\ write_buf # <<>>
           /\ Watch(n, session[n].mask, SubSeq(write_buf, nbytes + 1, Len(write_buf)), channels)
  BY <1>1, <1>2, <1>5, WatchKeeps, EventsGoAway
<1>6. CASE CloseSession(n) /\ Forget(n, n \in child)
  BY <1>1, <1>6, CloseKeeps
<1> QED  BY <1>3, <1>4, <1>5, <1>6

\* The read handlers.
LEMMA ReadHandlersKeep ==
    ASSUME IInv, NEW n \in Connections,
           \/ OtherCommand(n) \/ PubSubSubscribeCommand(n) \/ PubSubUnsubscribeCommand(n)
           \/ PubSubPublishCommand(n) \/ BgsaveCommand(n)
    PROVE  IInv'
<1>1. CASE OtherCommand(n)
  BY <1>1, HandledIsOpen, ReadProcKeeps DEF OtherCommand, Handles
<1>2. CASE PubSubSubscribeCommand(n)
  BY <1>2, HandledIsOpen, ReadProcKeeps DEF PubSubSubscribeCommand, Handles
<1>3. CASE PubSubUnsubscribeCommand(n)
  BY <1>3, HandledIsOpen, ReadProcKeeps DEF PubSubUnsubscribeCommand, Handles
<1>4. CASE PubSubPublishCommand(n)
  BY <1>4, HandledIsOpen, ReadProcKeeps DEF PubSubPublishCommand, Handles
<1>5. CASE BgsaveCommand(n)
  BY <1>5, HandledIsOpen, ReadProcKeeps DEF BgsaveCommand, Handles
<1> QED  BY <1>1, <1>2, <1>3, <1>4, <1>5

\* IInv is inductive.
LEMMA InductiveInvariant == Spec => []IInv
<1>1. Init => IInv
  BY DEF Init, IInv, TypeOK, EventsAreCurrent, SessionsAreWatched, FreedSessionsAreForgotten
<1>2. IInv /\ [Next]_vars => IInv'
  <2> SUFFICES ASSUME IInv, [Next]_vars PROVE IInv'
    OBVIOUS
  <2>1. CASE UNCHANGED vars
    BY <2>1, Untouched DEF vars
  <2>2. CASE Wait
    BY <2>2, WaitKeeps
  <2>3. CASE AcceptProc
    BY <2>3, AcceptKeeps
  <2>4. ASSUME NEW n \in Connections, Handler(n) PROVE IInv'
    <3>1. CASE ReadProcCloses(n)
      BY <3>1, HandledIsOpen, CloseKeeps DEF ReadProcCloses
    <3> QED  BY <2>4, <3>1, ReadHandlersKeep, WriteProcKeeps DEF Handler
  <2>5. ASSUME NEW n \in Connections, Client(n) PROVE IInv'
    <3>1. UNCHANGED server
      BY <2>5 DEF Client, Connect, Send, Receive, Finish, BreakOff
    <3> QED  BY <3>1, Untouched DEF server
  <2>6. ASSUME NEW n \in Connections, StopServeSockets(n) PROVE IInv'
    BY <2>6, StopServeSocketsKeeps
  <2> QED  BY <2>1, <2>2, <2>3, <2>4, <2>5, <2>6 DEF Next, Loop
<1> QED  BY <1>1, <1>2, PTL DEF Spec
-----------------------------------------------------------------------------
\* However connections come, are served, cut short and closed, and whatever the
\* forked children do to the sockets they inherited, every open session has its
\* descriptor and its registration, with EPOLLOUT while a reply is waiting.
THEOREM OpenSessionsAreWatched == Spec => []SessionsAreWatched
<1>1. IInv => SessionsAreWatched
  BY DEF IInv
<1> QED  BY <1>1, InductiveInvariant, PTL

\* epoll has a freed Session, and the loop touches one, only while a forked
\* child still has its connection open.
THEOREM FreedOnlyWithAChild == Spec => []FreedSessionsAreForgotten
<1>1. IInv => FreedSessionsAreForgotten
  BY DEF IInv
<1> QED  BY <1>1, InductiveInvariant, PTL
-----------------------------------------------------------------------------
(* The sockets and the lists: what the other invariants rest on.           *)

Bytes == {<<"reply", 1>>, <<"reply", 2>>, <<"message", 1>>, <<"message", 2>>}

Sockets ==
    [peer : {"none", "connecting", "open", "finished", "reset", "closed"},
     request : Requests \cup {NoRequest}, out : 0..SndBuf, last : {<<>>} \cup {<<b>> : b \in Bytes},
     torn : BOOLEAN, messaged : BOOLEAN, foreign : BOOLEAN, thrice : BOOLEAN]

SocketsOK ==
    /\ sock \in [Connections -> Sockets]
    /\ fired = [n \in DOMAIN fired |-> fired[n]]
    /\ \A n \in Connections : session[n].write_buf \in Seq(Bytes)

\* A descriptor that is open is the one of an open session; a session that
\* WriteProc closed keeps the number it had.
DescriptorsOK ==
    /\ \A f \in Connections : fdTable[f] # 0 => fdTable[f] \in sessions_ /\ session[fdTable[f]].fd = f
    /\ \A m \in left : m.id \in Connections /\ session[m.id].fd \in Connections

ListsOK ==
    /\ subscription_sessions_ = [c \in Channel |-> subscription_sessions_[c]]
    /\ \A c \in Channel : IsList(subscription_sessions_[c])
    /\ \A n \in Connections : IsFiniteSet(session[n].subscribed_channels)

\* A client that is not accepted yet has nothing to do with any Session.
Fresh(n) ==
    sock[n].peer \in {"none", "connecting"} =>
        /\ sock[n] = IdleSocket(sock[n].peer)
        /\ n \notin sessions_ /\ \A m \in left : m.id # n

\* When epoll_wait has said that a socket takes bytes, only a message can have
\* filled it before WriteProc gets to it.
WritableUnlessMessaged(n) ==
    n \in DOMAIN fired /\ EPOLLOUT \in fired[n] =>
        sock[n].out < SndBuf \/ sock[n].peer = "reset" \/ sock[n].messaged

\* The number of n's descriptor was that of a session WriteProc closed.
Inherited(n) == \E m \in left : m.id # n /\ session[m.id].fd = session[n].fd

\* The byte of a run of replies that has d more after it.
ReplyByte(d) == <<"reply", 2 - (d % 2)>>

\* The bytes in write_buf go on where the last one sent stopped, and end with
\* the end of a reply.
GoesOn(last, write_buf) ==
    /\ last # <<>> => last = <<ReplyByte(Len(write_buf))>>
    /\ \A i \in 1..Len(write_buf) : write_buf[i] = ReplyByte(Len(write_buf) - i)

RepliesGoOn(n) ==
    n \in sessions_ => sock[n].messaged \/ sock[n].thrice \/
        (~sock[n].torn /\ GoesOn(sock[n].last, session[n].write_buf))

\* What holds of every connection.
ConnectionOK(n) ==
    /\ Fresh(n)
    /\ WritableUnlessMessaged(n)
    /\ sock[n].foreign => Inherited(n)
    /\ RepliesGoOn(n)
    /\ sock[n].torn => sock[n].messaged \/ sock[n].thrice

ConnectionsOK == \A n \in Connections : ConnectionOK(n)

JInv ==
    /\ SocketsOK /\ DescriptorsOK /\ ListsOK /\ ConnectionsOK
    /\ SubscriptionsAgree /\ OnlyMessagesCutOff
-----------------------------------------------------------------------------
(* Runs of replies *)

\* The bytes of whole replies are those of ReplyByte.
LEMMA WholeReplies ==
    ASSUME NEW count \in Nat
    PROVE  /\ Replies(count) \in Seq(Bytes) /\ Len(Replies(count)) = 2 * count
           /\ \A i \in 1 .. 2 * count : Replies(count)[i] = ReplyByte(2 * count - i)
<1>1. ASSUME NEW i \in 1 .. 2 * count
      PROVE  Reply[2 - (i % 2)] = ReplyByte(2 * count - i) /\ Reply[2 - (i % 2)] \in Bytes
    <2>1. CASE i % 2 = 0
        <3>1. (2 * count - i) % 2 = 0
            BY <2>1
        <3> QED
            BY <2>1, <3>1 DEF Reply, ReplyByte, Bytes
    <2>2. CASE i % 2 = 1
        <3>1. (2 * count - i) % 2 = 1
            BY <2>2
        <3> QED
            BY <2>2, <3>1 DEF Reply, ReplyByte, Bytes
    <2> QED
        BY <2>1, <2>2
<1> QED
    BY <1>1 DEF Replies

\* ReadProc appends whole replies to write_buf.
LEMMA RepliesAppended ==
    ASSUME NEW last, NEW write_buf \in Seq(Bytes), NEW count \in Nat
    PROVE  /\ write_buf \o Replies(count) \in Seq(Bytes)
           /\ GoesOn(last, write_buf) => GoesOn(last, write_buf \o Replies(count))
<1> DEFINE more == Replies(count)
           all == write_buf \o more
           len == Len(write_buf)
<1>1. /\ more \in Seq(Bytes) /\ Len(more) = 2 * count
      /\ \A i \in 1 .. 2 * count : more[i] = ReplyByte(2 * count - i)
    BY WholeReplies
<1> HIDE DEF more
<1>2. all \in Seq(Bytes) /\ Len(all) = len + 2 * count /\ len \in Nat
    BY <1>1
<1>3. ASSUME NEW d \in Int PROVE ReplyByte(d + 2 * count) = ReplyByte(d)
    BY DEF ReplyByte
<1>4. ASSUME NEW i \in 1..Len(all), GoesOn(last, write_buf)
      PROVE  all[i] = ReplyByte(Len(all) - i)
    <2>1. CASE i <= len
        <3>1. all[i] = write_buf[i] /\ i \in 1..len
            BY <1>1, <1>2, <2>1
        <3>2. write_buf[i] = ReplyByte(len - i)
            BY <1>4, <3>1 DEF GoesOn
        <3>3. len - i \in Int /\ Len(all) - i = (len - i) + 2 * count
            BY <1>2
        <3> QED
            BY <1>3, <3>1, <3>2, <3>3
    <2>2. CASE i > len
        <3>1. all[i] = more[i - len] /\ i - len \in 1 .. 2 * count
            BY <1>1, <1>2, <2>2
        <3>2. 2 * count - (i - len) = Len(all) - i
            BY <1>2
        <3> QED
            BY <1>1, <3>1, <3>2
    <2> QED
        BY <1>2, <2>1, <2>2
<1>5. ASSUME last # <<>>, GoesOn(last, write_buf)
      PROVE  last = <<ReplyByte(Len(all))>>
    BY <1>2, <1>3, <1>5 DEF GoesOn
<1>6. GoesOn(last, write_buf) => GoesOn(last, all)
    <2> SUFFICES ASSUME GoesOn(last, write_buf) PROVE GoesOn(last, all)
        OBVIOUS
    <2>1. \A i \in 1..Len(all) : all[i] = ReplyByte(Len(all) - i)
        BY <1>4
    <2>2. last # <<>> => last = <<ReplyByte(Len(all))>>
        BY <1>5
    <2> HIDE DEF all
    <2> QED
        BY <2>1, <2>2 DEF GoesOn
<1> QED
    BY <1>2, <1>6 DEF more

\* A byte of the run is followed by the next one.
LEMMA NextByteFollows ==
    ASSUME NEW d \in Int
    PROVE  Follows(ReplyByte(d), ReplyByte(d - 1))
<1>1. CASE d % 2 = 0
    <2>1. (d - 1) % 2 = 1
        BY <1>1
    <2> QED
        BY <1>1, <2>1 DEF Follows, ReplyByte
<1>2. CASE d % 2 = 1
    <2>1. (d - 1) % 2 = 0
        BY <1>2
    <2> QED
        BY <1>2, <2>1 DEF Follows, ReplyByte
<1> QED
    BY <1>1, <1>2

\* The last byte sent, if there is one.
LEMMA LastByte ==
    ASSUME NEW s \in Sockets
    PROVE  /\ s.last \in Seq(Bytes) /\ Len(s.last) \in {0, 1}
           /\ Len(s.last) = 0 <=> s.last = <<>>
<1>1. s.last = <<>> \/ \E b \in Bytes : s.last = <<b>>
    BY DEF Sockets
<1>2. CASE s.last = <<>>
    BY <1>2
<1>3. ASSUME NEW b \in Bytes, s.last = <<b>>
      PROVE  s.last \in Seq(Bytes) /\ Len(s.last) = 1 /\ s.last # <<>>
    BY <1>3
<1> QED
    BY <1>1, <1>2, <1>3

\* The socket takes the first k bytes of a write_buf: they are not torn off the
\* ones sent before, and the rest goes on behind them.
LEMMA BytesWritten ==
    ASSUME NEW s \in Sockets, NEW write_buf \in Seq(Bytes), NEW k \in 1..Len(write_buf),
           GoesOn(s.last, write_buf), ~s.torn
    PROVE  /\ ~Accepted(s, SubSeq(write_buf, 1, k)).torn
           /\ GoesOn(Accepted(s, SubSeq(write_buf, 1, k)).last,
                     SubSeq(write_buf, k + 1, Len(write_buf)))
<1> DEFINE bytes == SubSeq(write_buf, 1, k)
           stream == s.last \o bytes
           rest == SubSeq(write_buf, k + 1, Len(write_buf))
           len == Len(write_buf)
           base == Len(s.last)
<1>1. s.last \in Seq(Bytes) /\ (base = 0 \/ base = 1) /\ (base = 0 <=> s.last = <<>>)
    BY LastByte
<1>2. len \in Nat /\ k \in Nat /\ 1 <= k /\ k <= len
    OBVIOUS
<1>3. /\ bytes \in Seq(Bytes) /\ Len(bytes) = k
      /\ \A i \in 1..k : bytes[i] = ReplyByte(len - i)
    <2>1. bytes \in Seq(Bytes) /\ Len(bytes) = k /\ \A i \in 1..k : bytes[i] = write_buf[i]
        BY <1>2
    <2>2. \A i \in 1..len : write_buf[i] = ReplyByte(len - i)
        BY DEF GoesOn
    <2> QED
        BY <1>2, <2>1, <2>2
<1>4. /\ rest \in Seq(Bytes) /\ Len(rest) = len - k
      /\ \A i \in 1 .. len - k : rest[i] = ReplyByte((len - k) - i)
    <2>1. rest \in Seq(Bytes) /\ Len(rest) = len - k
        BY <1>2
    <2>2. ASSUME NEW i \in 1 .. len - k PROVE rest[i] = ReplyByte((len - k) - i)
        <3>1. rest[i] = write_buf[k + i] /\ k + i \in 1..len
            BY <1>2
        <3>2. write_buf[k + i] = ReplyByte(len - (k + i))
            BY <3>1 DEF GoesOn
        <3>3. len - (k + i) = (len - k) - i
            BY <1>2
        <3> QED
            BY <3>1, <3>2, <3>3
    <2> QED
        BY <2>1, <2>2
<1>5. /\ stream \in Seq(Bytes) /\ Len(stream) = base + k
      /\ \A i \in 1 .. base + k : stream[i] = ReplyByte(len + base - i)
    <2>1. stream \in Seq(Bytes) /\ Len(stream) = base + k
        BY <1>1, <1>3
    <2>2. ASSUME NEW i \in 1 .. base + k PROVE stream[i] = ReplyByte(len + base - i)
        <3>1. CASE i <= base
            <4>0. base = 1 /\ i = 1
                <5> HIDE DEF base
                <5> QED
                    BY <1>1, <1>2, <3>1
            <4>1. base = 1 /\ i = 1 /\ s.last = <<ReplyByte(len)>>
                BY <1>1, <4>0 DEF GoesOn
            <4>2. stream[i] = s.last[1] /\ len + base - i = len
                BY <1>1, <1>2, <1>3, <4>1
            <4> QED
                BY <4>1, <4>2
        <3>2. CASE i > base
            <4>1. stream[i] = bytes[i - base] /\ i - base \in 1..k
                BY <1>1, <1>3, <3>2
            <4>2. len - (i - base) = len + base - i
                BY <1>1, <1>2
            <4> QED
                BY <1>3, <4>1, <4>2
        <3> QED
            BY <1>1, <3>1, <3>2
    <2> QED
        BY <2>1, <2>2
<1> HIDE DEF bytes, rest, len, base, stream
<1>6. stream = s.last \o bytes
    BY DEF stream
<1>7. ASSUME NEW i \in 1 .. Len(stream) - 1 PROVE Follows(stream[i], stream[i + 1])
    <2>1. i \in 1 .. base + k /\ i + 1 \in 1 .. base + k
        BY <1>1, <1>2, <1>5
    <2>2. len + base - i \in Int /\ len + base - (i + 1) = (len + base - i) - 1
        BY <1>1, <1>2
    <2> QED
        BY <1>5, <2>1, <2>2, NextByteFollows
<1>8. stream[Len(stream)] = ReplyByte(len - k)
    <2>1. base + k \in 1 .. base + k /\ len + base - (base + k) = len - k
        BY <1>1, <1>2
    <2> QED
        BY <1>5, <2>1
<1> DEFINE t == Accepted(s, bytes)
<1>9. /\ t.last = <<stream[Len(stream)]>>
      /\ t.torn = (s.torn \/ \E i \in 1 .. Len(stream) - 1 : ~Follows(stream[i], stream[i + 1]))
    BY <1>6 DEF Accepted, Sockets
<1> HIDE DEF t
<1>10. ~t.torn
    BY <1>7, <1>9
<1>11. GoesOn(t.last, rest)
    BY <1>4, <1>8, <1>9 DEF GoesOn
<1> QED
    BY <1>10, <1>11 DEF t, bytes, rest, len
-----------------------------------------------------------------------------
(* What WriteFromBuf does to a socket *)

\* Sending one byte or more changes what is waiting for the client, the last
\* byte sent and whether the stream is torn.
LEMMA AcceptedFields ==
    ASSUME NEW s \in Sockets, NEW bytes \in Seq(Bytes), bytes # <<>>
    PROVE  /\ Accepted(s, bytes).last \in {<<b>> : b \in Bytes} /\ Accepted(s, bytes).torn \in BOOLEAN
           /\ Accepted(s, bytes) =
                [peer |-> s.peer, request |-> s.request, out |-> s.out + Len(bytes),
                 last |-> Accepted(s, bytes).last, torn |-> Accepted(s, bytes).torn,
                 messaged |-> s.messaged, foreign |-> s.foreign, thrice |-> s.thrice]
<1> DEFINE stream == s.last \o bytes
           torn == s.torn \/ \E i \in 1 .. Len(stream) - 1 : ~Follows(stream[i], stream[i + 1])
<1>1. s.last \in Seq(Bytes)
    BY LastByte
<1>2. stream \in Seq(Bytes) /\ Len(stream) \in 1..Len(stream)
    BY <1>1
<1>3. stream[Len(stream)] \in Bytes
    BY <1>2
<1> HIDE DEF stream
<1>4. Accepted(s, bytes) =
        [s EXCEPT !.out = @ + Len(bytes), !.last = <<stream[Len(stream)]>>, !.torn = torn]
    BY DEF Accepted, stream
<1>5. torn \in BOOLEAN
    BY Zenon DEF Sockets
<1> HIDE DEF torn
<1>6. s = [peer |-> s.peer, request |-> s.request, out |-> s.out, last |-> s.last, torn |-> s.torn,
           messaged |-> s.messaged, foreign |-> s.foreign, thrice |-> s.thrice]
    BY DEF Sockets
<1> DEFINE t == Accepted(s, bytes)
<1>7. t.last = <<stream[Len(stream)]>> /\ t.torn = torn
    BY <1>4 DEF Sockets
<1>8. t = [peer |-> s.peer, request |-> s.request, out |-> s.out + Len(bytes),
           last |-> <<stream[Len(stream)]>>, torn |-> torn,
           messaged |-> s.messaged, foreign |-> s.foreign, thrice |-> s.thrice]
    BY <1>4, <1>6, Zenon
<1> HIDE DEF t
<1> QED
    BY <1>3, <1>5, <1>7, <1>8 DEF t

\* WriteFromBuf never sends more than there is room for, and sends nothing only
\* if the client is gone or its buffer full.
LEMMA RoomThereIs ==
    ASSUME NEW s \in [Connections -> Sockets], NEW n \in Connections, NEW len \in Nat
    PROVE  /\ Room(s, n, len) \in 0..len
           /\ s[n].out + Room(s, n, len) <= SndBuf
           /\ Room(s, n, len) = 0 /\ len # 0 => s[n].peer = "reset" \/ s[n].out = SndBuf
<1>1. s[n].out \in 0..SndBuf /\ n # 0 /\ SndBuf \in Nat
    BY Numbers, ServerAssumption DEF Sockets
<1> QED
    BY <1>1 DEF Room

\* A write that finds room.
LEMMA WriteSends ==
    ASSUME NEW s \in [Connections -> Sockets], NEW n \in Connections, NEW bytes \in Seq(Bytes),
           Room(s, n, Len(bytes)) # 0
    PROVE  LET k == Room(s, n, Len(bytes))
           IN  /\ WriteFromBuf(s, n, bytes) = [s EXCEPT ![n] = Accepted(s[n], SubSeq(bytes, 1, k))]
               /\ Accepted(s[n], SubSeq(bytes, 1, k)) \in Sockets
               /\ k \in 1..Len(bytes)
<1> DEFINE k == Room(s, n, Len(bytes))
           sent == SubSeq(bytes, 1, k)
           t == Accepted(s[n], sent)
<1>1. k \in 1..Len(bytes) /\ s[n].out + k <= SndBuf
    BY RoomThereIs
<1>2. WriteFromBuf(s, n, bytes) = [s EXCEPT ![n] = Accepted(s[n], SubSeq(bytes, 1, k))]
    BY DEF WriteFromBuf
<1> HIDE DEF k
<1>3. sent \in Seq(Bytes) /\ Len(sent) = k /\ sent # <<>>
    BY <1>1
<1> HIDE DEF sent
<1>4. s[n] \in Sockets
    OBVIOUS
<1>5. /\ t.last \in {<<b>> : b \in Bytes} /\ t.torn \in BOOLEAN
      /\ t = [peer |-> s[n].peer, request |-> s[n].request, out |-> s[n].out + Len(sent),
              last |-> t.last, torn |-> t.torn,
              messaged |-> s[n].messaged, foreign |-> s[n].foreign, thrice |-> s[n].thrice]
    BY <1>3, <1>4, AcceptedFields
<1> HIDE DEF t
<1>6. s[n].out + Len(sent) \in 0..SndBuf
    BY <1>1, <1>3, <1>4, ServerAssumption DEF Sockets
<1>7. t \in Sockets
    BY <1>4, <1>5, <1>6 DEF Sockets
<1> QED
    BY <1>1, <1>2, <1>7 DEF t, sent, k
-----------------------------------------------------------------------------
(* publish *)

\* t is s after messages: they go to open sessions, to a client that has not
\* subscribed only over an inherited descriptor.
Reached(t, s) ==
    /\ t \in [Connections -> Sockets]
    /\ \A k \in Connections :
          /\ t[k].peer = s[k].peer
          /\ s[k].thrice => t[k].thrice
          /\ t[k] = s[k] \/ (k \in sessions_ /\ t[k].messaged)
          /\ t[k].foreign => s[k].foreign \/ Inherited(k)

\* One member of the list.
LEMMA RelayReaches ==
    ASSUME IInv, JInv, NEW c \in Channel, NEW member \in Range(subscription_sessions_[c]),
           NEW s, NEW t, Reached(t, s)
    PROVE  Reached(Relay(t, c, member), s)
<1> DEFINE n == fdTable[session[member].fd]
           room == Room(t, n, Len(Message))
           u == Relay(t, c, member)
<1>1. member \in Connections /\ session[member].fd \in Connections
    BY DEF IInv, JInv, TypeOK, DescriptorsOK, SubscriptionsAgree
<1>2. CASE room = 0
    BY <1>2 DEF Relay
<1>3. CASE room # 0
    <2>1. n # 0
        BY <1>3 DEF Room
    <2>2. n \in sessions_ /\ session[n].fd = session[member].fd
        BY <1>1, <2>1 DEF JInv, DescriptorsOK
    <2>3. n \in Connections
        BY <2>2 DEF IInv, TypeOK
    <2>4. c \in session[n].subscribed_channels \/ Inherited(n)
        <3>1. CASE member \in sessions_
            <4>1. member = n
                BY <3>1 DEF IInv, SessionsAreWatched
            <4> QED
                BY <2>2, <4>1 DEF JInv, SubscriptionsAgree
        <3>2. CASE member \notin sessions_
            <4>1. PICK m \in left : m.id = member
                BY <3>2 DEF JInv, SubscriptionsAgree
            <4> QED
                BY <2>2, <3>2, <4>1 DEF Inherited
        <3> QED
            BY <3>1, <3>2
    <2>5. t \in [Connections -> Sockets]
        BY DEF Reached
    <2> DEFINE k == Room(t, n, Len(Message))
               sent == SubSeq(Message, 1, k)
               w == Accepted(t[n], sent)
               v == [w EXCEPT !.messaged = TRUE,
                              !.foreign = @ \/ c \notin session[n].subscribed_channels]
    <2>6. Message \in Seq(Bytes)
        BY DEF Message, Bytes
    <2>7. /\ WriteFromBuf(t, n, Message) = [t EXCEPT ![n] = w]
          /\ w \in Sockets /\ k \in 1..Len(Message)
        BY <1>3, <2>3, <2>5, <2>6, WriteSends
    <2>8. w.peer = t[n].peer /\ w.foreign = t[n].foreign /\ w.thrice = t[n].thrice
        <3>1. sent \in Seq(Bytes) /\ sent # <<>>
            BY <2>6, <2>7
        <3>2. t[n] \in Sockets
            BY <2>3, <2>5
        <3> HIDE DEF sent
        <3> QED
            BY <3>1, <3>2, AcceptedFields
    <2>9. u = [t EXCEPT ![n] = v]
        <3>1. u = [WriteFromBuf(t, n, Message) EXCEPT
                      ![n].messaged = TRUE,
                      ![n].foreign = @ \/ c \notin session[n].subscribed_channels]
            BY <1>3 DEF Relay
        <3> HIDE DEF w, u, n
        <3> QED
            BY <2>3, <2>5, <2>7, <3>1
    <2> HIDE DEF w, u, n, k
    <2>10. /\ v \in Sockets /\ v.messaged /\ v.peer = w.peer /\ v.thrice = w.thrice
           /\ v.foreign => w.foreign \/ c \notin session[n].subscribed_channels
        BY <2>7 DEF Sockets
    <2> HIDE DEF v
    <2>11. u \in [Connections -> Sockets] /\ u[n] = v /\ \A j \in Connections : j # n => u[j] = t[j]
        BY <2>3, <2>5, <2>9, <2>10
    <2>12. ASSUME NEW j \in Connections
           PROVE  /\ u[j].peer = s[j].peer
                  /\ s[j].thrice => u[j].thrice
                  /\ u[j] = s[j] \/ (j \in sessions_ /\ u[j].messaged)
                  /\ u[j].foreign => s[j].foreign \/ Inherited(j)
        <3>1. CASE j # n
            BY <2>11, <3>1 DEF Reached
        <3>2. CASE j = n
            BY <2>2, <2>4, <2>8, <2>10, <2>11, <3>2 DEF Reached
        <3> QED
            BY <3>1, <3>2
    <2>13. Reached(u, s)
        BY <2>11, <2>12 DEF Reached
    <2> QED
        BY <2>13 DEF u
<1> QED
    BY <1>2, <1>3

\* The loop over the list has a solution, for a prefix of every length.
Tells(told, s, c, list, n) ==
    told = [i \in 0..n |-> IF i = 0 THEN s ELSE Relay(told[i - 1], c, list[i])]

LEMMA TellingExists ==
    ASSUME NEW s, NEW c, NEW list
    PROVE  \A n \in Nat : \E told : Tells(told, s, c, list, n)
<1> DEFINE S == {n \in Nat : \E told : Tells(told, s, c, list, n)}
<1>1. 0 \in S
    <2>1. Tells([i \in 0..0 |-> s], s, c, list, 0)
        BY DEF Tells
    <2> QED
        BY <2>1
<1>2. ASSUME NEW n \in Nat, n \in S PROVE n + 1 \in S
    <2>1. PICK told : Tells(told, s, c, list, n)
        BY <1>2
    <2> DEFINE h == [i \in 0 .. n + 1 |-> IF i = n + 1 THEN Relay(told[n], c, list[n + 1]) ELSE told[i]]
    <2>2. ASSUME NEW i \in 0 .. n + 1
          PROVE  h[i] = IF i = 0 THEN s ELSE Relay(h[i - 1], c, list[i])
        <3>1. CASE i = n + 1
            <4>1. i - 1 = n /\ n \in 0 .. n + 1 /\ n # n + 1 /\ i # 0
                BY <3>1
            <4> QED
                BY <3>1, <4>1
        <3>2. CASE i # n + 1
            <4>1. i \in 0..n /\ (i # 0 => i - 1 \in 0..n /\ i - 1 # n + 1 /\ i - 1 \in 0 .. n + 1)
                BY <3>2
            <4>2. told[i] = IF i = 0 THEN s ELSE Relay(told[i - 1], c, list[i])
                BY <2>1, <4>1 DEF Tells
            <4> QED
                BY <3>2, <4>1, <4>2
        <3> QED
            BY <3>1, <3>2
    <2>3. Tells(h, s, c, list, n + 1)
        BY <2>2 DEF Tells
    <2> QED
        BY <2>3
<1> HIDE DEF S
<1>3. \A n \in Nat : n \in S
    BY <1>1, <1>2, Induction
<1> QED
    BY <1>3 DEF S

\* The whole list.
LEMMA PublishedReaches ==
    ASSUME IInv, JInv, NEW c \in Channel, NEW s \in [Connections -> Sockets]
    PROVE  Reached(Published(s, c, subscription_sessions_[c]), s)
<1> DEFINE list == subscription_sessions_[c]
           told == CHOOSE told : Tells(told, s, c, list, Len(list))
<1>1. IsList(list)
    BY DEF JInv, ListsOK
<1>2. Len(list) \in Nat /\ \A i \in 1..Len(list) : list[i] \in Range(list)
    BY <1>1 DEF IsList
<1>3. Tells(told, s, c, list, Len(list))
    BY <1>2, TellingExists
<1>4. Published(s, c, list) = told[Len(list)]
    BY DEF Published, Tells
<1> HIDE DEF told, list
<1> DEFINE S == {n \in Nat : n <= Len(list) => Reached(told[n], s)}
<1>5. 0 \in S
    <2>1. told[0] = s
        BY <1>2, <1>3 DEF Tells
    <2>2. Reached(s, s)
        BY DEF Reached
    <2> QED
        BY <2>1, <2>2
<1>6. ASSUME NEW n \in Nat, n \in S PROVE n + 1 \in S
    <2> SUFFICES ASSUME n + 1 <= Len(list) PROVE Reached(told[n + 1], s)
        OBVIOUS
    <2>1. Reached(told[n], s) /\ n + 1 \in 1..Len(list) /\ n + 1 \in 0..Len(list)
        BY <1>2, <1>6
    <2>2. told[n + 1] = Relay(told[n], c, list[n + 1])
        BY <1>3, <2>1 DEF Tells
    <2>3. list[n + 1] \in Range(subscription_sessions_[c])
        BY <1>2, <2>1 DEF list
    <2> QED
        BY <2>1, <2>2, <2>3, RelayReaches
<1> HIDE DEF S
<1>7. \A n \in Nat : n \in S
    BY <1>5, <1>6, Induction
<1>8. Reached(told[Len(list)], s)
    BY <1>2, <1>7 DEF S
<1> QED
    BY <1>4, <1>8 DEF list
-----------------------------------------------------------------------------
(* What a step may do to a connection *)

\* Nothing but a message is added to what was sent to k.
Kept(k) ==
    /\ sock'[k].peer \in {"none", "connecting"} =>
          sock[k].peer \in {"none", "connecting"} /\ sock'[k] = IdleSocket(sock'[k].peer)
    /\ sock[k].peer = "reset" => sock'[k].peer = "reset"
    /\ sock[k].messaged => sock'[k].messaged
    /\ sock[k].thrice => sock'[k].thrice
    /\ ~sock'[k].messaged =>
          /\ sock'[k].last = sock[k].last /\ sock'[k].out <= sock[k].out
          /\ sock'[k].torn => sock[k].torn
    /\ sock'[k].foreign => sock[k].foreign \/ Inherited(k)

\* The closed sessions are on record, and keep their numbers.
NumbersKept ==
    /\ left \subseteq left' /\ \A m \in left' : m \in left \/ m.id \in sessions_
    /\ \A j \in Connections : session'[j].fd = session[j].fd \/ sock[j].peer = "connecting"

\* An event that is left was there before.
EventsKept(k) == k \in DOMAIN fired' /\ EPOLLOUT \in fired'[k] => k \in DOMAIN fired /\ EPOLLOUT \in fired[k]

\* n's number is still an inherited one after a step.
LEMMA InheritedStays ==
    ASSUME JInv, NEW n \in Connections, Inherited(n), NumbersKept, session'[n].fd = session[n].fd
    PROVE  Inherited(n)'
<1>1. PICK m \in left : m.id # n /\ session[m.id].fd = session[n].fd
    BY DEF Inherited
<1>2. m \in left' /\ m.id \in Connections
    BY DEF NumbersKept, JInv, DescriptorsOK
<1>3. sock[m.id].peer # "connecting"
    BY <1>2 DEF JInv, ConnectionsOK, ConnectionOK, Fresh
<1>4. session'[m.id].fd = session[m.id].fd
    BY <1>2, <1>3 DEF NumbersKept
<1> QED
    BY <1>1, <1>2, <1>4 DEF Inherited

\* A connection that the step only adds messages to, and whole replies to its
\* write_buf.
LEMMA KeptConnection ==
    ASSUME JInv, SocketsOK', NEW k \in Connections, Kept(k), NumbersKept, EventsKept(k),
           session'[k].fd = session[k].fd, k \in sessions_' => k \in sessions_,
           k \in sessions_' /\ GoesOn(sock[k].last, session[k].write_buf)
              => GoesOn(sock[k].last, session'[k].write_buf)
    PROVE  ConnectionOK(k)'
<1>1. ConnectionOK(k)
    BY DEF JInv, ConnectionsOK
<1>2. Fresh(k)'
    BY <1>1 DEF ConnectionOK, Fresh, Kept, NumbersKept
<1>3. WritableUnlessMessaged(k)'
    <2>1. sock[k].out \in Int /\ sock'[k].out \in Int /\ SndBuf \in Int
        BY ServerAssumption DEF JInv, SocketsOK, Sockets
    <2> QED
        BY <1>1, <2>1 DEF ConnectionOK, WritableUnlessMessaged, Kept, EventsKept
<1>4. sock'[k].foreign => Inherited(k)'
    BY <1>1, InheritedStays DEF ConnectionOK, Kept
<1>5. RepliesGoOn(k)'
    BY <1>1 DEF ConnectionOK, RepliesGoOn, Kept
<1>6. sock'[k].torn => sock'[k].messaged \/ sock'[k].thrice
    BY <1>1 DEF ConnectionOK, Kept
<1> QED
    BY <1>2, <1>3, <1>4, <1>5, <1>6 DEF ConnectionOK

\* A connection that is closed.
LEMMA ClosedConnection ==
    ASSUME NEW k \in Connections, sock'[k] = IdleSocket("closed"), k \notin sessions_', k \notin DOMAIN fired'
    PROVE  ConnectionOK(k)'
<1>1. sock'[k].peer = "closed" /\ ~sock'[k].foreign /\ ~sock'[k].torn
    BY DEF IdleSocket
<1> QED
    BY <1>1 DEF ConnectionOK, Fresh, WritableUnlessMessaged, RepliesGoOn
-----------------------------------------------------------------------------
(* The steps *)

\* The handlers take events away and add none.
LEMMA EventsStay ==
    ASSUME SocketsOK, NEW n \in DOMAIN fired, ReadHandled(n) \/ NextEvent(n)
    PROVE  fired' = [m \in DOMAIN fired' |-> fired'[m]] /\ \A k : EventsKept(k)
<1>1. fired = [m \in DOMAIN fired |-> fired[m]]
    BY DEF SocketsOK
<1>2. CASE NextEvent(n)
    BY <1>2 DEF NextEvent, EventsKept
<1>3. CASE EPOLLOUT \in fired[n] /\ fired' = [fired EXCEPT ![n] = {EPOLLOUT}]
    BY <1>1, <1>3 DEF EventsKept
<1> QED
    BY <1>2, <1>3 DEF ReadHandled

\* The client of a session that is open was accepted.
LEMMA OpenIsNotFresh ==
    ASSUME JInv, NEW n \in Connections, n \in sessions_ \/ \E m \in left : m.id = n
    PROVE  sock[n].peer \notin {"none", "connecting"}
BY DEF JInv, ConnectionsOK, ConnectionOK, Fresh

\* read takes the request.
LEMMA TakenFields ==
    ASSUME JInv, NEW n \in Connections
    PROVE  /\ Taken(n) \in [Connections -> Sockets]
           /\ \A k \in Connections :
                 /\ Taken(n)[k].peer = sock[k].peer /\ Taken(n)[k].out = sock[k].out
                 /\ Taken(n)[k].last = sock[k].last
                 /\ Taken(n)[k].torn <=> sock[k].torn
                 /\ Taken(n)[k].messaged <=> sock[k].messaged
                 /\ Taken(n)[k].foreign <=> sock[k].foreign
                 /\ Taken(n)[k].thrice <=> sock[k].thrice
                 /\ k # n => Taken(n)[k] = sock[k]
<1>1. sock \in [Connections -> Sockets]
    BY DEF JInv, SocketsOK
<1> DEFINE v == [sock[n] EXCEPT !.request = NoRequest]
<1>2. Taken(n) = [sock EXCEPT ![n] = v]
    BY DEF Taken
<1>3. v \in Sockets
    BY <1>1 DEF Sockets
<1>4. /\ v.peer = sock[n].peer /\ v.out = sock[n].out /\ v.last = sock[n].last
      /\ v.torn = sock[n].torn /\ v.messaged = sock[n].messaged
      /\ v.foreign = sock[n].foreign /\ v.thrice = sock[n].thrice
    BY <1>1 DEF Sockets
<1> HIDE DEF v
<1>5. Taken(n)[n] = v /\ \A k \in Connections : k # n => Taken(n)[k] = sock[k]
    BY <1>1, <1>2
<1>6. Taken(n) \in [Connections -> Sockets]
    BY <1>1, <1>2, <1>3
<1> QED
    BY <1>4, <1>5, <1>6

\* A read handler has taken the request and published messages, or not.
LEMMA HandledIsKept ==
    ASSUME JInv, NEW n \in Connections, n \in sessions_, Reached(sock', Taken(n)), NEW k \in Connections
    PROVE  Kept(k)
<1>1. sock' \in [Connections -> Sockets]
    BY DEF Reached
<1>2. /\ sock'[k].peer = Taken(n)[k].peer
      /\ Taken(n)[k].thrice => sock'[k].thrice
      /\ sock'[k] = Taken(n)[k] \/ (k \in sessions_ /\ sock'[k].messaged)
      /\ sock'[k].foreign => Taken(n)[k].foreign \/ Inherited(k)
    BY DEF Reached
<1>3. /\ Taken(n)[k].peer = sock[k].peer /\ Taken(n)[k].out = sock[k].out
      /\ Taken(n)[k].last = sock[k].last
      /\ Taken(n)[k].torn <=> sock[k].torn
      /\ Taken(n)[k].messaged <=> sock[k].messaged
      /\ Taken(n)[k].foreign <=> sock[k].foreign
      /\ Taken(n)[k].thrice <=> sock[k].thrice
      /\ k # n => Taken(n)[k] = sock[k]
    BY TakenFields
<1>4. sock[k].peer \in {"none", "connecting"} => k # n /\ k \notin sessions_ /\ sock[k] = IdleSocket(sock[k].peer)
    BY DEF JInv, ConnectionsOK, ConnectionOK, Fresh
<1>5. sock'[k].peer \in {"none", "connecting"} =>
        sock[k].peer \in {"none", "connecting"} /\ sock'[k] = IdleSocket(sock'[k].peer)
    BY <1>2, <1>3, <1>4
<1>6. sock[k].out \in Int
    BY DEF JInv, SocketsOK, Sockets
<1>7. ~sock'[k].messaged =>
          /\ sock'[k].last = sock[k].last /\ sock'[k].out <= sock[k].out
          /\ sock'[k].torn => sock[k].torn
    BY <1>2, <1>3, <1>6
<1> QED
    BY <1>2, <1>3, <1>5, <1>7 DEF Kept

\* The end of ReadProc, whatever the command; the lists are up to the command.
LEMMA ReadProcKeepsConnections ==
    ASSUME IInv, JInv, NEW n \in sessions_, n \in DOMAIN fired, NEW replies \in Nat, NEW channels,
           IsFiniteSet(channels),
           ReadProc(n, replies, channels), Reached(sock', Taken(n)), SubscriptionsAgree',
           subscription_sessions_' = [c \in Channel |-> subscription_sessions_'[c]],
           \A c \in Channel : IsList(subscription_sessions_'[c])
    PROVE  JInv'
<1>1. n \in Connections
    BY DEF IInv, TypeOK
<1> DEFINE write_buf == session[n].write_buf \o Replies(replies)
<1>2. /\ session'[n].fd = session[n].fd /\ session'[n].write_buf = write_buf
      /\ session'[n].subscribed_channels = channels
      /\ \A m \in Connections : m # n => session'[m] = session[m]
    BY <1>1 DEF ReadProc, Watch, IInv, TypeOK
<1>3. session[n].write_buf \in Seq(Bytes)
    BY <1>1 DEF JInv, SocketsOK
<1>4. /\ write_buf \in Seq(Bytes)
      /\ GoesOn(sock[n].last, session[n].write_buf) => GoesOn(sock[n].last, write_buf)
    BY <1>3, RepliesAppended
<1> HIDE DEF write_buf
<1>5. /\ fired' = [m \in DOMAIN fired' |-> fired'[m]] /\ \A k : EventsKept(k)
    BY EventsStay DEF JInv, ReadProc
<1>6. UNCHANGED <<fdTable, sessions_, left>>
    BY DEF ReadProc
<1>7. SocketsOK'
    BY <1>2, <1>4, <1>5 DEF SocketsOK, Reached, JInv
<1>8. NumbersKept
    BY <1>1, <1>2, <1>6 DEF NumbersKept
<1>9. ASSUME NEW k \in Connections PROVE ConnectionOK(k)'
    <2>1. Kept(k)
        BY <1>1, HandledIsKept
    <2>2. session'[k].fd = session[k].fd
        BY <1>2
    <2>3. GoesOn(sock[k].last, session[k].write_buf) => GoesOn(sock[k].last, session'[k].write_buf)
        BY <1>2, <1>4
    <2> QED
        BY <1>5, <1>6, <1>7, <1>8, <2>1, <2>2, <2>3, KeptConnection
<1>10. DescriptorsOK'
    <2>1. \A m \in Connections : session'[m].fd = session[m].fd
        BY <1>2
    <2>2. sessions_ \subseteq Connections
        BY DEF IInv, TypeOK
    <2> QED
        BY <1>6, <2>1, <2>2 DEF DescriptorsOK, JInv
<1>11. ListsOK'
    BY <1>2 DEF ListsOK, JInv
<1>12. OnlyMessagesCutOff'
    BY <1>6 DEF OnlyMessagesCutOff, JInv
<1>13. ConnectionsOK'
    BY <1>9 DEF ConnectionsOK
<1> QED
    BY <1>7, <1>10, <1>11, <1>12, <1>13 DEF JInv

\* A request that is handled: the session is open, the request one of Requests.
LEMMA HandledRequest ==
    ASSUME IInv, JInv, NEW n \in Connections, NEW name, Handles(n, name)
    PROVE  /\ n \in sessions_ /\ n \in DOMAIN fired
           /\ sock[n].request \in Requests /\ sock[n].request[1] = name
           /\ Reached(Taken(n), Taken(n))
<1>1. n \in sessions_ /\ n \in DOMAIN fired
    BY HandledIsOpen DEF Handles, Turn
<1>2. sock[n].request \in Requests
    BY DEF Handles, JInv, SocketsOK, Sockets
<1>3. Reached(Taken(n), Taken(n))
    BY TakenFields DEF Reached
<1> QED
    BY <1>1, <1>2, <1>3 DEF Handles

\* A command that changes neither the lists nor the session's channels.
LEMMA AgreementStays ==
    ASSUME IInv, JInv, NEW n \in sessions_, NEW replies,
           ReadProc(n, replies, session[n].subscribed_channels), UNCHANGED subscription_sessions_
    PROVE  SubscriptionsAgree'
<1>1. n \in Connections
    BY DEF IInv, TypeOK
<1>2. \A m \in Connections : session'[m].subscribed_channels = session[m].subscribed_channels
    BY <1>1 DEF ReadProc, Watch, IInv, TypeOK
<1>3. UNCHANGED <<sessions_, left>> /\ sessions_ \subseteq Connections
    BY DEF ReadProc, IInv, TypeOK
<1> QED
    BY <1>2, <1>3 DEF JInv, SubscriptionsAgree

\* A command that only answers.
LEMMA AnsweringKeeps ==
    ASSUME IInv, JInv, NEW n \in Connections, n \in sessions_, n \in DOMAIN fired, NEW replies \in Nat,
           ReadProc(n, replies, session[n].subscribed_channels), UNCHANGED subscription_sessions_,
           Reached(sock', Taken(n))
    PROVE  JInv'
<1>1. /\ subscription_sessions_' = [c \in Channel |-> subscription_sessions_'[c]]
      /\ \A c \in Channel : IsList(subscription_sessions_'[c])
      /\ IsFiniteSet(session[n].subscribed_channels)
    BY DEF JInv, ListsOK
<1>2. SubscriptionsAgree'
    BY AgreementStays
<1> QED
    BY <1>1, <1>2, ReadProcKeepsConnections

LEMMA PublishKeeps ==
    ASSUME IInv, JInv, NEW n \in Connections, PubSubPublishCommand(n)
    PROVE  JInv'
<1>1. Handles(n, "publish")
    BY DEF PubSubPublishCommand
<1>2. /\ n \in sessions_ /\ n \in DOMAIN fired /\ sock[n].request \in Requests
      /\ sock[n].request[1] = "publish"
    BY <1>1, HandledRequest
<1>3. sock[n].request[2] \in Channel
    BY <1>2, RequestsAssumption
<1>4. Reached(sock', Taken(n))
    BY <1>3, PublishedReaches, TakenFields DEF PubSubPublishCommand
<1> QED
    BY <1>2, <1>4, AnsweringKeeps DEF PubSubPublishCommand

\* subscribe adds the session to one list and the channel to the session's.
LEMMA SubscribeKeeps ==
    ASSUME IInv, JInv, NEW n \in Connections, PubSubSubscribeCommand(n)
    PROVE  JInv'
<1> DEFINE c == sock[n].request[2]
           channels == session[n].subscribed_channels \cup {c}
<1>1. Handles(n, "subscribe")
    BY DEF PubSubSubscribeCommand
<1>2. /\ n \in sessions_ /\ n \in DOMAIN fired /\ sock[n].request \in Requests
      /\ sock[n].request[1] = "subscribe" /\ Reached(Taken(n), Taken(n))
    BY <1>1, HandledRequest
<1>3. c \in Channel
    BY <1>2, RequestsAssumption
<1>4. /\ subscription_sessions_' = [subscription_sessions_ EXCEPT ![c] = Append(@, n)]
      /\ ReadProc(n, 1, channels) /\ sock' = Taken(n)
    BY DEF PubSubSubscribeCommand
<1>5. IsFiniteSet(channels)
    <2>1. IsFiniteSet(session[n].subscribed_channels)
        BY DEF JInv, ListsOK
    <2> QED
        BY SMTT(20), <2>1, FS_AddElement
<1>6. /\ session'[n].subscribed_channels = channels
      /\ \A m \in Connections : m # n => session'[m] = session[m]
    BY <1>4 DEF ReadProc, Watch, IInv, TypeOK
<1>7. UNCHANGED <<sessions_, left>> /\ sessions_ \subseteq Connections
    BY <1>4 DEF ReadProc, IInv, TypeOK
<1> HIDE DEF c
<1>8. /\ subscription_sessions_' = [d \in Channel |-> subscription_sessions_'[d]]
      /\ subscription_sessions_'[c] = Append(subscription_sessions_[c], n)
      /\ \A d \in Channel : d # c => subscription_sessions_'[d] = subscription_sessions_[d]
    BY <1>3, <1>4 DEF JInv, ListsOK
<1>9. /\ IsList(subscription_sessions_'[c])
      /\ Range(subscription_sessions_'[c]) = Range(subscription_sessions_[c]) \cup {n}
    <2>1. IsList(subscription_sessions_[c])
        BY <1>3 DEF JInv, ListsOK
    <2> QED
        BY <1>8, <2>1, AppendElements
<1>10. \A d \in Channel : IsList(subscription_sessions_'[d])
    BY <1>8, <1>9 DEF JInv, ListsOK
<1>11. ASSUME NEW d \in Channel
       PROVE  /\ \A m \in sessions_' :
                    m \in Range(subscription_sessions_'[d]) <=> d \in session'[m].subscribed_channels
              /\ \A m \in Range(subscription_sessions_'[d]) \ sessions_' : \E x \in left' : x.id = m
    <2>1. /\ \A m \in sessions_ :
                m \in Range(subscription_sessions_[d]) <=> d \in session[m].subscribed_channels
          /\ \A m \in Range(subscription_sessions_[d]) \ sessions_ : \E x \in left : x.id = m
        BY DEF JInv, SubscriptionsAgree
    <2>2. CASE d = c
        BY <1>2, <1>6, <1>7, <1>9, <2>1, <2>2
    <2>3. CASE d # c
        BY <1>6, <1>7, <1>8, <2>1, <2>3
    <2> QED
        BY <2>2, <2>3
<1>12. SubscriptionsAgree'
    BY <1>11 DEF SubscriptionsAgree
<1> HIDE DEF channels
<1> QED
    BY <1>2, <1>4, <1>5, <1>8, <1>10, <1>12, ReadProcKeepsConnections

\* The words of a request are finitely many.
LEMMA WordsAreFinite ==
    ASSUME NEW request \in Requests, Len(request) >= 2
    PROVE  IsFiniteSet(Range(Tail(request)))
<1> DEFINE words == Tail(request)
<1>1. request \in Seq(Range(request))
    BY RequestsAssumption
<1>2. words \in Seq(Range(request)) /\ Len(words) \in Nat
    BY <1>1
<1> HIDE DEF words
<1>3. words \in Surjection(1..Len(words), Range(words))
    BY SMTT(20), <1>2 DEF Surjection, Range
<1>4. IsFiniteSet(1..Len(words))
    BY <1>2, FS_Interval
<1>5. IsFiniteSet(Range(words))
    BY <1>3, <1>4, FS_Surjection
<1> QED
    BY <1>5 DEF words

\* unsubscribe takes the session out of the lists and the channels from it.
LEMMA UnsubscribeKeeps ==
    ASSUME IInv, JInv, NEW n \in Connections, PubSubUnsubscribeCommand(n)
    PROVE  JInv'
<1> DEFINE named == IF Len(sock[n].request) >= 2 THEN Range(Tail(sock[n].request))
                    ELSE session[n].subscribed_channels
           channels == session[n].subscribed_channels \ named
           replies == IF named = {} THEN 1 ELSE Cardinality(named)
<1>1. Handles(n, "unsubscribe")
    BY DEF PubSubUnsubscribeCommand
<1>2. /\ n \in sessions_ /\ n \in DOMAIN fired /\ sock[n].request \in Requests
      /\ Reached(Taken(n), Taken(n))
    BY <1>1, HandledRequest
<1>3. /\ subscription_sessions_' =
            [c \in Channel |-> IF c \in named THEN Unlisted(subscription_sessions_[c], n)
                               ELSE subscription_sessions_[c]]
      /\ ReadProc(n, replies, channels) /\ sock' = Taken(n)
    BY DEF PubSubUnsubscribeCommand
<1>4. IsFiniteSet(session[n].subscribed_channels)
    BY DEF JInv, ListsOK
<1>5. IsFiniteSet(named)
    BY <1>2, <1>4, WordsAreFinite
<1> HIDE DEF named
<1>6. IsFiniteSet(channels)
    BY <1>4, FS_Difference
<1>7. replies \in Nat
    BY <1>5, FS_CardinalityType
<1>8. /\ session'[n].subscribed_channels = channels
      /\ \A m \in Connections : m # n => session'[m] = session[m]
    BY <1>3 DEF ReadProc, Watch, IInv, TypeOK
<1>9. UNCHANGED <<sessions_, left>> /\ sessions_ \subseteq Connections
    BY <1>3 DEF ReadProc, IInv, TypeOK
<1>10. ASSUME NEW c \in Channel
       PROVE  /\ IsList(subscription_sessions_'[c])
              /\ Range(subscription_sessions_'[c]) =
                    IF c \in named THEN Range(subscription_sessions_[c]) \ {n}
                    ELSE Range(subscription_sessions_[c])
    <2>1. IsList(subscription_sessions_[c])
        BY DEF JInv, ListsOK
    <2> QED
        BY <1>3, <2>1, EraseElements DEF Unlisted
<1>11. ASSUME NEW c \in Channel
       PROVE  /\ \A m \in sessions_' :
                    m \in Range(subscription_sessions_'[c]) <=> c \in session'[m].subscribed_channels
              /\ \A m \in Range(subscription_sessions_'[c]) \ sessions_' : \E x \in left' : x.id = m
    <2>1. /\ \A m \in sessions_ :
                m \in Range(subscription_sessions_[c]) <=> c \in session[m].subscribed_channels
          /\ \A m \in Range(subscription_sessions_[c]) \ sessions_ : \E x \in left : x.id = m
        BY DEF JInv, SubscriptionsAgree
    <2>2. CASE c \in named
        BY <1>8, <1>9, <1>10, <2>1, <2>2
    <2>3. CASE c \notin named
        BY <1>8, <1>9, <1>10, <2>1, <2>3
    <2> QED
        BY <2>2, <2>3
<1>12. SubscriptionsAgree'
    BY <1>11 DEF SubscriptionsAgree
<1>13. /\ subscription_sessions_' = [c \in Channel |-> subscription_sessions_'[c]]
       /\ \A c \in Channel : IsList(subscription_sessions_'[c])
    BY <1>3, <1>10
<1> HIDE DEF channels, replies
<1> QED
    BY <1>2, <1>3, <1>6, <1>7, <1>12, <1>13, ReadProcKeepsConnections

\* The read handlers.
LEMMA ReadHandlersKeepConnections ==
    ASSUME IInv, JInv, NEW n \in Connections,
           \/ OtherCommand(n) \/ PubSubSubscribeCommand(n) \/ PubSubUnsubscribeCommand(n)
           \/ PubSubPublishCommand(n) \/ BgsaveCommand(n)
    PROVE  JInv'
<1>1. CASE OtherCommand(n)
    <2>1. n \in sessions_ /\ n \in DOMAIN fired /\ Reached(Taken(n), Taken(n))
        BY <1>1, HandledRequest DEF OtherCommand
    <2>2. /\ \E replies \in Nat : ReadProc(n, replies, session[n].subscribed_channels)
          /\ UNCHANGED subscription_sessions_ /\ sock' = Taken(n)
        BY <1>1 DEF OtherCommand
    <2> QED
        BY <2>1, <2>2, AnsweringKeeps
<1>2. CASE BgsaveCommand(n)
    <2>1. n \in sessions_ /\ n \in DOMAIN fired /\ Reached(Taken(n), Taken(n))
        BY <1>2, HandledRequest DEF BgsaveCommand
    <2>2. /\ ReadProc(n, 1, session[n].subscribed_channels)
          /\ UNCHANGED subscription_sessions_ /\ sock' = Taken(n)
        BY <1>2 DEF BgsaveCommand
    <2> QED
        BY <2>1, <2>2, AnsweringKeeps
<1> QED
    BY <1>1, <1>2, SubscribeKeeps, UnsubscribeKeeps, PublishKeeps

\* A step of the clients that leaves the server and the bytes sent alone.
LEMMA ClientKeeps ==
    ASSUME JInv, sock' \in [Connections -> Sockets], \A k \in Connections : Kept(k),
           UNCHANGED <<fdTable, session, sessions_, subscription_sessions_, left, fired>>
    PROVE  JInv'
<1>1. SocketsOK' /\ NumbersKept /\ \A k : EventsKept(k)
    BY DEF SocketsOK, NumbersKept, EventsKept, JInv
<1>2. ConnectionsOK'
    BY <1>1, KeptConnection DEF ConnectionsOK
<1>3. DescriptorsOK' /\ ListsOK'
    BY DEF DescriptorsOK, ListsOK, JInv
<1>4. SubscriptionsAgree' /\ OnlyMessagesCutOff'
    BY DEF SubscriptionsAgree, OnlyMessagesCutOff, JInv
<1> QED
    BY <1>1, <1>2, <1>3, <1>4 DEF JInv

\* A step that changes one socket, but none of the bytes sent.
LEMMA SocketKept ==
    ASSUME JInv, NEW n \in Connections, NEW v \in Sockets, sock' = [sock EXCEPT ![n] = v],
           v.peer \in {"none", "connecting"} => sock[n].peer \in {"none", "connecting"} /\ v = IdleSocket(v.peer),
           sock[n].peer = "reset" => v.peer = "reset",
           v.last = sock[n].last, v.out <= sock[n].out, v.torn = sock[n].torn,
           v.messaged = sock[n].messaged, v.foreign = sock[n].foreign, v.thrice = sock[n].thrice
    PROVE  sock' \in [Connections -> Sockets] /\ \A k \in Connections : Kept(k)
<1>1. sock \in [Connections -> Sockets]
    BY DEF JInv, SocketsOK
<1>2. /\ sock' \in [Connections -> Sockets] /\ sock'[n] = v
      /\ \A k \in Connections : k # n => sock'[k] = sock[k]
    BY <1>1
<1>3. Kept(n)
    BY <1>2 DEF Kept
<1>4. ASSUME NEW k \in Connections, k # n PROVE Kept(k)
    <2>1. sock'[k] = sock[k] /\ sock[k].out \in Int
        BY <1>1, <1>2, <1>4 DEF Sockets
    <2>2. Fresh(k)
        BY DEF JInv, ConnectionsOK, ConnectionOK
    <2> QED
        BY <2>1, <2>2 DEF Kept, Fresh
<1> QED
    BY <1>2, <1>3, <1>4

\* A socket whose client is in another state.
LEMMA PeerSet ==
    ASSUME NEW s \in Sockets, NEW peer
    PROVE  [s EXCEPT !.peer = peer] =
             [peer |-> peer, request |-> s.request, out |-> s.out, last |-> s.last, torn |-> s.torn,
              messaged |-> s.messaged, foreign |-> s.foreign, thrice |-> s.thrice]
<1>1. s = [peer |-> s.peer, request |-> s.request, out |-> s.out, last |-> s.last, torn |-> s.torn,
           messaged |-> s.messaged, foreign |-> s.foreign, thrice |-> s.thrice]
    BY DEF Sockets
<1> DEFINE t == [s EXCEPT !.peer = peer]
<1>2. t = [s EXCEPT !.peer = peer]
    OBVIOUS
<1> HIDE DEF t
<1>3. t = [peer |-> peer, request |-> s.request, out |-> s.out, last |-> s.last, torn |-> s.torn,
           messaged |-> s.messaged, foreign |-> s.foreign, thrice |-> s.thrice]
    BY <1>1, <1>2, Zenon
<1> QED
    BY <1>3 DEF t

\* What the clients do.
LEMMA ClientsKeep ==
    ASSUME JInv, NEW n \in Connections, Client(n)
    PROVE  JInv'
<1>1. UNCHANGED <<fdTable, session, sessions_, subscription_sessions_, left, fired>>
    BY DEF Client, Connect, Send, Receive, Finish, BreakOff, server
<1>2. sock \in [Connections -> Sockets] /\ sock[n] \in Sockets /\ Fresh(n)
    BY DEF JInv, SocketsOK, ConnectionsOK, ConnectionOK
<1> DEFINE Given(v) ==
        /\ v \in Sockets /\ sock' = [sock EXCEPT ![n] = v]
        /\ v.peer \in {"none", "connecting"} => sock[n].peer \in {"none", "connecting"} /\ v = IdleSocket(v.peer)
        /\ sock[n].peer = "reset" => v.peer = "reset"
        /\ v.last = sock[n].last /\ v.out <= sock[n].out /\ v.torn = sock[n].torn
        /\ v.messaged = sock[n].messaged /\ v.foreign = sock[n].foreign /\ v.thrice = sock[n].thrice
<1>3. \E v : Given(v)
    <2>1. CASE Connect(n)
        <3> DEFINE v == [sock[n] EXCEPT !.peer = "connecting"]
        <3>0. sock[n] = IdleSocket("none") /\ sock[n].peer = "none"
            BY <1>2, <2>1 DEF Connect, Fresh
        <3>1. v = IdleSocket("connecting") /\ sock[n].peer = "none"
            <4>1. v = [peer |-> "connecting", request |-> sock[n].request, out |-> sock[n].out,
                       last |-> sock[n].last, torn |-> sock[n].torn, messaged |-> sock[n].messaged,
                       foreign |-> sock[n].foreign, thrice |-> sock[n].thrice]
                BY <1>2, PeerSet
            <4>2. /\ sock[n].request = NoRequest /\ sock[n].out = 0 /\ sock[n].last = <<>>
                  /\ sock[n].torn = FALSE /\ sock[n].messaged = FALSE
                  /\ sock[n].foreign = FALSE /\ sock[n].thrice = FALSE
                BY <3>0 DEF IdleSocket
            <4> HIDE DEF v
            <4> QED
                BY <3>0, <4>1, <4>2, Zenon DEF IdleSocket
        <3>2. Given(v)
            BY <1>2, <2>1, <3>1 DEF Connect, Sockets, IdleSocket
        <3> QED
            BY <3>2
    <2>2. ASSUME NEW request \in Requests, Send(n, request) PROVE \E v : Given(v)
        <3> DEFINE v == [sock[n] EXCEPT !.request = request]
        <3>1. Given(v)
            BY <1>2, <2>2 DEF Send, Sockets
        <3> QED
            BY <3>1
    <2>3. CASE Receive(n)
        <3> DEFINE v == [sock[n] EXCEPT !.out = 0]
        <3>1. Given(v)
            BY <1>2, <2>3, ServerAssumption DEF Receive, Sockets
        <3> QED
            BY <3>1
    <2>4. CASE Finish(n)
        <3> DEFINE v == [sock[n] EXCEPT !.peer = "finished"]
        <3>1. sock' = [sock EXCEPT ![n] = v] /\ sock[n].peer = "open"
            BY <2>4 DEF Finish
        <3>2. /\ v \in Sockets /\ v.peer = "finished"
              /\ v.last = sock[n].last /\ v.out <= sock[n].out /\ v.torn = sock[n].torn
              /\ v.messaged = sock[n].messaged /\ v.foreign = sock[n].foreign /\ v.thrice = sock[n].thrice
            BY <1>2 DEF Sockets
        <3> HIDE DEF v
        <3>3. Given(v)
            BY <3>1, <3>2
        <3> QED
            BY <3>3
    <2>5. CASE BreakOff(n)
        <3> DEFINE v == [sock[n] EXCEPT !.peer = "reset", !.request = NoRequest]
        <3>1. sock' = [sock EXCEPT ![n] = v]
            BY <2>5 DEF BreakOff
        <3>2. v \in Sockets
            BY <1>2 DEF Sockets
        <3>3. /\ v.peer = "reset" /\ v.last = sock[n].last /\ v.out = sock[n].out /\ v.torn = sock[n].torn
              /\ v.messaged = sock[n].messaged /\ v.foreign = sock[n].foreign /\ v.thrice = sock[n].thrice
            BY <1>2 DEF Sockets
        <3>4. sock[n].out \in Int
            BY <1>2 DEF Sockets
        <3> HIDE DEF v
        <3>5. Given(v)
            BY <3>1, <3>2, <3>3, <3>4
        <3> QED
            BY <3>5
    <2> QED
        BY <2>1, <2>2, <2>3, <2>4, <2>5 DEF Client
<1>4. sock' \in [Connections -> Sockets] /\ \A k \in Connections : Kept(k)
    BY <1>3, SocketKept
<1> QED
    BY <1>1, <1>4, ClientKeeps

\* epoll_wait reports EPOLLOUT of a socket that takes bytes.
LEMMA WaitKeepsConnections ==
    ASSUME IInv, JInv, Wait
    PROVE  JInv'
<1>1. /\ UNCHANGED <<sock, fdTable, session, sessions_, subscription_sessions_, left>>
      /\ fired' = [n \in {n \in DOMAIN epoll \cup {Listen} : Ready(n) # {}} |-> Ready(n)]
    BY DEF Wait
<1>2. SocketsOK'
    BY <1>1 DEF SocketsOK, JInv
<1>3. ASSUME NEW k \in Connections PROVE ConnectionOK(k)'
    <2>1. ConnectionOK(k)
        BY DEF JInv, ConnectionsOK
    <2>2. k # Listen
        BY Numbers
    <2>3. WritableUnlessMessaged(k)'
        <3> SUFFICES ASSUME k \in DOMAIN fired', EPOLLOUT \in fired'[k]
                     PROVE  sock[k].out < SndBuf \/ sock[k].peer = "reset"
            BY <1>1 DEF WritableUnlessMessaged
        <3>1. EPOLLOUT \in Ready(k)
            BY <1>1
        <3> QED
            BY <2>2, <3>1 DEF Ready, EPOLLIN, EPOLLOUT
    <2>4. Fresh(k)' /\ RepliesGoOn(k)'
        BY <1>1, <2>1 DEF ConnectionOK, Fresh, RepliesGoOn
    <2>5. sock'[k].foreign => Inherited(k)'
        BY <1>1, <2>1 DEF ConnectionOK, Inherited
    <2>6. sock'[k].torn => sock'[k].messaged \/ sock'[k].thrice
        BY <1>1, <2>1 DEF ConnectionOK
    <2> QED
        BY <2>3, <2>4, <2>5, <2>6 DEF ConnectionOK
<1>4. DescriptorsOK' /\ ListsOK'
    BY <1>1 DEF DescriptorsOK, ListsOK, JInv
<1>5. SubscriptionsAgree' /\ OnlyMessagesCutOff'
    BY <1>1 DEF SubscriptionsAgree, OnlyMessagesCutOff, JInv
<1> QED
    BY <1>2, <1>3, <1>4, <1>5 DEF JInv, ConnectionsOK

\* A socket nothing happens to.
LEMMA UnchangedIsKept ==
    ASSUME JInv, NEW k \in Connections, sock'[k] = sock[k]
    PROVE  Kept(k)
<1>1. Fresh(k) /\ sock[k].out \in Int
    BY DEF JInv, ConnectionsOK, ConnectionOK, SocketsOK, Sockets
<1> QED
    BY <1>1 DEF Kept, Fresh

\* accept: the Session is new, and its client has been sent nothing.
LEMMA AcceptKeepsConnections ==
    ASSUME IInv, JInv, AcceptProc
    PROVE  JInv'
<1>1. PICK n \in Connections, fd \in FreeFds :
        /\ sock[n].peer = "connecting"
        /\ sock' = [sock EXCEPT ![n].peer = "open"]
        /\ fdTable' = [fdTable EXCEPT ![fd] = n]
        /\ session' = [session EXCEPT ![n] = NewSession(fd, {EPOLLIN})]
        /\ sessions_' = sessions_ \cup {n}
    BY DEF AcceptProc
<1>2. fd \in Connections /\ fdTable[fd] = 0 /\ UNCHANGED <<subscription_sessions_, left>>
    BY DEF FreeFds, IInv, TypeOK, AcceptProc
<1>3. /\ sock[n] = IdleSocket("connecting") /\ n \notin sessions_ /\ \A m \in left : m.id # n
    BY <1>1 DEF JInv, ConnectionsOK, ConnectionOK, Fresh
<1>4. n \notin DOMAIN fired
    <2>1. ~undefined /\ n # Listen
        BY Numbers DEF AcceptProc, Turn
    <2> QED
        BY <1>3, <2>1 DEF IInv, EventsAreCurrent
<1> DEFINE v == [sock[n] EXCEPT !.peer = "open"]
<1>5. sock[n] \in Sockets /\ sock \in [Connections -> Sockets]
    BY DEF JInv, SocketsOK
<1>6. /\ v \in Sockets /\ v.peer = "open" /\ v.last = <<>> /\ v.out = 0
      /\ v.torn = sock[n].torn /\ v.messaged = sock[n].messaged
      /\ v.foreign = sock[n].foreign /\ v.thrice = sock[n].thrice
      /\ sock[n].last = <<>> /\ sock[n].out = 0 /\ ~sock[n].torn /\ ~sock[n].foreign
    <2>1. v = [peer |-> "open", request |-> sock[n].request, out |-> sock[n].out,
               last |-> sock[n].last, torn |-> sock[n].torn, messaged |-> sock[n].messaged,
               foreign |-> sock[n].foreign, thrice |-> sock[n].thrice]
        BY <1>5, PeerSet
    <2>2. sock[n].last = <<>> /\ sock[n].out = 0 /\ ~sock[n].torn /\ ~sock[n].foreign
        BY <1>3 DEF IdleSocket
    <2> HIDE DEF v
    <2>3. v \in Sockets
        BY <1>5, <2>1 DEF Sockets
    <2> QED
        BY <2>1, <2>2, <2>3
<1>7. sock' = [sock EXCEPT ![n] = v]
    BY <1>1
<1> HIDE DEF v
<1>8. sock' \in [Connections -> Sockets] /\ sock'[n] = v /\ \A k \in Connections : k # n => sock'[k] = sock[k]
    BY <1>5, <1>6, <1>7
<1>9. /\ session'[n].fd = fd /\ session'[n].write_buf = <<>> /\ session'[n].subscribed_channels = {}
      /\ \A m \in Connections : m # n => session'[m] = session[m]
    BY <1>1 DEF NewSession, IInv, TypeOK
<1>10. fired' = [m \in DOMAIN fired' |-> fired'[m]] /\ (\A k : EventsKept(k)) /\ DOMAIN fired' \subseteq DOMAIN fired
    BY EventsStay, EventsGoAway DEF AcceptProc, Turn, JInv
<1>11. SocketsOK'
    <2>1. <<>> \in Seq(Bytes)
        OBVIOUS
    <2>2. \A k \in Connections : session'[k].write_buf \in Seq(Bytes)
        BY <1>9, <2>1 DEF SocketsOK, JInv
    <2> QED
        BY <1>8, <1>10, <2>2 DEF SocketsOK
<1>12. NumbersKept
    BY <1>1, <1>2, <1>9 DEF NumbersKept
<1>13. ASSUME NEW k \in Connections, k # n PROVE ConnectionOK(k)'
    <2>1. Kept(k)
        BY <1>8, <1>13, UnchangedIsKept
    <2>2. session'[k] = session[k] /\ (k \in sessions_' => k \in sessions_)
        BY <1>1, <1>9, <1>13
    <2> QED
        BY <1>10, <1>11, <1>12, <2>1, <2>2, KeptConnection
<1>14. ConnectionOK(n)'
    <2>1. n \notin DOMAIN fired'
        BY <1>4, <1>10
    <2>2. GoesOn(<<>>, <<>>)
        BY DEF GoesOn
    <2> QED
        BY <1>6, <1>8, <1>9, <2>1, <2>2 DEF ConnectionOK, Fresh, WritableUnlessMessaged, RepliesGoOn
<1>15. DescriptorsOK'
    <2>1. ASSUME NEW f \in Connections, fdTable'[f] # 0
          PROVE  fdTable'[f] \in sessions_' /\ session'[fdTable'[f]].fd = f
        <3>1. CASE f = fd
            BY <1>1, <1>2, <1>9, <3>1 DEF IInv, TypeOK
        <3>2. CASE f # fd
            <4>1. fdTable'[f] = fdTable[f]
                BY <1>1, <3>2 DEF IInv, TypeOK
            <4>2. fdTable[f] \in sessions_ /\ session[fdTable[f]].fd = f /\ fdTable[f] \in Connections
                BY <2>1, <4>1 DEF JInv, DescriptorsOK, IInv, TypeOK
            <4> QED
                BY <1>1, <1>3, <1>9, <4>1, <4>2
        <3> QED
            BY <3>1, <3>2
    <2>2. \A m \in left' : m.id \in Connections /\ session'[m.id].fd \in Connections
        BY <1>2, <1>3, <1>9 DEF JInv, DescriptorsOK
    <2> QED
        BY <2>1, <2>2 DEF DescriptorsOK
<1>16. ListsOK'
    <2>1. IsFiniteSet({})
        BY FS_EmptySet
    <2> QED
        BY <1>2, <1>9, <2>1 DEF ListsOK, JInv
<1>17. OnlyMessagesCutOff'
    BY <1>2 DEF OnlyMessagesCutOff, JInv
<1>18. SubscriptionsAgree'
    <2>1. sessions_ \subseteq Connections
        BY DEF IInv, TypeOK
    <2>2. ASSUME NEW c \in Channel
          PROVE  /\ \A m \in sessions_' :
                       m \in Range(subscription_sessions_'[c]) <=> c \in session'[m].subscribed_channels
                 /\ \A m \in Range(subscription_sessions_'[c]) \ sessions_' : \E x \in left' : x.id = m
        <3>1. /\ \A m \in sessions_ :
                    m \in Range(subscription_sessions_[c]) <=> c \in session[m].subscribed_channels
              /\ \A m \in Range(subscription_sessions_[c]) \ sessions_ : \E x \in left : x.id = m
            BY DEF JInv, SubscriptionsAgree
        <3>2. n \notin Range(subscription_sessions_[c])
            BY <1>3, <3>1
        <3>3. ASSUME NEW m \in sessions_'
              PROVE  m \in Range(subscription_sessions_'[c]) <=> c \in session'[m].subscribed_channels
            <4>1. CASE m = n
                BY <1>2, <1>9, <3>2, <4>1
            <4>2. CASE m # n
                <5>1. m \in sessions_ /\ session'[m] = session[m]
                    BY <1>1, <1>9, <2>1, <4>2
                <5> QED
                    BY <1>2, <3>1, <5>1
            <4> QED
                BY <4>1, <4>2
        <3>4. \A m \in Range(subscription_sessions_'[c]) \ sessions_' : \E x \in left' : x.id = m
            BY <1>1, <1>2, <3>1
        <3> QED
            BY <3>3, <3>4
    <2> QED
        BY <2>2 DEF SubscriptionsAgree
<1> QED
    BY <1>11, <1>13, <1>14, <1>15, <1>16, <1>17, <1>18 DEF JInv, ConnectionsOK

\* A session is closed; the lists are up to the handler.
LEMMA ClosingKeeps ==
    ASSUME IInv, JInv, NEW n \in sessions_, n \in DOMAIN fired, CloseSession(n), Forget(n, n \in child),
           left \subseteq left', \A m \in left' : m \in left \/ m.id = n,
           SubscriptionsAgree', OnlyMessagesCutOff',
           subscription_sessions_' = [c \in Channel |-> subscription_sessions_'[c]],
           \A c \in Channel : IsList(subscription_sessions_'[c])
    PROVE  JInv'
<1>1. n \in Connections /\ session[n].fd \in Connections
    BY DEF IInv, TypeOK
<1>2. /\ session'[n].fd = session[n].fd /\ session'[n].write_buf = <<>>
      /\ session'[n].subscribed_channels = {}
      /\ \A m \in Connections : m # n => session'[m] = session[m]
    BY <1>1 DEF CloseSession, NewSession, IInv, TypeOK
<1>3. /\ sessions_' = sessions_ \ {n} /\ n \notin DOMAIN fired'
      /\ fdTable' = [fdTable EXCEPT ![session[n].fd] = 0]
    BY DEF CloseSession, NextEvent
<1>4. fired' = [m \in DOMAIN fired' |-> fired'[m]] /\ \A k : EventsKept(k)
    BY EventsStay DEF CloseSession, JInv
<1>5. sock \in [Connections -> Sockets]
    BY DEF JInv, SocketsOK
<1>6. /\ \A k \in Connections : k # n => sock'[k] = sock[k]
      /\ sock'[n] = sock[n] \/ sock'[n] = IdleSocket("closed")
      /\ sock' \in [Connections -> Sockets]
    <2>1. IdleSocket("closed") \in Sockets
        BY ServerAssumption DEF IdleSocket, Sockets
    <2> HIDE DEF IdleSocket
    <2> QED
        BY <1>1, <1>5, <2>1 DEF Forget
<1>7. SocketsOK'
    <2>1. <<>> \in Seq(Bytes)
        OBVIOUS
    <2>2. \A k \in Connections : session'[k].write_buf \in Seq(Bytes)
        BY <1>2, <2>1 DEF SocketsOK, JInv
    <2> QED
        BY <1>4, <1>6, <2>2 DEF SocketsOK
<1>8. NumbersKept
    BY <1>1, <1>2 DEF NumbersKept
<1>9. ASSUME NEW k \in Connections, sock'[k] = sock[k] PROVE ConnectionOK(k)'
    <2>1. Kept(k)
        BY <1>9, UnchangedIsKept
    <2>2. k \in sessions_' => k \in sessions_ /\ k # n
        BY <1>3
    <2>3. session'[k].fd = session[k].fd
        BY <1>2
    <2>4. k \in sessions_' /\ GoesOn(sock[k].last, session[k].write_buf)
            => GoesOn(sock[k].last, session'[k].write_buf)
        BY <1>2, <2>2
    <2> QED
        BY <1>4, <1>7, <1>8, <2>1, <2>2, <2>3, <2>4, KeptConnection
<1>10. ConnectionsOK'
    BY <1>1, <1>3, <1>6, <1>9, ClosedConnection DEF ConnectionsOK
<1>11. DescriptorsOK'
    <2>1. ASSUME NEW f \in Connections, fdTable'[f] # 0
          PROVE  fdTable'[f] \in sessions_' /\ session'[fdTable'[f]].fd = f
        <3>1. f # session[n].fd /\ fdTable'[f] = fdTable[f]
            BY <1>1, <1>3, <2>1 DEF IInv, TypeOK
        <3>2. fdTable[f] \in sessions_ /\ session[fdTable[f]].fd = f /\ fdTable[f] \in Connections
            BY <2>1, <3>1 DEF JInv, DescriptorsOK, IInv, TypeOK
        <3> QED
            BY <1>2, <1>3, <3>1, <3>2
    <2>2. ASSUME NEW m \in left' PROVE m.id \in Connections /\ session'[m.id].fd \in Connections
        BY <1>1, <1>2 DEF JInv, DescriptorsOK
    <2> QED
        BY <2>1, <2>2 DEF DescriptorsOK
<1>12. ListsOK'
    <2>1. IsFiniteSet({})
        BY FS_EmptySet
    <2> QED
        BY <1>2, <2>1 DEF ListsOK, JInv
<1> QED
    BY <1>7, <1>10, <1>11, <1>12 DEF JInv

\* ReadProc takes the session out of the lists of its channels: it is in no
\* other.
LEMMA ReadProcClosesKeeps ==
    ASSUME IInv, JInv, NEW n \in Connections, ReadProcCloses(n)
    PROVE  JInv'
<1>1. n \in sessions_ /\ n \in DOMAIN fired
    BY HandledIsOpen DEF ReadProcCloses, Turn
<1> DEFINE channels == session[n].subscribed_channels
<1>2. /\ subscription_sessions_' =
            [c \in Channel |-> IF c \in channels THEN Unlisted(subscription_sessions_[c], n)
                               ELSE subscription_sessions_[c]]
      /\ CloseSession(n) /\ Forget(n, n \in child) /\ UNCHANGED left
    BY DEF ReadProcCloses
<1>3. ASSUME NEW c \in Channel
      PROVE  /\ IsList(subscription_sessions_'[c])
             /\ Range(subscription_sessions_'[c]) = Range(subscription_sessions_[c]) \ {n}
    <2>1. IsList(subscription_sessions_[c])
        BY DEF JInv, ListsOK
    <2>2. CASE c \in channels
        BY <1>2, <2>1, <2>2, EraseElements DEF Unlisted
    <2>3. CASE c \notin channels
        <3>1. n \notin Range(subscription_sessions_[c])
            BY <1>1, <2>3 DEF JInv, SubscriptionsAgree
        <3> QED
            BY <1>2, <2>1, <2>3, <3>1
    <2> QED
        BY <2>2, <2>3
<1>4. /\ sessions_' = sessions_ \ {n} /\ sessions_ \subseteq Connections
      /\ \A m \in Connections : m # n => session'[m] = session[m]
    BY <1>2 DEF CloseSession, IInv, TypeOK
<1>5. SubscriptionsAgree'
    BY <1>2, <1>3, <1>4 DEF SubscriptionsAgree, JInv
<1>6. OnlyMessagesCutOff'
    BY <1>2 DEF OnlyMessagesCutOff, JInv
<1>7. /\ subscription_sessions_' = [c \in Channel |-> subscription_sessions_'[c]]
      /\ \A c \in Channel : IsList(subscription_sessions_'[c])
    BY <1>2, <1>3
<1> QED
    BY <1>1, <1>2, <1>5, <1>6, <1>7, ClosingKeeps

\* A child closes its copy of a connection.
LEMMA StopServeSocketsKeepsConnections ==
    ASSUME IInv, JInv, NEW n \in Connections, StopServeSockets(n)
    PROVE  JInv'
<1>1. /\ UNCHANGED <<fdTable, session, sessions_, subscription_sessions_, left, fired>> /\ ~undefined
      /\ sock' = IF n \in sessions_ THEN sock ELSE [sock EXCEPT ![n] = IdleSocket("closed")]
    BY DEF StopServeSockets, Forget
<1>2. sock \in [Connections -> Sockets]
    BY DEF JInv, SocketsOK
<1>3. IdleSocket("closed") \in Sockets
    BY ServerAssumption DEF IdleSocket, Sockets
<1>4. /\ sock' \in [Connections -> Sockets] /\ \A k \in Connections : k # n => sock'[k] = sock[k]
      /\ sock'[n] = sock[n] \/ (sock'[n] = IdleSocket("closed") /\ n \notin sessions_)
    BY <1>1, <1>2, <1>3
<1>5. n \notin sessions_ => n \notin DOMAIN fired
    BY <1>1, Numbers DEF IInv, EventsAreCurrent
<1>6. SocketsOK' /\ NumbersKept /\ \A k : EventsKept(k)
    BY <1>1, <1>4 DEF SocketsOK, NumbersKept, EventsKept, JInv
<1>7. ASSUME NEW k \in Connections, sock'[k] = sock[k] PROVE ConnectionOK(k)'
    <2>1. Kept(k)
        BY <1>7, UnchangedIsKept
    <2> QED
        BY <1>1, <1>6, <2>1, KeptConnection
<1>8. ConnectionsOK'
    BY <1>1, <1>4, <1>5, <1>7, ClosedConnection DEF ConnectionsOK
<1>9. DescriptorsOK' /\ ListsOK'
    BY <1>1 DEF DescriptorsOK, ListsOK, JInv
<1>10. SubscriptionsAgree' /\ OnlyMessagesCutOff'
    BY <1>1 DEF SubscriptionsAgree, OnlyMessagesCutOff, JInv
<1> QED
    BY <1>6, <1>8, <1>9, <1>10 DEF JInv

\* A socket that is marked.
LEMMA ThriceSet ==
    ASSUME NEW w, NEW k,
           w = [peer |-> w.peer, request |-> w.request, out |-> w.out, last |-> w.last, torn |-> w.torn,
                messaged |-> w.messaged, foreign |-> w.foreign, thrice |-> w.thrice]
    PROVE  [w EXCEPT !.out = k, !.thrice = TRUE] =
             [peer |-> w.peer, request |-> w.request, out |-> k, last |-> w.last, torn |-> w.torn,
              messaged |-> w.messaged, foreign |-> w.foreign, thrice |-> TRUE]
<1> DEFINE t == [w EXCEPT !.out = k, !.thrice = TRUE]
<1>1. t = [w EXCEPT !.out = k, !.thrice = TRUE]
    OBVIOUS
<1> HIDE DEF t
<1>2. t = [peer |-> w.peer, request |-> w.request, out |-> k, last |-> w.last, torn |-> w.torn,
           messaged |-> w.messaged, foreign |-> w.foreign, thrice |-> TRUE]
    BY <1>1, Zenon
<1> QED
    BY <1>2 DEF t

\* WriteProc has written to n, or found nothing to write.
LEMMA WritingKeeps ==
    ASSUME IInv, JInv, NEW n \in Connections, n \in sessions_, n \in DOMAIN fired,
           NEW mask, NEW write_buf \in Seq(Bytes), Watch(n, mask, write_buf, session[n].subscribed_channels),
           NextEvent(n), UNCHANGED <<fdTable, sessions_, left, subscription_sessions_>>,
           sock' \in [Connections -> Sockets], \A k \in Connections : k # n => sock'[k] = sock[k],
           sock'[n].peer = sock[n].peer, sock'[n].foreign => sock[n].foreign,
           sock'[n].messaged \/ sock'[n].thrice \/ (~sock'[n].torn /\ GoesOn(sock'[n].last, write_buf))
    PROVE  JInv'
<1>1. /\ session'[n].fd = session[n].fd /\ session'[n].write_buf = write_buf
      /\ session'[n].subscribed_channels = session[n].subscribed_channels
      /\ \A m \in Connections : m # n => session'[m] = session[m]
    BY DEF Watch, IInv, TypeOK
<1>2. /\ fired' = [m \in DOMAIN fired' |-> fired'[m]] /\ (\A k : EventsKept(k)) /\ n \notin DOMAIN fired'
    BY EventsStay DEF JInv, NextEvent
<1>3. SocketsOK'
    BY <1>1, <1>2 DEF SocketsOK, JInv
<1>4. NumbersKept
    BY <1>1 DEF NumbersKept
<1>5. ASSUME NEW k \in Connections, k # n PROVE ConnectionOK(k)'
    <2>1. Kept(k) /\ session'[k] = session[k]
        BY <1>1, <1>5, UnchangedIsKept
    <2> QED
        BY <1>2, <1>3, <1>4, <2>1, KeptConnection
<1>6. ConnectionOK(n)'
    <2>1. sock[n].foreign => Inherited(n)
        BY DEF JInv, ConnectionsOK, ConnectionOK
    <2>2. sock'[n].foreign => Inherited(n)'
        BY <1>1, <1>4, <2>1, InheritedStays
    <2>3. sock'[n].peer \notin {"none", "connecting"}
        BY OpenIsNotFresh
    <2> QED
        BY <1>1, <1>2, <2>2, <2>3 DEF ConnectionOK, Fresh, WritableUnlessMessaged, RepliesGoOn
<1>7. \A m \in Connections : /\ session'[m].fd = session[m].fd
                             /\ session'[m].subscribed_channels = session[m].subscribed_channels
    BY <1>1
<1>8. sessions_ \subseteq Connections
    BY DEF IInv, TypeOK
<1>9. DescriptorsOK' /\ ListsOK'
    BY <1>7, <1>8 DEF DescriptorsOK, ListsOK, JInv
<1>10. SubscriptionsAgree' /\ OnlyMessagesCutOff'
    BY <1>7, <1>8 DEF SubscriptionsAgree, OnlyMessagesCutOff, JInv
<1> QED
    BY <1>3, <1>5, <1>6, <1>9, <1>10 DEF JInv, ConnectionsOK

\* WriteProc: a write that the socket cuts short goes on behind the bytes it
\* took; a full socket is taken for a closed one only after messages.
LEMMA WriteProcKeepsConnections ==
    ASSUME IInv, JInv, NEW n \in Connections, WriteProc(n)
    PROVE  JInv'
<1> DEFINE write_buf == session[n].write_buf
           len == Len(write_buf)
           nbytes == Room(sock, n, len)
           channels == session[n].subscribed_channels
<1>1. n \in sessions_ /\ n \in DOMAIN fired /\ EPOLLOUT \in fired[n]
    BY HandledIsOpen DEF WriteProc, Turn
<1>2. /\ sock \in [Connections -> Sockets] /\ sock[n] \in Sockets /\ ConnectionOK(n)
      /\ write_buf \in Seq(Bytes) /\ len \in Nat
    BY DEF JInv, SocketsOK, ConnectionsOK
<1>3. /\ nbytes \in 0..len
      /\ nbytes = 0 /\ len # 0 => sock[n].peer = "reset" \/ sock[n].out = SndBuf
    BY <1>2, RoomThereIs
<1>4. UNCHANGED subscription_sessions_
    BY DEF WriteProc
<1>5. \/ sock[n].messaged \/ sock[n].thrice
      \/ (~sock[n].torn /\ GoesOn(sock[n].last, write_buf))
    BY <1>1, <1>2 DEF ConnectionOK, RepliesGoOn
<1>6. <<>> \in Seq(Bytes)
    OBVIOUS
<1>7. CASE /\ write_buf = <<>> /\ Watch(n, {EPOLLIN}, <<>>, channels) /\ NextEvent(n)
           /\ UNCHANGED <<sock, fdTable, sessions_, left>>
    BY <1>1, <1>2, <1>4, <1>5, <1>6, <1>7, WritingKeeps
<1>8. CASE /\ write_buf # <<>> /\ nbytes > 0
           /\ IF nbytes = len
              THEN Watch(n, {EPOLLIN}, <<>>, channels)
              ELSE Watch(n, session[n].mask, SubSeq(write_buf, nbytes + 1, len), channels)
           /\ sock' = WriteFromBuf(sock, n, write_buf)
           /\ NextEvent(n) /\ UNCHANGED <<fdTable, sessions_, left>>
    <2> DEFINE sent == SubSeq(write_buf, 1, nbytes)
               rest == SubSeq(write_buf, nbytes + 1, len)
               v == Accepted(sock[n], sent)
    <2>1. nbytes # 0 /\ nbytes \in 1..len
        <3>1. nbytes > 0
            BY <1>8, Zenon
        <3> HIDE DEF nbytes, len
        <3> QED
            BY <1>2, <1>3, <3>1
    <2>2. sock' = [sock EXCEPT ![n] = v] /\ v \in Sockets
        BY <1>2, <1>8, <2>1, WriteSends
    <2>3. sent \in Seq(Bytes) /\ sent # <<>> /\ rest \in Seq(Bytes)
        BY <1>2, <2>1
    <2>4. v.peer = sock[n].peer /\ v.messaged = sock[n].messaged /\ v.thrice = sock[n].thrice
          /\ v.foreign = sock[n].foreign
        <3> HIDE DEF sent
        <3> QED
            BY <1>2, <2>3, AcceptedFields
    <2>5. ~sock[n].torn /\ GoesOn(sock[n].last, write_buf) => ~v.torn /\ GoesOn(v.last, rest)
        BY <1>2, <2>1, BytesWritten
    <2>6. nbytes = len => rest = <<>>
        BY <1>2
    <2> HIDE DEF v, sent, rest
    <2>7. sock' \in [Connections -> Sockets] /\ sock'[n] = v /\ \A k \in Connections : k # n => sock'[k] = sock[k]
        BY <1>2, <2>2
    <2>8. sock'[n].messaged \/ sock'[n].thrice \/ (~sock'[n].torn /\ GoesOn(sock'[n].last, rest))
        BY <1>5, <2>4, <2>5, <2>7
    <2>9. \E mask : Watch(n, mask, rest, channels)
        BY <1>8, <2>6 DEF rest
    <2> QED
        BY <1>1, <1>4, <1>8, <2>3, <2>4, <2>7, <2>8, <2>9, WritingKeeps
<1>9. CASE /\ write_buf # <<>> /\ nbytes > 0
           /\ \E j \in 1..SndBuf :
                 /\ len - nbytes - j \in 1..SndBuf
                 /\ sock' = WriteFromBufThrice(sock, n, write_buf, nbytes, j)
           /\ Watch(n, {EPOLLIN}, <<>>, channels) /\ NextEvent(n)
           /\ UNCHANGED <<fdTable, sessions_, left>>
    <2>1. PICK j \in 1..SndBuf :
            len - nbytes - j \in 1..SndBuf /\ sock' = WriteFromBufThrice(sock, n, write_buf, nbytes, j)
        BY <1>9
    <2> DEFINE k == len - nbytes - j
               first == SubSeq(write_buf, 1, nbytes)
               second == SubSeq(write_buf, nbytes + 1, nbytes + j)
               third == SubSeq(write_buf, j + 1, j + k)
               wire == first \o second \o third
               w == Accepted(sock[n], wire)
               v == [w EXCEPT !.out = k, !.thrice = TRUE]
    <2>2. sock' = [sock EXCEPT ![n] = v]
        BY <2>1 DEF WriteFromBufThrice
    <2>3. j \in Nat /\ nbytes \in Nat /\ nbytes # 0 /\ len \in Nat /\ k \in 1..SndBuf
        <3>1. nbytes > 0
            BY <1>9, Zenon
        <3> HIDE DEF nbytes, len
        <3>2. len \in Nat /\ nbytes \in 0..len /\ SndBuf \in Nat
            BY <1>2, <1>3, ServerAssumption
        <3> QED
            BY <2>1, <3>1, <3>2
    <2>4. first \in Seq(Bytes) /\ first # <<>>
        BY <1>2, <1>3, <2>3
    <2>5. second \in Seq(Bytes) /\ third \in Seq(Bytes)
        <3>1. nbytes + j <= len /\ j + k <= len
            BY <2>3, ServerAssumption
        <3> HIDE DEF len, nbytes, k
        <3>2. \A a, b \in Nat : b <= Len(write_buf) => SubSeq(write_buf, a + 1, b) \in Seq(Bytes)
            BY <1>2
        <3>3. nbytes + j \in Nat /\ j + k \in Nat
            BY <2>3
        <3> QED
            BY <2>3, <3>1, <3>2, <3>3 DEF len
    <2>6. wire \in Seq(Bytes) /\ wire # <<>>
        <3> HIDE DEF first, second, third
        <3> QED
            BY <2>4, <2>5
    <2> HIDE DEF wire
    <2>7. /\ w.last \in {<<b>> : b \in Bytes} /\ w.torn \in BOOLEAN
          /\ w = [peer |-> sock[n].peer, request |-> sock[n].request, out |-> sock[n].out + Len(wire),
                  last |-> w.last, torn |-> w.torn,
                  messaged |-> sock[n].messaged, foreign |-> sock[n].foreign, thrice |-> sock[n].thrice]
        BY <1>2, <2>6, AcceptedFields
    <2> HIDE DEF w, k
    <2>8. v \in Sockets /\ v.thrice /\ v.peer = sock[n].peer /\ v.foreign = sock[n].foreign
        <3>1. v = [peer |-> sock[n].peer, request |-> sock[n].request, out |-> k,
                   last |-> w.last, torn |-> w.torn,
                   messaged |-> sock[n].messaged, foreign |-> sock[n].foreign, thrice |-> TRUE]
            <4>1. /\ w.peer = sock[n].peer /\ w.request = sock[n].request /\ w.messaged = sock[n].messaged
                  /\ w.foreign = sock[n].foreign
                BY <2>7
            <4>2. w.out = sock[n].out + Len(wire) /\ w.thrice = sock[n].thrice
                BY <2>7
            <4>3. w = [peer |-> w.peer, request |-> w.request, out |-> w.out, last |-> w.last, torn |-> w.torn,
                       messaged |-> w.messaged, foreign |-> w.foreign, thrice |-> w.thrice]
                BY <2>7, <4>1, <4>2, Zenon
            <4>4. v = [peer |-> w.peer, request |-> w.request, out |-> k, last |-> w.last, torn |-> w.torn,
                       messaged |-> w.messaged, foreign |-> w.foreign, thrice |-> TRUE]
                BY <4>3, ThriceSet, Zenon
            <4> HIDE DEF v
            <4> QED
                BY <4>1, <4>4, Zenon
        <3>2. k \in 0..SndBuf
            BY <2>3
        <3> HIDE DEF v
        <3>3. v \in Sockets
            BY <1>2, <2>7, <3>1, <3>2 DEF Sockets
        <3> QED
            BY <3>1, <3>3
    <2> HIDE DEF v
    <2>9. sock' \in [Connections -> Sockets] /\ sock'[n] = v /\ \A m \in Connections : m # n => sock'[m] = sock[m]
        BY <1>2, <2>2, <2>8
    <2> QED
        BY <1>1, <1>4, <1>6, <1>9, <2>8, <2>9, WritingKeeps
<1>10. CASE /\ write_buf # <<>> /\ nbytes = 0 /\ CloseSession(n)
            /\ left' = left \cup {[id |-> n, peer |-> sock[n].peer, messaged |-> sock[n].messaged]}
            /\ Forget(n, n \in child)
    <2>1. len # 0
        BY <1>2, <1>10
    <2>2. sock[n].peer = "open" => sock[n].messaged
        <3>1. sock[n].out < SndBuf \/ sock[n].peer = "reset" \/ sock[n].messaged
            BY <1>1, <1>2 DEF ConnectionOK, WritableUnlessMessaged
        <3>2. SndBuf \in Nat
            BY ServerAssumption
        <3> QED
            BY <1>3, <1>10, <2>1, <3>1, <3>2
    <2> DEFINE gone == [id |-> n, peer |-> sock[n].peer, messaged |-> sock[n].messaged]
    <2>3. gone.id = n /\ gone.peer = sock[n].peer /\ gone.messaged = sock[n].messaged
        OBVIOUS
    <2>4. left' = left \cup {gone}
        BY <1>10
    <2> HIDE DEF gone
    <2>5. OnlyMessagesCutOff'
        BY <2>2, <2>3, <2>4 DEF OnlyMessagesCutOff, JInv
    <2>6. left \subseteq left' /\ \A m \in left' : m \in left \/ m.id = n
        BY <2>3, <2>4
    <2>7. /\ sessions_' = sessions_ \ {n} /\ sessions_ \subseteq Connections
          /\ \A m \in Connections : m # n => session'[m] = session[m]
        BY <1>10 DEF CloseSession, IInv, TypeOK
    <2>8. SubscriptionsAgree'
        BY <1>4, <2>3, <2>4, <2>7 DEF SubscriptionsAgree, JInv
    <2>9. /\ subscription_sessions_' = [c \in Channel |-> subscription_sessions_'[c]]
          /\ \A c \in Channel : IsList(subscription_sessions_'[c])
        BY <1>4 DEF JInv, ListsOK
    <2> QED
        BY <1>1, <1>10, <2>5, <2>6, <2>8, <2>9, ClosingKeeps
<1> QED
    BY <1>7, <1>8, <1>9, <1>10 DEF WriteProc

\* JInv is inductive relative to IInv.
LEMMA ConnectionInvariant == Spec => []JInv
<1>1. Init => JInv
    <2> SUFFICES ASSUME Init PROVE JInv
        OBVIOUS
    <2>1. IdleSocket("none") \in Sockets
        BY ServerAssumption DEF IdleSocket, Sockets
    <2>2. /\ \A n \in Connections : sock[n] = IdleSocket("none") /\ session[n].write_buf = <<>>
                                    /\ session[n].subscribed_channels = {}
          /\ sock \in [Connections -> Sockets] /\ <<>> \in Seq(Bytes)
        BY <2>1 DEF Init, NewSession
    <2>3. SocketsOK
        BY <2>2 DEF Init, SocketsOK
    <2>4. IsFiniteSet({}) /\ IsList(<<>>)
        BY FS_EmptySet DEF IsList
    <2>5. DescriptorsOK /\ ListsOK
        BY <2>2, <2>4 DEF Init, DescriptorsOK, ListsOK
    <2>6. SubscriptionsAgree /\ OnlyMessagesCutOff
        BY DEF Init, SubscriptionsAgree, OnlyMessagesCutOff, Range
    <2>7. ASSUME NEW n \in Connections PROVE ConnectionOK(n)
        <3>1. sock[n].peer = "none" /\ ~sock[n].torn /\ ~sock[n].foreign
            BY <2>2 DEF IdleSocket
        <3> QED
            BY <2>2, <3>1 DEF Init, ConnectionOK, Fresh, WritableUnlessMessaged, RepliesGoOn
    <2> QED
        BY <2>3, <2>5, <2>6, <2>7 DEF JInv, ConnectionsOK
<1>2. IInv /\ JInv /\ [Next]_vars => JInv'
    <2> SUFFICES ASSUME IInv, JInv, [Next]_vars PROVE JInv'
        OBVIOUS
    <2>1. CASE UNCHANGED vars
        <3>1. sock' \in [Connections -> Sockets] /\ \A k \in Connections : Kept(k)
            BY <2>1, UnchangedIsKept DEF vars, JInv, SocketsOK
        <3> QED
            BY <2>1, <3>1, ClientKeeps DEF vars
    <2>2. CASE Wait
        BY <2>2, WaitKeepsConnections
    <2>3. CASE AcceptProc
        BY <2>3, AcceptKeepsConnections
    <2>4. ASSUME NEW n \in Connections, Handler(n) PROVE JInv'
        BY <2>4, ReadHandlersKeepConnections, ReadProcClosesKeeps, WriteProcKeepsConnections DEF Handler
    <2>5. ASSUME NEW n \in Connections, Client(n) PROVE JInv'
        BY <2>5, ClientsKeep
    <2>6. ASSUME NEW n \in Connections, StopServeSockets(n) PROVE JInv'
        BY <2>6, StopServeSocketsKeepsConnections
    <2> QED
        BY <2>1, <2>2, <2>3, <2>4, <2>5, <2>6 DEF Next, Loop
<1> QED
    BY <1>1, <1>2, InductiveInvariant, PTL DEF Spec
-----------------------------------------------------------------------------
\* Whatever the clients subscribe to, unsubscribe from and publish, and however
\* they are disconnected, the lists of Server and the channels of the open
\* sessions agree; only a session WriteProc closed is left in a list.
THEOREM ListsMatchSessions == Spec => []SubscriptionsAgree
<1>1. JInv => SubscriptionsAgree
    BY DEF JInv
<1> QED
    BY <1>1, ConnectionInvariant, PTL

\* publish reaches a client that has not subscribed only over the number of a
\* session that WriteProc closed and left in a list.
THEOREM OnlyInheritedNumbersMislead == Spec => []MessagesGoToSubscribers
<1>1. JInv => MessagesGoToSubscribers
    BY DEF JInv, ConnectionsOK, ConnectionOK, Inherited, MessagesGoToSubscribers
<1> QED
    BY <1>1, ConnectionInvariant, PTL

\* WriteProc disconnects a client that is still there only after messages were
\* published to it, for a socket buffer of any size.
THEOREM RepliesAloneNeverCutOff == Spec => []OnlyMessagesCutOff
<1>1. JInv => OnlyMessagesCutOff
    BY DEF JInv
<1> QED
    BY <1>1, ConnectionInvariant, PTL

\* Wherever the socket cuts a write short, a client gets whole replies, unless
\* messages came between or WriteFromBuf got to a third send.
THEOREM WritesGoOnWhereTheyStopped == Spec => []RepliesAreWhole
<1>1. JInv => RepliesAreWhole
    BY DEF JInv, ConnectionsOK, ConnectionOK, RepliesAreWhole
<1> QED
    BY <1>1, ConnectionInvariant, PTL
=============================================================================
