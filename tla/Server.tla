------------------------------- MODULE Server -------------------------------
(***************************************************************************)
(* Server and its sessions (net/server.cpp), the part of EventLoop::Loop   *)
(* that dispatches epoll's events to them (net/net.cpp), the publish and   *)
(* subscribe commands (end of net/commands.cpp), and the sockets a child   *)
(* forked by bgsave shares with the server (lkvdb.cpp).                    *)
(*                                                                         *)
(* Connection n is the n-th one accepted, and its Session has that id in   *)
(* its name; descriptor numbers are reused.  A request is one value; how   *)
(* requests come out of bytes is RequestReader's matter.  A reply and a    *)
(* published message are two bytes each, so that a write can end inside.   *)
(***************************************************************************)
EXTENDS Integers, Lists, Functions, FiniteSets

CONSTANTS
    MaxConnections, MaxRequests, MaxForks,  \* bounds on what the clients do
    SndBuf,      \* bytes the kernel buffers for a client that does not read
    Channel,
    Requests     \* the requests the clients send

ASSUME ServerAssumption ==
    /\ MaxConnections \in Nat /\ MaxRequests \in Nat /\ MaxForks \in Nat
    /\ SndBuf \in Nat \ {0}

\* A request is a list of words, the name of the command first.
ASSUME RequestsAssumption ==
    \A request \in Requests :
        /\ request \in Seq(Range(request))
        /\ request[1] \in {"subscribe", "publish"} => request[2] \in Channel

VARIABLES
    sock,       \* each connection: its client, and what has been sent to it
    fdTable,    \* the connection each descriptor is open to, 0 for none
    session,    \* each Session: fd, mask, write_buf, subscribed_channels
    sessions_,  \* the ids in sessions_
    subscription_sessions_,  \* for each channel a list of Sessions
    epoll,      \* the connections registered, and the events asked for
    fired,      \* what is left of the events epoll_wait returned
    cur,        \* the Session whose events are being handled, 0 for none
    child,      \* connections a forked child still has open
    requests, forks,         \* how many requests, bgsaves of them, were sent
    left,       \* Sessions closed by WriteProc, and their sockets then
    undefined   \* was a freed Session used

vars == <<sock, fdTable, session, sessions_, subscription_sessions_, epoll, fired, cur, child,
          requests, forks, left, undefined>>

Connections == 1..MaxConnections
Listen == 0        \* the listening session's place in fired
NoRequest == <<>>
EPOLLIN == "in"
EPOLLOUT == "out"

Reply == <<<<"reply", 1>>, <<"reply", 2>>>>
Message == <<<<"message", 1>>, <<"message", 2>>>>

\* A connection that carries nothing, and a Session as it is made.
IdleSocket(peer) ==
    [peer |-> peer, request |-> NoRequest, out |-> 0, last |-> <<>>,
     torn |-> FALSE, messaged |-> FALSE, foreign |-> FALSE, thrice |-> FALSE]

NewSession(fd, mask) == [fd |-> fd, mask |-> mask, write_buf |-> <<>>, subscribed_channels |-> {}]

Init ==
    /\ sock = [n \in Connections |-> IdleSocket("none")]
    /\ fdTable = [f \in Connections |-> 0]
    /\ session = [n \in Connections |-> NewSession(0, {})]
    /\ sessions_ = {} /\ subscription_sessions_ = [c \in Channel |-> <<>>]
    /\ epoll = [n \in {} |-> {}] /\ fired = [n \in {} |-> {}] /\ cur = 0
    /\ child = {} /\ requests = 0 /\ forks = 0 /\ left = {} /\ undefined = FALSE
-----------------------------------------------------------------------------
(* The clients: they connect, send, read what they are sent, leave.        *)

server == <<fdTable, session, sessions_, subscription_sessions_, epoll, fired, cur, child, left, undefined>>

Connect(n) ==
    /\ ~undefined /\ sock[n].peer = "none" /\ \A m \in 1 .. n - 1 : sock[m].peer \notin {"none", "connecting"}
    /\ sock' = [sock EXCEPT ![n].peer = "connecting"]
    /\ UNCHANGED <<server, requests, forks>>

Send(n, request) ==
    /\ ~undefined /\ sock[n].peer = "open" /\ sock[n].request = NoRequest
    /\ requests < MaxRequests /\ (request = <<"bgsave">> => forks < MaxForks)
    /\ sock' = [sock EXCEPT ![n].request = request]
    /\ requests' = requests + 1
    /\ forks' = IF request = <<"bgsave">> THEN forks + 1 ELSE forks
    /\ UNCHANGED server

\* The client reads what is waiting for it.
Receive(n) ==
    /\ ~undefined /\ sock[n].peer = "open" /\ sock[n].out > 0
    /\ sock' = [sock EXCEPT ![n].out = 0]
    /\ UNCHANGED <<server, requests, forks>>

\* The client closes; what it sent before still arrives.
Finish(n) ==
    /\ ~undefined /\ sock[n].peer = "open"
    /\ sock' = [sock EXCEPT ![n].peer = "finished"]
    /\ UNCHANGED <<server, requests, forks>>

\* The connection breaks.
BreakOff(n) ==
    /\ ~undefined /\ sock[n].peer \in {"open", "finished"}
    /\ sock' = [sock EXCEPT ![n].peer = "reset", ![n].request = NoRequest]
    /\ UNCHANGED <<server, requests, forks>>
-----------------------------------------------------------------------------
(* The kernel's side of a socket. *)

Follows(x, y) == IF x[2] = 1 THEN y = <<x[1], 2>> ELSE y[2] = 1

\* The socket takes bytes: torn once they are not whole frames one by one.
Accepted(s, bytes) ==
    LET stream == s.last \o bytes
    IN  [s EXCEPT !.out = @ + Len(bytes),
                  !.last = <<stream[Len(stream)]>>,
                  !.torn = @ \/ \E i \in 1 .. Len(stream) - 1 : ~Follows(stream[i], stream[i + 1])]

\* How many of len bytes WriteFromBuf gets rid of on connection n: none when the
\* client is gone or its buffer full, none on a closed descriptor.
Room(s, n, len) ==
    IF n = 0 THEN 0
    ELSE IF s[n].peer = "reset" THEN 0
    ELSE IF s[n].out + len <= SndBuf THEN len ELSE SndBuf - s[n].out

WriteFromBuf(s, n, bytes) ==
    LET k == Room(s, n, Len(bytes))
    IN  IF k = 0 THEN s ELSE [s EXCEPT ![n] = Accepted(@, SubSeq(bytes, 1, k))]

\* WriteFromBuf with a client that reads meanwhile, so that three send calls find
\* room, for i, j and the remaining bytes: each starts behind the length of the
\* one before.  (Two such calls are as good as two calls of WriteProc.)
WriteFromBufThrice(s, n, bytes, i, j) ==
    LET k == Len(bytes) - i - j
        wire == SubSeq(bytes, 1, i) \o SubSeq(bytes, i + 1, i + j) \o SubSeq(bytes, j + 1, j + k)
    IN  [s EXCEPT ![n] = [Accepted(@, wire) EXCEPT !.out = k, !.thrice = TRUE]]

\* A descriptor of connection n is closed.  When it was the last one, open is
\* FALSE: epoll forgets the connection and the client learns that it is closed.
Forget(n, open) ==
    /\ epoll' = IF open THEN epoll ELSE [m \in DOMAIN epoll \ {n} |-> epoll[m]]
    /\ sock' = IF open THEN sock ELSE [sock EXCEPT ![n] = IdleSocket("closed")]
-----------------------------------------------------------------------------
(* EventLoop::Loop *)

\* What epoll_wait reports: the listening socket with a client waiting; of a
\* registered connection what there is of the events asked for.
Ready(n) ==
    IF n = Listen THEN IF \E m \in Connections : sock[m].peer = "connecting" THEN {EPOLLIN} ELSE {}
    ELSE epoll[n] \cap
         ((IF sock[n].request # NoRequest \/ sock[n].peer # "open" THEN {EPOLLIN} ELSE {})
          \cup (IF sock[n].out < SndBuf \/ sock[n].peer = "reset" THEN {EPOLLOUT} ELSE {}))

\* With an event of a connection whose Session is freed anything may happen:
\* the behaviour is not followed further.
Wait ==
    LET all == {n \in DOMAIN epoll \cup {Listen} : Ready(n) # {}}
    IN  /\ DOMAIN fired = {} /\ all # {} /\ ~undefined
        /\ fired' = [n \in all |-> Ready(n)]
        /\ undefined' = ~(all \ {Listen} \subseteq sessions_)
        /\ UNCHANGED <<sock, fdTable, session, sessions_, subscription_sessions_, epoll, cur, child,
                       requests, forks, left>>

\* The event of n is the one to be handled next.
Turn(n, event) == ~undefined /\ cur \in {0, n} /\ n \in DOMAIN fired /\ event \in fired[n]

\* The events of n are dealt with.
NextEvent(n) ==
    /\ fired' = [m \in DOMAIN fired \ {n} |-> fired[m]]
    /\ cur' = 0

\* The read handler has returned: the write handler is called if its event fired.
ReadHandledMutant(n) == fired' = [fired EXCEPT ![n] = {EPOLLOUT}] /\ cur' = n

ReadHandled(n) ==
    IF EPOLLOUT \in fired[n] THEN fired' = [fired EXCEPT ![n] = {EPOLLOUT}] /\ cur' = n
    ELSE NextEvent(n)

\* SetRead or SetWrite, then ModifySession.
Watch(n, mask, write_buf, subscribed_channels) ==
    /\ session' = [session EXCEPT ![n] = [fd |-> @.fd, mask |-> mask, write_buf |-> write_buf,
                                          subscribed_channels |-> subscribed_channels]]
    /\ epoll' = [epoll EXCEPT ![n] = mask]
-----------------------------------------------------------------------------
(* Server *)

FreeFds == {f \in DOMAIN fdTable : fdTable[f] = 0}

\* accept takes the lowest free descriptor; there always is one.
AcceptProc ==
    /\ Turn(Listen, EPOLLIN)
    /\ NextEvent(Listen)
    /\ \E n \in Connections, fd \in FreeFds :
          /\ sock[n].peer = "connecting" /\ \A f \in FreeFds : fd <= f
          /\ sock' = [sock EXCEPT ![n].peer = "open"]
          /\ fdTable' = [fdTable EXCEPT ![fd] = n]
          /\ session' = [session EXCEPT ![n] = NewSession(fd, {EPOLLIN})]
          /\ sessions_' = sessions_ \cup {n}
          /\ epoll' = [m \in DOMAIN epoll \cup {n} |-> IF m = n THEN {EPOLLIN} ELSE epoll[m]]
    /\ UNCHANGED <<subscription_sessions_, child, requests, forks, left, undefined>>

\* The two handlers close a session alike, except for the lists.  Of the Session
\* only fd is of interest from then on, if a list still holds it.
CloseSession(n) ==
    /\ fdTable' = [fdTable EXCEPT ![session[n].fd] = 0]
    /\ sessions_' = sessions_ \ {n}
    /\ session' = [session EXCEPT ![n] = NewSession(@.fd, {})]
    /\ NextEvent(n)

Unlisted(list, n) == Erased(list, {n})

\* ReadProc, when ReadToBuf comes back with nothing.
ReadProcClosesKeepsLists(n) ==
    /\ Turn(n, EPOLLIN) /\ n # Listen /\ sock[n].request = NoRequest
    /\ CloseSession(n)
    /\ Forget(n, n \in child)
    /\ UNCHANGED <<subscription_sessions_, child, requests, forks, left, undefined>>

ReadProcClosesKeepsFd(n) ==
    /\ Turn(n, EPOLLIN) /\ n # Listen /\ sock[n].request = NoRequest
    /\ subscription_sessions_' = [c \in Channel |-> Unlisted(subscription_sessions_[c], n)]
    /\ CloseSession(n)
    /\ UNCHANGED <<sock, epoll, child, requests, forks, left, undefined>>

ReadProcIgnoresClose(n) ==
    /\ Turn(n, EPOLLIN) /\ n # Listen /\ sock[n].request = NoRequest
    /\ NextEvent(n)
    /\ UNCHANGED <<sock, fdTable, session, sessions_, subscription_sessions_, epoll, child, requests,
                   forks, left, undefined>>

ReadProcCloses(n) ==
    /\ Turn(n, EPOLLIN) /\ n # Listen /\ sock[n].request = NoRequest
    /\ subscription_sessions_' =
          [c \in Channel |-> IF c \in session[n].subscribed_channels
                             THEN Unlisted(subscription_sessions_[c], n) ELSE subscription_sessions_[c]]
    /\ CloseSession(n)
    /\ Forget(n, n \in child)
    /\ UNCHANGED <<child, requests, forks, left, undefined>>

Replies(count) == [i \in 1 .. 2 * count |-> Reply[2 - (i % 2)]]

\* ReadProc with a request: its handler returned replies and left the session
\* with these channels.
ReadProc(n, replies, subscribed_channels) ==
    /\ Watch(n, session[n].mask \cup {EPOLLOUT},
             session[n].write_buf \o Replies(replies), subscribed_channels)
    /\ ReadHandled(n)
    /\ UNCHANGED <<fdTable, sessions_, requests, forks, left, undefined>>

Taken(n) == [sock EXCEPT ![n].request = NoRequest]

\* A request is there to be handled.
Handles(n, name) == n # Listen /\ Turn(n, EPOLLIN) /\ sock[n].request # NoRequest /\ sock[n].request[1] = name

\* Any command that only answers, and the first bytes of a request, which have
\* no answer yet.
OtherCommand(n) ==
    /\ \/ Handles(n, "ping") /\ ReadProc(n, 1, session[n].subscribed_channels)
       \/ Handles(n, "part") /\ ReadProc(n, 0, session[n].subscribed_channels)
    /\ sock' = Taken(n)
    /\ UNCHANGED <<subscription_sessions_, child>>

\* A session that subscribes again is in the list twice.
PubSubSubscribeCommand(n) ==
    LET c == sock[n].request[2]
    IN  /\ Handles(n, "subscribe")
        /\ subscription_sessions_' = [subscription_sessions_ EXCEPT ![c] = Append(@, n)]
        /\ ReadProc(n, 1, session[n].subscribed_channels \cup {c})
        /\ sock' = Taken(n)
        /\ UNCHANGED child

\* The channels named, or all of the session's.
PubSubUnsubscribeCommandMutant(n) ==
    /\ Handles(n, "unsubscribe")
    /\ ReadProc(n, 1, session[n].subscribed_channels \ Range(Tail(sock[n].request)))
    /\ sock' = Taken(n)
    /\ UNCHANGED <<subscription_sessions_, child>>

PubSubUnsubscribeCommand(n) ==
    LET channels == IF Len(sock[n].request) >= 2 THEN Range(Tail(sock[n].request))
                    ELSE session[n].subscribed_channels
    IN  /\ Handles(n, "unsubscribe")
        /\ subscription_sessions_' =
              [c \in Channel |-> IF c \in channels THEN Unlisted(subscription_sessions_[c], n)
                                 ELSE subscription_sessions_[c]]
        /\ ReadProc(n, IF channels = {} THEN 1 ELSE Cardinality(channels),
                    session[n].subscribed_channels \ channels)
        /\ sock' = Taken(n)
        /\ UNCHANGED child

\* The message goes straight to the descriptor of every session in the list,
\* whatever connection that is now.
Relay(s, c, member) ==
    LET n == fdTable[session[member].fd]
    IN  IF Room(s, n, Len(Message)) = 0 THEN s
        ELSE [WriteFromBuf(s, n, Message) EXCEPT
                 ![n].messaged = TRUE,
                 ![n].foreign = @ \/ c \notin session[n].subscribed_channels]

\* The members of the list one after the other.
Published(s, c, list) ==
    LET told[i \in 0..Len(list)] == IF i = 0 THEN s ELSE Relay(told[i - 1], c, list[i])
    IN  told[Len(list)]

PubSubPublishCommand(n) ==
    LET c == sock[n].request[2]
    IN  /\ Handles(n, "publish")
        /\ sock' = Published(Taken(n), c, subscription_sessions_[c])
        /\ ReadProc(n, 1, session[n].subscribed_channels)
        /\ UNCHANGED <<subscription_sessions_, child>>

\* LiteKVBackgroundSave forks: the child has every descriptor open, too.  (With
\* several children, a connection is in child until the last one closes it.)
BgsaveCommand(n) ==
    /\ Handles(n, "bgsave")
    /\ child' = child \cup ({fdTable[f] : f \in DOMAIN fdTable} \ {0})
    /\ ReadProc(n, 1, session[n].subscribed_channels)
    /\ sock' = Taken(n)
    /\ UNCHANGED subscription_sessions_

\* WriteProc; a write that gets rid of nothing is taken for a closed connection.
WriteProcMutant(n) ==
    LET write_buf == session[n].write_buf
        nbytes == Room(sock, n, Len(write_buf))
    IN  /\ Turn(n, EPOLLOUT) /\ EPOLLIN \notin fired[n]
        /\ Watch(n, {EPOLLIN}, <<>>, session[n].subscribed_channels)
        /\ sock' = WriteFromBuf(sock, n, write_buf)
        /\ NextEvent(n)
        /\ UNCHANGED <<fdTable, sessions_, left, subscription_sessions_, child, requests, forks, undefined>>

WriteProc(n) ==
    LET write_buf == session[n].write_buf
        nbytes == Room(sock, n, Len(write_buf))
    IN  /\ Turn(n, EPOLLOUT) /\ EPOLLIN \notin fired[n]
        /\ \/ /\ write_buf = <<>>
              /\ Watch(n, {EPOLLIN}, <<>>, session[n].subscribed_channels)
              /\ NextEvent(n)
              /\ UNCHANGED <<sock, fdTable, sessions_, left>>
           \/ /\ write_buf # <<>> /\ nbytes > 0
              /\ IF nbytes = Len(write_buf)
                 THEN Watch(n, {EPOLLIN}, <<>>, session[n].subscribed_channels)
                 ELSE Watch(n, session[n].mask, SubSeq(write_buf, nbytes + 1, Len(write_buf)),
                            session[n].subscribed_channels)
              /\ sock' = WriteFromBuf(sock, n, write_buf)
              /\ NextEvent(n)
              /\ UNCHANGED <<fdTable, sessions_, left>>
           \/ /\ write_buf # <<>> /\ nbytes > 0 /\ sock[n].peer = "open"
              /\ \E j \in 1..SndBuf :
                    /\ Len(write_buf) - nbytes - j \in 1..SndBuf
                    /\ sock' = WriteFromBufThrice(sock, n, write_buf, nbytes, j)
              /\ Watch(n, {EPOLLIN}, <<>>, session[n].subscribed_channels)
              /\ NextEvent(n)
              /\ UNCHANGED <<fdTable, sessions_, left>>
           \/ /\ write_buf # <<>> /\ nbytes = 0
              /\ CloseSession(n)
              /\ left' = left \cup {[id |-> n, peer |-> sock[n].peer, messaged |-> sock[n].messaged]}
              /\ Forget(n, n \in child)
        /\ UNCHANGED <<subscription_sessions_, child, requests, forks, undefined>>
-----------------------------------------------------------------------------
(* The forked child: StopServeSockets closes its sockets one by one.  It   *)
(* has closed its epoll descriptor before, so that DetachSession fails and *)
(* the server's registrations stay.                                        *)

StopServeSocketsMutant(n) ==
    /\ ~undefined /\ n \in child /\ child' = child \ {n}
    /\ epoll' = [m \in DOMAIN epoll \ {n} |-> epoll[m]]
    /\ UNCHANGED <<sock, fdTable, session, sessions_, subscription_sessions_, fired, cur, requests, forks,
                   left, undefined>>

StopServeSockets(n) ==
    /\ ~undefined /\ n \in child /\ child' = child \ {n}
    /\ Forget(n, n \in sessions_)
    /\ UNCHANGED <<fdTable, session, sessions_, subscription_sessions_, fired, cur, requests, forks,
                   left, undefined>>
-----------------------------------------------------------------------------
Handler(n) ==
    \/ OtherCommand(n)
    \/ PubSubSubscribeCommand(n)
    \/ PubSubUnsubscribeCommand(n)
    \/ PubSubPublishCommand(n)
    \/ BgsaveCommand(n)
    \/ ReadProcCloses(n)
    \/ WriteProc(n)

Loop == Wait \/ AcceptProc \/ \E n \in Connections : Handler(n)

Client(n) ==
    \/ Connect(n)
    \/ \E request \in Requests : Send(n, request)
    \/ Receive(n)
    \/ Finish(n)
    \/ BreakOff(n)

Next ==
    \/ Loop
    \/ \E n \in Connections : Client(n) \/ StopServeSockets(n)

\* The loop runs and the child gets its time; a client that has not left reads
\* what it is sent.  Nothing makes a client connect, send or leave.
Fairness ==
    /\ WF_vars(Loop)
    /\ \A n \in Connections : WF_vars(Receive(n))
    /\ WF_vars(\E n \in Connections : StopServeSockets(n))

Spec == Init /\ [][Next]_vars /\ Fairness
-----------------------------------------------------------------------------
\* Every session that is open has its own descriptor and is registered with the
\* mask it believes in, and with EPOLLOUT as long as a reply waits in its
\* write_buf.  No partial write, and nothing a forked child does to the sockets
\* it inherited (StopServeSockets), leaves a client unwatched.
SessionsAreWatched ==
    \A n \in sessions_ :
        /\ fdTable[session[n].fd] = n
        /\ n \in DOMAIN epoll /\ epoll[n] = session[n].mask /\ EPOLLIN \in epoll[n]
        /\ session[n].write_buf # <<>> => EPOLLOUT \in epoll[n]

\* epoll keeps a pointer to a Session that ReadProc or WriteProc has freed only
\* while a forked child still has the connection open; without such a child the
\* loop never touches a freed Session.
FreedSessionsAreForgotten ==
    /\ \A n \in DOMAIN epoll \ sessions_ : n \in child
    /\ undefined => child # {}

\* The lists publish goes through and the channels the sessions have agree for
\* all sessions that are open; a session that is not open is in a list only
\* when WriteProc closed it.
SubscriptionsAgree ==
    \A c \in Channel :
        /\ \A n \in sessions_ :
              n \in Range(subscription_sessions_[c]) <=> c \in session[n].subscribed_channels
        /\ \A n \in Range(subscription_sessions_[c]) \ sessions_ : \E m \in left : m.id = n

\* publish writes to a client that has not subscribed to the channel only over
\* the descriptor number of a session that WriteProc closed and left in the
\* list, after accept has given that number to the client.
MessagesGoToSubscribers ==
    \A n \in Connections : sock[n].foreign =>
        \E m \in left : m.id # n /\ session[m.id].fd = session[n].fd

\* WriteProc takes a full socket for a closed one (nbytes = 0).  A client that is
\* still there is disconnected that way only if messages were published to it:
\* they are what can fill the socket between epoll_wait and the write.
OnlyMessagesCutOff ==
    \A m \in left : m.peer = "open" => m.messaged

\* The bytes a client gets are whole replies, wherever the socket cut a write
\* short and WriteProc went on later.  The two exceptions are real: publish does
\* not go through write_buf, and a WriteFromBuf that gets to a third send goes
\* on in the wrong place (utils.cpp:29).
RepliesAreWhole ==
    \A n \in Connections : sock[n].torn => sock[n].messaged \/ sock[n].thrice

\* Once the clients have sent their last request, every reply is sent and every
\* session of a client that has left is closed: no reply is forgotten in a
\* write_buf, and no gone client keeps its session, if the clients that stay
\* read what they are sent.
EverythingIsAnswered ==
    <>[](undefined \/ \A n \in sessions_ : session[n].write_buf = <<>> /\ sock[n].peer = "open")
=============================================================================
