----------------------------- MODULE TcpServer ------------------------------
(* muduo/net/TcpServer.cc on top of the threads of EventLoopThreadPool, the *)
(* registration of channels in poller/EpollPoller.cc, and the life of a     *)
(* TcpConnection: accepted in the base loop, established and closed in its  *)
(* IO loop, removed from connMap_ in the base loop, destroyed in the IO     *)
(* loop, freed by whichever thread drops the last TcpConnectionPtr.         *)
(*                                                                          *)
(* Loop 0 is the base loop, 1..numThreads are the loops of the pool; every  *)
(* loop alternates between the channels of one poll and one batch of        *)
(* functors (what EventLoop.tla does in detail).  Connections are numbered  *)
(* by nextConnId_; descriptors are numbers that the kernel reuses.          *)
EXTENDS EventLoopThreadPool, FiniteSets, FiniteSetsExt, Functions

CONSTANTS
    ThreadNums,     \* the arguments of setThreadNum
    MaxConns,       \* bound: connections the clients open
    MaxFd           \* bound: descriptors open at one time

ASSUME ServerAssumption ==
    /\ ThreadNums \subseteq Nat /\ ThreadNums # {} /\ IsFiniteSet(ThreadNums)
    /\ MaxConns \in Nat
    /\ MaxFd \in Nat \ {0}

Conns == 1..MaxConns
Fds == 1..MaxFd
NoConn == 0
ListenChannel == 0      \* acceptChannel_ of the Acceptor, among active channels

VARIABLES
    inBase,         \* start() is called in the thread of the base loop
    listening,      \* Acceptor::listen ran
    nextConnId,     \* nextConnId_
    connMap,        \* connections in connMap_
    conn,           \* the TcpConnection objects
    channels,       \* channels_ of every poller: descriptor -> connection
    queue,          \* functors waiting in every loop
    phase,          \* "poll", "events" or "functors"
    batch,          \* functors left in the batch of a loop
    held,           \* connections bound in the functors of the batch that ran
    active,         \* activeChannels_ not handled yet
    peerFin         \* connections whose peer has closed

Loops == 0..numThreads

serverVars == <<inBase, listening, nextConnId, connMap>>
loopVars == <<queue, phase, batch, held, active>>
connVars == <<conn, channels, peerFin>>
vars == <<poolVars, serverVars, connVars, loopVars, fault>>

(* life is "none" before newConnection and "freed" after the destructor;     *)
(* added is addedToLoop_ of the channel.                                    *)
Unborn == [life |-> "none", state |-> "kConnecting", loop |-> 0, fd |-> 0,
           index |-> "kNew", added |-> FALSE, reading |-> FALSE]

Functor(op, c) == [op |-> op, c |-> c]

\* A functor keeps its connection alive when it binds a TcpConnectionPtr.
Binds(f) == f.op \in {"removeConnectionInLoop", "connectDestroyed"}

Init ==
    /\ \E n \in ThreadNums : PoolInit(n)
    /\ inBase \in BOOLEAN
    /\ listening = FALSE /\ nextConnId = 1 /\ connMap = {}
    /\ conn = [c \in Conns |-> Unborn]
    /\ channels = [l \in Loops |-> [fd \in Fds |-> NoConn]]
    /\ queue = [l \in Loops |-> <<>>]
    /\ phase = [l \in Loops |-> "poll"]
    /\ batch = [l \in Loops |-> 0]
    /\ held = [l \in Loops |-> {}]
    /\ active = [l \in Loops |-> {}]
    /\ peerFin = {}

-----------------------------------------------------------------------------
(* Channel and EpollPoller, on a connection record and the map of its loop. *)
Alive(c) == conn[c].life = "alive"
Mapped(c) == channels[conn[c].loop][conn[c].fd]

\* The assertions of EpollPoller::updateChannel.
UpdateAsserts(x, mapped, c) == mapped = IF x.index = "kNew" THEN NoConn ELSE c

\* EpollPoller::updateChannel: what becomes of index_.
UpdatedIndex(x, reading) ==
    IF x.index = "kAdded" /\ ~reading THEN "kDeleted" ELSE "kAdded"

\* Channel::update.
Updated(x, reading) ==
    [x EXCEPT !.reading = reading, !.added = TRUE, !.index = UpdatedIndex(x, reading)]

-----------------------------------------------------------------------------
(* start() is called, and the calling thread and the new threads go through *)
(* the handshake of the pool.                                               *)
StartThreads ==
    /\ StartPool \/ StarterStep \/ SpuriousWakeup \/ \E t \in Threads : ThreadStep(t)
    /\ UNCHANGED <<serverVars, connVars, loopVars>>

(* The end of start(): runInLoop calls listen() at once in the thread of    *)
(* the base loop, else it is queued there.                                  *)
StartListening ==
    /\ base = "started"
    /\ base' = "serving"
    /\ listening' = inBase
    /\ queue' = IF inBase THEN queue
                ELSE [queue EXCEPT ![0] = Append(@, Functor("listen", NoConn))]
    /\ UNCHANGED <<numThreads, cur, loops, next, waiting, threadVars, inBase,
                   nextConnId, connMap, connVars, phase, batch, held, active, fault>>

(* ~TcpServer in the thread of the base loop, when no connection is left.   *)
(* The pool is destroyed first: its threads are joined, for ever.  Without  *)
(* threads it goes on to ~Acceptor, which leaves acceptChannel_ registered: *)
(* the assertions of its ~Channel fail.                                     *)
DestroyServer ==
    /\ base = "serving" /\ listening /\ connMap = {} /\ phase[0] = "poll"
    /\ DestroyPool
    /\ fault' = IF numThreads = 0 THEN "acceptor" ELSE "none"
    /\ listening' = FALSE
    /\ UNCHANGED <<inBase, nextConnId, connMap, connVars, loopVars>>

(* The thread of loop l is in its loop: the base loop is not as long as its *)
(* thread is in start() or waits for the threads of the pool.               *)
InLoop(l) ==
    IF l > 0 THEN pc[l] = "looping"
    ELSE base = "serving" \/ (~inBase /\ base \notin {"dtor", "join"})

\* The kernel hands out the lowest descriptor that is free.
OpenFds == {conn[c].fd : c \in {d \in Conns : Alive(d)}}
FreeFds == Fds \ OpenFds

(* Acceptor::handleRead in the base loop, one turn of its while: accept,    *)
(* then newConnection with the new descriptor.  runInLoop calls             *)
(* connectEstablished at once when the base loop is the IO loop; otherwise  *)
(* the functor binds conn.get().                                            *)
NewConnection ==
    /\ phase[0] = "events" /\ ListenChannel \in active[0]
    /\ nextConnId <= MaxConns /\ FreeFds # {}
    /\ LET c == nextConnId
           l == NextLoop
           x == [Unborn EXCEPT !.life = "alive", !.loop = l, !.fd = Min(FreeFds)]
       IN IF l = 0
            THEN /\ conn' = [conn EXCEPT ![c] =
                               Updated([x EXCEPT !.state = "kConnected"], TRUE)]
                 /\ channels' = [channels EXCEPT ![l][x.fd] = c]
                 /\ fault' = IF UpdateAsserts(x, channels[l][x.fd], c)
                               THEN "none" ELSE "poller"
                 /\ UNCHANGED queue
            ELSE /\ conn' = [conn EXCEPT ![c] = x]
                 /\ queue' = [queue EXCEPT ![l] =
                                Append(@, Functor("connectEstablished", c))]
                 /\ UNCHANGED <<channels, fault>>
    /\ connMap' = connMap \cup {nextConnId}
    /\ nextConnId' = nextConnId + 1
    /\ next' = NextCursor
    /\ UNCHANGED <<numThreads, base, cur, loops, waiting, threadVars, inBase,
                   listening, phase, batch, held, active, peerFin>>

\* Acceptor::handleRead: accept fails, with EAGAIN most of the time.
AcceptEnds ==
    /\ phase[0] = "events" /\ ListenChannel \in active[0]
    /\ active' = [active EXCEPT ![0] = @ \ {ListenChannel}]
    /\ UNCHANGED <<poolVars, serverVars, connVars, queue, phase, batch, held, fault>>

\* The peer closes, at any time after the connection was accepted.
PeerCloses(c) ==
    /\ Alive(c) /\ c \notin peerFin
    /\ peerFin' = peerFin \cup {c}
    /\ UNCHANGED <<poolVars, serverVars, conn, channels, loopVars, fault>>

-----------------------------------------------------------------------------
(* Every loop.                                                              *)
Ready(l) == {c \in Conns : /\ Alive(c) /\ conn[c].loop = l
                           /\ conn[c].index = "kAdded" /\ c \in peerFin}

\* poll() returns the ready channels, or nothing after a wakeup or a timeout.
Poll(l) ==
    /\ phase[l] = "poll"
    /\ phase' = [phase EXCEPT ![l] = "events"]
    /\ \/ active' = [active EXCEPT ![l] = Ready(l)]
       \/ l = 0 /\ listening /\ active' = [active EXCEPT ![l] = Ready(l) \cup {ListenChannel}]
    /\ UNCHANGED <<poolVars, serverVars, connVars, queue, batch, held, fault>>

\* A functor of the user, or a callback of another channel, calls shutdown().
UserShutsDown(c) ==
    /\ Alive(c) /\ conn[c].state = "kConnected"
    /\ phase[conn[c].loop] # "poll"
    /\ conn' = [conn EXCEPT ![c].state = "kDisConnecting"]
    /\ UNCHANGED <<poolVars, serverVars, channels, loopVars, peerFin, fault>>

(* handleClose of a channel in activeChannels_: disableAll(), then          *)
(* removeConnection, which runs removeConnectionInLoop at once in the base  *)
(* loop and queues it there from any other.                                 *)
HandleClose(l, c) ==
    /\ phase[l] = "events" /\ c \in active[l]
    /\ active' = [active EXCEPT ![l] = @ \ {c}]
    /\ conn' = [conn EXCEPT ![c] =
                  Updated([@ EXCEPT !.state = "kDisConnected"], FALSE)]
    /\ fault' = CASE ~Alive(c) -> "uaf"
                  [] Alive(c) /\ ~UpdateAsserts(conn[c], Mapped(c), c) -> "poller"
                  [] OTHER -> "none"
    /\ IF l = 0
         THEN /\ connMap' = connMap \ {c}
              /\ queue' = [queue EXCEPT ![0] = Append(@, Functor("connectDestroyed", c))]
         ELSE /\ connMap' = connMap
              /\ queue' = [queue EXCEPT ![0] =
                             Append(@, Functor("removeConnectionInLoop", c))]
    /\ UNCHANGED <<poolVars, inBase, listening, nextConnId, channels, phase, batch,
                   held, peerFin>>

DoPendingFunctors(l) ==
    /\ phase[l] = "events" /\ active[l] = {}
    /\ phase' = [phase EXCEPT ![l] = "functors"]
    /\ batch' = [batch EXCEPT ![l] = Len(queue[l])]
    /\ UNCHANGED <<poolVars, serverVars, connVars, queue, held, active, fault>>

Listen ==
    /\ listening' = TRUE
    /\ UNCHANGED <<connMap, conn, channels, fault>>

\* connectEstablished, through the raw pointer that newConnection bound.
ConnectEstablished(c) ==
    /\ conn' = [conn EXCEPT ![c] = Updated([@ EXCEPT !.state = "kConnected"], TRUE)]
    /\ channels' = [channels EXCEPT ![conn[c].loop][conn[c].fd] = c]
    /\ fault' = CASE ~Alive(c) -> "uaf"
                  [] Alive(c) /\ ~UpdateAsserts(conn[c], Mapped(c), c) -> "poller"
                  [] OTHER -> "none"
    /\ UNCHANGED <<listening, connMap>>

\* Mutant: the entry stays in connMap_.
RemoveConnectionInLoop_NoErase(c) ==
    UNCHANGED <<connMap, listening, conn, channels, fault>>

\* removeConnectionInLoop: erase, then queueInLoop in the IO loop (see RunFunctor).
RemoveConnectionInLoop(c) ==
    /\ connMap' = connMap \ {c}
    /\ UNCHANGED <<listening, conn, channels, fault>>

\* Mutant: the channel is not removed once the connection is down.
ConnectDestroyed_NoRemove(c) ==
    UNCHANGED <<listening, connMap, conn, channels, fault>>

(* connectDestroyed of a connection whose handleClose ran: remove(), with   *)
(* the assertions of EpollPoller::removeChannel.                            *)
ConnectDestroyed(c) ==
    /\ channels' = [channels EXCEPT ![conn[c].loop][conn[c].fd] = NoConn]
    /\ conn' = [conn EXCEPT ![c].index = "kNew", ![c].added = FALSE]
    /\ fault' = IF Mapped(c) = c /\ ~conn[c].reading THEN "none" ELSE "poller"
    /\ UNCHANGED <<listening, connMap>>

RunFunctor(l) ==
    /\ phase[l] = "functors" /\ batch[l] > 0
    /\ LET f == Head(queue[l]) IN
         /\ \/ f.op = "listen" /\ Listen
            \/ f.op = "connectEstablished" /\ ConnectEstablished(f.c)
            \/ f.op = "removeConnectionInLoop" /\ RemoveConnectionInLoop(f.c)
            \/ f.op = "connectDestroyed" /\ ConnectDestroyed(f.c)
         /\ queue' = LET q == [queue EXCEPT ![l] = Tail(@)] IN
              IF f.op = "removeConnectionInLoop"
                THEN [q EXCEPT ![conn[f.c].loop] =
                        Append(@, Functor("connectDestroyed", f.c))]
                ELSE q
         /\ held' = [held EXCEPT ![l] = IF Binds(f) THEN @ \cup {f.c} ELSE @]
    /\ batch' = [batch EXCEPT ![l] = @ - 1]
    /\ UNCHANGED <<poolVars, inBase, nextConnId, phase, active, peerFin>>

\* Mutant: only connMap_ is asked for references.
Referenced_MapOnly(c, without) == c \in connMap

\* Some TcpConnectionPtr still points to c, the batch of one loop aside.
Referenced(c, without) ==
    \/ c \in connMap
    \/ \E l \in Loops \ {without} : c \in held[l]
    \/ \E l \in Loops : \E f \in Range(queue[l]) : Binds(f) /\ f.c = c

(* The local vector of doPendingFunctors goes out of scope: connections     *)
(* that nothing else refers to are destroyed here, in this thread.  The     *)
(* destructors assert that the connection is disconnected, its channel not  *)
(* added and, in the thread of its loop, unknown to the poller; ~Socket     *)
(* closes the descriptor.                                                   *)
EndBatch(l) ==
    /\ phase[l] = "functors" /\ batch[l] = 0
    /\ phase' = [phase EXCEPT ![l] = "poll"]
    /\ held' = [held EXCEPT ![l] = {}]
    /\ LET gone == {c \in held[l] : ~Referenced(c, l)} IN
         /\ conn' = [c \in Conns |-> IF c \in gone THEN [conn[c] EXCEPT !.life = "freed"]
                                                   ELSE conn[c]]
         /\ fault' = IF \A c \in gone :
                          /\ conn[c].state = "kDisConnected"
                          /\ ~conn[c].added
                          /\ conn[c].loop = l => Mapped(c) # c
                       THEN "none" ELSE "dtor"
    /\ UNCHANGED <<poolVars, serverVars, channels, queue, batch, active, peerFin>>

-----------------------------------------------------------------------------
LoopStep(l) ==
    /\ Running /\ InLoop(l)
    /\ \/ Poll(l)
       \/ l = 0 /\ (NewConnection \/ AcceptEnds)
       \/ \E c \in Conns : HandleClose(l, c)
       \/ DoPendingFunctors(l)
       \/ RunFunctor(l)
       \/ EndBatch(l)

Next ==
    \/ Running /\ (StartThreads \/ StartListening \/ DestroyServer)
    \/ Running /\ \E c \in Conns : PeerCloses(c) \/ UserShutsDown(c)
    \/ \E l \in Loops : LoopStep(l)

Spec == Init /\ [][Next]_vars

\* What the thread of loop l does, from its creation on.
ThreadOf(l) ==
    \/ l \in Loops /\ LoopStep(l)
    \/ /\ Running /\ l \in Threads /\ ThreadStep(l)
       /\ UNCHANGED <<serverVars, connVars, loopVars>>

(* Every thread keeps running, the one in start() too; nobody has to call   *)
(* start() or to destroy the server, clients need not do anything, and no   *)
(* wakeup has to be spurious.                                               *)
FairSpec ==
    /\ Spec
    /\ WF_vars(/\ Running
               /\ \/ StarterStep /\ UNCHANGED <<serverVars, connVars, loopVars>>
                  \/ StartListening)
    /\ \A l \in 0..Max(ThreadNums) : WF_vars(ThreadOf(l))

-----------------------------------------------------------------------------
(* No assertion about the channel or the state of a connection fails, in    *)
(* EpollPoller::updateChannel and removeChannel, ~Channel or                *)
(* ~TcpConnection, in any interleaving of the base loop and the IO loops    *)
(* and although the kernel reuses descriptors (EpollPoller.cc:64-114,       *)
(* Channel.cc:23-32, TcpConnection.cc:50-55).  acceptChannel_ is not meant: *)
(* its ~Channel fails whenever ~Acceptor is reached (fault "acceptor").     *)
ConnAssertionsHold == fault \notin {"poller", "dtor"}

(* No raw pointer dangles: neither the conn.get() of newConnection in a     *)
(* queue, nor a Channel* in activeChannels_ or in the map of a poller       *)
(* refers to a connection that was freed (TcpServer.cc:45-83).              *)
NoDanglingPointer ==
    /\ fault # "uaf"
    /\ \A l \in Loops :
         /\ \A f \in Range(queue[l]) : f.c # NoConn => Alive(f.c)
         /\ \A c \in active[l] \ {ListenChannel} : Alive(c)
         /\ \A fd \in Fds : channels[l][fd] # NoConn =>
              LET c == channels[l][fd] IN
                Alive(c) /\ conn[c].fd = fd /\ conn[c].loop = l

(* What start() hands out is there: every pointer in loops_ was stored by   *)
(* its thread before it was read, the thread identifier was known when      *)
(* Thread::start returned (the assertion holds), and the loop is one whose  *)
(* thread is about to enter loop() or inside it; no client is accepted      *)
(* before (EventLoopThread.cc:21-34, Thread.cc:27-30, 86-99,                *)
(* TcpServer.cc:34-42).                                                     *)
LoopsAreReady ==
    /\ fault # "tid"
    /\ \A t \in 1..Len(loops) : loops[t] /\ pc[t] \in {"enter", "looping"}
    /\ listening => Len(loops) = numThreads

(* Whoever waits for a latch is woken: start() returns, whatever the speed  *)
(* of the threads, unless pthread_create failed: then the caller waits for  *)
(* a loop that nobody makes (CountDownLatch.cc:20-34, Thread.cc:86-99,      *)
(* EventLoopThreadPool.cc:13-22).                                           *)
StartReturns ==
    base = "create" ~> base = "serving" \/ (base = "loopLatch" /\ pc[cur] = "unborn")

(* A connection whose peer has closed is freed and its descriptor returned, *)
(* through both loops, unless the server is destroyed (TcpServer.cc:66-83,  *)
(* TcpConnection.cc:64-73, 138-146).                                        *)
ClosedIsFreed ==
    \A c \in Conns : Alive(c) /\ c \in peerFin
        ~> conn[c].life = "freed" \/ base \in {"dtor", "join", "destroyed"}
=============================================================================
