--------------------------- MODULE TcpConnection ----------------------------
(* muduo/net/TcpConnection.cc: one connection, the thread of its IO loop,   *)
(* other threads that call send/sendFile/shutdown through a TcpConnectionPtr, *)
(* the socket in the kernel, and the part of TcpServer that ends its life.  *)
(*                                                                          *)
(* The IO loop is used through what FunctorQueue promises: functors run in  *)
(* the order queued, in batches (doPendingFunctors), between two batches    *)
(* the events of the channel.  User callbacks run in the IO thread; depth   *)
(* counts how many of them are on the stack.  The IO loop is not the base   *)
(* loop of the server.                                                      *)
EXTENDS Integers, Sequences, SequencesExt, FiniteSets

CONSTANTS
    Foreign,        \* threads that hold a TcpConnectionPtr
    Messages,       \* what users send, each at most once
    MsgLen,         \* bytes of a message
    Files,          \* what users sendFile, each at most once
    FileLen,        \* File::fileSize()
    SndBuf,         \* bytes the kernel keeps for the peer
    MaxSends        \* bound: calls of send() and sendFile()

ASSUME SizesAssumption ==
    /\ MsgLen \in Nat \ {0}
    /\ FileLen \in Nat \ {0}
    /\ SndBuf \in Nat \ {0}
    /\ MaxSends \in Nat
    /\ Messages \cap Files = {}     \* they are only names

VARIABLES
    \* fields of TcpConnection and of its Channel
    state,          \* state_: "kConnecting", "kConnected", ... (TcpConnection.h:67)
    events,         \* sockChannel_->events_, "r" and "w"
    outputBuffer,   \* outputBuffer_, the readable bytes
    file,           \* file_, as a set of at most one file
    \* the IO loop
    queue,          \* functors waiting in the IO loop
    batch,          \* how many of them the current doPendingFunctors will run
    revents,        \* events of the current handleEvent not yet dispatched
    depth,          \* user callbacks on the stack of the IO thread
    \* the other threads
    call,           \* what a foreign thread is about to queue, as a set
    holders,        \* foreign threads that hold a TcpConnectionPtr
    serverUp,       \* the TcpServer lives, and its base loop runs
    inMap,          \* the connection is in connMap_
    removals,       \* removeConnectionInLoop functors waiting in the base loop
    \* the socket
    inflight,       \* bytes accepted by the kernel and not yet acknowledged
    wrShut,         \* shutdown(SHUT_WR) was called
    peer,           \* "open", "fin" or "reset"
    readable,       \* what the next read returns: "data", "error" or "none"
    \* history
    shared,         \* a TcpConnectionPtr has left the IO thread
    todo,           \* messages and files no user has sent yet
    stream,         \* the bytes sendInLoop and sendFileInLoop accepted, in order
    wire,           \* the bytes the kernel accepted, in order
    writeFailed,    \* some write or sendfile returned -1
    closed,         \* handleClose ran
    life,           \* "alive", "removed" (connectDestroyed ran) or "freed"
    fault           \* the assertion that failed, or "uaf"; "none" while running

connVars == <<state, events, outputBuffer, file>>
loopVars == <<queue, batch, revents, depth>>
serverVars == <<serverUp, inMap, removals>>
otherVars == <<call, holders, shared, serverVars>>
sockVars == <<inflight, wrShut, peer, readable>>
histVars == <<todo, stream, wire, writeFailed, closed, life, fault>>
vars == <<connVars, loopVars, otherVars, sockVars, histVars>>

Items == Messages \cup Files

\* The bytes of a message or a file; Stray is the byte in front of the caller's buffer.
Bytes(x) == [i \in 1..(IF x \in Files THEN FileLen ELSE MsgLen) |-> <<x, i>>]
Stray == <<0, 0>>

\* The next message or file a user makes up: which one it is makes no difference.
Fresh(S) ==
    IF S \cap todo = {} \/ Cardinality(Items \ todo) >= MaxSends THEN {}
    ELSE {CHOOSE x \in S : x \in todo}

Functor(op, arg) == [op |-> op, arg |-> arg]
Functors == {Functor("sendInLoop", {m}) : m \in Messages}
       \cup {Functor("sendFileInLoop", {f}) : f \in Files}
       \cup {Functor(op, {}) : op \in {"shutdown", "shutdownInLoop",
                                       "connectEstablished", "connectDestroyed"}}

\* newConnection: the first functor of a connection is connectEstablished.
Init ==
    /\ state = "kConnecting" /\ events = {} /\ outputBuffer = <<>> /\ file = {}
    /\ queue = <<Functor("connectEstablished", {})>>
    /\ batch = 0 /\ revents = {} /\ depth = 0
    /\ call = [t \in Foreign |-> {}] /\ holders = {} /\ shared = FALSE
    /\ serverUp = TRUE /\ inMap = TRUE /\ removals = 0
    /\ inflight = 0 /\ wrShut = FALSE /\ peer = "open" /\ readable = "none"
    /\ todo = Items /\ stream = <<>> /\ wire = <<>> /\ writeFailed = FALSE
    /\ closed = FALSE /\ life = "alive" /\ fault = "none"

\* A failed assertion, or a call on a freed object, ends the program.
Running == fault = "none"

-----------------------------------------------------------------------------
(* The kernel.                                                              *)

\* write() and sendfile() on the socket: how much is taken, -1 for an error.
Accepted(len) ==
    IF peer = "reset" \/ wrShut \/ inflight = SndBuf THEN -1
    ELSE IF len < SndBuf - inflight THEN len ELSE SndBuf - inflight

Take(bytes) ==
    /\ wire' = wire \o bytes
    /\ inflight' = inflight + Len(bytes)

Writable == peer = "reset" \/ wrShut \/ inflight < SndBuf
Readable == readable # "none" \/ peer # "open"
Hangup == peer = "reset" \/ (peer = "fin" /\ wrShut)

\* The peer acts until ~Socket; before connectEstablished nothing looks at it.
SocketOpen == state # "kConnecting" /\ life # "freed"

\* The peer acknowledges a byte, sends data, closes its side, or resets.
PeerAcks ==
    /\ Running
    /\ inflight > 0 /\ peer # "reset" /\ SocketOpen
    /\ inflight' = inflight - 1
    /\ UNCHANGED <<connVars, loopVars, otherVars, wrShut, peer, readable, histVars>>

PeerSends ==
    /\ Running
    /\ peer = "open" /\ SocketOpen
    /\ readable' = "data"
    /\ UNCHANGED <<connVars, loopVars, otherVars, inflight, wrShut, peer, histVars>>

PeerCloses ==
    /\ Running
    /\ peer = "open" /\ SocketOpen
    /\ peer' = "fin"
    /\ UNCHANGED <<connVars, loopVars, otherVars, inflight, wrShut, readable,
                   histVars>>

PeerResets ==
    /\ Running
    /\ peer # "reset" /\ SocketOpen
    /\ peer' = "reset"
    /\ readable' = IF readable = "data" THEN "data" ELSE "error"
    /\ UNCHANGED <<connVars, loopVars, otherVars, inflight, wrShut, histVars>>

-----------------------------------------------------------------------------
(* Operations of the IO thread.  Each says what becomes of connVars, depth, *)
(* the socket, stream, wire, writeFailed and fault.                         *)
opVars == <<connVars, depth, inflight, wrShut, stream, wire, writeFailed, fault>>

\* Mutant: the rest of a partial write is kept but writing is not enabled.
KeepRest_NotEnabled(rest) ==
    /\ outputBuffer' = outputBuffer \o rest
    /\ events' = events

\* The end of sendInLoop: what write did not take goes to the buffer.
KeepRest(rest) ==
    /\ outputBuffer' = outputBuffer \o rest
    /\ events' = IF rest = <<>> THEN events ELSE events \cup {"w"}

\* Mutant: a new message is written past the bytes that still wait.
DirectWriteAllowed_Always == TRUE

DirectWriteAllowed == "w" \notin events /\ outputBuffer = <<>>

(* sendInLoop.  nwrote is a size_t: -1 makes remain = len + 1, and the      *)
(* append starts one byte in front of the caller's buffer.                  *)
SendInLoop(m) ==
    IF state # "kConnected" THEN UNCHANGED opVars
    ELSE
      LET nwrote == Accepted(MsgLen) IN
        /\ stream' = stream \o Bytes(m)
        /\ \/ /\ DirectWriteAllowed /\ nwrote >= 0
              /\ Take(SubSeq(Bytes(m), 1, nwrote))
              /\ KeepRest(SubSeq(Bytes(m), nwrote + 1, MsgLen))
              /\ depth' = IF nwrote = MsgLen THEN depth + 1 ELSE depth
              /\ UNCHANGED writeFailed
           \/ /\ DirectWriteAllowed /\ nwrote < 0
              /\ KeepRest(<<Stray>> \o Bytes(m))
              /\ writeFailed' = TRUE
              /\ UNCHANGED <<wire, inflight, depth>>
           \/ /\ ~DirectWriteAllowed
              /\ KeepRest(Bytes(m))
              /\ UNCHANGED <<wire, inflight, depth, writeFailed>>
        /\ UNCHANGED <<state, file, wrShut, fault>>

(* sendFileInLoop: a file that could not be opened is not sent.  The first  *)
(* sendfile goes from the file to the socket; a file that is not finished   *)
(* is left to handleWrite.                                                  *)
SendFileInLoop(f, opened) ==
    IF file # {} THEN
        /\ fault' = "sendFile"
        /\ UNCHANGED <<connVars, depth, inflight, wrShut, stream, wire,
                       writeFailed>>
    ELSE IF ~opened THEN UNCHANGED opVars
    ELSE
      LET nwrote == Accepted(FileLen) IN
        /\ stream' = stream \o Bytes(f)
        /\ \/ /\ DirectWriteAllowed /\ nwrote >= 0
              /\ Take(SubSeq(Bytes(f), 1, nwrote))
              /\ depth' = IF nwrote = FileLen THEN depth + 1 ELSE depth
              /\ UNCHANGED writeFailed
           \/ /\ DirectWriteAllowed /\ nwrote < 0
              /\ writeFailed' = TRUE
              /\ UNCHANGED <<wire, inflight, depth>>
           \/ /\ ~DirectWriteAllowed
              /\ UNCHANGED <<wire, inflight, depth, writeFailed>>
        /\ IF DirectWriteAllowed /\ nwrote = FileLen
             THEN UNCHANGED <<file, events>>
             ELSE file' = {f} /\ events' = events \cup {"w"}
        /\ UNCHANGED <<state, outputBuffer, wrShut, fault>>

\* Mutant: the half-close does not wait for the buffer.
ShutdownInLoop_EvenWriting ==
    /\ wrShut' = TRUE
    /\ UNCHANGED <<connVars, depth, inflight, stream, wire, writeFailed, fault>>

\* shutdownInLoop: nothing happens while the connection is writing.
ShutdownInLoop ==
    /\ wrShut' = (wrShut \/ "w" \notin events)
    /\ UNCHANGED <<connVars, depth, inflight, stream, wire, writeFailed, fault>>

\* shutdown() in the IO thread: runInLoop calls shutdownInLoop at once.
Shutdown ==
    IF state # "kConnected" THEN UNCHANGED opVars
    ELSE
        /\ state' = "kDisConnecting"
        /\ wrShut' = (wrShut \/ "w" \notin events)
        /\ UNCHANGED <<events, outputBuffer, file, depth, inflight, stream, wire,
                       writeFailed, fault>>

(* connectEstablished ends in the user's connectionCallback.                *)
ConnectEstablished ==
    /\ state' = "kConnected"
    /\ events' = events \cup {"r"}
    /\ depth' = depth + 1
    /\ UNCHANGED <<outputBuffer, file, inflight, wrShut, stream, wire,
                   writeFailed, fault>>

(* connectDestroyed: remove() asserts that the channel is registered and    *)
(* has no events left.                                                      *)
(* In kDisConnected the connectionCallback can send and shut down nothing.  *)
ConnectDestroyed ==
    /\ state' = IF state = "kConnected" THEN "kDisConnected" ELSE state
    /\ events' = IF state = "kConnected" THEN {} ELSE events
    /\ fault' = IF events' = {} /\ life = "alive" THEN "none" ELSE "remove"
    /\ UNCHANGED <<outputBuffer, file, depth, inflight, wrShut, stream, wire,
                   writeFailed>>

\* Mutant: handleClose leaves the channel registered for its events.
HandleClose_KeepsEvents ==
    /\ state' = "kDisConnected"
    /\ events' = events
    /\ closed' = TRUE
    /\ removals' = removals + 1
    /\ UNCHANGED <<serverUp, inMap>>

(* handleClose: a user's callback for which the connection is closed, then  *)
(* TcpServer::removeConnection, which queues in the base loop.              *)
HandleClose ==
    /\ state' = "kDisConnected"
    /\ events' = {}
    /\ closed' = TRUE
    /\ removals' = removals + 1
    /\ UNCHANGED <<serverUp, inMap>>

(* handleWrite.  For a file, sendfile is called with the two descriptors    *)
(* exchanged: it fails, and the file stays.                                 *)
HandleWrite ==
    IF "w" \notin events THEN
        /\ fault' = "handleWrite"
        /\ UNCHANGED <<connVars, depth, inflight, wrShut, stream, wire,
                       writeFailed>>
    ELSE
      LET nwrote == Accepted(Len(outputBuffer)) IN
        \/ /\ file = {} /\ nwrote > 0
           /\ Take(SubSeq(outputBuffer, 1, nwrote))
           /\ outputBuffer' = SubSeq(outputBuffer, nwrote + 1, Len(outputBuffer))
           /\ IF outputBuffer' = <<>> THEN events' = events \ {"w"} /\ depth' = depth + 1
                                      ELSE UNCHANGED <<events, depth>>
           /\ UNCHANGED <<state, file, wrShut, stream, writeFailed, fault>>
        \/ /\ file # {} \/ nwrote <= 0
           /\ writeFailed' = TRUE
           /\ UNCHANGED <<connVars, depth, inflight, wrShut, stream, wire, fault>>

-----------------------------------------------------------------------------
(* The IO loop.                                                             *)
Idle == revents = {} /\ depth = 0

\* Mutant: POLLOUT is not passed to epoll.
PollEvent_NoWrite ==
    /\ Running
    /\ Idle /\ batch = 0
    /\ revents' = {e \in events : e = "r" /\ Readable}
    /\ revents' # {}
    /\ UNCHANGED <<connVars, queue, batch, depth, otherVars, sockVars, histVars>>

(* poll(): the channel's events that are ready.  POLLHUP ("h") comes        *)
(* unasked; with POLLIN beside it handleEvent ignores it.                   *)
PollEvent ==
    /\ Running
    /\ Idle /\ batch = 0
    /\ revents' = {e \in events : (e = "r" /\ Readable) \/ (e = "w" /\ Writable)}
                    \cup (IF Hangup /\ events = {"w"} THEN {"h"} ELSE {})
    /\ revents' # {}
    /\ UNCHANGED <<connVars, queue, batch, depth, otherVars, sockVars, histVars>>

(* handleRead, called by Channel::handleEvent for POLLIN.  n is a size_t:   *)
(* an error is not 0 and so reaches the messageCallback as data does.       *)
DispatchRead ==
    /\ Running
    /\ "r" \in revents /\ depth = 0
    /\ revents' = revents \ {"r"}
    /\ IF readable # "none"
         THEN /\ depth' = depth + 1
              /\ UNCHANGED <<state, events, closed, serverVars>>
         ELSE /\ HandleClose
              /\ UNCHANGED depth
    /\ readable' = IF readable = "data" /\ peer = "reset" THEN "error" ELSE "none"
    /\ UNCHANGED <<outputBuffer, file, queue, batch, call, holders, shared,
                   inflight, wrShut, peer, todo, stream, wire, writeFailed, life,
                   fault>>

\* handleEvent: POLLHUP without POLLIN closes the connection.
DispatchHup ==
    /\ Running
    /\ "h" \in revents
    /\ revents' = revents \ {"h"}
    /\ HandleClose
    /\ UNCHANGED <<outputBuffer, file, queue, batch, depth, call, holders,
                   shared, sockVars, todo, stream, wire, writeFailed, life,
                   fault>>

\* handleEvent goes on to POLLOUT with the revents it started with.
DispatchWrite ==
    /\ Running
    /\ revents = {"w"} /\ depth = 0
    /\ revents' = {}
    /\ HandleWrite
    /\ UNCHANGED <<queue, batch, otherVars, peer, readable, todo, closed, life>>

DoPendingFunctors ==
    /\ Running
    /\ Idle /\ batch = 0 /\ queue # <<>>
    /\ batch' = Len(queue)
    /\ UNCHANGED <<connVars, queue, revents, depth, otherVars, sockVars, histVars>>

\* The call of the next functor; most of them hold a raw this.
RunFunctor ==
    /\ Running
    /\ Idle /\ batch > 0
    /\ queue' = Tail(queue)
    /\ batch' = batch - 1
    /\ LET f == Head(queue) IN
         IF life = "freed" THEN
             /\ fault' = "uaf"
             /\ UNCHANGED <<connVars, depth, inflight, wrShut, stream, wire,
                            writeFailed>>
         ELSE
             \/ f.op = "connectEstablished" /\ ConnectEstablished
             \/ f.op = "connectDestroyed" /\ ConnectDestroyed
             \/ f.op = "sendInLoop" /\ \E m \in f.arg : SendInLoop(m)
             \/ f.op = "sendFileInLoop"
                /\ \E x \in f.arg, opened \in BOOLEAN : SendFileInLoop(x, opened)
             \/ f.op = "shutdownInLoop" /\ ShutdownInLoop
    /\ life' = IF Head(queue).op = "connectDestroyed" THEN "removed" ELSE life
    /\ UNCHANGED <<revents, otherVars, peer, readable, todo, closed>>

\* The destructor, when the last TcpConnectionPtr is gone: functors hold them too.
Destroy ==
    /\ Running
    /\ life = "removed" /\ batch = 0 /\ Idle
    /\ holders = {} /\ ~inMap /\ removals = 0
    /\ \A f \in Range(queue) : f.op # "connectDestroyed"
    /\ life' = "freed"
    /\ fault' = IF state = "kDisConnected" /\ events = {} THEN "none" ELSE "dtor"
    /\ UNCHANGED <<connVars, loopVars, otherVars, sockVars, todo, stream, wire,
                   writeFailed, closed>>

-----------------------------------------------------------------------------
(* User code in a callback of the IO thread.                                *)
UserCall == UNCHANGED <<queue, batch, revents, call, serverVars, peer, readable,
                        closed, life>>

UserSends(m) ==
    /\ Running
    /\ depth > 0 /\ m \in Fresh(Messages)
    /\ todo' = todo \ {m}
    /\ SendInLoop(m)
    /\ UserCall /\ UNCHANGED <<holders, shared>>

UserSendsFile(f) ==
    /\ Running
    /\ depth > 0 /\ f \in Fresh(Files) /\ state = "kConnected"
    /\ todo' = todo \ {f}
    /\ \E opened \in BOOLEAN : SendFileInLoop(f, opened)
    /\ UserCall /\ UNCHANGED <<holders, shared>>

UserShutsDown ==
    /\ Running
    /\ depth > 0
    /\ Shutdown
    /\ UserCall /\ UNCHANGED <<holders, shared, todo>>

\* The callback hands its TcpConnectionPtr to another thread.
UserShares(t) ==
    /\ Running
    /\ depth > 0
    /\ holders' = holders \cup {t} /\ shared' = TRUE
    /\ UserCall /\ UNCHANGED <<opVars, todo>>

UserReturns ==
    /\ Running
    /\ depth > 0
    /\ depth' = depth - 1
    /\ UserCall
    /\ UNCHANGED <<connVars, holders, shared, inflight, wrShut, todo, stream,
                   wire, writeFailed, fault>>

-----------------------------------------------------------------------------
(* Foreign threads: state_ is read, for shutdown() written, and then the    *)
(* functor is queued, each in a step of its own.                            *)
Calls(t, f, used) ==
    /\ Running
    /\ t \in holders /\ call[t] = {}
    /\ state = "kConnected"
    /\ call' = [call EXCEPT ![t] = {f}]
    /\ todo' = todo \ used
    /\ UNCHANGED <<connVars, loopVars, holders, shared, serverVars, sockVars,
                   stream, wire, writeFailed, closed, life, fault>>

ForeignSend(t) == \E m \in Fresh(Messages) : Calls(t, Functor("sendInLoop", {m}), {m})
ForeignSendFile(t) == \E f \in Fresh(Files) : Calls(t, Functor("sendFileInLoop", {f}), {f})
ForeignShutdown(t) == Calls(t, Functor("shutdown", {}), {})

\* shutdown(): the store to state_, which nothing orders after the test.
ForeignSetsState(t) ==
    /\ Running
    /\ call[t] = {Functor("shutdown", {})}
    /\ state' = "kDisConnecting"
    /\ call' = [call EXCEPT ![t] = {Functor("shutdownInLoop", {})}]
    /\ UNCHANGED <<events, outputBuffer, file, loopVars, holders, shared,
                   serverVars, sockVars, histVars>>

ForeignQueues(t) ==
    /\ Running
    /\ \E f \in call[t] : f.op # "shutdown" /\ queue' = Append(queue, f)
    /\ call' = [call EXCEPT ![t] = {}]
    /\ UNCHANGED <<connVars, batch, revents, depth, holders, shared, serverVars,
                   sockVars, histVars>>

ForeignReleases(t) ==
    /\ Running
    /\ t \in holders /\ call[t] = {}
    /\ holders' = holders \ {t}
    /\ UNCHANGED <<connVars, loopVars, call, shared, serverVars, sockVars,
                   histVars>>

(* TcpServer::removeConnectionInLoop, in the base loop: erase, and queue    *)
(* connectDestroyed with a TcpConnectionPtr of its own.                     *)
RemoveConnectionInLoop ==
    /\ Running
    /\ serverUp /\ removals > 0
    /\ removals' = removals - 1
    /\ inMap' = FALSE
    /\ queue' = Append(queue, Functor("connectDestroyed", {}))
    /\ UNCHANGED <<connVars, batch, revents, depth, call, holders, shared,
                   serverUp, sockVars, histVars>>

(* ~TcpServer does the same for every connection in connMap_; then it joins *)
(* the IO threads, which do not end, and the base loop runs no more.        *)
ServerDestroyed ==
    /\ Running
    /\ serverUp
    /\ serverUp' = FALSE
    /\ inMap' = FALSE
    /\ queue' = IF inMap THEN Append(queue, Functor("connectDestroyed", {})) ELSE queue
    /\ UNCHANGED <<connVars, batch, revents, depth, call, holders, shared,
                   removals, sockVars, histVars>>

-----------------------------------------------------------------------------
IOThread ==
    \/ PollEvent \/ DispatchHup \/ DispatchRead \/ DispatchWrite
    \/ DoPendingFunctors \/ RunFunctor
    \/ UserReturns

ForeignThread(t) ==
    \/ ForeignSend(t) \/ ForeignSendFile(t) \/ ForeignShutdown(t)
    \/ ForeignSetsState(t) \/ ForeignQueues(t) \/ ForeignReleases(t)

Next ==
    \/ IOThread
    \/ Destroy
    \/ \E m \in Messages : UserSends(m)
    \/ \E f \in Files : UserSendsFile(f)
    \/ \E t \in Foreign : UserShares(t) \/ ForeignThread(t)
    \/ UserShutsDown
    \/ RemoveConnectionInLoop
    \/ ServerDestroyed
    \/ PeerAcks \/ PeerSends \/ PeerCloses \/ PeerResets

Spec == Init /\ [][Next]_vars

(* Threads that can run do run, callbacks return, the base loop gets to its *)
(* functors, and the peer keeps acknowledging what it receives.  Every      *)
(* iteration of the IO loop calls doPendingFunctors, however many events    *)
(* there are: hence the strong fairness.                                    *)
FairSpec ==
    /\ Spec
    /\ WF_vars(IOThread)
    /\ SF_vars(DoPendingFunctors)
    /\ WF_vars(RemoveConnectionInLoop)
    /\ WF_vars(PeerAcks)

-----------------------------------------------------------------------------
InUse == ~closed /\ life = "alive"

(* The peer receives a prefix of what was accepted for sending, whatever    *)
(* mix of direct and buffered writes of the IO thread and of queued sends   *)
(* of other threads produced it, as long as no write met a full buffer      *)
(* (TcpConnection.cc:96-136 and 194-226).                                   *)
WirePrefix == ~writeFailed => IsPrefix(wire, stream)

(* POLLOUT is watched exactly while there is something left to write: no    *)
(* output is forgotten in the buffer, and the level-triggered loop does not *)
(* spin (TcpConnection.cc:96-136, 221-224).                                 *)
WritingIffPending ==
    InUse /\ state \in {"kConnected", "kDisConnecting"}
        => ("w" \in events <=> outputBuffer # <<>> \/ file # {})

(* A graceful shutdown never cuts off bytes that were accepted: when the    *)
(* write side of a live connection is closed, its buffer is empty, from     *)
(* whatever thread shutdown() came (TcpConnection.cc:409-428).              *)
HalfCloseIsClean == InUse /\ wrShut => outputBuffer = <<>>

(* A connection used only by its own IO thread and removed by a living      *)
(* server ends in order: the asserts of remove() and of the destructor hold *)
(* and no queued functor outlives it, however its callbacks and the peer    *)
(* mix sends, shutdown and close.  What can still fail is POLLOUT           *)
(* dispatched after the close and a second sendFile                         *)
(* (TcpConnection.cc:52-56, 138-190, EpollPoller.cc:97-112).                *)
ConfinedIsSafe ==
    ~shared /\ serverUp =>
        /\ fault \in {"none", "handleWrite", "sendFile"}
        /\ fault = "handleWrite" => closed

Over == closed \/ life # "alive" \/ fault # "none"

(* Buffered bytes leave, as long as the peer reads, no file is in the way   *)
(* and the connection lasts (TcpConnection.cc:96-136).                      *)
OutputDrains ==
    outputBuffer # <<>> /\ state = "kConnected" /\ file = {}
        ~> outputBuffer = <<>> \/ file # {} \/ Over

=============================================================================
