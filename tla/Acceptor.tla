------------------------------ MODULE Acceptor ------------------------------
(* muduo/net/Acceptor.cc, with sockets::accept and Socket: the descriptors  *)
(* of the process, the spare one that is kept for the moment when there is  *)
(* none left (EMFILE), and the sockets of connections that other threads    *)
(* close at any time.                                                       *)
(*                                                                          *)
(* The kernel takes a descriptor before it looks for a client, so accept    *)
(* fails with EMFILE also when nobody is waiting.  close() of a number acts *)
(* on whatever has that number now.                                         *)
EXTENDS Integers, FiniteSets, FiniteSetsExt

CONSTANTS
    FdLimit,          \* the limit of open descriptors, those of the loop aside
    MaxClients      \* bound: clients that connect

ASSUME AcceptorAssumption == FdLimit \in Nat \ {0} /\ MaxClients \in Nat

Descriptors == 1..FdLimit
Clients == 1..MaxClients
Free == 0           \* contents of a descriptor: nothing, /dev/null, or a client
DevNull == -1

VARIABLES
    table,          \* what a descriptor refers to
    idlefd,         \* idlefd_
    sock,           \* the sockfd_ of the Socket of a client's connection, or -1
    backlog,        \* clients that connected and were not accepted
    came,           \* clients that connected so far
    refused,        \* history: clients closed by the Acceptor
    limits,         \* history: how often accept failed with EMFILE, up to 2
    acceptPc              \* handleRead: "loop", "accept", "closed" or "refuse"

acceptorVars == <<table, idlefd, sock, backlog, came, refused, limits, acceptPc>>

NoFd == -1
FreeDescriptors(t) == {fd \in Descriptors : t[fd] = Free}

\* close(fd): fails on a number that is not open.
Close(t, fd) == IF fd = NoFd THEN t ELSE [t EXCEPT ![fd] = Free]

\* The constructor opens /dev/null.
AcceptorInit ==
    /\ idlefd = 1 /\ table = [fd \in Descriptors |-> IF fd = 1 THEN DevNull ELSE Free]
    /\ sock = [c \in Clients |-> NoFd]
    /\ backlog = {} /\ came = 0 /\ refused = {} /\ limits = 0 /\ acceptPc = "loop"

ClientConnects ==
    /\ came < MaxClients
    /\ came' = came + 1
    /\ backlog' = backlog \cup {came + 1}
    /\ UNCHANGED <<table, idlefd, sock, refused, limits, acceptPc>>

\* Mutant: the Acceptor stops listening once the limit was reached.
ListenReady_UntilLimit ==
    /\ acceptPc = "loop" /\ backlog # {} /\ limits = 0
    /\ acceptPc' = "accept"
    /\ UNCHANGED <<table, idlefd, sock, backlog, came, refused, limits>>

\* The listening socket is readable and the loop calls handleRead.
ListenReady ==
    /\ acceptPc = "loop" /\ backlog # {}
    /\ acceptPc' = "accept"
    /\ UNCHANGED <<table, idlefd, sock, backlog, came, refused, limits>>

\* handleRead: accept succeeds, newConnectionCallback_ makes the Socket.
Accept ==
    /\ acceptPc = "accept" /\ FreeDescriptors(table) # {} /\ backlog # {}
    /\ LET c == Min(backlog)
           fd == Min(FreeDescriptors(table))
       IN /\ table' = [table EXCEPT ![fd] = c]
          /\ sock' = [sock EXCEPT ![c] = fd]
          /\ backlog' = backlog \ {c}
    /\ UNCHANGED <<idlefd, came, refused, limits, acceptPc>>

\* handleRead: EAGAIN, nobody is waiting.
AcceptEmpty ==
    /\ acceptPc = "accept" /\ FreeDescriptors(table) # {} /\ backlog = {}
    /\ acceptPc' = "loop"
    /\ UNCHANGED <<table, idlefd, sock, backlog, came, refused, limits>>

\* handleRead: EMFILE; the spare descriptor is closed.
AcceptFails ==
    /\ acceptPc = "accept" /\ FreeDescriptors(table) = {}
    /\ table' = Close(table, idlefd)
    /\ limits' = IF limits < 2 THEN limits + 1 ELSE 2
    /\ acceptPc' = "closed"
    /\ UNCHANGED <<idlefd, sock, backlog, came, refused>>

\* handleRead: idlefd_ = accept(...).
AcceptSpare ==
    /\ acceptPc = "closed"
    /\ IF FreeDescriptors(table) # {} /\ backlog # {}
         THEN /\ idlefd' = Min(FreeDescriptors(table))
              /\ table' = [table EXCEPT ![idlefd'] = Min(backlog)]
              /\ backlog' = backlog \ {Min(backlog)}
              /\ refused' = refused \cup {Min(backlog)}
         ELSE /\ idlefd' = NoFd
              /\ UNCHANGED <<table, backlog, refused>>
    /\ acceptPc' = "refuse"
    /\ UNCHANGED <<sock, came, limits>>

\* handleRead: the second close(idlefd_); idlefd_ keeps the number.
Refuse ==
    /\ acceptPc = "refuse"
    /\ table' = Close(table, idlefd)
    /\ acceptPc' = "loop"
    /\ UNCHANGED <<idlefd, sock, backlog, came, refused, limits>>

\* Mutant: the connection goes without closing its descriptor.
SocketDtor_NoClose(c) ==
    /\ sock[c] # NoFd
    /\ sock' = [sock EXCEPT ![c] = NoFd]
    /\ UNCHANGED <<table, idlefd, backlog, came, refused, limits, acceptPc>>

\* ~Socket, in the thread that destroys the connection.
SocketDtor(c) ==
    /\ sock[c] # NoFd
    /\ table' = Close(table, sock[c])
    /\ sock' = [sock EXCEPT ![c] = NoFd]
    /\ UNCHANGED <<idlefd, backlog, came, refused, limits, acceptPc>>

HandleRead == ListenReady \/ Accept \/ AcceptEmpty \/ AcceptFails \/ AcceptSpare \/ Refuse

AcceptorNext ==
    \/ ClientConnects
    \/ HandleRead
    \/ \E c \in Clients : SocketDtor(c)

AcceptorSpec == AcceptorInit /\ [][AcceptorNext]_acceptorVars

\* The base loop keeps running, and so do the threads that end connections.
FairAcceptorSpec ==
    /\ AcceptorSpec
    /\ WF_acceptorVars(HandleRead)
    /\ \A c \in Clients : WF_acceptorVars(SocketDtor(c))

-----------------------------------------------------------------------------
Connected == {c \in Clients : sock[c] # NoFd}

(* No descriptor leaks: one that is open belongs to a connection that will  *)
(* close it, or is about to be closed by the Acceptor, at the limit as      *)
(* well.  The other way round, every connection keeps its socket when the   *)
(* limit is reached for the first time (Acceptor.cc:31-56,                  *)
(* Socket.cc:11-13).                                                        *)
DescriptorsAreOwned ==
    /\ \A fd \in Descriptors : table[fd] \in Clients =>
         \/ sock[table[fd]] = fd
         \/ table[fd] \in refused /\ idlefd = fd /\ acceptPc = "refuse"
    /\ limits <= 1 => \A c \in Connected : table[sock[c]] = c

(* Every client is accepted or turned away in the end, as long as           *)
(* connections end (Acceptor.cc:31-58).                                     *)
ClientsAreServed == \A c \in Clients : c \in backlog ~> c \notin backlog
=============================================================================
