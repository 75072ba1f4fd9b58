----------------------------- MODULE HttpServer -----------------------------
(* muduo/net/http/HttpServer.cc: one connection of an HTTP server, in the   *)
(* thread of its IO loop.  Requests come in segments cut anywhere and go    *)
(* through the parser of HttpContext; responses leave through the output    *)
(* path of TcpConnection, whose write-complete callback sends the file of a *)
(* response and closes the connection.                                      *)
(*                                                                          *)
(* A callback that sendInLoop, sendFileInLoop or handleWrite calls is a     *)
(* step of its own: between two writes the kernel may make room.            *)
(* While onRequest has not returned, parsing is "answered".                  *)
EXTENDS HttpContext

CONSTANTS
    Kinds,          \* requests clients send: "get", "post", "badLine", "badHeader"
    MaxRequests,    \* bound: requests on the connection
    MsgLen,         \* bytes of a response without its file
    FileLen,        \* bytes of a file
    SndBuf,         \* bytes of the kernel's send buffer
    Overheads       \* how many of them the kernel may need for itself

ASSUME HttpAssumption ==
    /\ Kinds \subseteq {"get", "post", "badLine", "badHeader"}
    /\ MaxRequests \in Nat \ {0}
    /\ MsgLen \in Nat \ {0} /\ FileLen \in Nat \ {0} /\ SndBuf \in Nat
    /\ Overheads \subseteq 0..(SndBuf - 1)

VARIABLES
    \* the client
    kinds,          \* its requests
    pipelining,     \* whether it sends before the last answer came
    sent,           \* how many tokens of the stream were received
    \* the connection, as in TcpConnection
    connState, events, outputBuffer, file, depth, inflight, wrShut,
    stream, wire, writeFailed, fault,
    overhead,       \* the part of inflight that is the kernel's own
    \* HttpServer
    callback,       \* writeCompleteCallback_ of the connection
    running,        \* the callback that is being called
    \* history
    called,         \* the requests httpCallback_ was called with
    last,           \* the last response
    owed            \* the bytes of the responses made while the connection was open

clientVars == <<kinds, pipelining, sent, overhead>>
sockVars == <<connState, events, outputBuffer, file, depth, inflight, wrShut,
              stream, wire, writeFailed, fault>>
historyVars == <<called, last, owed>>
vars == <<parserVars, clientVars, sockVars, callback, running, historyVars>>

\* The head of response k is message k, its file has a number of its own.
FileOf(k) == MaxRequests + k

(* The output path of the connection.  No other thread knows the            *)
(* connection, and its peer does not reset it.                              *)
TC == INSTANCE TcpConnection WITH
    Foreign <- {}, Messages <- 1..MaxRequests,
    Files <- (MaxRequests + 1)..(2 * MaxRequests), MaxSends <- 0,
    state <- connState, queue <- <<>>, batch <- 0, revents <- {}, call <- <<>>,
    holders <- {}, serverUp <- TRUE, inMap <- TRUE, removals <- 0,
    peer <- "open", readable <- "none", shared <- FALSE, todo <- {},
    closed <- FALSE, life <- "alive"

\* What is bound into a callback; closeConnection and 0 use none of it.
NoCallback == [op |-> "none", close |-> FALSE, opened |-> FALSE, file |-> 0]
CloseConnectionCallback == [NoCallback EXCEPT !.op = "closeConnection"]
SendFileCallback(close, opened, f) ==
    [op |-> "sendFile", close |-> close, opened |-> opened, file |-> f]

(* What a user makes of a response: closeConnection_, which starts as what  *)
(* the request asks for, and whether sendFile() was called and its file     *)
(* could be opened.                                                         *)
Responses == [close : BOOLEAN, file : {"none", "opened", "missing"}]

\* onConnection of a connection that was just established.
Init ==
    /\ pipelining \in BOOLEAN
    /\ kinds \in UNION {[1..n -> Kinds] : n \in 1..MaxRequests}
    /\ sent = 0 /\ buffer = <<>> /\ parsing = "no"
    /\ state = "kExpectRequestLine" /\ request = NewRequest
    /\ connState = "kConnected" /\ events = {"r"} /\ outputBuffer = <<>>
    /\ file = {} /\ depth = 0 /\ overhead \in Overheads /\ inflight = overhead /\ wrShut = FALSE
    /\ stream = <<>> /\ wire = <<>> /\ writeFailed = FALSE /\ fault = "none"
    /\ callback = NoCallback /\ running = NoCallback
    /\ called = <<>> /\ owed = <<>>
    /\ last = [close |-> FALSE, file |-> "none"]

-----------------------------------------------------------------------------
(* The client.                                                              *)
Stream == FlattenSeq([k \in DOMAIN kinds |-> Wire(k, kinds[k])])

\* The end of request k in the stream.
EndOf(k) == Len(FlattenSeq([i \in 1..k |-> Wire(i, kinds[i])]))

(* A client that does not pipeline sends its next request when it has the   *)
(* whole response to the last one, and none after a response that closes.   *)
MaySend(n) ==
    \/ pipelining
    \/ /\ wire = owed /\ inflight = overhead /\ ~last.close
       /\ n <= EndOf(IF Len(called) < Len(kinds) THEN Len(called) + 1 ELSE Len(kinds))

Idle == fault = "none" /\ parsing = "no" /\ depth = 0 /\ running = NoCallback

(* handleRead: a segment is appended to the buffer and onMessage is called, *)
(* also when shutdown() was called: the connection goes on reading.         *)
OnMessage ==
    /\ Idle /\ "r" \in events
    /\ \E n \in (sent + 1)..Len(Stream) :
         /\ MaySend(n)
         /\ buffer' = buffer \o SubSeq(Stream, sent + 1, n)
         /\ sent' = n
    /\ parsing' = "loop"
    /\ UNCHANGED <<contextVars, kinds, pipelining, overhead, sockVars, callback,
                   running, historyVars>>

(* The client closes: handleClose, which calls onConnection again.          *)
HandleClose ==
    /\ Idle /\ "r" \in events
    /\ connState' = "kDisConnected"
    /\ events' = {}
    /\ state' = "kExpectRequestLine" /\ request' = NewRequest
    /\ UNCHANGED <<buffer, parsing, clientVars, outputBuffer, file, depth,
                   inflight, wrShut, stream, wire, writeFailed, fault, callback,
                   running, historyVars>>

\* The client takes a byte out of the kernel's buffer.
ClientAcks ==
    /\ fault = "none" /\ inflight > overhead
    /\ inflight' = inflight - 1
    /\ UNCHANGED <<parserVars, clientVars, connState, events, outputBuffer, file,
                   depth, wrShut, stream, wire, writeFailed, fault, callback,
                   running, historyVars>>

-----------------------------------------------------------------------------
ParseRequest ==
    /\ ParseStep
    /\ UNCHANGED <<clientVars, sockVars, callback, running, historyVars>>

\* onMessage: parseRequest failed.
OnParseError ==
    /\ parsing = "failed"
    /\ parsing' = "no"
    /\ TC!Shutdown
    /\ UNCHANGED <<buffer, contextVars, clientVars, callback, running, historyVars>>

\* Mutant: the two tests in the other order.
NextCallback_CloseFirst(r, k) ==
    IF r.close THEN CloseConnectionCallback
    ELSE IF r.file # "none" THEN SendFileCallback(r.close, r.file = "opened", FileOf(k))
    ELSE callback

\* What onRequest leaves in writeCompleteCallback_.
NextCallback(r, k) ==
    IF r.file # "none" THEN SendFileCallback(r.close, r.file = "opened", FileOf(k))
    ELSE IF r.close THEN CloseConnectionCallback
    ELSE callback

\* The bytes of response r to request k.
Owed(r, k) ==
    TC!Bytes(k) \o (IF r.file = "opened" THEN TC!Bytes(FileOf(k)) ELSE <<>>)

\* onRequest; the callback of the send runs before it returns.
OnRequest ==
    /\ parsing = "complete"
    /\ parsing' = "answered"
    /\ \E r \in Responses :
         LET k == Len(called) + 1 IN
           /\ callback' = NextCallback(r, k)
           /\ TC!SendInLoop(k)
           /\ last' = r
           /\ owed' = IF connState = "kConnected" THEN owed \o Owed(r, k) ELSE owed
    /\ called' = Append(called, request)
    /\ UNCHANGED <<buffer, contextVars, clientVars, running>>

\* onMessage goes on after onRequest: context.reset().
Reset ==
    /\ parsing = "answered" /\ depth = 0 /\ running = NoCallback /\ fault = "none"
    /\ parsing' = "no"
    /\ state' = "kExpectRequestLine" /\ request' = Fresh(request)
    /\ UNCHANGED <<buffer, clientVars, sockVars, callback, running, historyVars>>

(* Everything was written: writeCompleteCallback_ is called, if there is    *)
(* one.                                                                     *)
WriteComplete ==
    /\ depth > 0
    /\ depth' = depth - 1
    /\ running' = callback
    /\ UNCHANGED <<parserVars, clientVars, connState, events, outputBuffer, file,
                   inflight, wrShut, stream, wire, writeFailed, fault, callback,
                   historyVars>>

CloseConnection ==
    /\ running.op = "closeConnection"
    /\ running' = NoCallback
    /\ TC!Shutdown
    /\ UNCHANGED <<parserVars, clientVars, callback, historyVars>>

\* Mutant: the callback is taken away after every file.
AfterFile_NoClose(close) == NoCallback

AfterFile(close) == IF close THEN CloseConnectionCallback ELSE NoCallback

(* sendFile: the new callback replaces the one that is running, and with it *)
(* destroys the FilePtr whose reference is handed on to conn->sendFile: on  *)
(* an open connection every read of it is a read of freed memory.  That     *)
(* goes wrong, or the memory still holds the old pointer; then the file is  *)
(* there only as long as onRequest, which has not returned, owns it through *)
(* its response.                                                            *)
SendFile ==
    /\ running.op = "sendFile"
    /\ running' = NoCallback
    /\ callback' = AfterFile(running.close)
    /\ \/ /\ connState # "kConnected"
          /\ UNCHANGED sockVars
       \/ /\ connState = "kConnected"
          /\ fault' = "uaf"
          /\ UNCHANGED <<connState, events, outputBuffer, file, depth, inflight,
                         wrShut, stream, wire, writeFailed>>
       \/ /\ connState = "kConnected"
          /\ parsing = "answered" /\ running.file = FileOf(Len(called))
          /\ TC!SendFileInLoop(running.file, running.opened)
    /\ UNCHANGED <<parserVars, clientVars, historyVars>>

\* POLLOUT.
HandleWrite ==
    /\ Idle /\ "w" \in events
    /\ TC!Writable /\ TC!HandleWrite
    /\ UNCHANGED <<parserVars, clientVars, callback, running, historyVars>>

IOThread ==
    \/ ParseRequest \/ OnParseError \/ OnRequest \/ Reset
    \/ WriteComplete \/ CloseConnection \/ SendFile \/ HandleWrite

Next == OnMessage \/ HandleClose \/ ClientAcks \/ IOThread

Spec == Init /\ [][Next]_vars

(* The IO thread does not stop inside a handler, and POLLOUT is reported    *)
(* again until it is handled; the client takes what it is sent, but may     *)
(* stop sending.                                                            *)
FairSpec == Spec /\ WF_vars(IOThread) /\ WF_vars(ClientAcks)

-----------------------------------------------------------------------------
WellFormed(kind) == kind \in {"get", "post"}

\* What the callback of a well-formed request number k should see.
Seen(r, k) ==
    /\ r.path = k
    /\ r.method = (IF kinds[k] = "post" THEN "kPost" ELSE "kGet")
    /\ r.length = (IF kinds[k] = "post" THEN BodyLen ELSE 0)
    /\ kinds[k] = "post" => r.body = [i \in 1..BodyLen |-> <<"body", k>>]

(* However the stream is cut into segments, and whatever was parsed before  *)
(* on the connection, the callback sees the requests in the order sent,     *)
(* each with its own headers and a POST with its own body, up to the first  *)
(* malformed one (HttpContext.cc:56-143, HttpServer.cc:22-39).  body_ of a  *)
(* GET is left out: it keeps the body of the last POST.                     *)
RequestsAreFaithful ==
    \A i \in DOMAIN called :
        (\A j \in 1..i : WellFormed(kinds[j])) => Seen(called[i], i)

(* When a client sends well-formed requests without a body, each after the  *)
(* answer to the one before, every request is answered as soon as it is     *)
(* there, wherever the segments were cut (HttpContext.cc:81-143).           *)
CompleteIsAnswered ==
    \A k \in 1..MaxRequests :
        (/\ ~pipelining /\ \A i \in DOMAIN kinds : kinds[i] = "get"
         /\ k <= Len(kinds) /\ sent >= EndOf(k))
            ~> Len(called) >= k

(* A client that does not pipeline receives the responses whole and in      *)
(* order, head before file, whatever mix of direct writes, POLLOUT and      *)
(* nested callbacks sent them, and the connection is half-closed only after *)
(* the last byte (HttpServer.cc:40-76, TcpConnection.cc:96-281).  It holds  *)
(* as long as the destroyed FilePtr that every sendFile reads as a write-   *)
(* complete callback has read as if it were alive (fault "uaf" otherwise).  *)
ResponsesAreWhole ==
    ~pipelining /\ ~writeFailed /\ fault = "none" =>
        /\ IsPrefix(wire, owed)
        /\ wrShut => wire = owed

(* A response that announces the end of the connection is followed by the   *)
(* half-close, unless the client was faster or the response has a file and  *)
(* the file does not fit into the kernel's buffer, or the read of its       *)
(* destroyed FilePtr, which every sendFile makes as a write-complete        *)
(* callback, goes wrong; behind POLLOUT it always does.  A file that could  *)
(* not be opened is left out: the half-close never comes                    *)
(* (HttpServer.cc:51-76).                                                   *)
CloseIsDone ==
    ~pipelining /\ last.close /\ last.file # "missing" /\ connState = "kConnected"
        ~> wrShut \/ connState = "kDisConnected" \/ file # {} \/ fault = "uaf"
=============================================================================
