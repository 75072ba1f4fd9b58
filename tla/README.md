# A TLA+ model of muduo (re-implementation)

This directory keeps a formal model of the library in `muduo/`: TLA+ modules
translated from its C++ source, TLC configurations that check them on small
instances, and theorems checked by TLAPS.  Paths below are relative to the root
of the repository.  `PROJECT.json` is the index: which definition models which
lines, which run checks which property, what was found.

## The system

The library is a reactor for TCP servers: *one loop per thread*.

| Part | State it keeps | Operations | Interacts with |
| --- | --- | --- | --- |
| `net/EventLoop` | `quit_`, `activeChannels_`, `pendingFunctors_`, an eventfd | `loop`, `runInLoop`, `queueInLoop`, `quit`, `wakeup` | other threads push functors and write the eventfd; channels and functors run in its thread |
| `net/Channel`, `net/poller/EpollPoller` | `events_`, `revents_`, `index_`; `channels_` by descriptor, the event list | `enable*/disable*`, `update`, `remove`, `handleEvent`, `poll` | called by connections, acceptor and timers; calls their callbacks |
| `net/EventLoopThread(Pool)`, `base/Thread`, `base/CountDownLatch` | `loop_`, `tid_`, latches, `loops_`, `next_` | `start`, `startLoop`, `getNextLoop`, destructors | two latches per thread carry the start-up handshake |
| `net/TcpConnection` | `state_`, output buffer, `file_`, the events of its channel | `send`, `sendFile`, `shutdown`, `handleRead/Write/Close`, `connectEstablished/Destroyed` | called by any thread; works in its IO loop; ends through `TcpServer` |
| `net/TcpServer` | `connMap_`, `nextConnId_` | `start`, `newConnection`, `removeConnection(InLoop)`, destructor | base loop and IO loops queue functors for each other |
| `net/Acceptor`, `Socket`, `SocketOps` | listening socket, `idlefd_` | `listen`, `handleRead` | the descriptor table of the process, shared with every connection |
| `net/TimerQueue`, `Timer`, `TimerId`, `base/MinHeap` | heap of `<expiration, Timer*>`, a timerfd | `addTimer`, `cancel`, `handleRead`, `reset` | callbacks add and cancel timers |
| `net/Buffer` | a vector and two indexes | `append`, `readFd`, `retrieve`, `makeSpace` | input and output of a connection |
| `base/ThreadPool`, `BlockingQueue`, `BoundedBlockingQueue`, `Condition`, `Mutex` | a deque, `running_`, two conditions | `run`, `take`, `start`, `stop`; `put`, `take`, `drain` | producers, workers and the owner |
| `net/http/*`, `net/File` | parser state and request in the context of the connection; a response with a file | `onMessage`, `parseRequest`, `reset`; `onRequest`, `sendFile`, `closeConnection` | segments of the stream; the write-complete callback of the connection |
| `base/JsonValue` | a tree of values | `fromString`, `fromFile`, `insert`, `get`, `serialize` | used by HTTP callbacks |
| `base/Any`, `Timestamp`, `Log`, ... | values | formatting, holding | - |

What is hard in it: the wakeup protocol of the loop; a connection's life, which
crosses two loops and ends in whichever thread drops the last pointer; the
kernel's reuse of descriptors while channels are registered by descriptor;
callbacks that call back (send inside a write-complete callback, add and cancel
timers inside a timer); state read in one thread and written in another
(`shutdown`, `stop`); partial writes and partial requests; the queue or
descriptor table at its limit; condition variables with one `notify` per
operation.  `PROJECT.json` lists these hazards with their lines.

The properties that make each part correct are the ones stated in the modules:
no lost wakeup and FIFO execution (EventLoop); the wire carries a prefix of what
was accepted, POLLOUT is watched exactly when needed, shutdown cuts nothing off
(TcpConnection); no assertion about a connection fails and no pointer dangles
across loops (TcpServer); no descriptor leaks (Acceptor); the timerfd follows the earliest
timer and every timer is owned once (TimerQueue); bytes in order in bounded
memory (Buffer); order and contents of the heap (MinHeap); somebody is awake
while there is work, everybody leaves after `stop` (ThreadPool); requests are
seen as sent however the stream is cut (HttpContext); responses are sent whole,
in order, and closed in the end (HttpServer); a loop is there when it is handed
out (EventLoopThreadPool); what is written is read back (JsonValue).

## Modules

A definition is named after the function it models.  Definitions with a suffix
after an underscore and a comment that starts with "Mutant" are plausible
mistakes in that function; they are not part of any specification and serve to
show that a property notices them.

* **FunctorQueue** - the abstract promise of `queueInLoop`: one FIFO queue, each
  functor once, and (Liveness) eventually.
* **EventLoop** - `net/EventLoop.cc` and the event list of `EpollPoller::poll`.
  The loop's thread has a program counter (`poll`, `events`, `functors`, user
  code in `channelCb`/`functorCb`); a foreign thread's `queueInLoop` is two
  steps, the push under the mutex and the write to the eventfd.  `quit()` is
  possible at any time.  **EventLoopProofs** holds its theorems.
* **TcpConnection** - one connection: IO thread, user callbacks (counted by
  `depth`), foreign threads that read `state_`, write it and queue in separate
  steps, the kernel's send buffer, the peer, and the part of TcpServer that ends
  the connection.  The IO loop is used through what FunctorQueue promises.  A
  message is a sequence of `<<message, position>>` bytes, so order, loss and
  stray bytes are visible.  A failing assertion or a use after free sets `fault`
  and stops the model.  **TcpConnectionProofs** holds its theorems.
* **EventLoopThreadPool** - a component without a specification of its own: the
  start-up handshake of the IO threads through the latches of `Thread` and
  `EventLoopThread`, `getNextLoop`, and the destructors.
* **TcpServer** - EventLoopThreadPool together with the server.  `start()` runs in
  the thread of the base loop or in another one and goes through the handshake
  before it listens.  Base loop 0 and IO loops 1..N each alternate between the
  channels of one poll and a batch of functors; `connMap_`, the `channels_` map
  of every poller, `index_` (which `updateChannel` and `removeChannel` assert),
  `addedToLoop_` (which `~Channel` asserts), descriptors reused by the kernel, and
  references:
  a functor that binds a `TcpConnectionPtr` keeps it until the local vector of
  `doPendingFunctors` goes out of scope (`EndBatch`), where the destructors run.
  `~TcpServer` without IO threads ends in `~Acceptor` with `fault = "acceptor"`,
  with IO threads in a `join` that never returns.
  **TcpServerProofs** holds its theorems and those about the handshake.
* **Acceptor** - the descriptor table, `idlefd_`, `handleRead` step by step, and
  `~Socket` in other threads between the steps.  Its names do not meet those of
  TcpServer: TcpServerProofs extends both and holds its theorem too.
* **TimerQueue** - timers by address, the heap as an ordered set (MinHeap has the
  detail), the timerfd, a clock that may advance at any moment, and user
  callbacks that add and cancel.  `InOrder` is the vector `getExpired` returns.
  `cancel` acts on whatever Timer is at the address of the id; the history keeps
  apart a timer somebody asked to cancel and one that was hit by the id of another.
  **TimerQueueProofs** holds its theorems.
* **MinHeap** - the heap down to the storage of its `std::vector`: `size_`,
  `data_.size()`, `data_.capacity()` and `capacity_` are separate, since `shrink`
  and `expand` use different ones.  An operation is its start (`Push`, `Pop`,
  `Remove`), the turns of its loop (`Climb`, `Sink`: the hole goes up or down)
  and its end (`PushEnds`, `RemoveEnds`: x goes into the hole, then `expand` or
  `shrink`), so that the heap can be reasoned about between two turns.
  TimerQueueProofs extends both modules and holds its theorems too.
* **Buffer** - the indexes and the cells, each cell with the number of the stream
  byte it holds.  **BufferProofs** holds its theorems.
* **ThreadPool** - owner, workers and producers; a region under `mutex_` is a
  step, `running_` is read and written outside of it where the code does so;
  `notify` wakes any waiter, waiters also wake spuriously; tasks may call `run`.
  **ThreadPoolProofs** holds its theorems.
* **BlockingQueue** - both queues, `capacity` 0 being the unbounded one.
  **BlockingQueueProofs** holds its theorems.
* **HttpContext** - a component: the parser over a stream of tokens (line, header,
  CR, LF, body byte), one step per turn of the loop in `parseRequest`.
* **HttpServer** - one connection of an HTTP server: a client that cuts the stream
  into segments anywhere, HttpContext, `onRequest` with every response a user can
  make (with a file that is there or missing, closing or not), and the chain of
  write-complete callbacks.  `sendFile` destroys the `FilePtr` it then passes on;
  what a read of it finds is left open.  The output path is that of TcpConnection: its
  operators `SendInLoop`, `SendFileInLoop`, `Shutdown` and `HandleWrite` are used
  through `INSTANCE ... WITH`, for a connection that no other thread knows.  The
  send buffer has a fixed size, of which the kernel may keep a part (`overhead`)
  for itself.  **HttpServerProofs** holds its theorems and those about the parser.
* **JsonValue** - parser, serializer, `insert` and `get` over texts that are
  sequences of tokens.  What the parser does on text it does not recognize (an
  endless loop or a failing assertion) is `fault = "stuck"`; what is left in
  fields of another type is kept.  A double is written with six decimals.  Strings
  and keys may begin with a blank or hold a quote, which `serialize` writes as it
  is; in the documents given to the parser it is escaped.  The
  operators are RECURSIVE, so there are no theorems about this module.

HttpServer composes HttpContext with the output path of TcpConnection;
TcpConnection composes the queue of the loop with the connection and the server;
TcpServer composes the pool, loops, pollers, connections and the server.

Parameters that the program sets before it starts and never changes
(`setThreadNum`, `setMaxQueueSize`, the capacity of a queue, whether a client
pipelines) are variables chosen by `Init`, so that one run covers several values.

## Runs

`tlc -config X.cfg Module` checks each of these; the longest take a minute or
two.  There is one run per component, under the fair specification, and one
that shows a finding.  The cfg files give the constants directly; no run needs
a module of its own.

| Run | Bounds | Shows |
| --- | --- | --- |
| EventLoop | 2 foreign threads, 3 functors, 1 channel, event list of 1 | NoLostWakeup; refinement of FunctorQueue (QueueIsFIFO); its liveness given the poll timeout (QueueIsFair); service of foreign functors without it (PromptService) |
| TcpConnection | 1 foreign thread, 2 sends out of 2 messages of 3 bytes and 2 files of 2 (`MaxSends`), send buffer of 2 | the wire carries a prefix (WirePrefix); POLLOUT exactly when needed; a half-close cuts nothing off; a connection confined to its thread ends in order; buffered output drains |
| TcpServer | 0, 1 or 2 IO threads, 3 connections, 2 descriptors | `start` returns with loops that are there; no dangling pointer, no failing assertion about a connection (ConnAssertionsHold), closed connections are freed |
| TimerQueue | 3 timers at 2 addresses, delays 0 and 2, one-shot or interval 1, clock up to 2 | the timerfd is armed, timers are owned once, run legally and fire |
| ThreadPool | 2 workers, 1 producer, 5 tasks that may call `run`, queue of 1 or unbounded | a worker is awake, in neither condition, while tasks wait, unless all are stuck in `run` on a full queue (SomebodyAwake); order, `stop` and `run` terminate, tasks are taken |
| MinHeapOrder | 6 keys, initial size 2 | order and contents while nothing was left behind |
| MinHeapExpand | 4 keys, initial size 2 | violated: the assertion `assertOrder`, see Findings |
| BufferStream | 9 bytes, vector of 4, stack buffer of 2 | order of bytes, bounded memory |
| BlockingQueue | 3 putters, 3 takers, 4 items, capacity 0, 1 or 2 | one notify per operation is enough; order; delivery |
| Acceptor | 3 descriptors, 6 clients | no leak, and the first EMFILE is harmless (DescriptorsAreOwned); everybody is served |
| HttpServer | up to 2 requests of 4 kinds, body of 2, pipelined or not; responses of 2 bytes with or without a file of 2, send buffer of 3 of which the kernel keeps none or 2 | requests are faithful; complete requests are answered; responses are whole and in order; the half-close comes last, and comes |
| JsonValue | 2 calls, 2 plain keys, one that begins with a blank and one with a quote in it, containers of up to 2 elements, nested once | RoundTrip; LoadedIsExact; InsertIsLocal |

A type invariant is checked where the proofs rest on it: EventLoop and Buffer.

The bounds are chosen so that the interesting cases occur: more functors than
one batch, more ready channels than event-list entries, messages longer than the
send buffer (so that a second send meets the rest of the first), a second file
while the first is pending, more connections than descriptors (so that numbers
are reused), more timers than addresses, enough tasks to block every worker
inside `run` on a full queue, a heap that grows twice and shrinks, a stream
longer than the vector, a send buffer that takes a response at once, with its
file, or only in pieces, and a JSON value that is filled over another one.  Two
requests on a connection are enough for one to meet what another left behind in
the context, the buffer and the callback; a third takes more than five minutes.

## Findings and known deviations

`MinHeapExpand` is the finding that a run keeps: `expand` compares `size_` with
`data_.capacity()` although `shrink` has reduced `data_.size()`; when the vector
reallocates, only `data_.size()` entries move.  After that the assertion of
`assertOrder` (`MinHeap.h:149-158`), which TimerQueue calls, fails.

Modelling showed more places where the code departs from what a comment, an
assertion, a test or the repository's README says.  The models contain all of
them; the properties are stated beside these facts, not around them.  Each can be
seen by adding the formula to the run of its module.

| Module | The code | Formula that TLC refutes |
| --- | --- | --- |
| EventLoop | `loop()` is `while(1)` and nothing reads `quit_` (`EventLoop.cc:95`); `TimerQueue_unittest.cc:28,98` expects `quit()` to end it | `quit /\ looping ~> ~looping` |
| TcpConnection | `-1` from `write` in a `size_t` (`TcpConnection.cc:202`): one byte from in front of the message is queued; README.md:54 says the rest is sent later | `IsPrefix(wire, stream)` |
| TcpConnection | POLLOUT is dispatched after handleRead closed the connection (`Channel.cc:70`); `handleWrite` asserts `isWriting()` | `fault # "handleWrite"` |
| TcpConnection | `shutdown()` of another thread overwrites `kDisConnected` (`TcpConnection.cc:414`); the destructor asserts it | `fault # "dtor"` |
| TcpConnection | `~TcpServer` removes the channel of a connection in `kDisConnecting` with its events set (`TcpConnection.cc:66`); `EpollPoller.cc:102` asserts there are none | `fault # "remove"` |
| TcpConnection | queued functors hold a raw `this` (`TcpConnection.cc:170`, FIXME at 415) | `fault # "uaf"` |
| TcpConnection | the write-complete callback runs inside `send`, which the comment at `TcpConnection.cc:206` wants to avoid | `depth <= 1` |
| TcpConnection | a `shutdown` that waits for output is never completed (`TcpConnection.cc:423`); `EchoServer_unittest.cc:56-57` relies on it | `state = "kDisConnecting" ~> wrShut \/ Over` |
| TcpConnection | `handleWrite` calls `sendfile` with its descriptors exchanged (`TcpConnection.cc:103`): the rest of a file is never sent | `file # {} ~> file = {} \/ Over` |
| TimerQueue | `cancel` of a timer that is gone touches a deleted object (`TimerQueue.cc:165`); `TimerQueue_unittest.cc:83-85` does it | `fault # "uaf"` |
| TimerQueue | `cancel` with the id of a timer that is gone cancels another one that was created at its address (`TimerQueue.cc:165`) | `\A i \in Indexes : hist[i].cancelled # "stray"` |
| ThreadPool | `take` does not notify `notFull_` (`ThreadPool.cc:88`); README.md:137 has the call | `\A p \in Producers : p \in notFull /\ ~IsFull ~> p \notin notFull` |
| Acceptor | `idlefd_` is not opened again (`Acceptor.cc:54`); at the next EMFILE its number may belong to a connection, which loses its socket | `\A c \in Connected : table[sock[c]] = c` |
| TcpServer | `~EventLoopThread` joins a thread whose loop never ends (`EventLoopThread.cc:18`, `EventLoop.cc:95`) | `base = "join" ~> base = "destroyed"` |
| TcpServer | `~Acceptor` neither disables nor removes `acceptChannel_` (`Acceptor.cc:22-24`), so that after `listen()` its `~Channel` fails at `assert(!addedToLoop_)` and `assert(!loop_->hasChannel(this))` (`Channel.cc:27, 30`) | `fault # "acceptor"` |
| HttpServer | a body that is not complete yet is an error (`HttpContext.cc:74`); README.md:197 says the state is kept | `~pipelining /\ ~last.close /\ (\A k \in DOMAIN kinds : kinds[k] \in {"get", "post"}) => connState # "kDisConnecting"` |
| HttpServer | `swap` leaves `body_` behind (`HttpRequest.h:68-74`): a GET has the body of the last POST | `\A i \in DOMAIN called : kinds[i] = "get" => called[i].body = <<>>` |
| HttpServer | a pipelined request is parsed only when more bytes come (`HttpServer.cc:35`) | CompleteIsAnswered without `~pipelining` |
| HttpServer | a pipelined request replaces the callback of a response that is still being sent (`HttpServer.cc:53`): files are mixed up or lost | `~writeFailed /\ fault = "none" => IsPrefix(wire, owed)` |
| HttpServer | after a file that could not be opened `sendFileInLoop` returns without a callback (`TcpConnection.cc:243`): the half-close never comes | CloseIsDone without `last.file # "missing"` |
| HttpServer | `sendFile` replaces the `std::function` that is running, and with it the `FilePtr` that its parameter refers to (`HttpServer.cc:72, 74`); `conn->sendFile(file)` then reads freed memory (`HttpServer.cc:75`, `TcpConnection.cc:231, 243, 271`), inside `onRequest` as well as from `handleWrite` | `fault # "uaf"` |
| JsonValue | `insert` of a key that is missing clears the elements (`JsonValue.h:440`), so that a second key drops the first; `HttpServer_test.cc:132-133` inserts two | InsertIsLocal without `Get(json, path) # <<>>` |
| JsonValue | `null` is recognized but not passed (`JsonValue.h:174`), and a container that holds it is never left | `fault = "none"` |
| JsonValue | `parseString` skips what follows the quote, `char` being signed also bytes beyond ASCII (`JsonValue.h:68, 114`); a negative number is not read (`JsonValue.h:161`) | RoundTrip without `Readable` |
| JsonValue | a quote in a string or key is written without an escape (`JsonValue.h:328, 363`), and the parser ends at the first quote, escaped or not (`JsonValue.h:115`); a key that begins with a blank loses it (`JsonValue.h:114`) | RoundTrip without `Plain` |
| JsonValue | `istream_iterator<char>` drops the blanks in strings (`JsonValue.h:311`) | LoadedIsExact without `" " \notin ...` |

Outside the models: `serilizeImpl` of an empty container reads an element that is
not there (`JsonValue.h:327`); the copy operations of JsonValue do nothing
(`JsonValue.h:219-225`), and an `insert` with an integer key does not compile.

Accordingly WirePrefix excludes behaviours in which a write failed, OrderKept and
ContentsKept those in which `expand` lost entries (`lost` is set in exactly that
step), the second half of DescriptorsAreOwned stops at the second EMFILE,
ConfinedIsSafe speaks of connections that no other thread holds and of a server
that is alive, ConnAssertionsHold of the channels of connections and not of
`acceptChannel_`, ClosedIsFreed of a server that is not being destroyed,
SomebodyAwake and TasksAreTaken let every worker be stuck in `run` on the full
queue, TimersFire lets a timer be hit by the `TimerId` of another and ends with the
program, CompleteIsAnswered is about requests without a body, ResponsesAreWhole
and CloseIsDone end where a read of a destroyed `FilePtr` goes wrong, RoundTrip and
LoadedIsExact name the values that are not read back, and StartReturns ends where
`pthread_create` has failed.

`CHECK_DEADLOCK FALSE` is set where the program may rightly stop: all messages
sent and the connection freed, all tasks done, all clients served, all calls
made (or a failed assertion), and for TcpServer where it waits for ever, for a
thread that could not be created or in `join`, or ends at the assertion in
`~Acceptor`.  EventLoop and Buffer never stop
and are checked for deadlock.

## Fairness

* Threads that can take a step take one (weak fairness of a thread's steps);
  user callbacks and tasks return.
* `epoll_wait` returns when the eventfd is readable (`WF_vars(PollReturns({}))`);
  user channels need never become ready.  The 10 s timeout of `poll` is not part
  of the specification's fairness: it is the premise of QueueIsFair alone.
* TcpConnection: strong fairness of `DoPendingFunctors`, because every iteration
  of the loop calls it however many events there are; the peer acknowledges what
  it received.
* TcpServer: the thread in `start()` goes on, and every thread of the pool from
  its creation; nobody has to call `start` or to destroy the server.
* HttpServer: the IO thread does not stop inside a handler, POLLOUT is reported
  until it is handled, and the client takes what it is sent.
* The clock runs (TimerQueue), takers keep calling `take` (BlockingQueue),
  connections end (Acceptor).
* Nobody has to call `send`, `run`, `put`, `stop`, `quit` or to connect, and no
  waiter may count on a spurious wakeup.

## Proofs

**EventLoopProofs**, for any sets of threads, functors and channels and any size
of the event list:

* `TypeCorrect`: `Spec => []TypeOK`.  TypeOK is inductive by itself; it contains
  the two facts that tie the vectors to the program counter.
* `NoWakeupIsLost`: `Spec => []NoLostWakeup`.  NoLostWakeup speaks of the moment
  of `poll` only and is not inductive.  The strengthening says that whenever a
  functor of another thread is in `pendingFunctors_` then the eventfd is not
  zero, or its producer has not written yet, or the loop is in a phase from
  which it reaches the swap before it polls again.
* `EventLoopIsFIFO`: `Spec => FQ!Spec`, the refinement with
  `queue <- functors \o pendingFunctors`.  Needed for it: a functor is in the
  queue or in `ran` only if `queuedBy` is set, so `Push` is an `Enqueue` of a new
  one; the swap in `doPendingFunctors` leaves the concatenation as it was because
  `functors` is empty at that point.

**BufferProofs**, for every `CheapPrepend <= InitSize`, every size of the stack
buffer and of the appends:

* `IndexesInOrder` (`TypeOK`), `BufferIsFIFO` (`BytesInOrder`),
  `MemoryIsBounded` (`BoundedMemory`).  One inductive invariant conjoins the
  three with the fact that `peak` is at least what is readable now; lemmas state
  what `Resize`, `Compact`, `MakeSpace`, `EnsureWritableBytes`, `Store` and
  `AppendTo` do to a well-formed buffer, and the actions follow from them.

**TcpServerProofs**, for any finite set of thread numbers, any number of
connections and of descriptors:

* `PublishedLoops` (`LoopsAreReady`).  The invariant of the handshake, `PoolInv`,
  ties each latch to the place its thread has reached and to the field it
  publishes, and the starter's place to the threads that are not born yet.
  LoopsAreReady alone does not say why `loop_` is set when the latch opens.
* `RawPointersAreValid` (`NoDanglingPointer`) and `ConnAssertionsNeverFail`
  (`ConnAssertionsHold`).  Both need the whole life of a connection.  `StageInv` says
  that every accepted connection is in one of four stages (accepted, established,
  closed, destroyed) and what each means for its channel, the poller's map, its
  descriptor, `connMap_` and the one functor that is on its way to it; `QueueInv`
  says that the functors in the queues and batches are those the stages ask for,
  each at most once; `RefInv` that whatever is on its way keeps a reference.
  That `fault` is `"none"`, or `"acceptor"` once the server is destroyed, then
  follows in each step, and with it the assertions about connections.

**TcpConnectionProofs**, for any messages and files, their lengths, the size of
the send buffer and any set of foreign threads:

* `PeerReceivesAPrefix` (`WirePrefix`), `OutputIsWatched` (`WritingIffPending`),
  `ShutdownCutsNothingOff` (`HalfCloseIsClean`).  One inductive invariant,
  `ConnInv`.  A prefix is not preserved by a write: `Accounted` says where the
  rest is, `stream = wire \o outputBuffer`, until a file waits, after which
  nothing goes to the wire.  A direct write must find no file, so Pending, which
  is WritingIffPending without the state, is needed for it.  `Establishing` and
  `Ending` say that `connectEstablished` is the first functor and the only one of
  its kind, that a closed or removed connection is not `kConnected` again, and
  that a `shutdownInLoop` on its way means that the state has left `kConnected`;
  they are why nothing is added to the buffer after the half-close.  A lemma per
  operation (`SendInLoop`, `SendFileInLoop`, `HandleWrite`) says what it does to
  buffer, wire and interest, wherever it is called from.
* `ConfinedConnectionIsSafe` (`ConfinedIsSafe`).  `Confined` lists the phases of a
  connection that no other thread knows, with the functors and events that can be
  pending in each; every step of the IO thread, of the base loop and of the peer
  leads from a phase to a phase, or to one of the two faults that remain.

**TimerQueueProofs**, for any addresses, delays, intervals and times:

* `TimerfdIsArmed` (`TimerfdArmed`), with the types and that the least expiration
  of a heap is that of one of its entries.
* `TimersAreOwnedOnce` (`TimersOwned`).  `OwnedInv` states ownership without
  counting, for the heap and the vector of handleRead together, and the counts
  follow from it.
* `TimersRunLegally` (`RunsAreLegal`), an action property.  `HistoryInv` ties the
  history of an index to the one object that carries it, although addresses are
  used again and a cancel may mark the wrong one; `OnceInv` says that a one-shot timer which still waits has not run,
  and that the vector names no timer twice.
* `TimersStayOrdered` (`OrderKept`) and `TimersStayInHeap` (`ContentsKept`), about
  MinHeap for any keys and initial size.  Inside an operation the order has a
  hole: `HeapOrder` says that it holds around the hole and across it (the children
  of the hole are above its parent), that x is below the children of a hole that
  climbs and above the parent of one that sinks; `Lists` says that the elements,
  with x where the hole is, are the keys of the heap, each once.  A turn exchanges
  two of them (`Exchanged`), an operation adds or takes one (`OneMore`, `OneLess`).
  `Room` bounds every index by the capacity of the vector.  `remove` at the last
  index and `pop` of one element are cases of their own.  Both theorems are about
  heaps of which `expand` left nothing behind; that the next `push` has room is
  proved without that proviso.

**ThreadPoolProofs**, for any finite set of workers, any producers, tasks and
bounds:

* `TasksAreTakenInOrder` (`TakenInOrder`).
* `SomeWorkerIsAwake` (`SomebodyAwake`).  The property is not inductive: a worker
  may fall asleep in `run` while another sleeps in `take`.  `PlacesInv` says where
  a thread is when it waits, and that all workers are there while the pool runs;
  `CountInv` that, as long as somebody waits for a task, at least as many workers
  are on their way to the queue as there are tasks in it; `SleepInv` that when all
  sleep, one waits for a task or the queue is full.  A queue with tasks and every
  worker asleep then leaves only the full queue with all of them in `run`.

**BlockingQueueProofs**, for any threads, items and capacities:
`BlockingQueueIsFIFO` (`FIFO`) and `NotifyOneSuffices` (`WakeupsSuffice`).  The
latter counts threads, so the invariant says that finitely many are inside a
call, however many exist, and that nobody waits for room in an unbounded queue.

**TcpServerProofs** again, about Acceptor, for every limit of descriptors and any
number of clients: `NoDescriptorLeaks`
(`DescriptorsAreOwned`), from what `idlefd_` is at each place of handleRead and
that a client goes from the backlog to one owner, once.

**HttpServerProofs**, for any number of requests of the four kinds, any lengths of
bodies, heads and files, any send buffer, and every way of cutting the stream:

* `CallbackSeesRequests` (`RequestsAreFaithful`).  The property speaks of what was
  parsed, the invariant `ParseInv` of where the parser is: its state, the number
  of calls so far and what `request` holds say which position of the stream it has
  reached (`Place`), and the buffer is exactly what was sent beyond it.  That the
  next line, blank line or body stands at this position follows from lemmas on
  the stream: a request lies between two ends, and CRLF is found where its first
  line ends or, in an incomplete segment, not at all.  The stream is a
  `FlattenSeq`, a fold over a sequence of any length; `SetInduction`, an
  induction over a *set* of numbers, gives its parts (`FlattenByParts`).
* `ResponsesLeaveWhole` (`ResponsesAreWhole`).  A prefix is not preserved by a
  write; `OpenInv` lists the phases of a response (nothing left, a part of the head
  buffered, written with its callback due, callback running, a part of the file
  left) and says for each that what is owed is the wire followed by the buffer and
  by what the callback will send.  It also needs that a request is being parsed
  only in the first phase, with no callback set, which is why the next response
  does not replace the callback of one that is under way.  The lemmas `SendStep`,
  `FileStep`, `WriteStep` and `ShutdownStep` say what the operations of
  TcpConnection do here.

The assumptions are the named `ASSUME`s of the modules, which TLC evaluates in
every run: sizes are natural numbers (positive where zero would mean an empty
message, send buffer or event list), the kinds of threads are disjoint, a pool has
finitely many workers, a value that stands for "none" is
not one of the others, and the names of messages and files differ.  The bounds
(`MaxSends`, `MaxTimers`, `MaxConns`, `MaxClients`, `MaxBytes`) are arbitrary
natural numbers in the theorems.

Only model-checked:

* everything temporal under fairness (QueueIsFair, PromptService, OutputDrains,
  StartReturns, ClosedIsFreed, TimersFire, StopTerminates, TasksAreTaken,
  ItemsAreDelivered, ClientsAreServed, CompleteIsAnswered, CloseIsDone), which
  TLAPS does not reason about;
* JsonValue, whose operators are RECURSIVE: what they compute needs induction
  over data.  That the loops of MinHeap end is not stated.

## Not modelled

* Data races with no defined outcome: `addTimer` and `send(Buffer*)` from a
  thread other than the loop's.  The model keeps them in the loop's thread.
* The caller's memory behind `send(const void*, size_t)`.
* JsonValue: moving, the conversions to C++ types, numbers that do not fit.
* HTTP: the text of a response; connections that are reset by the peer (those are
  in TcpConnection); a POST without or with a non-numeric content-length; versions, queries.
* `Condition::waitForSeconds` (no caller), socket options, addresses, logging,
  names, timestamps as text, `Any`.
* A wall clock that is set while timers run.

## Plan

1. Done: EventLoop with FunctorQueue and the proofs; TcpConnection; TcpServer on
   the threads of EventLoopThreadPool; TimerQueue, MinHeap, Buffer with proofs,
   ThreadPool, BlockingQueue, Acceptor, HttpServer with HttpContext over the
   output path of TcpConnection, JsonValue.
2. Done: theorems for every safety property of EventLoop, Buffer, TcpServer with
   EventLoopThreadPool, TcpConnection, TimerQueue, ThreadPool, BlockingQueue,
   Acceptor, MinHeap and HttpServer with HttpContext.
3. Open: JsonValue, see above.
