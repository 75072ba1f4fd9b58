------------------------ MODULE EventLoopThreadPool -------------------------
(* muduo/net/EventLoopThreadPool.cc, EventLoopThread.cc, base/Thread.cc and *)
(* base/CountDownLatch.cc: the thread that calls start() creates the IO     *)
(* threads one after the other and goes on only when the loop of each is    *)
(* there.  Two latches per thread carry the handshake: the one of Thread    *)
(* publishes tid_, the one of EventLoopThread publishes loop_, a pointer to *)
(* an object on the stack of the new thread.  The destructors of the pool   *)
(* wait for the latch, call quit() through that pointer, and join.          *)
EXTENDS Integers, Sequences

VARIABLES
    numThreads,     \* numThreads_
    base,           \* where the thread that starts and destroys the pool is
    cur,            \* the EventLoopThread it is starting or destroying
    waiting,        \* it is inside cond_.wait() of a latch
    pc,             \* where an IO thread is
    tid,            \* tid_ was stored
    loop,           \* loop_ was stored
    tidLatch,       \* count_ of the latch of Thread
    loopLatch,      \* count_ of the latch of EventLoopThread
    loops,          \* loops_: whether the pointer pushed was valid
    next,           \* next_
    quit,           \* quit_ of the loop of a thread
    fault           \* the assertion that failed; "none" while running

Threads == 1..numThreads

starterVars == <<numThreads, base, cur, loops, next>>
latchVars == <<tid, loop, tidLatch, loopLatch>>
threadVars == <<pc, latchVars, quit>>
poolVars == <<starterVars, waiting, threadVars>>

Running == fault = "none"

\* setThreadNum(n) is called before start() and never again.
PoolInit(n) ==
    /\ numThreads = n
    /\ base = "idle" /\ cur = 1 /\ waiting = FALSE
    /\ pc = [t \in 1..n |-> "unborn"]
    /\ tid = [t \in 1..n |-> FALSE]
    /\ loop = [t \in 1..n |-> FALSE]
    /\ tidLatch = [t \in 1..n |-> 1]
    /\ loopLatch = [t \in 1..n |-> 1]
    /\ loops = <<>> /\ next = 1
    /\ quit = [t \in 1..n |-> FALSE]
    /\ fault = "none"

-----------------------------------------------------------------------------
(* CountDownLatch.                                                          *)

\* Mutant: nobody is notified.
Woken_Nobody(count, mine) == waiting

\* countDown notifies all when the count reaches 0; mine: the base thread waits here.
Woken(count, mine) == waiting /\ ~(count = 0 /\ mine)

\* The base thread is at the wait of the latch of Thread, or of EventLoopThread.
AtTidLatch(t) == base = "tidLatch" /\ cur = t
AtLoopLatch(t) == base \in {"loopLatch", "dtor"} /\ cur = t

\* wait(): the loop around cond_.wait() goes to sleep while the count is not 0.
Sleep(count) ==
    /\ count > 0 /\ ~waiting
    /\ waiting' = TRUE
    /\ UNCHANGED <<starterVars, threadVars, fault>>

\* pthread_cond_wait may return for no reason.
SpuriousWakeup ==
    /\ waiting
    /\ waiting' = FALSE
    /\ UNCHANGED <<starterVars, threadVars, fault>>

-----------------------------------------------------------------------------
(* The thread that calls EventLoopThreadPool::start.                        *)
StartPool ==
    /\ base = "idle"
    /\ base' = IF numThreads = 0 THEN "started" ELSE "create"
    /\ UNCHANGED <<numThreads, cur, loops, next, waiting, threadVars, fault>>

\* Thread::start: pthread_create succeeds.
Create ==
    /\ base = "create"
    /\ pc' = [pc EXCEPT ![cur] = "tid"]
    /\ base' = "tidLatch"
    /\ UNCHANGED <<numThreads, cur, loops, next, waiting, latchVars, quit, fault>>

\* Thread::start: pthread_create fails, and start() returns all the same.
CreateFails ==
    /\ base = "create"
    /\ base' = "loopLatch"
    /\ UNCHANGED <<numThreads, cur, loops, next, waiting, threadVars, fault>>

\* Thread::start: latch_.wait() returns; assert(tid_>0).
TidKnown ==
    /\ base = "tidLatch" /\ ~waiting /\ tidLatch[cur] = 0
    /\ base' = "loopLatch"
    /\ fault' = IF tid[cur] THEN "none" ELSE "tid"
    /\ UNCHANGED <<numThreads, cur, loops, next, waiting, threadVars>>

\* startLoop returns loop_, which goes to loops_; then the next thread.
StartLoopReturns ==
    /\ base = "loopLatch" /\ ~waiting /\ loopLatch[cur] = 0
    /\ loops' = Append(loops, loop[cur])
    /\ IF cur < numThreads THEN base' = "create" /\ cur' = cur + 1
                           ELSE base' = "started" /\ cur' = cur
    /\ UNCHANGED <<numThreads, next, waiting, threadVars, fault>>

(* ~EventLoopThreadPool: the threads are destroyed one by one.              *)
DestroyPool ==
    /\ base' = IF numThreads = 0 THEN "destroyed" ELSE "dtor"
    /\ cur' = 1
    /\ UNCHANGED <<numThreads, loops, next, waiting, threadVars>>

\* ~EventLoopThread: after the wait, quit() through loop_, then join().
QuitLoop ==
    /\ base = "dtor" /\ ~waiting /\ loopLatch[cur] = 0
    /\ quit' = [quit EXCEPT ![cur] = TRUE]
    /\ base' = "join"
    /\ UNCHANGED <<numThreads, cur, loops, next, waiting, pc, latchVars, fault>>

Wait ==
    \/ base = "tidLatch" /\ Sleep(tidLatch[cur])
    \/ base \in {"loopLatch", "dtor"} /\ Sleep(loopLatch[cur])

StarterStep ==
    Create \/ CreateFails \/ Wait \/ TidKnown \/ StartLoopReturns \/ QuitLoop

\* getNextLoop: the base loop (0) when the pool is empty.
NextLoop == IF loops = <<>> THEN 0 ELSE next

\* getNextLoop: next_ wraps at the end of loops_.
NextCursor ==
    CASE loops = <<>> -> next
      [] next >= Len(loops) -> 1
      [] OTHER -> next + 1

-----------------------------------------------------------------------------
(* An IO thread.                                                            *)

\* ThreadData::runInThread: *tid_ = tid.
StoreTid(t) ==
    /\ pc[t] = "tid"
    /\ tid' = [tid EXCEPT ![t] = TRUE]
    /\ pc' = [pc EXCEPT ![t] = "tidDown"]
    /\ UNCHANGED <<starterVars, waiting, loop, tidLatch, loopLatch, quit, fault>>

\* runInThread: latch_->countDown(), then func_() is EventLoopThread::loop.
TidCountDown(t) ==
    /\ pc[t] = "tidDown"
    /\ tidLatch' = [tidLatch EXCEPT ![t] = @ - 1]
    /\ waiting' = Woken(tidLatch'[t], AtTidLatch(t))
    /\ pc' = [pc EXCEPT ![t] = "construct"]
    /\ UNCHANGED <<starterVars, tid, loop, loopLatch, quit, fault>>

\* Mutant: the pointer goes to a local variable that hides loop_.
StoreLoop_Hidden(t) ==
    /\ pc[t] = "construct"
    /\ pc' = [pc EXCEPT ![t] = "loopDown"]
    /\ UNCHANGED <<starterVars, waiting, latchVars, quit, fault>>

\* EventLoopThread::loop: EventLoop loop; loop_=&loop.
StoreLoop(t) ==
    /\ pc[t] = "construct"
    /\ loop' = [loop EXCEPT ![t] = TRUE]
    /\ pc' = [pc EXCEPT ![t] = "loopDown"]
    /\ UNCHANGED <<starterVars, waiting, tid, tidLatch, loopLatch, quit, fault>>

\* EventLoopThread::loop: latch_.countDown().
LoopCountDown(t) ==
    /\ pc[t] = "loopDown"
    /\ loopLatch' = [loopLatch EXCEPT ![t] = @ - 1]
    /\ waiting' = Woken(loopLatch'[t], AtLoopLatch(t))
    /\ pc' = [pc EXCEPT ![t] = "enter"]
    /\ UNCHANGED <<starterVars, tid, loop, tidLatch, quit, fault>>

\* EventLoop::loop: quit_=false, then while(1), which never ends.
EnterLoop(t) ==
    /\ pc[t] = "enter"
    /\ quit' = [quit EXCEPT ![t] = FALSE]
    /\ pc' = [pc EXCEPT ![t] = "looping"]
    /\ UNCHANGED <<starterVars, waiting, latchVars, fault>>

ThreadStep(t) ==
    \/ StoreTid(t) \/ TidCountDown(t) \/ StoreLoop(t) \/ LoopCountDown(t)
    \/ EnterLoop(t)
=============================================================================
