----------------------------- MODULE ThreadPool -----------------------------
(* muduo/base/ThreadPool.cc: workers that take tasks from a queue, threads  *)
(* that call run() and may block on a bounded queue, and the owner that     *)
(* calls start() and stop().                                                *)
(*                                                                          *)
(* A region between locking mutex_ and unlocking it, or waiting on a        *)
(* condition, is one step; running_ is also read and written outside the    *)
(* mutex, in steps of their own.  Condition::notify wakes any one waiter,   *)
(* and a waiter may also wake without a reason, as POSIX allows.  A task    *)
(* may itself call run().                                                   *)
EXTENDS Integers, Sequences, FiniteSets, Functions

CONSTANTS
    Workers,        \* threads_
    Producers,      \* other threads that call run()
    Tasks,          \* identities of tasks; each is submitted at most once
    QueueSizes,     \* the arguments of setMaxQueueSize, 0 for no bound
    NoTask

ASSUME PoolAssumption ==
    /\ Workers # {} /\ IsFiniteSet(Workers) /\ Workers \cap Producers = {}
    /\ NoTask \notin Tasks
    /\ QueueSizes \subseteq Nat

Threads == Workers \cup Producers

VARIABLES
    maxQueueSize,   \* maxQueueSize_, set before start()
    owner,          \* the owner: "start", "open", "stop", "join", "stopped"
    running,        \* running_
    queue,          \* queue_
    pc,             \* where a thread is
    submits,        \* the task a thread is passing to run()
    notEmpty,       \* threads waiting on notEmpty_
    notFull,        \* threads waiting on notFull_
    fresh,          \* tasks nobody has submitted yet
    taken,          \* history: tasks in the order take() returned them
    accepted        \* history: tasks in the order run() queued them

ownerVars == <<maxQueueSize, owner, running>>
taskVars == <<queue, taken, accepted>>
callVars == <<pc, submits>>
condVars == <<notEmpty, notFull, fresh>>
vars == <<ownerVars, taskVars, callVars, condVars>>

(* A worker: "unborn" before start() creates it, "loop" at the test of      *)
(* running_, "take" in take(), "task" in a task, "exited" at the end.       *)
(* A producer: "idle".  Either: "run" inside run().                         *)

Init ==
    /\ maxQueueSize \in QueueSizes
    /\ owner = "start" /\ running = TRUE /\ queue = <<>>
    /\ pc = [t \in Threads |-> IF t \in Workers THEN "unborn" ELSE "idle"]
    /\ submits = [t \in Threads |-> NoTask]
    /\ notEmpty = {} /\ notFull = {}
    /\ fresh = Tasks /\ taken = <<>> /\ accepted = <<>>

Waiting == notEmpty \cup notFull

\* Condition::notify and notifyAll on the waiters of one condition.
Notify(waiters) == IF waiters = {} THEN {{}} ELSE {waiters \ {t} : t \in waiters}
NotifyAll(waiters) == {{}}

-----------------------------------------------------------------------------
(* The owner.                                                               *)

\* start(): the threads are created one after the other and run at once.
StartThread(w) ==
    /\ owner = "start"
    /\ pc[w] = "unborn"
    /\ pc' = [pc EXCEPT ![w] = "loop"]
    /\ owner' = IF \A v \in Workers \ {w} : pc[v] # "unborn" THEN "open" ELSE "start"
    /\ UNCHANGED <<maxQueueSize, running, taskVars, submits, condVars>>

\* stop(): running_ is stored before the mutex is taken.
StopRunning ==
    /\ owner = "open"
    /\ owner' = "stop"
    /\ running' = FALSE
    /\ UNCHANGED <<maxQueueSize, taskVars, callVars, condVars>>

\* Mutant: only the workers are woken.
StopNotify_NotEmptyOnly ==
    /\ owner = "stop"
    /\ owner' = "join"
    /\ notEmpty' \in NotifyAll(notEmpty)
    /\ UNCHANGED <<maxQueueSize, running, taskVars, callVars, notFull, fresh>>

\* stop(): both conditions, under the mutex.
StopNotify ==
    /\ owner = "stop"
    /\ owner' = "join"
    /\ notEmpty' \in NotifyAll(notEmpty)
    /\ notFull' \in NotifyAll(notFull)
    /\ UNCHANGED <<maxQueueSize, running, taskVars, callVars, fresh>>

\* stop(): join of every thread.
StopJoin ==
    /\ owner = "join"
    /\ \A w \in Workers : pc[w] = "exited"
    /\ owner' = "stopped"
    /\ UNCHANGED <<maxQueueSize, running, taskVars, callVars, condVars>>

-----------------------------------------------------------------------------
(* run().                                                                   *)

\* The next task to submit: which one it is makes no difference.
Fresh == IF fresh = {} THEN {} ELSE {CHOOSE f \in fresh : TRUE}

\* A producer calls run(), or a task does in its worker.
CallRun(t, f) ==
    /\ owner # "start"
    /\ \/ t \in Producers /\ pc[t] = "idle"
       \/ t \in Workers /\ pc[t] = "task"
    /\ f \in Fresh
    /\ fresh' = fresh \ {f}
    /\ submits' = [submits EXCEPT ![t] = f]
    /\ pc' = [pc EXCEPT ![t] = "run"]
    /\ UNCHANGED <<ownerVars, taskVars, notEmpty, notFull>>

\* run() on a pool that has no threads: the caller executes the task itself.
RunInline(p, f) ==
    /\ owner = "start" /\ \A w \in Workers : pc[w] = "unborn"
    /\ f \in Fresh
    /\ fresh' = fresh \ {f}
    /\ UNCHANGED <<ownerVars, taskVars, callVars, notEmpty, notFull>>

IsFull == maxQueueSize > 0 /\ Len(queue) >= maxQueueSize

\* Where run() returns to.
Returns(t) ==
    /\ pc' = [pc EXCEPT ![t] = IF t \in Workers THEN "task" ELSE "idle"]
    /\ submits' = [submits EXCEPT ![t] = NoTask]

\* run(): the queue is full, wait.
RunWait(t) ==
    /\ pc[t] = "run" /\ t \notin Waiting
    /\ IsFull /\ running
    /\ notFull' = notFull \cup {t}
    /\ UNCHANGED <<ownerVars, taskVars, callVars, notEmpty, fresh>>

\* run(): the pool was stopped, the task is dropped.
RunRefused(t) ==
    /\ pc[t] = "run" /\ t \notin Waiting
    /\ ~running
    /\ Returns(t)
    /\ UNCHANGED <<ownerVars, taskVars, condVars>>

\* Mutant: a push notifies nobody.
PushNotify_Missing == {notEmpty}

\* run(): every push notifies one waiter.
PushNotify == Notify(notEmpty)

\* run(): push and notify.
RunPush(t) ==
    /\ pc[t] = "run" /\ t \notin Waiting
    /\ running /\ ~IsFull
    /\ queue' = Append(queue, submits[t])
    /\ accepted' = Append(accepted, submits[t])
    /\ notEmpty' \in PushNotify
    /\ Returns(t)
    /\ UNCHANGED <<ownerVars, notFull, fresh, taken>>

-----------------------------------------------------------------------------
(* runInThread() and take().                                                *)

\* The test of running_, without the mutex.
Loop(w) ==
    /\ pc[w] = "loop"
    /\ pc' = [pc EXCEPT ![w] = IF running THEN "take" ELSE "exited"]
    /\ UNCHANGED <<ownerVars, taskVars, submits, condVars>>

\* take(): nothing to do, wait.
TakeWait(w) ==
    /\ pc[w] = "take" /\ w \notin Waiting
    /\ queue = <<>> /\ running
    /\ notEmpty' = notEmpty \cup {w}
    /\ UNCHANGED <<ownerVars, taskVars, callVars, notFull, fresh>>

\* Mutant: the newest task first.
TakeTask_Newest(w) ==
    /\ pc[w] = "take" /\ w \notin Waiting
    /\ queue # <<>>
    /\ taken' = Append(taken, queue[Len(queue)])
    /\ queue' = SubSeq(queue, 1, Len(queue) - 1)
    /\ pc' = [pc EXCEPT ![w] = "task"]
    /\ UNCHANGED <<ownerVars, submits, condVars, accepted>>

\* take(): a task is removed and called; no thread is told that the queue shrank.
TakeTask(w) ==
    /\ pc[w] = "take" /\ w \notin Waiting
    /\ queue # <<>>
    /\ taken' = Append(taken, Head(queue))
    /\ queue' = Tail(queue)
    /\ pc' = [pc EXCEPT ![w] = "task"]
    /\ UNCHANGED <<ownerVars, submits, condVars, accepted>>

\* take(): stopped with an empty queue, no task is returned.
TakeNothing(w) ==
    /\ pc[w] = "take" /\ w \notin Waiting
    /\ queue = <<>> /\ ~running
    /\ pc' = [pc EXCEPT ![w] = "loop"]
    /\ UNCHANGED <<ownerVars, taskVars, submits, condVars>>

\* Mutant: a worker leaves after its first task.
TaskReturns_Exits(w) ==
    /\ pc[w] = "task"
    /\ pc' = [pc EXCEPT ![w] = "exited"]
    /\ UNCHANGED <<ownerVars, taskVars, submits, condVars>>

TaskReturns(w) ==
    /\ pc[w] = "task"
    /\ pc' = [pc EXCEPT ![w] = "loop"]
    /\ UNCHANGED <<ownerVars, taskVars, submits, condVars>>

\* pthread_cond_wait may return without a notification.
SpuriousWakeup(t) ==
    /\ t \in Waiting
    /\ notEmpty' = notEmpty \ {t}
    /\ notFull' = notFull \ {t}
    /\ UNCHANGED <<ownerVars, taskVars, callVars, fresh>>

-----------------------------------------------------------------------------
RunStep(t) == RunWait(t) \/ RunRefused(t) \/ RunPush(t)

WorkerStep(w) ==
    \/ Loop(w) \/ TakeWait(w) \/ TakeTask(w) \/ TakeNothing(w) \/ TaskReturns(w)
    \/ RunStep(w)

Next ==
    \/ \E w \in Workers : StartThread(w)
    \/ StopRunning \/ StopNotify \/ StopJoin
    \/ \E t \in Threads, f \in Tasks : CallRun(t, f)
    \/ \E p \in Producers, f \in Tasks : RunInline(p, f)
    \/ \E p \in Producers : RunStep(p)
    \/ \E w \in Workers : WorkerStep(w)
    \/ \E t \in Threads : SpuriousWakeup(t)

Spec == Init /\ [][Next]_vars

(* Every thread that is not waiting gets to run, tasks end, and the owner   *)
(* completes a start() or stop() it has begun.  Nobody has to call run() or *)
(* stop(), and no waiter can count on a spurious wakeup.                    *)
FairSpec ==
    /\ Spec
    /\ \A w \in Workers : WF_vars(StartThread(w)) /\ WF_vars(WorkerStep(w))
    /\ \A p \in Producers : WF_vars(RunStep(p))
    /\ WF_vars(StopNotify) /\ WF_vars(StopJoin)

-----------------------------------------------------------------------------
\* A worker that runs, or that waits for nothing but the mutex.
Awake(w) == w \notin Waiting /\ pc[w] \notin {"unborn", "exited"}

(* When a task lies in the queue of a running pool, some worker is awake,   *)
(* in neither condition: one notify per push is enough, although any waiter *)
(* may be chosen and a late worker may steal the task.  The one exception:  *)
(* the task of every worker is itself asleep in run(), on a queue that is   *)
(* full and that nobody is left to empty (ThreadPool.cc:49-65, 79-91).      *)
SomebodyAwake ==
    queue # <<>> /\ running /\ owner # "start" =>
        (\E w \in Workers : Awake(w)) \/ (IsFull /\ Workers \subseteq notFull)

(* Tasks are taken in the order in which run() queued them, none twice and  *)
(* none lost, and a bounded queue keeps its bound (ThreadPool.cc:49-91).    *)
TakenInOrder ==
    /\ accepted = taken \o queue
    /\ maxQueueSize > 0 => Len(queue) <= maxQueueSize

(* stop() returns: every worker is woken and exits, also one whose task is  *)
(* blocked in run() on a full queue; and no call of run() outlives it       *)
(* (ThreadPool.cc:32-42, ThreadPool.h:39).                                  *)
StopTerminates ==
    /\ owner = "stop" ~> owner = "stopped"
    /\ \A t \in Threads : pc[t] = "run" /\ ~running ~> pc[t] # "run"

(* A queued task is taken unless the pool is stopped, or every worker is    *)
(* itself in a run() that finds the queue full (ThreadPool.cc:49-91).       *)
TasksAreTaken ==
    \A f \in Tasks :
        f \in Range(queue) ~>
            \/ f \in Range(taken) \/ ~running
            \/ IsFull /\ \A w \in Workers : pc[w] = "run"
=============================================================================
