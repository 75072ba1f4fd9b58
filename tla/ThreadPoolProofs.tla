--------------------------- MODULE ThreadPoolProofs -------------------------
(* Theorems about ThreadPool for any number of workers, producers and tasks *)
(* and every bound of the queue: tasks are taken in the order of run(), and *)
(* no task is left to workers that are all asleep, but for the case that    *)
(* all of them are asleep inside run(), on a full queue.                    *)
EXTENDS ThreadPool, SequenceTheorems, FiniteSetTheorems, TLAPS

(* Inside run() a thread holds a task; everywhere else the types are those  *)
(* of the fields.                                                           *)
PoolTypes ==
    /\ maxQueueSize \in Nat
    /\ queue \in Seq(Tasks) /\ taken \in Seq(Tasks) /\ accepted \in Seq(Tasks)
    /\ pc \in [Threads -> {"unborn", "loop", "take", "task", "exited", "idle", "run"}]
    /\ submits \in [Threads -> Tasks \cup {NoTask}]
    /\ \A t \in Threads : pc[t] = "run" => submits[t] \in Tasks
    /\ fresh \subseteq Tasks

(* Where a thread is when it waits; and as long as the pool runs no worker  *)
(* has left, once start() has returned all are there.                       *)
PlacesInv ==
    /\ running \in BOOLEAN
    /\ notEmpty \subseteq Workers /\ notFull \subseteq Threads
    /\ \A w \in notEmpty : pc[w] = "take"
    /\ \A t \in notFull : pc[t] = "run"
    /\ running = TRUE => \A w \in Workers : pc[w] # "exited"
    /\ owner # "start" => \A w \in Workers : pc[w] # "unborn"

\* The workers that are on their way to the queue.
Takers == {w \in Workers : pc[w] = "take" /\ w \notin notEmpty}

(* SomebodyAwake does not carry itself over a step: a worker may fall       *)
(* asleep in run() while another sleeps in take().  As long as somebody     *)
(* waits for a task, there are as many workers on their way as tasks; and   *)
(* when all sleep, the last of them found the queue empty or full.          *)
CountInv == notEmpty # {} => Len(queue) <= Cardinality(Takers)
SleepInv == Workers \subseteq Waiting => notEmpty # {} \/ IsFull

\* Every operation keeps the types, and a task is in the hand of whoever is in run().
LEMMA PoolTypesInvariant == Spec => []PoolTypes
<1>1. Init => PoolTypes
  BY PoolAssumption DEF Init, PoolTypes
<1>2. PoolTypes /\ [Next]_vars => PoolTypes'
  <2> SUFFICES ASSUME PoolTypes, [Next]_vars PROVE PoolTypes'
    OBVIOUS
  <2> USE DEF PoolTypes, Threads, ownerVars, taskVars, callVars, condVars
  <2>1. ASSUME NEW w \in Workers, StartThread(w) PROVE PoolTypes'
    BY <2>1 DEF StartThread
  <2>2. CASE StopRunning \/ StopNotify \/ StopJoin
    BY <2>2 DEF StopRunning, StopNotify, StopJoin
  <2>3. ASSUME NEW t \in Threads, NEW f \in Tasks, CallRun(t, f)
        PROVE  PoolTypes'
    BY <2>3 DEF CallRun
  <2>4. ASSUME NEW p \in Producers, NEW f \in Tasks, RunInline(p, f)
        PROVE  PoolTypes'
    BY <2>4 DEF RunInline
  <2>5. ASSUME NEW t \in Threads, RunWait(t) PROVE PoolTypes'
    BY <2>5 DEF RunWait
  <2>6. ASSUME NEW t \in Threads, RunRefused(t) PROVE PoolTypes'
    BY <2>6 DEF RunRefused, Returns
  <2>7. ASSUME NEW t \in Threads, RunPush(t) PROVE PoolTypes'
    <3>1. submits[t] \in Tasks
      BY <2>7 DEF RunPush
    <3>2. queue' \in Seq(Tasks) /\ accepted' \in Seq(Tasks)
      BY <2>7, <3>1 DEF RunPush
    <3>3. QED
      BY <2>7, <3>2 DEF RunPush, Returns
  <2>8. ASSUME NEW w \in Workers, Loop(w) PROVE PoolTypes'
    BY <2>8 DEF Loop
  <2>9. ASSUME NEW w \in Workers, TakeWait(w) PROVE PoolTypes'
    BY <2>9 DEF TakeWait
  <2>10. ASSUME NEW w \in Workers, TakeTask(w) PROVE PoolTypes'
    <3>1. Head(queue) \in Tasks /\ queue' \in Seq(Tasks) /\ taken' \in Seq(Tasks)
      BY <2>10 DEF TakeTask
    <3>2. QED
      BY <2>10, <3>1 DEF TakeTask
  <2>11. ASSUME NEW w \in Workers, TakeNothing(w) \/ TaskReturns(w)
         PROVE  PoolTypes'
    BY <2>11 DEF TakeNothing, TaskReturns
  <2>12. ASSUME NEW t \in Threads, SpuriousWakeup(t) PROVE PoolTypes'
    BY <2>12 DEF SpuriousWakeup
  <2>13. CASE UNCHANGED vars
    BY <2>13 DEF vars
  <2>14. QED
    BY <2>1, <2>2, <2>3, <2>4, <2>5, <2>6, <2>7, <2>8, <2>9, <2>10, <2>11,
       <2>12, <2>13 DEF Next, WorkerStep, RunStep
<1>3. QED
  BY <1>1, <1>2, PTL DEF Spec

-----------------------------------------------------------------------------
(* What a step does to the queue: a push of one task by some thread, the    *)
(* removal of the front by a worker, or nothing.                            *)
LEMMA QueueSteps ==
    ASSUME [Next]_vars
    PROVE  \/ \E t \in Threads : RunPush(t)
           \/ \E w \in Workers : TakeTask(w)
           \/ UNCHANGED <<maxQueueSize, taskVars>>
  BY DEF Next, WorkerStep, RunStep, StartThread, StopRunning, StopNotify,
     StopJoin, CallRun, RunInline, RunWait, RunRefused, Loop, TakeWait,
     TakeNothing, TaskReturns, SpuriousWakeup, vars, ownerVars, taskVars, Threads

\* The front of the queue becomes the end of the history: nothing is lost.
LEMMA TakeKeepsOrder ==
    ASSUME NEW S, NEW h \in Seq(S), NEW q \in Seq(S), q # <<>>
    PROVE  Append(h, Head(q)) \o Tail(q) = h \o q
<1>1. Head(q) \in S /\ Tail(q) \in Seq(S) /\ Len(q) > 0
         /\ Len(Tail(q)) = Len(q) - 1
  OBVIOUS
<1>2. Append(h, Head(q)) \o Tail(q) \in Seq(S) /\ h \o q \in Seq(S)
  BY <1>1
<1>3. Len(Append(h, Head(q)) \o Tail(q)) = Len(h \o q)
  BY <1>1
<1>4. \A i \in 1..Len(h \o q) : (Append(h, Head(q)) \o Tail(q))[i] = (h \o q)[i]
  BY <1>1
<1>5. QED
  BY <1>2, <1>3, <1>4, SeqEqual

(* Whichever threads call run() and whichever workers take(): the tasks are *)
(* executed in the order in which they were accepted, none twice and none   *)
(* lost, and a bounded queue never exceeds maxQueueSize_.                   *)
THEOREM TasksAreTakenInOrder == Spec => []TakenInOrder
<1>1. Init => TakenInOrder
  <2> SUFFICES ASSUME Init PROVE TakenInOrder
    OBVIOUS
  <2>1. <<>> \o <<>> = <<>> /\ Len(<<>>) = 0
    OBVIOUS
  <2>2. QED
    BY <2>1, PoolAssumption DEF Init, TakenInOrder
<1>2. PoolTypes /\ TakenInOrder /\ [Next]_vars => TakenInOrder'
  <2> SUFFICES ASSUME PoolTypes, TakenInOrder, [Next]_vars PROVE TakenInOrder'
    OBVIOUS
  <2>1. ASSUME NEW t \in Threads, RunPush(t) PROVE TakenInOrder'
    <3>1. submits[t] \in Tasks
      BY <2>1 DEF RunPush, PoolTypes
    <3>2. taken \o Append(queue, submits[t]) = Append(taken \o queue, submits[t])
      BY <3>1, AppendIsConcat, ConcatAssociative, ConcatProperties DEF PoolTypes
    <3>3. Len(queue') = Len(queue) + 1 /\ Len(queue) \in Nat
      BY <2>1, <3>1 DEF RunPush, PoolTypes
    <3>4. QED
      BY <2>1, <3>2, <3>3
         DEF RunPush, IsFull, TakenInOrder, PoolTypes, ownerVars
  <2>2. ASSUME NEW w \in Workers, TakeTask(w) PROVE TakenInOrder'
    <3>1. Append(taken, Head(queue)) \o Tail(queue) = taken \o queue
      BY <2>2, TakeKeepsOrder DEF TakeTask, PoolTypes
    <3>2. Len(queue') = Len(queue) - 1 /\ Len(queue) \in Nat
      BY <2>2 DEF TakeTask, PoolTypes
    <3>3. QED
      BY <2>2, <3>1, <3>2 DEF TakeTask, TakenInOrder, PoolTypes, ownerVars
  <2>3. CASE UNCHANGED <<maxQueueSize, taskVars>>
    BY <2>3 DEF TakenInOrder, taskVars
  <2>4. QED
    BY <2>1, <2>2, <2>3, QueueSteps
<1>3. QED
  BY <1>1, <1>2, PoolTypesInvariant, PTL DEF Spec

-----------------------------------------------------------------------------
(* Every operation keeps PlacesInv.                                         *)
LEMMA PlacesStep ==
    ASSUME PoolTypes, PlacesInv, [Next]_vars
    PROVE  PlacesInv'
<1> USE DEF PoolTypes, PlacesInv, Waiting, Threads, ownerVars, taskVars, callVars, condVars
<1>1. ASSUME NEW w \in Workers, StartThread(w) PROVE PlacesInv'
  BY <1>1 DEF StartThread
<1>2. CASE StopRunning \/ StopNotify \/ StopJoin
  BY <1>2 DEF StopRunning, StopNotify, NotifyAll, StopJoin
<1>3. ASSUME NEW t \in Threads, NEW f \in Tasks, CallRun(t, f) PROVE PlacesInv'
  BY <1>3 DEF CallRun
<1>4. ASSUME NEW p \in Producers, NEW f \in Tasks, RunInline(p, f) PROVE PlacesInv'
  BY <1>4 DEF RunInline
<1>5. ASSUME NEW t \in Threads, RunWait(t) PROVE PlacesInv'
  BY <1>5 DEF RunWait
<1>6. ASSUME NEW t \in Threads, RunRefused(t) PROVE PlacesInv'
  BY <1>6 DEF RunRefused, Returns
<1>7. ASSUME NEW t \in Threads, RunPush(t) PROVE PlacesInv'
  <2>1. notEmpty' \subseteq notEmpty
    BY <1>7 DEF RunPush, PushNotify, Notify
  <2>2. QED
    BY <1>7, <2>1 DEF RunPush, Returns
<1>8. ASSUME NEW w \in Workers, Loop(w) PROVE PlacesInv'
  BY <1>8 DEF Loop
<1>9. ASSUME NEW w \in Workers, TakeWait(w) PROVE PlacesInv'
  BY <1>9 DEF TakeWait
<1>10. ASSUME NEW w \in Workers, TakeTask(w) PROVE PlacesInv'
  BY <1>10 DEF TakeTask
<1>11. ASSUME NEW w \in Workers, TakeNothing(w) \/ TaskReturns(w) PROVE PlacesInv'
  BY <1>11 DEF TakeNothing, TaskReturns
<1>12. ASSUME NEW t \in Threads, SpuriousWakeup(t) PROVE PlacesInv'
  BY <1>12 DEF SpuriousWakeup
<1>13. CASE UNCHANGED vars
  BY <1>13 DEF vars
<1>14. QED
  BY <1>1, <1>2, <1>3, <1>4, <1>5, <1>6, <1>7, <1>8, <1>9, <1>10, <1>11, <1>12, <1>13
     DEF Next, WorkerStep, RunStep

(* What a step does to the waiters and to the workers on their way: a push  *)
(* wakes one, a worker takes a task or finds nothing, or nobody who was on  *)
(* his way is lost.                                                         *)
LEMMA TakerSteps ==
    ASSUME PoolTypes, PlacesInv, [Next]_vars
    PROVE  \/ \E t \in Threads : RunPush(t)
           \/ \E w \in Workers : TakeTask(w)
           \/ \E w \in Workers : TakeWait(w) \/ TakeNothing(w)
           \/ queue' = queue /\ notEmpty' \subseteq notEmpty /\ Takers \subseteq Takers'
<1> DEFINE Quiet == queue' = queue /\ notEmpty' \subseteq notEmpty /\ Takers \subseteq Takers'
<1> USE DEF PoolTypes, PlacesInv, Waiting, Threads, ownerVars, taskVars, callVars,
        condVars, Takers
<1>1. ASSUME NEW w \in Workers, StartThread(w) PROVE Quiet
  BY <1>1 DEF StartThread
<1>2. CASE StopRunning \/ StopNotify \/ StopJoin
  BY <1>2 DEF StopRunning, StopNotify, NotifyAll, StopJoin
<1>3. ASSUME NEW t \in Threads, NEW f \in Tasks, CallRun(t, f) PROVE Quiet
  BY <1>3 DEF CallRun
<1>4. ASSUME NEW p \in Producers, NEW f \in Tasks, RunInline(p, f) PROVE Quiet
  BY <1>4 DEF RunInline
<1>5. ASSUME NEW t \in Threads, RunWait(t) PROVE Quiet
  BY <1>5 DEF RunWait
<1>6. ASSUME NEW t \in Threads, RunRefused(t) PROVE Quiet
  BY <1>6 DEF RunRefused, Returns
<1>7. ASSUME NEW w \in Workers, Loop(w) PROVE Quiet
  BY <1>7 DEF Loop
<1>8. ASSUME NEW w \in Workers, TaskReturns(w) PROVE Quiet
  BY <1>8 DEF TaskReturns
<1>9. ASSUME NEW t \in Threads, SpuriousWakeup(t) PROVE Quiet
  BY <1>9 DEF SpuriousWakeup
<1>10. CASE UNCHANGED vars
  BY <1>10 DEF vars
<1>11. QED
  BY <1>1, <1>2, <1>3, <1>4, <1>5, <1>6, <1>7, <1>8, <1>9, <1>10
     DEF Next, WorkerStep, RunStep

\* There are finitely many workers, so those on their way can be counted.
LEMMA TakersAreFinite ==
    /\ IsFiniteSet(Takers) /\ Cardinality(Takers) \in Nat
    /\ IsFiniteSet(Takers') /\ Cardinality(Takers') \in Nat
<1>1. Takers \subseteq Workers /\ Takers' \subseteq Workers /\ IsFiniteSet(Workers)
  BY PoolAssumption DEF Takers
<1>2. IsFiniteSet(Takers) /\ IsFiniteSet(Takers')
  BY <1>1, FS_Subset
<1>3. QED
  BY <1>2, FS_CardinalityType

(* A push adds one task and one worker on his way, if somebody else still   *)
(* waits; a take removes one of each.                                       *)
LEMMA CountStep ==
    ASSUME PoolTypes, PlacesInv, CountInv, [Next]_vars
    PROVE  CountInv'
<1>1. Len(queue) \in Nat /\ queue \in Seq(Tasks)
  BY DEF PoolTypes
<1>2. ASSUME NEW t \in Threads, RunPush(t), notEmpty' # {}
      PROVE  Len(queue') <= Cardinality(Takers')
  <2>1. PICK w \in notEmpty : notEmpty' = notEmpty \ {w}
    BY <1>2 DEF RunPush, PushNotify, Notify
  <2>2. w \in Workers /\ pc[w] = "take" /\ pc[t] = "run" /\ w # t
    BY <1>2, <2>1 DEF PlacesInv, RunPush
  <2>3. /\ \A v \in Workers : v # t => pc'[v] = pc[v]
        /\ pc'[t] # "take"
    BY <1>2 DEF RunPush, Returns, PoolTypes, Threads
  <2>4. Takers' = Takers \cup {w}
    BY <2>1, <2>2, <2>3 DEF Takers
  <2>5. w \notin Takers
    BY <2>1 DEF Takers
  <2>6. Cardinality(Takers') = Cardinality(Takers) + 1
    BY <2>4, <2>5, TakersAreFinite, FS_AddElement
  <2>7. Len(queue') = Len(queue) + 1
    BY <1>1, <1>2 DEF RunPush, PoolTypes
  <2>8. Len(queue) <= Cardinality(Takers)
    BY <2>1 DEF CountInv
  <2>9. QED
    BY <1>1, <2>6, <2>7, <2>8, TakersAreFinite
<1>3. ASSUME NEW w \in Workers, TakeTask(w), notEmpty' # {}
      PROVE  Len(queue') <= Cardinality(Takers')
  <2>1. /\ pc' = [pc EXCEPT ![w] = "task"] /\ notEmpty' = notEmpty
        /\ w \notin notEmpty /\ pc[w] = "take"
    BY <1>3 DEF TakeTask, condVars, Waiting
  <2>2. Takers' = Takers \ {w} /\ w \in Takers
    BY <2>1 DEF Takers, PoolTypes, Threads
  <2>3. Cardinality(Takers') = Cardinality(Takers) - 1
    BY <2>2, TakersAreFinite, FS_RemoveElement
  <2>4. Len(queue') = Len(queue) - 1
    BY <1>1, <1>3 DEF TakeTask
  <2>5. Len(queue) <= Cardinality(Takers)
    BY <1>3, <2>1 DEF CountInv
  <2>6. QED
    BY <1>1, <2>3, <2>4, <2>5, TakersAreFinite
<1>4. ASSUME NEW w \in Workers, TakeWait(w) \/ TakeNothing(w)
      PROVE  Len(queue') <= Cardinality(Takers')
  <2>1. Len(queue') = 0
    BY <1>4 DEF TakeWait, TakeNothing, taskVars
  <2>2. QED
    BY <2>1, TakersAreFinite
<1>5. ASSUME queue' = queue, notEmpty' \subseteq notEmpty, Takers \subseteq Takers',
             notEmpty' # {}
      PROVE  Len(queue') <= Cardinality(Takers')
  <2>1. Cardinality(Takers) <= Cardinality(Takers')
    BY <1>5, TakersAreFinite, FS_Subset
  <2>2. Len(queue) <= Cardinality(Takers)
    BY <1>5 DEF CountInv
  <2>3. QED
    BY <1>1, <1>5, <2>1, <2>2, TakersAreFinite
<1>6. QED
  BY <1>2, <1>3, <1>4, <1>5, TakerSteps DEF CountInv

(* Whoever falls asleep last found the queue empty, or full; a push that    *)
(* finds everybody asleep wakes a worker.                                   *)
LEMMA SleepStep ==
    ASSUME PoolTypes, PlacesInv, SleepInv, [Next]_vars
    PROVE  SleepInv'
<1>1. notEmpty \cap notFull = {}
  BY DEF PlacesInv
<1>2. ASSUME NEW t \in Threads, RunPush(t) PROVE SleepInv'
  <2>1. t \notin Waiting /\ ~IsFull /\ notFull' = notFull /\ notEmpty' \subseteq notEmpty
    BY <1>2 DEF RunPush, PushNotify, Notify
  <2>2. CASE ~(Workers \subseteq Waiting)
    BY <2>1, <2>2 DEF SleepInv, Waiting
  <2>3. CASE Workers \subseteq Waiting
    <3>1. notEmpty # {}
      BY <2>1, <2>3 DEF SleepInv
    <3>2. PICK w \in notEmpty : notEmpty' = notEmpty \ {w}
      BY <1>2, <3>1 DEF RunPush, PushNotify, Notify
    <3>3. w \in Workers /\ w \notin Waiting'
      BY <1>1, <2>1, <3>2 DEF PlacesInv, Waiting
    <3>4. QED
      BY <3>3 DEF SleepInv
  <2>4. QED
    BY <2>2, <2>3
<1>3. ASSUME NEW w \in Workers, TakeTask(w) PROVE SleepInv'
  BY <1>3 DEF TakeTask, SleepInv, Waiting, condVars
<1>4. ASSUME NEW w \in Workers, TakeWait(w) PROVE SleepInv'
  BY <1>4 DEF TakeWait, SleepInv
<1>5. ASSUME NEW t \in Threads, RunWait(t) PROVE SleepInv'
  BY <1>5 DEF RunWait, SleepInv, IsFull, ownerVars, taskVars
<1>6. ASSUME NEW t \in Threads, SpuriousWakeup(t) PROVE SleepInv'
  <2>1. CASE t \in Workers
    BY <1>6, <2>1 DEF SpuriousWakeup, SleepInv, Waiting
  <2>2. CASE t \notin Workers
    <3>1. notEmpty' = notEmpty /\ notFull' \subseteq notFull /\ IsFull' = IsFull
      BY <1>6, <2>2 DEF SpuriousWakeup, PlacesInv, IsFull, ownerVars, taskVars
    <3>2. QED
      BY <3>1 DEF SleepInv, Waiting
  <2>3. QED
    BY <2>1, <2>2
<1>7. CASE StopNotify
  BY <1>7, PoolAssumption DEF StopNotify, NotifyAll, SleepInv, Waiting
<1>8. ASSUME UNCHANGED <<maxQueueSize, queue, notEmpty, notFull>> PROVE SleepInv'
  BY <1>8 DEF SleepInv, Waiting, IsFull
<1>9. QED
  BY <1>2, <1>3, <1>4, <1>5, <1>6, <1>7, <1>8 DEF Next, WorkerStep, RunStep,
     StartThread, StopRunning, StopJoin, CallRun, RunInline, RunRefused, Loop,
     TakeNothing, TaskReturns, vars, ownerVars, taskVars, condVars, Threads

(* For any number of workers, producers and tasks and every bound: one      *)
(* notify per push is enough.  No task lies in the queue of a running pool  *)
(* while every worker sleeps, in take() or in run(), whichever waiter the   *)
(* kernel picks and whichever late worker is faster, except when all of     *)
(* them sleep in run() because the queue is full (ThreadPool.cc:49-91).     *)
THEOREM SomeWorkerIsAwake == Spec => []SomebodyAwake
<1>1. Init => PlacesInv /\ CountInv /\ SleepInv
  <2> SUFFICES ASSUME Init PROVE PlacesInv /\ CountInv /\ SleepInv
    OBVIOUS
  <2>1. notEmpty = {} /\ notFull = {} /\ running = TRUE /\ owner = "start"
    BY DEF Init
  <2>2. \A w \in Workers : pc[w] = "unborn"
    BY DEF Init, Threads
  <2>3. PlacesInv
    BY <2>1, <2>2 DEF PlacesInv
  <2>4. CountInv
    BY <2>1 DEF CountInv
  <2>5. SleepInv
    BY <2>1, PoolAssumption DEF SleepInv, Waiting
  <2>6. QED
    BY <2>3, <2>4, <2>5
<1>2. PoolTypes /\ PlacesInv /\ CountInv /\ SleepInv /\ [Next]_vars
        => PlacesInv' /\ CountInv' /\ SleepInv'
  BY PlacesStep, CountStep, SleepStep
<1>3. PoolTypes /\ PlacesInv /\ CountInv /\ SleepInv => SomebodyAwake
  <2> SUFFICES ASSUME PoolTypes, PlacesInv, CountInv, SleepInv,
                      queue # <<>>, running, owner # "start",
                      \A w \in Workers : ~Awake(w)
               PROVE  IsFull /\ Workers \subseteq notFull
    BY DEF SomebodyAwake
  <2>1. Workers \subseteq Waiting
    BY DEF Awake, PlacesInv
  <2>2. Takers = {}
    BY <2>1 DEF Takers, Waiting, PlacesInv
  <2>3. Cardinality(Takers) = 0
    BY <2>2, FS_EmptySet
  <2>4. Len(queue) \in Nat \ {0}
    BY DEF PoolTypes
  <2>5. notEmpty = {}
    BY <2>3, <2>4 DEF CountInv
  <2>6. QED
    BY <2>1, <2>5 DEF SleepInv, Waiting
<1>4. QED
  BY <1>1, <1>2, <1>3, PoolTypesInvariant, PTL DEF Spec
=============================================================================
