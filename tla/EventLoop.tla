----------------------------- MODULE EventLoop ------------------------------
(* muduo/net/EventLoop.cc, with the part of poller/EpollPoller.cc that      *)
(* decides what one poll() returns.                                         *)
(*                                                                          *)
(* One thread owns the loop: it creates it, calls loop(), and runs every    *)
(* callback.  Other threads call runInLoop/queueInLoop/quit at any moment.  *)
(* queueInLoop takes two steps in a foreign thread: the push under          *)
(* pendingFunctorsMutex_, then the write to the eventfd.  A functor or the  *)
(* callback of a channel may itself queue functors, from the loop's thread, *)
(* and then no write follows the push.                                      *)
EXTENDS Integers, Sequences, FiniteSets, Functions

CONSTANTS
    Foreign,            \* the threads other than the loop's own
    LoopThread,         \* threadId_
    Functors,           \* identities of functors; each is queued at most once
    Channels,           \* channels registered by users of the loop
    WakeupChannel,      \* wakeupChannel_
    InitEventListSize,  \* kInitEventListSize
    None

ASSUME LoopAssumption ==
    /\ LoopThread \notin Foreign
    /\ WakeupChannel \notin Channels
    /\ None \notin Foreign \cup {LoopThread}
    /\ InitEventListSize \in Nat \ {0}

VARIABLES
    pc,                 \* where the loop's thread is
    looping,            \* looping_
    quit,               \* quit_
    activeChannels,     \* the channels poll() returned and loop() has not handled
    eventListSize,      \* EpollPoller: events_.size()
    wakeupFd,           \* the counter of the eventfd
    pendingFunctors,    \* pendingFunctors_
    functors,           \* what is left of the local vector of doPendingFunctors
    notifying,          \* foreign threads between their push and their wakeup()
    queuedBy,           \* history: the thread that queued a functor
    ran                 \* history: queued functors in the order they were called

loopVars == <<pc, looping, activeChannels, eventListSize>>
vars == <<pc, looping, quit, activeChannels, eventListSize, wakeupFd,
          pendingFunctors, functors, notifying, queuedBy, ran>>

(* "created" is the code of the loop's thread between the constructor and   *)
(* loop(); "channelCb" and "functorCb" are user code called by the loop.    *)
PCs == {"created", "poll", "events", "channelCb", "functors", "functorCb"}
InUserCode == pc \in {"created", "channelCb", "functorCb"}

(* A type invariant with the two facts that tie the loop's vectors to its   *)
(* program counter: channels are left over only inside the handling loop,   *)
(* functors only inside doPendingFunctors.                                  *)
TypeOK ==
    /\ pc \in PCs
    /\ looping \in BOOLEAN
    /\ quit \in BOOLEAN
    /\ activeChannels \subseteq Channels \cup {WakeupChannel}
    /\ eventListSize \in Nat \ {0}
    /\ wakeupFd \in Nat
    /\ pendingFunctors \in Seq(Functors)
    /\ functors \in Seq(Functors)
    /\ notifying \subseteq Foreign
    /\ queuedBy \in [Functors -> Foreign \cup {LoopThread, None}]
    /\ ran \in Seq(Functors)
    /\ activeChannels # {} => pc \in {"events", "channelCb"}
    /\ functors # <<>> => pc \in {"functors", "functorCb"}

(* The constructor: wakeupChannel_ is reading, nothing is queued.           *)
Init ==
    /\ pc = "created"
    /\ looping = FALSE
    /\ quit = FALSE
    /\ activeChannels = {}
    /\ eventListSize = InitEventListSize
    /\ wakeupFd = 0
    /\ pendingFunctors = <<>>
    /\ functors = <<>>
    /\ notifying = {}
    /\ queuedBy = [f \in Functors |-> None]
    /\ ran = <<>>

-----------------------------------------------------------------------------
(* Queueing and quitting.                                                   *)

\* queueInLoop: the push, under the mutex.
Push(t, f) ==
    /\ queuedBy[f] = None
    /\ pendingFunctors' = Append(pendingFunctors, f)
    /\ queuedBy' = [queuedBy EXCEPT ![f] = t]

\* A foreign thread: runInLoop and queueInLoop are the same, push then wakeup.
QueueInLoop(t, f) ==
    /\ t \notin notifying
    /\ Push(t, f)
    /\ notifying' = notifying \cup {t}
    /\ UNCHANGED <<loopVars, quit, wakeupFd, functors, ran>>

\* Mutant: the write is skipped while the loop is not blocked in poll().
Wakeup_OnlyWhenPolling(t) ==
    /\ t \in notifying
    /\ wakeupFd' = IF pc = "poll" THEN wakeupFd + 1 ELSE wakeupFd
    /\ notifying' = notifying \ {t}
    /\ UNCHANGED <<loopVars, quit, pendingFunctors, functors, queuedBy, ran>>

\* wakeup(): the second half of queueInLoop in a foreign thread.
Wakeup(t) ==
    /\ t \in notifying
    /\ wakeupFd' = wakeupFd + 1
    /\ notifying' = notifying \ {t}
    /\ UNCHANGED <<loopVars, quit, pendingFunctors, functors, queuedBy, ran>>

\* User code in the loop's thread calls queueInLoop: no wakeup follows.
QueueFromLoop(f) ==
    /\ InUserCode
    /\ Push(LoopThread, f)
    /\ UNCHANGED <<loopVars, quit, wakeupFd, functors, notifying, ran>>

\* quit(), from any thread.
Quit ==
    /\ quit' = TRUE
    /\ UNCHANGED <<loopVars, wakeupFd, pendingFunctors, functors, notifying,
                   queuedBy, ran>>

-----------------------------------------------------------------------------
(* loop().                                                                  *)

\* The entry of loop(): quit_ is reset, whatever was stored there before.
StartLoop ==
    /\ pc = "created"
    /\ pc' = "poll"
    /\ looping' = TRUE
    /\ quit' = FALSE
    /\ UNCHANGED <<activeChannels, eventListSize, wakeupFd, pendingFunctors,
                   functors, notifying, queuedBy, ran>>

\* EpollPoller::poll: the event list doubles when epoll_wait filled it.
GrowEventList(numEvents) ==
    eventListSize' = IF numEvents = eventListSize THEN 2 * eventListSize
                                                  ELSE eventListSize

\* Mutant: the constructor forgets wakeupChannel_->enableReading().
Ready_Users(io) == io

\* The ready channels: wakeupChannel_ is among them iff the eventfd is not 0.
Ready(io) == IF wakeupFd > 0 THEN io \cup {WakeupChannel} ELSE io

(* epoll_wait returns as many ready channels as the event list holds, in an *)
(* order of its own; the users' channels io are ready whenever their        *)
(* descriptors say so.                                                      *)
PollReturns(io) ==
    /\ pc = "poll"
    /\ Ready(io) # {}
    /\ activeChannels' \in SUBSET Ready(io)
    /\ Cardinality(activeChannels') =
         IF Cardinality(Ready(io)) < eventListSize THEN Cardinality(Ready(io))
                                                   ELSE eventListSize
    /\ GrowEventList(Cardinality(activeChannels'))
    /\ pc' = "events"
    /\ UNCHANGED <<looping, quit, wakeupFd, pendingFunctors, functors,
                   notifying, queuedBy, ran>>

PollReturn == \E io \in SUBSET Channels : PollReturns(io)

\* Mutant: poll() waits without a timeout.
PollTimeout_Never == FALSE /\ UNCHANGED vars

\* Nothing was ready for kPollTimeMs (or a signal interrupted the wait).
PollTimeout ==
    /\ pc = "poll"
    /\ wakeupFd = 0
    /\ pc' = "events"
    /\ UNCHANGED <<looping, activeChannels, eventListSize, quit, wakeupFd,
                   pendingFunctors, functors, notifying, queuedBy, ran>>

\* handleRead(): one read of an eventfd takes the whole counter.
HandleRead ==
    /\ pc = "events"
    /\ WakeupChannel \in activeChannels
    /\ activeChannels' = activeChannels \ {WakeupChannel}
    /\ wakeupFd' = 0
    /\ UNCHANGED <<pc, looping, eventListSize, quit, pendingFunctors, functors,
                   notifying, queuedBy, ran>>

\* handleEvent of a user's channel enters the user's callback.
HandleChannel(c) ==
    /\ pc = "events"
    /\ c \in activeChannels
    /\ activeChannels' = activeChannels \ {c}
    /\ pc' = "channelCb"
    /\ UNCHANGED <<looping, eventListSize, quit, wakeupFd, pendingFunctors,
                   functors, notifying, queuedBy, ran>>

\* Mutant: a copy instead of a swap.
DoPendingFunctors_Copy ==
    /\ pc = "events"
    /\ activeChannels = {}
    /\ functors' = pendingFunctors
    /\ pc' = "functors"
    /\ UNCHANGED <<looping, activeChannels, eventListSize, quit, wakeupFd,
                   pendingFunctors, notifying, queuedBy, ran>>

\* doPendingFunctors: the swap, under the mutex.
DoPendingFunctors ==
    /\ pc = "events"
    /\ activeChannels = {}
    /\ functors' = pendingFunctors
    /\ pendingFunctors' = <<>>
    /\ pc' = "functors"
    /\ UNCHANGED <<looping, activeChannels, eventListSize, quit, wakeupFd,
                   notifying, queuedBy, ran>>

\* doPendingFunctors: the call of the next functor.
RunFunctor ==
    /\ pc = "functors"
    /\ functors # <<>>
    /\ ran' = Append(ran, Head(functors))
    /\ functors' = Tail(functors)
    /\ pc' = "functorCb"
    /\ UNCHANGED <<looping, activeChannels, eventListSize, quit, wakeupFd,
                   pendingFunctors, notifying, queuedBy>>

\* The callback returns to the loop that called it.
CallbackReturn ==
    /\ pc \in {"channelCb", "functorCb"}
    /\ pc' = IF pc = "channelCb" THEN "events" ELSE "functors"
    /\ UNCHANGED <<looping, activeChannels, eventListSize, quit, wakeupFd,
                   pendingFunctors, functors, notifying, queuedBy, ran>>

\* Mutant: doPendingFunctors gives up before its vector is exhausted.
NextIteration_Early ==
    /\ pc = "functors"
    /\ pc' = "poll"
    /\ UNCHANGED <<looping, activeChannels, eventListSize, quit, wakeupFd,
                   pendingFunctors, functors, notifying, queuedBy, ran>>

\* The end of an iteration: while(1) does not look at quit_.
NextIteration ==
    /\ pc = "functors"
    /\ functors = <<>>
    /\ pc' = "poll"
    /\ UNCHANGED <<looping, activeChannels, eventListSize, quit, wakeupFd,
                   pendingFunctors, functors, notifying, queuedBy, ran>>

-----------------------------------------------------------------------------
\* What the loop's thread does without waiting for anybody.
LoopWork ==
    \/ StartLoop
    \/ HandleRead
    \/ \E c \in Channels : HandleChannel(c)
    \/ DoPendingFunctors
    \/ RunFunctor
    \/ CallbackReturn
    \/ NextIteration

Next ==
    \/ \E t \in Foreign, f \in Functors : QueueInLoop(t, f)
    \/ \E t \in Foreign : Wakeup(t)
    \/ \E f \in Functors : QueueFromLoop(f)
    \/ Quit
    \/ PollReturn
    \/ PollTimeout
    \/ LoopWork

Spec == Init /\ [][Next]_vars

(* Threads that can run do run, callbacks return, and epoll_wait returns    *)
(* when the eventfd is readable.  User channels need never become ready,    *)
(* and the poll timeout need never expire.                                  *)
Fairness ==
    /\ WF_vars(LoopWork)
    /\ WF_vars(PollReturns({}))
    /\ \A t \in Foreign : WF_vars(Wakeup(t))

FairSpec == Spec /\ Fairness

-----------------------------------------------------------------------------
ForeignWork == \E f \in Range(pendingFunctors) : queuedBy[f] \in Foreign

(* No lost wakeup: when the loop is blocked in poll() while a functor of    *)
(* another thread waits in pendingFunctors_, the eventfd is readable, or a  *)
(* producer has pushed and is about to write it (EventLoop.cc:129-147).     *)
NoLostWakeup ==
    pc = "poll" /\ ForeignWork => wakeupFd > 0 \/ notifying # {}

(* The two vectors of queueInLoop and doPendingFunctors together are one    *)
(* FIFO queue that executes each functor once: EventLoop implements         *)
(* FunctorQueue (EventLoop.cc:129-179).                                     *)
FQ == INSTANCE FunctorQueue WITH queue <- functors \o pendingFunctors
QueueIsFIFO == FQ!Spec

(* Given that poll() times out, every functor is executed in the end, also  *)
(* one that the loop's own thread queued without a wakeup, and from inside  *)
(* the last functor of a batch (EventLoop.cc:98-100, 129-147).              *)
QueueIsFair == WF_vars(PollTimeout) => FQ!Liveness

(* A functor queued by another thread is executed without the help of the   *)
(* poll timeout and of any other event: the wakeup alone is enough, however *)
(* many channels are ready with it (EventLoop.cc:129-179,                   *)
(* EpollPoller.cc:29-50).                                                   *)
PromptService ==
    \A f \in Functors : queuedBy[f] \in Foreign ~> f \in Range(ran)
=============================================================================
