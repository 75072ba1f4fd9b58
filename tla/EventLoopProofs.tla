--------------------------- MODULE EventLoopProofs --------------------------
(* Theorems about EventLoop for any number of threads, functors and         *)
(* channels: type correctness, the absence of lost wakeups, and the         *)
(* implementation of the FIFO queue FunctorQueue.                           *)
EXTENDS EventLoop, SequenceTheorems, TLAPS

(* NoLostWakeup speaks of poll() only.  The inductive form has to cover the *)
(* whole stretch in which a push is not yet followed by a swap: from the    *)
(* swap of one iteration (pc = "functors") to the return of the next poll.  *)
(* Between poll's return and the swap ("events", "channelCb") nothing is    *)
(* claimed, because handleRead may empty the eventfd there; the swap that   *)
(* follows empties pendingFunctors_ as well.                                *)
WakeupInv ==
    pc \in {"created", "poll", "functors", "functorCb"} /\ ForeignWork
        => wakeupFd > 0 \/ notifying # {}

\* A functor that sits in one of the two vectors, or has run, was queued.
QueuedInv ==
    /\ \A i \in 1..Len(pendingFunctors) : queuedBy[pendingFunctors[i]] # None
    /\ \A i \in 1..Len(functors) : queuedBy[functors[i]] # None
    /\ \A i \in 1..Len(ran) : queuedBy[ran[i]] # None

(* Every step of the loop's thread and of the foreign threads keeps the     *)
(* types of EventLoop's fields, leaves channels only inside the handling    *)
(* loop and functors only inside doPendingFunctors.                         *)
THEOREM TypeCorrect == Spec => []TypeOK
<1>1. Init => TypeOK
  <2> SUFFICES ASSUME Init PROVE TypeOK
    OBVIOUS
  <2>1. <<>> \in Seq(Functors)
    OBVIOUS
  <2>2. eventListSize \in Nat \ {0} /\ wakeupFd \in Nat
    BY LoopAssumption DEF Init
  <2>3. queuedBy \in [Functors -> Foreign \cup {LoopThread, None}]
    BY DEF Init
  <2>4. QED
    BY <2>1, <2>2, <2>3 DEF Init, TypeOK, PCs
<1>2. TypeOK /\ [Next]_vars => TypeOK'
  <2> SUFFICES ASSUME TypeOK, [Next]_vars PROVE TypeOK'
    OBVIOUS
  <2> USE LoopAssumption DEF TypeOK, PCs
  <2>1. ASSUME NEW t \in Foreign, NEW f \in Functors, QueueInLoop(t, f)
        PROVE  TypeOK'
    BY <2>1 DEF QueueInLoop, Push, loopVars
  <2>2. ASSUME NEW t \in Foreign, Wakeup(t) PROVE TypeOK'
    BY <2>2 DEF Wakeup, loopVars
  <2>3. ASSUME NEW f \in Functors, QueueFromLoop(f) PROVE TypeOK'
    BY <2>3 DEF QueueFromLoop, Push, loopVars
  <2>4. CASE Quit
    BY <2>4 DEF Quit, loopVars
  <2>5. CASE PollReturn
    <3>1. activeChannels' \subseteq Channels \cup {WakeupChannel}
      BY <2>5 DEF PollReturn, PollReturns, Ready
    <3>2. eventListSize' \in Nat \ {0}
      BY <2>5 DEF PollReturn, PollReturns, GrowEventList
    <3>3. QED
      BY <2>5, <3>1, <3>2 DEF PollReturn, PollReturns
  <2>6. CASE PollTimeout
    BY <2>6 DEF PollTimeout
  <2>7. CASE StartLoop
    BY <2>7 DEF StartLoop
  <2>8. CASE HandleRead
    BY <2>8 DEF HandleRead
  <2>9. ASSUME NEW c \in Channels, HandleChannel(c) PROVE TypeOK'
    BY <2>9 DEF HandleChannel
  <2>10. CASE DoPendingFunctors
    BY <2>10 DEF DoPendingFunctors
  <2>11. CASE RunFunctor
    BY <2>11 DEF RunFunctor
  <2>12. CASE CallbackReturn
    BY <2>12 DEF CallbackReturn
  <2>13. CASE NextIteration
    BY <2>13 DEF NextIteration
  <2>14. CASE UNCHANGED vars
    BY <2>14 DEF vars
  <2>15. QED
    BY <2>1, <2>2, <2>3, <2>4, <2>5, <2>6, <2>7, <2>8, <2>9, <2>10, <2>11,
       <2>12, <2>13, <2>14 DEF Next, LoopWork
<1>3. QED
  BY <1>1, <1>2, PTL DEF Spec

(* A push, by whatever thread, leaves the earlier entries where they were;  *)
(* so the work of foreign threads after it is the earlier work, or the      *)
(* pushed functor itself.                                                   *)
LEMMA PushForeignWork ==
    ASSUME TypeOK, NEW t, NEW f \in Functors, Push(t, f), ForeignWork'
    PROVE  ForeignWork \/ t \in Foreign
<1>1. PICK i \in 1..Len(pendingFunctors') :
         queuedBy'[pendingFunctors'[i]] \in Foreign
  BY DEF ForeignWork, Range, TypeOK, Push
<1>2. CASE i = Len(pendingFunctors) + 1
  BY <1>1, <1>2 DEF TypeOK, Push
<1>3. CASE i \in 1..Len(pendingFunctors)
  <2>1. pendingFunctors'[i] = pendingFunctors[i]
    BY <1>3 DEF TypeOK, Push
  <2>2. CASE pendingFunctors[i] = f
    BY <1>1, <2>1, <2>2 DEF TypeOK, Push
  <2>3. CASE pendingFunctors[i] # f
    BY <1>1, <1>3, <2>1, <2>3 DEF TypeOK, Push, ForeignWork, Range
  <2>4. QED
    BY <2>2, <2>3
<1>4. QED
  BY <1>1, <1>2, <1>3 DEF TypeOK, Push

(* No interleaving of pushes, writes of the eventfd, reads of it and swaps  *)
(* leaves the loop blocked in poll() with a foreign functor waiting and     *)
(* nobody about to wake it.                                                 *)
THEOREM NoWakeupIsLost == Spec => []NoLostWakeup
<1>1. Init => WakeupInv
  BY DEF Init, WakeupInv, ForeignWork, Range
<1>2. TypeOK /\ WakeupInv /\ [Next]_vars => WakeupInv'
  <2> SUFFICES ASSUME TypeOK, WakeupInv, [Next]_vars PROVE WakeupInv'
    OBVIOUS
  <2> USE DEF WakeupInv
  <2>1. ASSUME NEW t \in Foreign, NEW f \in Functors, QueueInLoop(t, f)
        PROVE  WakeupInv'
    BY <2>1 DEF QueueInLoop
  <2>2. ASSUME NEW t \in Foreign, Wakeup(t) PROVE WakeupInv'
    BY <2>2 DEF Wakeup, TypeOK
  <2>3. ASSUME NEW f \in Functors, QueueFromLoop(f) PROVE WakeupInv'
    <3>1. ForeignWork' => ForeignWork
      BY <2>3, PushForeignWork, LoopAssumption DEF QueueFromLoop
    <3>2. QED
      BY <2>3, <3>1 DEF QueueFromLoop, loopVars
  <2>4. CASE Quit
    BY <2>4 DEF Quit, loopVars, ForeignWork
  <2>5. CASE PollReturn
    BY <2>5 DEF PollReturn, PollReturns
  <2>6. CASE PollTimeout
    BY <2>6 DEF PollTimeout
  <2>7. CASE StartLoop
    BY <2>7 DEF StartLoop, ForeignWork
  <2>8. CASE HandleRead
    BY <2>8 DEF HandleRead
  <2>9. ASSUME NEW c \in Channels, HandleChannel(c) PROVE WakeupInv'
    BY <2>9 DEF HandleChannel
  <2>10. CASE DoPendingFunctors
    BY <2>10 DEF DoPendingFunctors, ForeignWork, Range
  <2>11. CASE RunFunctor
    BY <2>11 DEF RunFunctor, ForeignWork
  <2>12. CASE CallbackReturn
    BY <2>12 DEF CallbackReturn, ForeignWork
  <2>13. CASE NextIteration
    BY <2>13 DEF NextIteration, ForeignWork
  <2>14. CASE UNCHANGED vars
    BY <2>14 DEF vars, ForeignWork
  <2>15. QED
    BY <2>1, <2>2, <2>3, <2>4, <2>5, <2>6, <2>7, <2>8, <2>9, <2>10, <2>11,
       <2>12, <2>13, <2>14 DEF Next, LoopWork
<1>3. WakeupInv => NoLostWakeup
  BY DEF WakeupInv, NoLostWakeup
<1>4. QED
  BY <1>1, <1>2, <1>3, TypeCorrect, PTL DEF Spec

-----------------------------------------------------------------------------
(* Sequence facts behind the refinement: the queue of FunctorQueue is the   *)
(* local vector followed by the shared one.                                 *)
LEMMA AppendAtEnd ==
    ASSUME NEW S, NEW s \in Seq(S), NEW t \in Seq(S), NEW e \in S
    PROVE  s \o Append(t, e) = Append(s \o t, e)
  BY AppendIsConcat, ConcatAssociative, ConcatProperties

LEMMA TakeFromFront ==
    ASSUME NEW S, NEW s \in Seq(S), NEW t \in Seq(S), s # <<>>
    PROVE  /\ s \o t # <<>>
           /\ Head(s \o t) = Head(s)
           /\ Tail(s \o t) = Tail(s) \o t
<1>1. Len(s) > 0 /\ s \o t \in Seq(S) /\ Len(s \o t) > 0
  OBVIOUS
<1>2. Tail(s \o t) \in Seq(S) /\ Tail(s) \o t \in Seq(S)
  BY <1>1
<1>3. Len(Tail(s \o t)) = Len(Tail(s) \o t)
  BY <1>1
<1>4. \A i \in 1..Len(Tail(s) \o t) : Tail(s \o t)[i] = (Tail(s) \o t)[i]
  BY <1>1
<1>5. QED
  BY <1>1, <1>2, <1>3, <1>4, SeqEqual

LEMMA RangeOfConcat ==
    ASSUME NEW S, NEW s \in Seq(S), NEW t \in Seq(S), NEW e \in Range(s \o t)
    PROVE  e \in Range(s) \cup Range(t)
<1>1. PICK i \in 1..Len(s \o t) : e = (s \o t)[i]
  BY DEF Range
<1>2. QED
  BY <1>1 DEF Range

\* The vectors and the history hold queued functors only.
LEMMA QueuedInvariant == Spec => []QueuedInv
<1>1. Init => QueuedInv
  BY DEF Init, QueuedInv
<1>2. TypeOK /\ QueuedInv /\ [Next]_vars => QueuedInv'
  <2> SUFFICES ASSUME TypeOK, QueuedInv, [Next]_vars PROVE QueuedInv'
    OBVIOUS
  <2> USE DEF QueuedInv
  <2>1. ASSUME NEW t \in Foreign \cup {LoopThread}, NEW f \in Functors,
               Push(t, f), UNCHANGED <<functors, ran>>
        PROVE  QueuedInv'
    <3>1. \A g \in Functors : queuedBy[g] # None => queuedBy'[g] # None
      BY <2>1, LoopAssumption DEF Push, TypeOK
    <3>2. queuedBy'[f] # None
      BY <2>1, LoopAssumption DEF Push, TypeOK
    <3>3. \A i \in 1..Len(pendingFunctors') :
             pendingFunctors'[i] = f \/ (i \in 1..Len(pendingFunctors)
                              /\ pendingFunctors'[i] = pendingFunctors[i])
      BY <2>1 DEF Push, TypeOK
    <3>4. QED
      BY <2>1, <3>1, <3>2, <3>3 DEF TypeOK
  <2>2. ASSUME UNCHANGED <<pendingFunctors, functors, queuedBy, ran>>
        PROVE  QueuedInv'
    BY <2>2
  <2>3. CASE DoPendingFunctors
    BY <2>3 DEF DoPendingFunctors
  <2>4. CASE RunFunctor
    BY <2>4 DEF RunFunctor, TypeOK
  <2>5. QED
    BY <2>1, <2>2, <2>3, <2>4 DEF Next, LoopWork, QueueInLoop, QueueFromLoop,
       Wakeup, Quit, PollReturn, PollReturns, PollTimeout, StartLoop, HandleRead,
       HandleChannel, CallbackReturn, NextIteration, vars
<1>3. QED
  BY <1>1, <1>2, TypeCorrect, PTL DEF Spec

(* The double buffering of doPendingFunctors is invisible: every behaviour  *)
(* of EventLoop is a behaviour of the FIFO queue.  A push, from any thread, *)
(* is Enqueue; the call of a functor is RunHead; the swap and all the rest  *)
(* of the loop is a stuttering step.                                        *)
THEOREM EventLoopIsFIFO == Spec => QueueIsFIFO
<1>1. Init => FQ!Init
  BY DEF Init, FQ!Init
<1>2. TypeOK /\ QueuedInv /\ [Next]_vars => [FQ!Next]_FQ!vars
  <2> SUFFICES ASSUME TypeOK, QueuedInv, [Next]_vars
               PROVE  [FQ!Next]_FQ!vars
    OBVIOUS
  <2> USE DEF FQ!vars
  <2>1. ASSUME NEW t, NEW f \in Functors, Push(t, f),
               UNCHANGED <<functors, ran>>
        PROVE  FQ!Enqueue(f)
    <3>1. functors' \o pendingFunctors' = Append(functors \o pendingFunctors, f)
      BY <2>1, AppendAtEnd DEF Push, TypeOK
    <3>2. f \notin Range(functors \o pendingFunctors) \cup Range(ran)
      <4>1. queuedBy[f] = None
        BY <2>1 DEF Push
      <4>2. f \notin Range(functors) /\ f \notin Range(pendingFunctors)
               /\ f \notin Range(ran)
        BY <4>1 DEF QueuedInv, Range, TypeOK
      <4>3. QED
        BY <4>2, RangeOfConcat DEF TypeOK
    <3>3. QED
      BY <2>1, <3>1, <3>2 DEF FQ!Enqueue, FQ!Range, Range
  <2>2. ASSUME UNCHANGED <<pendingFunctors, functors, ran>>
        PROVE  UNCHANGED FQ!vars
    BY <2>2
  <2>3. CASE DoPendingFunctors
    <3>1. functors = <<>>
      BY <2>3 DEF DoPendingFunctors, TypeOK
    <3>2. functors \o pendingFunctors = pendingFunctors
             /\ functors' \o pendingFunctors' = pendingFunctors
      BY <2>3, <3>1 DEF DoPendingFunctors, TypeOK
    <3>3. QED
      BY <2>3, <3>2 DEF DoPendingFunctors
  <2>4. CASE RunFunctor
    BY <2>4, TakeFromFront DEF RunFunctor, TypeOK, FQ!Next, FQ!RunHead
  <2>5. QED
    BY <2>1, <2>2, <2>3, <2>4 DEF Next, LoopWork, QueueInLoop, QueueFromLoop,
       Wakeup, Quit, PollReturn, PollReturns, PollTimeout, StartLoop, HandleRead,
       HandleChannel, CallbackReturn, NextIteration, vars, FQ!Next
<1>3. QED
  BY <1>1, <1>2, TypeCorrect, QueuedInvariant, PTL
     DEF Spec, QueueIsFIFO, FQ!Spec
=============================================================================
