------------------------- MODULE BlockingQueueProofs ------------------------
(* Theorems about BlockingQueue for any threads, items and capacity: the    *)
(* queue is first in, first out and keeps its bound, and one notify per put *)
(* and per take wakes enough threads.                                       *)
EXTENDS BlockingQueue, SequenceTheorems, FiniteSetTheorems, TLAPS

(* What the steps rely on: the types, that only threads inside a call wait, *)
(* that nobody waits for room in a queue without a bound, and that finitely *)
(* many threads are inside a call, however many there are.                  *)
QueueTypes ==
    /\ capacity \in Nat
    /\ queue \in Seq(Items) /\ accepted \in Seq(Items) /\ delivered \in Seq(Items)
    /\ putting \in [Putters -> Items \cup {None}]
    /\ fresh \subseteq Items

WaitersInv ==
    /\ notEmpty \subseteq taking /\ taking \subseteq Takers
    /\ notFull \subseteq Puts
    /\ capacity = 0 => notFull = {}
    /\ IsFiniteSet(taking) /\ IsFiniteSet(Puts)

\* Every operation keeps the types of the queue and of the history.
LEMMA QueueTypesInvariant == Spec => []QueueTypes
<1>1. Init => QueueTypes
  BY QueueAssumption DEF Init, QueueTypes
<1>2. QueueTypes /\ [Next]_vars => QueueTypes'
  <2> SUFFICES ASSUME QueueTypes, [Next]_vars PROVE QueueTypes'
    OBVIOUS
  <2> USE QueueAssumption DEF QueueTypes, itemVars, condVars
  <2>1. ASSUME NEW p \in Putters, NEW x \in Items, CallPut(p, x)
        PROVE  QueueTypes'
    BY <2>1 DEF CallPut
  <2>2. ASSUME NEW p \in Putters, PutWait(p) PROVE QueueTypes'
    BY <2>2 DEF PutWait
  <2>3. ASSUME NEW p \in Putters, Put(p) PROVE QueueTypes'
    <3>1. putting[p] \in Items
      BY <2>3 DEF Put
    <3>2. QED
      BY <2>3, <3>1 DEF Put
  <2>4. ASSUME NEW t \in Takers, CallTake(t) PROVE QueueTypes'
    BY <2>4 DEF CallTake
  <2>5. ASSUME NEW t \in Takers, TakeWait(t) PROVE QueueTypes'
    BY <2>5 DEF TakeWait
  <2>6. ASSUME NEW t \in Takers, Take(t) PROVE QueueTypes'
    <3>1. Head(queue) \in Items /\ Tail(queue) \in Seq(Items)
      BY <2>6 DEF Take
    <3>2. QED
      BY <2>6, <3>1 DEF Take
  <2>7. CASE Drain
    BY <2>7 DEF Drain
  <2>8. CASE SpuriousWakeup
    BY <2>8 DEF SpuriousWakeup
  <2>9. CASE UNCHANGED vars
    BY <2>9 DEF vars
  <2>10. QED
    BY <2>1, <2>2, <2>3, <2>4, <2>5, <2>6, <2>7, <2>8, <2>9
       DEF Next, PutterStep, TakerStep
<1>3. QED
  BY <1>1, <1>2, PTL DEF Spec

-----------------------------------------------------------------------------
\* An item that moves from the front of a queue to the end of what came before.
LEMMA MoveToEnd ==
    ASSUME NEW S, NEW d \in Seq(S), NEW q \in Seq(S), q # <<>>
    PROVE  Append(d, Head(q)) \o Tail(q) = d \o q
<1>1. Head(q) \in S /\ Tail(q) \in Seq(S) /\ Len(q) > 0
         /\ Len(Tail(q)) = Len(q) - 1
  OBVIOUS
<1>2. Append(d, Head(q)) \o Tail(q) \in Seq(S) /\ d \o q \in Seq(S)
  BY <1>1
<1>3. Len(Append(d, Head(q)) \o Tail(q)) = Len(d \o q)
  BY <1>1
<1>4. \A i \in 1..Len(d \o q) : (Append(d, Head(q)) \o Tail(q))[i] = (d \o q)[i]
  BY <1>1
<1>5. QED
  BY <1>2, <1>3, <1>4, SeqEqual

LEMMA AppendAfter ==
    ASSUME NEW S, NEW d \in Seq(S), NEW q \in Seq(S), NEW e \in S
    PROVE  d \o Append(q, e) = Append(d \o q, e)
  BY AppendIsConcat, ConcatAssociative, ConcatProperties

(* put(), take() and drain() by any threads in any order: the items leave   *)
(* in the order they entered, none is lost or repeated, and a bounded queue *)
(* never holds more than maxSize_ items.                                    *)
THEOREM BlockingQueueIsFIFO == Spec => []FIFO
<1>1. Init => FIFO
  <2> SUFFICES ASSUME Init PROVE FIFO
    OBVIOUS
  <2>1. <<>> \o <<>> = <<>> /\ Len(<<>>) = 0
    OBVIOUS
  <2>2. QED
    BY <2>1, QueueAssumption DEF Init, FIFO
<1>2. QueueTypes /\ FIFO /\ [Next]_vars => FIFO'
  <2> SUFFICES ASSUME QueueTypes, FIFO, [Next]_vars PROVE FIFO'
    OBVIOUS
  <2> USE DEF FIFO
  <2>1. ASSUME NEW p \in Putters, Put(p) PROVE FIFO'
    <3>1. putting[p] \in Items
      BY <2>1 DEF Put, QueueTypes
    <3>2. accepted' = delivered' \o queue'
      <4>1. delivered \o Append(queue, putting[p])
               = Append(delivered \o queue, putting[p])
        BY <3>1, AppendAfter DEF QueueTypes
      <4>2. QED
        BY <2>1, <4>1 DEF Put
    <3>3. Len(queue') = Len(queue) + 1 /\ Len(queue) \in Nat
      BY <2>1, <3>1 DEF Put, QueueTypes
    <3>4. QED
      BY <2>1, <3>2, <3>3 DEF Put, IsFull, QueueTypes
  <2>2. ASSUME NEW t \in Takers, Take(t) PROVE FIFO'
    <3>1. accepted' = delivered' \o queue'
      BY <2>2, MoveToEnd DEF Take, QueueTypes
    <3>2. Len(queue') = Len(queue) - 1 /\ Len(queue) \in Nat
      BY <2>2 DEF Take, QueueTypes
    <3>3. QED
      BY <2>2, <3>1, <3>2 DEF Take, QueueTypes
  <2>3. CASE Drain
    <3>1. delivered' \in Seq(Items) /\ delivered' \o <<>> = delivered'
      BY <2>3 DEF Drain, QueueTypes
    <3>2. QED
      BY <2>3, <3>1 DEF Drain
  <2>4. ASSUME UNCHANGED <<capacity, queue, accepted, delivered>> PROVE FIFO'
    BY <2>4
  <2>5. QED
    BY <2>1, <2>2, <2>3, <2>4 DEF Next, PutterStep, TakerStep, CallPut, PutWait,
       CallTake, TakeWait, SpuriousWakeup, vars, itemVars
<1>3. QED
  BY <1>1, <1>2, QueueTypesInvariant, PTL DEF Spec
-----------------------------------------------------------------------------
\* Only threads inside a call wait, and finitely many are inside one.
LEMMA WaitersInvariant == Spec => []WaitersInv
<1>1. Init => WaitersInv
  <2> SUFFICES ASSUME Init PROVE WaitersInv
    OBVIOUS
  <2>1. taking = {} /\ Puts = {}
    BY DEF Init, Puts
  <2>2. QED
    BY <2>1, FS_EmptySet DEF Init, WaitersInv
<1>2. QueueTypes /\ WaitersInv /\ [Next]_vars => WaitersInv'
  <2> SUFFICES ASSUME QueueTypes, WaitersInv, [Next]_vars PROVE WaitersInv'
    OBVIOUS
  <2> USE DEF WaitersInv, itemVars, condVars
  <2>1. ASSUME NEW p \in Putters, NEW x \in Items, CallPut(p, x)
        PROVE  WaitersInv'
    <3>1. Puts' = Puts \cup {p}
      BY <2>1, QueueAssumption DEF CallPut, Puts, QueueTypes
    <3>2. IsFiniteSet(Puts')
      BY <3>1, FS_AddElement
    <3>3. QED
      BY <2>1, <3>1, <3>2 DEF CallPut
  <2>2. ASSUME NEW p \in Putters, PutWait(p) PROVE WaitersInv'
    BY <2>2 DEF PutWait, Puts, IsFull, QueueTypes
  <2>3. ASSUME NEW p \in Putters, Put(p) PROVE WaitersInv'
    <3>1. Puts' = Puts \ {p}
      BY <2>3, QueueAssumption DEF Put, Puts, QueueTypes
    <3>2. IsFiniteSet(Puts')
      BY <3>1, FS_RemoveElement
    <3>3. notEmpty' \subseteq notEmpty
      BY <2>3 DEF Put, PutNotifies, Notify
    <3>4. QED
      BY <2>3, <3>1, <3>2, <3>3 DEF Put
  <2>4. ASSUME NEW t \in Takers, CallTake(t) PROVE WaitersInv'
    <3>1. IsFiniteSet(taking')
      BY <2>4, FS_AddElement DEF CallTake
    <3>2. QED
      BY <2>4, <3>1 DEF CallTake, Puts
  <2>5. ASSUME NEW t \in Takers, TakeWait(t) PROVE WaitersInv'
    BY <2>5 DEF TakeWait, Puts
  <2>6. ASSUME NEW t \in Takers, Take(t) PROVE WaitersInv'
    <3>1. IsFiniteSet(taking')
      BY <2>6, FS_RemoveElement DEF Take
    <3>2. notFull' \subseteq notFull
      BY <2>6 DEF Take, TakeNotifies, Notify
    <3>3. QED
      BY <2>6, <3>1, <3>2 DEF Take, Puts
  <2>7. CASE Drain
    BY <2>7 DEF Drain, Puts
  <2>8. CASE SpuriousWakeup
    BY <2>8 DEF SpuriousWakeup, Puts
  <2>9. CASE UNCHANGED vars
    BY <2>9 DEF vars, Puts
  <2>10. QED
    BY <2>1, <2>2, <2>3, <2>4, <2>5, <2>6, <2>7, <2>8, <2>9
       DEF Next, PutterStep, TakerStep
<1>3. QED
  BY <1>1, <1>2, QueueTypesInvariant, PTL DEF Spec

\* One thread more, or one less, of finitely many.
LEMMA OneMore ==
    ASSUME NEW S, IsFiniteSet(S), NEW x
    PROVE  /\ Cardinality(S \cup {x}) \in Nat
           /\ Cardinality(S \cup {x}) >= Cardinality(S)
<1>1. Cardinality(S) \in Nat
  BY FS_CardinalityType
<1>2. Cardinality(S \cup {x}) = Cardinality(S)
         \/ Cardinality(S \cup {x}) = Cardinality(S) + 1
  BY FS_AddElement
<1>3. QED
  BY <1>1, <1>2

LEMMA OneLess ==
    ASSUME NEW S, IsFiniteSet(S), NEW x
    PROVE  Cardinality(S \ {x}) \in Nat
<1>1. IsFiniteSet(S \ {x})
  BY FS_RemoveElement
<1>2. QED
  BY <1>1, FS_CardinalityType

\* A notify of a set of waiters: one more thread is awake, or nobody waits.
LEMMA NotifyWakesOne ==
    ASSUME NEW inside, NEW waiters, IsFiniteSet(inside), waiters \subseteq inside,
           NEW left \in Notify(waiters), left # {}
    PROVE  Cardinality(inside \ left) = Cardinality(inside \ waiters) + 1
<1>1. PICK t \in waiters : left = waiters \ {t}
  BY DEF Notify
<1>2. inside \ left = (inside \ waiters) \cup {t} /\ t \notin inside \ waiters
  BY <1>1
<1>3. IsFiniteSet(inside \ waiters)
  BY FS_Difference
<1>4. QED
  BY <1>2, <1>3, FS_AddElement

(* Whoever overtakes whom between a notify and the woken thread's return    *)
(* from wait(): as long as a taker sleeps there is an awake taker for every *)
(* item, and as long as a putter sleeps an awake putter for every free      *)
(* place.  A put uses up one awake putter and, unless no taker is left      *)
(* asleep, wakes one taker; a take the other way round; a thread goes to    *)
(* sleep only when there is nothing to do for its side.                     *)
THEOREM NotifyOneSuffices == Spec => []WakeupsSuffice
<1>1. Init => WakeupsSuffice
  BY DEF Init, WakeupsSuffice
<1>2. QueueTypes /\ WaitersInv /\ WakeupsSuffice /\ [Next]_vars
         => WakeupsSuffice'
  <2> SUFFICES ASSUME QueueTypes, WaitersInv, WakeupsSuffice, [Next]_vars
               PROVE  WakeupsSuffice'
    OBVIOUS
  <2> DEFINE Takes == taking \ notEmpty
             Waits == Puts \ notFull
  <2>0. /\ IsFiniteSet(Takes) /\ Cardinality(Takes) \in Nat
        /\ IsFiniteSet(Waits) /\ Cardinality(Waits) \in Nat
        /\ Len(queue) \in Nat /\ capacity \in Nat
    <3>1. IsFiniteSet(Takes) /\ IsFiniteSet(Waits)
      BY FS_Difference DEF WaitersInv
    <3>2. Cardinality(Takes) \in Nat /\ Cardinality(Waits) \in Nat
      BY <3>1, FS_CardinalityType
    <3>3. QED
      BY <3>1, <3>2 DEF QueueTypes
  <2> USE DEF itemVars, condVars
  <2>1. ASSUME NEW p \in Putters, NEW x \in Items, CallPut(p, x)
        PROVE  WakeupsSuffice'
    <3>1. Waits' = Waits \cup {p}
      BY <2>1, QueueAssumption DEF CallPut, Puts, QueueTypes, WaitersInv
    <3>2. Cardinality(Waits') \in Nat /\ Cardinality(Waits') >= Cardinality(Waits)
      BY <2>0, <3>1, OneMore
    <3>3. QED
      BY <2>0, <2>1, <3>2 DEF CallPut, WakeupsSuffice
  <2>2. ASSUME NEW p \in Putters, PutWait(p) PROVE WakeupsSuffice'
    <3>1. Cardinality(Waits') \in Nat
      <4>1. Waits' = Waits \ {p}
        BY <2>2 DEF PutWait, Puts
      <4>2. QED
        BY <2>0, <4>1, OneLess
    <3>2. QED
      BY <2>0, <2>2, <3>1 DEF PutWait, IsFull, WakeupsSuffice
  <2>3. ASSUME NEW p \in Putters, Put(p) PROVE WakeupsSuffice'
    <3>1. Len(queue') = Len(queue) + 1
      BY <2>3 DEF Put, QueueTypes
    <3>2. ASSUME notEmpty' # {}
          PROVE  Len(queue') <= Cardinality(taking' \ notEmpty')
      <4>1. Cardinality(taking \ notEmpty') = Cardinality(Takes) + 1
        BY <2>3, <3>2, NotifyWakesOne DEF Put, PutNotifies, WaitersInv
      <4>2. notEmpty # {}
        BY <2>3, <3>2 DEF Put, PutNotifies, Notify
      <4>3. QED
        BY <2>0, <2>3, <3>1, <4>1, <4>2 DEF Put, WakeupsSuffice
    <3>3. ASSUME notFull' # {}
          PROVE  capacity' - Len(queue') <= Cardinality(Puts' \ notFull')
      <4>1. Waits' = Waits \ {p} /\ p \in Waits
        BY <2>3, QueueAssumption DEF Put, Puts, QueueTypes
      <4>2. Cardinality(Waits') = Cardinality(Waits) - 1
        BY <2>0, <4>1, FS_RemoveElement, ZenonT(60)
      <4>3. QED
        BY <2>0, <2>3, <3>1, <3>3, <4>2 DEF Put, WakeupsSuffice
    <3>4. QED
      BY <3>2, <3>3 DEF WakeupsSuffice
  <2>4. ASSUME NEW t \in Takers, CallTake(t) PROVE WakeupsSuffice'
    <3>1. Takes' = Takes \cup {t}
      BY <2>4 DEF CallTake, WaitersInv
    <3>2. Cardinality(Takes') \in Nat /\ Cardinality(Takes') >= Cardinality(Takes)
      BY <2>0, <3>1, OneMore
    <3>3. QED
      BY <2>0, <2>4, <3>2 DEF CallTake, WakeupsSuffice, Puts
  <2>5. ASSUME NEW t \in Takers, TakeWait(t) PROVE WakeupsSuffice'
    <3>1. Cardinality(Takes') \in Nat
      <4>1. Takes' = Takes \ {t}
        BY <2>5 DEF TakeWait
      <4>2. QED
        BY <2>0, <4>1, OneLess
    <3>2. Len(queue') = 0
      BY <2>5 DEF TakeWait
    <3>3. QED
      BY <2>0, <2>5, <3>1, <3>2 DEF TakeWait, WakeupsSuffice, Puts
  <2>6. ASSUME NEW t \in Takers, Take(t) PROVE WakeupsSuffice'
    <3>1. Len(queue') = Len(queue) - 1
      BY <2>6 DEF Take, QueueTypes
    <3>2. ASSUME notEmpty' # {}
          PROVE  Len(queue') <= Cardinality(taking' \ notEmpty')
      <4>1. Takes' = Takes \ {t} /\ t \in Takes
        BY <2>6 DEF Take
      <4>2. Cardinality(Takes') = Cardinality(Takes) - 1
        BY <2>0, <4>1, FS_RemoveElement
      <4>3. QED
        BY <2>0, <2>6, <3>1, <3>2, <4>2 DEF Take, WakeupsSuffice
    <3>3. ASSUME notFull' # {}
          PROVE  capacity' - Len(queue') <= Cardinality(Puts' \ notFull')
      <4>1. notFull # {} /\ notFull' \in Notify(notFull)
        BY <2>0, <2>6, <3>3 DEF Take, TakeNotifies, Notify, WaitersInv
      <4>2. Cardinality(Puts \ notFull') = Cardinality(Waits) + 1
        BY <3>3, <4>1, NotifyWakesOne DEF WaitersInv
      <4>3. Puts' = Puts
        BY <2>6 DEF Take, Puts
      <4>4. QED
        BY <2>0, <2>6, <3>1, <4>1, <4>2, <4>3 DEF Take, WakeupsSuffice
    <3>4. QED
      BY <3>2, <3>3 DEF WakeupsSuffice
  <2>7. CASE Drain
    BY <2>0, <2>7 DEF Drain, WakeupsSuffice, Puts, WaitersInv
  <2>8. CASE SpuriousWakeup
    <3>1. ASSUME NEW t \in notEmpty, notEmpty' = notEmpty \ {t},
                 UNCHANGED <<capacity, itemVars, putting, taking, notFull, fresh>>
          PROVE  WakeupsSuffice'
      <4>1. Takes' = Takes \cup {t}
        BY <3>1 DEF WaitersInv
      <4>2. Cardinality(Takes') \in Nat /\ Cardinality(Takes') >= Cardinality(Takes)
        BY <2>0, <4>1, OneMore
      <4>3. QED
        BY <2>0, <3>1, <4>2 DEF WakeupsSuffice, Puts
    <3>2. ASSUME NEW p \in notFull, notFull' = notFull \ {p},
                 UNCHANGED <<capacity, itemVars, putting, taking, notEmpty, fresh>>
          PROVE  WakeupsSuffice'
      <4>1. Waits' = Waits \cup {p}
        BY <3>2 DEF WaitersInv, Puts
      <4>2. Cardinality(Waits') \in Nat /\ Cardinality(Waits') >= Cardinality(Waits)
        BY <2>0, <4>1, OneMore
      <4>3. QED
        BY <2>0, <3>2, <4>2 DEF WakeupsSuffice, Puts
    <3>3. QED
      BY <2>8, <3>1, <3>2 DEF SpuriousWakeup
  <2>9. CASE UNCHANGED vars
    BY <2>9 DEF vars, WakeupsSuffice, Puts
  <2>10. QED
    BY <2>1, <2>2, <2>3, <2>4, <2>5, <2>6, <2>7, <2>8, <2>9
       DEF Next, PutterStep, TakerStep
<1>3. QED
  BY <1>1, <1>2, QueueTypesInvariant, WaitersInvariant, PTL DEF Spec
=============================================================================
