---------------------------- MODULE TcpServerProofs -------------------------
(* Theorems about TcpServer for any number of IO threads, connections and   *)
(* descriptors: the handshake that starts the threads hands out loops that  *)
(* are there, no raw pointer dangles and no assertion fails.  Then about    *)
(* Acceptor: no descriptor leaks.                                           *)
EXTENDS TcpServer, Acceptor, SequenceTheorems, WellFoundedInduction, TLAPS

(* The thread that starts the pool, and the IO threads.                     *)
Starting == {"create", "tidLatch", "loopLatch"}
Serving == {"serving", "dtor", "join", "destroyed"}
Places == {"unborn", "tid", "tidDown", "construct", "loopDown", "enter", "looping"}

PoolTypes ==
    /\ numThreads \in Nat /\ cur \in Nat /\ next \in Nat
    /\ base \in {"idle", "started"} \cup Starting \cup Serving
    /\ pc \in [Threads -> Places]
    /\ tid \in [Threads -> BOOLEAN] /\ loop \in [Threads -> BOOLEAN]
    /\ tidLatch \in [Threads -> Int] /\ loopLatch \in [Threads -> Int]
    /\ loops \in Seq(BOOLEAN)

(* A latch is open exactly when its thread has passed the countDown, and    *)
(* then what it publishes was stored.                                       *)
ThreadInv ==
    \A t \in Threads :
        /\ tidLatch[t] = IF pc[t] \in {"unborn", "tid", "tidDown"} THEN 1 ELSE 0
        /\ loopLatch[t] = IF pc[t] \in {"enter", "looping"} THEN 0 ELSE 1
        /\ pc[t] \notin {"unborn", "tid"} => tid[t] = TRUE
        /\ pc[t] \in {"loopDown", "enter", "looping"} => loop[t] = TRUE

(* The threads are started in order, and loops_ is as long as the number of *)
(* those that are done.                                                     *)
StarterInv ==
    /\ base = "idle" => /\ cur = 1 /\ loops = <<>>
                        /\ \A t \in Threads : pc[t] = "unborn"
    /\ base \in Starting =>
         /\ cur \in Threads /\ Len(loops) = cur - 1
         /\ \A t \in Threads : t > cur \/ (t = cur /\ base = "create")
                                  => pc[t] = "unborn"
    /\ base \in Serving \cup {"started"} => Len(loops) = numThreads
    /\ next = 1 \/ next \in 1..Len(loops)
    /\ \A t \in 1..Len(loops) : loops[t] = TRUE /\ pc[t] \in {"enter", "looping"}

PoolInv == PoolTypes /\ ThreadInv /\ StarterInv

\* Which steps of the server concern the pool.
LEMMA PoolSteps ==
    ASSUME [Next]_vars
    PROVE  \/ StartPool \/ StarterStep \/ SpuriousWakeup
           \/ \E t \in Threads : ThreadStep(t)
           \/ StartListening \/ DestroyServer \/ NewConnection
           \/ UNCHANGED poolVars
  BY DEF Next, StartThreads, PeerCloses, UserShutsDown, LoopStep, Poll, AcceptEnds,
     HandleClose, DoPendingFunctors, RunFunctor, EndBatch, vars

LEMMA AppendEntry ==
    ASSUME NEW S, NEW s \in Seq(S), NEW e \in S
    PROVE  /\ Append(s, e) \in Seq(S) /\ Len(Append(s, e)) = Len(s) + 1
           /\ \A i \in 1..(Len(s) + 1) :
                 Append(s, e)[i] = IF i = Len(s) + 1 THEN e ELSE s[i]
  OBVIOUS

\* A step of an IO thread that exists cannot surprise the starting thread.
LEMMA ThreadMoves ==
    ASSUME PoolInv, NEW t \in Threads, NEW p \in Places, UNCHANGED starterVars,
           pc' = [pc EXCEPT ![t] = p], pc[t] # "unborn",
           pc[t] \in {"enter", "looping"} => p \in {"enter", "looping"}
    PROVE  StarterInv' /\ pc' \in [Threads' -> Places]
<1> USE DEF PoolInv, PoolTypes, StarterInv, starterVars, Threads, Starting
<1>1. pc' \in [Threads' -> Places]
  OBVIOUS
<1>2. base' \notin {"idle", "create"} \/ t # cur
  OBVIOUS
<1>3. \A u \in Threads : u # t => pc'[u] = pc[u]
  OBVIOUS
<1>4. \A u \in Threads : pc[u] = "unborn" => pc'[u] = "unborn"
  BY <1>3
<1>5. \A u \in 1..Len(loops) : u \in Threads
  OBVIOUS
<1>6. \A u \in 1..Len(loops) : pc'[u] \in {"enter", "looping"}
  BY <1>3, <1>5
<1>7. QED
  BY <1>1, <1>4, <1>6

(* Whatever the speed of the threads, the invariant of the handshake holds  *)
(* from the constructor to the destructor.                                  *)
LEMMA PoolInvariant == Spec => []PoolInv
<1> USE DEF Starting, Serving, Places, Threads
<1>1. ASSUME Init PROVE PoolInv
  <2>1. PICK n \in ThreadNums : PoolInit(n)
    BY <1>1 DEF Init
  <2>2. n \in Nat
    BY ServerAssumption
  <2>3. PoolTypes
    BY <2>1, <2>2 DEF PoolInit, PoolTypes
  <2>4. ThreadInv
    BY <2>1, <2>2 DEF PoolInit, ThreadInv
  <2>5. StarterInv
    BY <2>1, <2>2 DEF PoolInit, StarterInv
  <2>6. QED
    BY <2>3, <2>4, <2>5 DEF PoolInv
<1>2. PoolInv /\ [Next]_vars => PoolInv'
  <2> SUFFICES ASSUME PoolInv, [Next]_vars PROVE PoolInv'
    OBVIOUS
  <2> USE DEF PoolInv, PoolTypes, starterVars, latchVars, threadVars
  <2>1. CASE StartPool
    BY <2>1 DEF StartPool, ThreadInv, StarterInv
  <2>2. CASE Create
    <3>1. cur \in Threads /\ pc[cur] = "unborn" /\ pc' = [pc EXCEPT ![cur] = "tid"]
      BY <2>2 DEF Create, StarterInv
    <3>2. ThreadInv'
      BY <2>2, <3>1, ZenonT(60) DEF Create, ThreadInv
    <3>3. StarterInv'
      <4>1. /\ UNCHANGED <<numThreads, cur, loops, next>>
            /\ base = "create" /\ base' = "tidLatch"
        BY <2>2 DEF Create
      <4>2. Len(loops) = cur - 1
        BY <4>1 DEF StarterInv
      <4>3. \A u \in Threads : u # cur => pc'[u] = pc[u]
        BY <3>1
      <4>4. \A u \in 1..Len(loops) : u \in Threads /\ u # cur
        BY <3>1, <4>2
      <4>5. \A u \in Threads : u > cur => pc'[u] = "unborn"
        <5>1. \A u \in Threads : u > cur => pc[u] = "unborn"
          BY <4>1 DEF StarterInv
        <5>2. QED
          BY <3>1, <4>3, <5>1
      <4>6. \A u \in 1..Len(loops) : pc'[u] \in {"enter", "looping"}
        BY <4>3, <4>4 DEF StarterInv
      <4>7. QED
        BY <3>1, <4>1, <4>5, <4>6 DEF StarterInv
    <3>4. QED
      BY <2>2, <3>1, <3>2, <3>3 DEF Create
  <2>3. CASE CreateFails
    BY <2>3 DEF CreateFails, ThreadInv, StarterInv
  <2>4. CASE Wait \/ SpuriousWakeup
    <3>1. UNCHANGED <<starterVars, threadVars>>
      BY <2>4 DEF Wait, Sleep, SpuriousWakeup
    <3>2. QED
      BY <3>1 DEF ThreadInv, StarterInv
  <2>5. CASE TidKnown
    BY <2>5 DEF TidKnown, ThreadInv, StarterInv
  <2>6. CASE StartLoopReturns
    <3>1. /\ cur \in Threads /\ pc[cur] \in {"enter", "looping"}
          /\ loop[cur] = TRUE /\ Len(loops) = cur - 1
      BY <2>6 DEF StartLoopReturns, ThreadInv, StarterInv
    <3>2. /\ loops' = Append(loops, TRUE) /\ loops' \in Seq(BOOLEAN)
          /\ Len(loops') = cur
          /\ \A t \in 1..Len(loops') :
                loops'[t] = IF t = cur THEN TRUE ELSE loops[t]
      <4>1. loops' = Append(loops, TRUE)
        BY <2>6, <3>1 DEF StartLoopReturns
      <4>2. TRUE \in BOOLEAN /\ Len(loops) + 1 = cur
        BY <3>1
      <4>3. /\ Append(loops, TRUE) \in Seq(BOOLEAN)
            /\ Len(Append(loops, TRUE)) = Len(loops) + 1
            /\ \A i \in 1..(Len(loops) + 1) :
                  Append(loops, TRUE)[i] = IF i = Len(loops) + 1 THEN TRUE ELSE loops[i]
        BY <4>2, AppendEntry
      <4>4. QED
        BY <4>1, <4>2, <4>3
    <3>3. UNCHANGED <<numThreads, next, threadVars>>
      BY <2>6 DEF StartLoopReturns
    <3>4. \/ cur < numThreads /\ base' = "create" /\ cur' = cur + 1
          \/ cur = numThreads /\ base' = "started" /\ cur' = cur
      BY <2>6, <3>1 DEF StartLoopReturns
    <3>5. base = "loopLatch"
      BY <2>6 DEF StartLoopReturns
    <3>6. PoolTypes' /\ ThreadInv'
      BY <3>2, <3>3, <3>4 DEF ThreadInv
    <3>7. \A t \in 1..Len(loops') : loops'[t] = TRUE /\ pc'[t] \in {"enter", "looping"}
      BY <3>1, <3>2, <3>3 DEF StarterInv
    <3>8. next' = 1 \/ next' \in 1..Len(loops')
      BY <3>1, <3>2, <3>3 DEF StarterInv
    <3>9. base' = "create" =>
             /\ cur' \in Threads' /\ Len(loops') = cur' - 1
             /\ \A t \in Threads' : t > cur' \/ t = cur' => pc'[t] = "unborn"
      BY <3>1, <3>2, <3>3, <3>4, <3>5 DEF StarterInv
    <3>10. base' \in {"create", "started"}
              /\ (base' = "started" => Len(loops') = numThreads')
      BY <3>2, <3>3, <3>4
    <3>11. StarterInv'
      BY <3>7, <3>8, <3>9, <3>10 DEF StarterInv
    <3>12. QED
      BY <3>6, <3>11
  <2>7. CASE QuitLoop
    BY <2>7 DEF QuitLoop, ThreadInv, StarterInv
  <2>8. ASSUME NEW t \in Threads, StoreTid(t) PROVE PoolInv'
    <3>1. StarterInv' /\ pc' \in [Threads' -> Places]
      BY <2>8, ThreadMoves DEF StoreTid
    <3>2. ThreadInv'
      BY <2>8 DEF StoreTid, ThreadInv
    <3>3. QED
      BY <2>8, <3>1, <3>2 DEF StoreTid
  <2>9. ASSUME NEW t \in Threads, TidCountDown(t) PROVE PoolInv'
    <3>1. StarterInv' /\ pc' \in [Threads' -> Places]
      BY <2>9, ThreadMoves DEF TidCountDown
    <3>2. ThreadInv'
      <4>1. tidLatch'[t] = 0 /\ pc[t] = "tidDown"
        BY <2>9 DEF TidCountDown, ThreadInv
      <4>2. \A u \in Threads : u # t => tidLatch'[u] = tidLatch[u] /\ pc'[u] = pc[u]
        BY <2>9 DEF TidCountDown
      <4>3. QED
        BY <2>9, <4>1, <4>2 DEF TidCountDown, ThreadInv
    <3>3. QED
      BY <2>9, <3>1, <3>2 DEF TidCountDown
  <2>10. ASSUME NEW t \in Threads, StoreLoop(t) PROVE PoolInv'
    <3>1. StarterInv' /\ pc' \in [Threads' -> Places]
      BY <2>10, ThreadMoves DEF StoreLoop
    <3>2. ThreadInv'
      BY <2>10 DEF StoreLoop, ThreadInv
    <3>3. QED
      BY <2>10, <3>1, <3>2 DEF StoreLoop
  <2>11. ASSUME NEW t \in Threads, LoopCountDown(t) PROVE PoolInv'
    <3>1. StarterInv' /\ pc' \in [Threads' -> Places]
      BY <2>11, ThreadMoves DEF LoopCountDown
    <3>2. ThreadInv'
      <4>1. loopLatch'[t] = 0 /\ pc[t] = "loopDown"
        <5>1. pc[t] = "loopDown" /\ loopLatch' = [loopLatch EXCEPT ![t] = @ - 1]
          BY <2>11 DEF LoopCountDown
        <5>2. loopLatch[t] = 1
          BY <5>1 DEF ThreadInv
        <5>3. QED
          BY <5>1, <5>2
      <4>2. \A u \in Threads : u # t => loopLatch'[u] = loopLatch[u] /\ pc'[u] = pc[u]
        BY <2>11 DEF LoopCountDown
      <4>3. QED
        BY <2>11, <4>1, <4>2 DEF LoopCountDown, ThreadInv
    <3>3. QED
      BY <2>11, <3>1, <3>2 DEF LoopCountDown
  <2>12. ASSUME NEW t \in Threads, EnterLoop(t) PROVE PoolInv'
    <3>1. StarterInv' /\ pc' \in [Threads' -> Places]
      BY <2>12, ThreadMoves DEF EnterLoop
    <3>2. ThreadInv'
      BY <2>12 DEF EnterLoop, ThreadInv
    <3>3. QED
      BY <2>12, <3>1, <3>2 DEF EnterLoop
  <2>13. CASE StartListening
    BY <2>13 DEF StartListening, ThreadInv, StarterInv
  <2>14. CASE DestroyServer
    BY <2>14 DEF DestroyServer, DestroyPool, ThreadInv, StarterInv
  <2>15. CASE NewConnection
    BY <2>15 DEF NewConnection, NextCursor, ThreadInv, StarterInv
  <2>16. CASE UNCHANGED poolVars
    BY <2>16 DEF poolVars, ThreadInv, StarterInv
  <2>17. QED
    BY <2>1, <2>2, <2>3, <2>4, <2>5, <2>6, <2>7, <2>8, <2>9, <2>10, <2>11, <2>12,
       <2>13, <2>14, <2>15, <2>16, PoolSteps DEF StarterStep, ThreadStep
<1>3. QED
  BY <1>1, <1>2, PTL DEF Spec

-----------------------------------------------------------------------------
(* Connections and loops.                                                   *)
ConnRecords ==
    [life : {"none", "alive", "freed"},
     state : {"kConnecting", "kConnected", "kDisConnecting", "kDisConnected"},
     loop : Nat, fd : Nat, index : {"kNew", "kAdded", "kDeleted"},
     added : BOOLEAN, reading : BOOLEAN]
Functors ==
    [op : {"listen", "connectEstablished", "removeConnectionInLoop",
           "connectDestroyed"},
     c : Conns \cup {NoConn}]

ServerTypes ==
    /\ nextConnId \in Nat \ {0} /\ connMap \in SUBSET Conns
    /\ conn \in [Conns -> ConnRecords]
    /\ channels \in [Loops -> [Fds -> Conns \cup {NoConn}]]
    /\ queue \in [Loops -> Seq(Functors)] /\ batch \in [Loops -> Nat]
    /\ \A l \in Loops : batch[l] <= Len(queue[l])
    /\ held \in [Loops -> SUBSET Conns]
    /\ active \in [Loops -> SUBSET (Conns \cup {ListenChannel})]

\* getNextLoop returns the base loop or one of the pool.
LEMMA NextLoopExists == ASSUME PoolInv PROVE NextLoop \in Loops
  BY DEF PoolInv, PoolTypes, StarterInv, NextLoop, Loops, Threads, Starting, Serving

LEMMA LowestFd ==
    ASSUME NEW S \in SUBSET Nat, S # {}
    PROVE  Min(S) \in S
<1> DEFINE Less == {ss \in Nat \X Nat : ss[1] < ss[2]}
<1>1. IsWellFoundedOn(Less, Nat)
  BY NatLessThanWellFounded DEF OpToRel
<1>2. PICK x \in S : \A y \in S : ~(<<y, x>> \in Less)
  <2> HIDE DEF Less
  <2> QED
    BY <1>1, WFMin
<1>3. ASSUME NEW y \in S PROVE x <= y
  <2>1. x \in Nat /\ y \in Nat
    OBVIOUS
  <2>2. y < x => <<y, x>> \in Less
    BY <2>1
  <2>3. QED
    BY <1>2, <2>1, <2>2
<1>4. QED
  BY <1>3 DEF Min

\* The record of a connection after handleClose.
LEMMA ClosedRecord ==
    ASSUME NEW x \in ConnRecords, x.index = "kAdded",
           NEW y, y = Updated([x EXCEPT !.state = "kDisConnected"], FALSE)
    PROVE  /\ y \in ConnRecords
           /\ y.life = x.life /\ y.loop = x.loop /\ y.fd = x.fd
           /\ y.state = "kDisConnected" /\ y.reading = FALSE /\ y.index = "kDeleted"
<1>1. UpdatedIndex([x EXCEPT !.state = "kDisConnected"], FALSE) = "kDeleted"
  BY DEF UpdatedIndex, ConnRecords
<1>2. y = [[x EXCEPT !.state = "kDisConnected"] EXCEPT
             !.reading = FALSE, !.added = TRUE, !.index = "kDeleted"]
  BY <1>1 DEF Updated
<1>3. QED
  BY <1>2 DEF ConnRecords

(* The life of a connection.  Accepted: connectEstablished waits in the     *)
(* queue of its loop.  Established: registered with the poller.  Closed:    *)
(* handleClose ran and some functor that binds it is under way.  Destroyed: *)
(* only the functors that just ran still refer to it.                       *)
Accepted(c) == Alive(c) /\ conn[c].index = "kNew" /\ c \in connMap
Established(c) == Alive(c) /\ conn[c].index = "kAdded" /\ c \in connMap
Closed(c) ==
    /\ Alive(c) /\ conn[c].index = "kDeleted"
    /\ conn[c].state = "kDisConnected" /\ conn[c].reading = FALSE
Destroyed(c) ==
    /\ Alive(c) /\ conn[c].index = "kNew" /\ conn[c].added = FALSE
    /\ conn[c].state = "kDisConnected" /\ c \notin connMap

StageInv ==
    /\ \A c \in Conns : c >= nextConnId => conn[c].life = "none"
    /\ \A c \in connMap : Alive(c)
    /\ \A c \in Conns : Alive(c) =>
         /\ conn[c].fd \in Fds /\ conn[c].loop \in Loops
         /\ Accepted(c) \/ Established(c) \/ Closed(c) \/ Destroyed(c)
    /\ \A c, d \in Conns : Alive(c) /\ Alive(d) /\ conn[c].fd = conn[d].fd => c = d

(* A functor that waits in the queue of loop l belongs to a connection in   *)
(* the stage it was made for, in the loop that may touch it.                *)
FunctorInv(l, f) ==
    \/ f.op = "listen" /\ f.c = NoConn
    \/ /\ f.op = "connectEstablished"
       /\ f.c \in Conns /\ Accepted(f.c) /\ l = conn[f.c].loop
    \/ /\ f.op = "removeConnectionInLoop"
       /\ f.c \in Conns /\ Closed(f.c) /\ f.c \in connMap /\ l = 0
    \/ /\ f.op = "connectDestroyed"
       /\ f.c \in Conns /\ Closed(f.c) /\ f.c \notin connMap /\ l = conn[f.c].loop

\* No queue holds two functors of one connection.
NoRepeat(q) ==
    \A i, j \in 1..Len(q) : q[i].c = q[j].c /\ q[i].c # NoConn => i = j

QueueInv ==
    /\ \A l \in Loops : \A f \in Range(queue[l]) : FunctorInv(l, f)
    /\ \A l \in Loops : NoRepeat(queue[l])
    /\ \A c \in Conns : Closed(c) => \E l \in Loops : \E f \in Range(queue[l]) : f.c = c

(* Who else refers to a connection: the vector of functors that just ran,   *)
(* activeChannels_, and the poller, which knows exactly the channels that   *)
(* are established or closed.                                               *)
RefInv ==
    /\ \A l \in Loops : \A c \in held[l] : c \notin connMap /\ (Closed(c) \/ Destroyed(c))
    /\ \A l \in Loops : \A c \in active[l] \ {ListenChannel} :
         Established(c) /\ conn[c].loop = l
    /\ \A l \in Loops, fd \in Fds : \A c \in Conns : channels[l][fd] = c =>
         /\ Established(c) \/ Closed(c)
         /\ conn[c].fd = fd /\ conn[c].loop = l
    /\ \A c \in Conns : Established(c) \/ Closed(c) =>
         channels[conn[c].loop][conn[c].fd] = c

\* listen() is called or queued at the end of start() only.
ListenInv ==
    base \notin Serving =>
        listening = FALSE /\ \A l \in Loops : \A f \in Range(queue[l]) : f.op # "listen"

ServerInv ==
    /\ ServerTypes /\ StageInv /\ QueueInv /\ RefInv /\ ListenInv
    /\ fault \in {"none", "acceptor"}

-----------------------------------------------------------------------------
\* The queue of one loop, as a set of functors.
LEMMA RangePush ==
    ASSUME NEW S, NEW q \in Seq(S), NEW f \in S
    PROVE  Range(Append(q, f)) = Range(q) \cup {f}
<1>1. /\ DOMAIN Append(q, f) = 1..(Len(q) + 1) /\ DOMAIN q = 1..Len(q)
      /\ Len(q) \in Nat /\ Append(q, f)[Len(q) + 1] = f
      /\ \A i \in 1..Len(q) : Append(q, f)[i] = q[i]
  OBVIOUS
<1>2. ASSUME NEW g \in Range(Append(q, f)) PROVE g \in Range(q) \cup {f}
  BY <1>1 DEF Range
<1>3. ASSUME NEW g \in Range(q) \cup {f} PROVE g \in Range(Append(q, f))
  <2>1. CASE g = f
    BY <1>1, <2>1 DEF Range
  <2>2. CASE g \in Range(q)
    <3>1. PICK i \in 1..Len(q) : g = q[i]
      BY <1>1, <2>2 DEF Range
    <3>2. i \in DOMAIN Append(q, f) /\ g = Append(q, f)[i]
      BY <1>1, <3>1
    <3>3. QED
      BY <3>2 DEF Range
  <2>3. QED
    BY <2>1, <2>2
<1>4. QED
  BY <1>2, <1>3

LEMMA RangePop ==
    ASSUME NEW S, NEW q \in Seq(S), q # <<>>
    PROVE  Range(q) = Range(Tail(q)) \cup {Head(q)}
<1>1. /\ DOMAIN Tail(q) = 1..(Len(q) - 1) /\ DOMAIN q = 1..Len(q)
      /\ Len(q) \in Nat \ {0} /\ Head(q) = q[1]
      /\ \A i \in 1..(Len(q) - 1) : Tail(q)[i] = q[i + 1]
  OBVIOUS
<1>2. ASSUME NEW g \in Range(q) PROVE g \in Range(Tail(q)) \cup {Head(q)}
  <2>1. PICK i \in 1..Len(q) : g = q[i]
    BY <1>1 DEF Range
  <2>2. CASE i = 1
    BY <1>1, <2>1, <2>2
  <2>3. CASE i # 1
    <3>1. i - 1 \in DOMAIN Tail(q) /\ g = Tail(q)[i - 1]
      BY <1>1, <2>1, <2>3
    <3>2. QED
      BY <3>1 DEF Range
  <2>4. QED
    BY <2>2, <2>3
<1>3. ASSUME NEW g \in Range(Tail(q)) PROVE g \in Range(q)
  <2>1. PICK i \in 1..(Len(q) - 1) : g = Tail(q)[i]
    BY <1>1 DEF Range
  <2>2. i + 1 \in DOMAIN q /\ g = q[i + 1]
    BY <1>1, <2>1
  <2>3. QED
    BY <2>2 DEF Range
<1>4. Head(q) \in Range(q)
  BY <1>1 DEF Range
<1>5. QED
  BY <1>2, <1>3, <1>4

LEMMA NoRepeatPush ==
    ASSUME NEW q \in Seq(Functors), NEW f \in Functors, NoRepeat(q),
           f.c = NoConn \/ \A g \in Range(q) : g.c # f.c
    PROVE  NoRepeat(Append(q, f))
<1>1. /\ Len(Append(q, f)) = Len(q) + 1 /\ Len(q) \in Nat
      /\ Append(q, f)[Len(q) + 1] = f
      /\ \A i \in 1..Len(q) : Append(q, f)[i] = q[i]
  OBVIOUS
<1>2. \A i \in 1..Len(q) : f.c = NoConn \/ q[i].c # f.c
  BY DEF Range
<1>3. QED
  BY <1>1, <1>2 DEF NoRepeat

LEMMA NoRepeatPop ==
    ASSUME NEW q \in Seq(Functors), NoRepeat(q), q # <<>>
    PROVE  /\ NoRepeat(Tail(q))
           /\ Head(q).c # NoConn => \A g \in Range(Tail(q)) : g.c # Head(q).c
<1>1. /\ Len(Tail(q)) = Len(q) - 1 /\ Len(q) \in Nat \ {0} /\ Head(q) = q[1]
      /\ \A i \in 1..(Len(q) - 1) : Tail(q)[i] = q[i + 1] /\ i + 1 \in 1..Len(q)
      /\ DOMAIN Tail(q) = 1..(Len(q) - 1)
  OBVIOUS
<1>2. NoRepeat(Tail(q))
  BY <1>1 DEF NoRepeat
<1>3. ASSUME Head(q).c # NoConn, NEW g \in Range(Tail(q)) PROVE g.c # Head(q).c
  <2>1. PICK i \in 1..(Len(q) - 1) : g = q[i + 1]
    BY <1>1 DEF Range
  <2>2. QED
    BY <1>1, <1>3, <2>1 DEF NoRepeat
<1>4. QED
  BY <1>2, <1>3

\* The queues of all loops when a functor is added to one of them.
LEMMA Push ==
    ASSUME NEW q \in [Loops -> Seq(Functors)], NEW r \in [Loops -> Seq(Functors)],
           NEW m \in Loops, NEW g \in Functors,
           r[m] = Append(q[m], g), \A l \in Loops : l # m => r[l] = q[l],
           \A l \in Loops : NoRepeat(q[l]),
           g.c = NoConn \/ \A f \in Range(q[m]) : f.c # g.c
    PROVE  /\ \A l \in Loops : NoRepeat(r[l]) /\ Len(q[l]) <= Len(r[l])
           /\ Range(r[m]) = Range(q[m]) \cup {g}
           /\ \A l \in Loops : l # m => Range(r[l]) = Range(q[l])
<1>1. Len(q[m]) <= Len(r[m])
  <2>1. Len(q[m]) \in Nat /\ Len(r[m]) = Len(q[m]) + 1
    OBVIOUS
  <2>2. QED
    BY <2>1
<1>2. NoRepeat(r[m])
  BY NoRepeatPush
<1>3. Range(r[m]) = Range(q[m]) \cup {g}
  BY RangePush
<1>4. \A l \in Loops : Len(q[l]) <= Len(q[l])
  OBVIOUS
<1>5. \A l \in Loops : NoRepeat(r[l]) /\ Len(q[l]) <= Len(r[l])
  <2> SUFFICES ASSUME NEW l \in Loops PROVE NoRepeat(r[l]) /\ Len(q[l]) <= Len(r[l])
    OBVIOUS
  <2>1. CASE l = m
    BY <1>1, <1>2, <2>1, Zenon
  <2>2. CASE l # m
    BY <1>4, <2>2
  <2>3. QED
    BY <2>1, <2>2
<1>6. QED
  BY <1>3, <1>5

(* What happens to one connection leaves the stage of the others alone, and *)
(* with it what is known of their functors.                                 *)
LEMMA OthersKeepStage ==
    ASSUME NEW c \in Conns, numThreads' = numThreads,
           \A d \in Conns : d # c => /\ conn'[d] = conn[d]
                                     /\ d \in connMap' <=> d \in connMap
    PROVE  /\ \A d \in Conns : d # c =>
                /\ Alive(d)' <=> Alive(d)
                /\ Accepted(d)' <=> Accepted(d)
                /\ Established(d)' <=> Established(d)
                /\ Closed(d)' <=> Closed(d)
                /\ Destroyed(d)' <=> Destroyed(d)
           /\ \A l \in Loops : \A f \in Functors : f.c # c =>
                (FunctorInv(l, f)' <=> FunctorInv(l, f))
<1>1. \A d \in Conns : d # c =>
         /\ Alive(d)' <=> Alive(d)
         /\ Accepted(d)' <=> Accepted(d)
         /\ Established(d)' <=> Established(d)
         /\ Closed(d)' <=> Closed(d)
         /\ Destroyed(d)' <=> Destroyed(d)
  BY DEF Alive, Accepted, Established, Closed, Destroyed
<1>2. ASSUME NEW l \in Loops, NEW f \in Functors, f.c # c
      PROVE  FunctorInv(l, f)' <=> FunctorInv(l, f)
  <2>1. f.c \in Conns => /\ Accepted(f.c)' <=> Accepted(f.c)
                         /\ Closed(f.c)' <=> Closed(f.c)
                         /\ f.c \in connMap' <=> f.c \in connMap
                         /\ conn'[f.c] = conn[f.c]
    BY <1>1, <1>2
  <2>2. QED
    BY <2>1 DEF FunctorInv
<1>3. QED
  BY <1>1, <1>2

\* The stages exclude each other.
LEMMA OneStage ==
    ASSUME NEW c
    PROVE  /\ Accepted(c) => ~Established(c) /\ ~Closed(c) /\ ~Destroyed(c)
           /\ Established(c) => ~Closed(c) /\ ~Destroyed(c)
           /\ Closed(c) => ~Destroyed(c)
  BY DEF Accepted, Established, Closed, Destroyed

\* What connects a functor that waits, and a connection that is known.
LEMMA FunctorStage ==
    ASSUME ServerInv, NEW l \in Loops, NEW f \in Range(queue[l])
    PROVE  /\ f \in Functors /\ FunctorInv(l, f)
           /\ f.c # NoConn => /\ f.c \in Conns /\ Alive(f.c)
                              /\ Accepted(f.c) \/ Closed(f.c)
<1>1. f \in Functors
  BY DEF ServerInv, ServerTypes, Range
<1>2. FunctorInv(l, f)
  BY DEF ServerInv, QueueInv
<1>3. QED
  BY <1>1, <1>2 DEF FunctorInv, Accepted, Closed

LEMMA ServerInit == ASSUME Init PROVE ServerInv
<1>1. PICK n \in ThreadNums : PoolInit(n)
  BY DEF Init
<1>2. /\ numThreads = n /\ n \in Nat /\ fault = "none" /\ base = "idle"
  BY <1>1, ServerAssumption DEF PoolInit
<1>3. Unborn \in ConnRecords /\ Unborn.life = "none"
  BY DEF Unborn, ConnRecords
<1>4. \A c \in Conns : ~Alive(c) /\ conn[c].life = "none"
  BY <1>3 DEF Init, Alive
<1>5. \A l \in Loops : queue[l] = <<>> /\ Range(queue[l]) = {} /\ NoRepeat(queue[l])
  BY DEF Init, Range, NoRepeat
<1>6. ServerTypes
  BY <1>2, <1>3 DEF Init, ServerTypes
<1>7. \A c \in Conns : ~Established(c) /\ ~Closed(c)
  BY <1>4 DEF Established, Closed
<1>8. StageInv /\ QueueInv
  BY <1>4, <1>5, <1>7 DEF Init, StageInv, QueueInv
<1>9. RefInv
  BY <1>4, <1>7, ServerAssumption DEF Init, RefInv, NoConn, Conns, ListenChannel
<1>10. ListenInv
  BY <1>5 DEF Init, ListenInv
<1>11. QED
  BY <1>2, <1>6, <1>8, <1>9, <1>10 DEF ServerInv

-----------------------------------------------------------------------------
(* One lemma per action.  The predicates on the state of connections and    *)
(* queues, when neither changes.                                            *)
LEMMA SameConnections ==
    ASSUME ServerInv, UNCHANGED <<numThreads, connMap, conn, channels, nextConnId>>
    PROVE  /\ Loops' = Loops /\ StageInv'
           /\ \A c \in Conns : /\ Accepted(c)' <=> Accepted(c)
                               /\ Established(c)' <=> Established(c)
                               /\ Closed(c)' <=> Closed(c)
                               /\ Destroyed(c)' <=> Destroyed(c)
           /\ \A l, f : FunctorInv(l, f)' <=> FunctorInv(l, f)
           /\ UNCHANGED <<queue>> => QueueInv'
           /\ UNCHANGED <<held, active>> => RefInv'
<1>1. Loops' = Loops
  BY DEF Loops
<1>2. \A c : /\ Alive(c)' <=> Alive(c)
             /\ Accepted(c)' <=> Accepted(c)
             /\ Established(c)' <=> Established(c)
             /\ Closed(c)' <=> Closed(c)
             /\ Destroyed(c)' <=> Destroyed(c)
  BY DEF Alive, Accepted, Established, Closed, Destroyed
<1>3. \A l, f : FunctorInv(l, f)' <=> FunctorInv(l, f)
  BY <1>2 DEF FunctorInv
<1>4. StageInv'
  BY <1>1, <1>2 DEF ServerInv, StageInv
<1>5. UNCHANGED <<queue>> => QueueInv'
  BY <1>1, <1>2, <1>3 DEF ServerInv, QueueInv
<1>6. UNCHANGED <<held, active>> => RefInv'
  BY <1>1, <1>2 DEF ServerInv, RefInv
<1>7. QED
  BY <1>1, <1>2, <1>3, <1>4, <1>5, <1>6

\* The handshake of the pool, and ~TcpServer.
LEMMA PoolStepInv ==
    ASSUME PoolInv, ServerInv,
           \/ StartThreads
           \/ DestroyServer
           \/ UNCHANGED vars
    PROVE  ServerInv'
<1>1. /\ UNCHANGED <<numThreads, connMap, conn, channels, nextConnId, loopVars>>
      /\ listening' \in {listening, FALSE}
      /\ base' \notin Serving => base \notin Serving
  BY DEF StartThreads, DestroyServer, StartPool, StarterStep, SpuriousWakeup, Create,
     CreateFails, Wait, Sleep, TidKnown, StartLoopReturns, QuitLoop, ThreadStep,
     StoreTid, TidCountDown, StoreLoop, LoopCountDown, EnterLoop, DestroyPool,
     starterVars, serverVars, connVars, poolVars, vars, Serving
<1>2. fault' \in {"none", "acceptor"}
  <2>1. CASE TidKnown
    <3>1. cur \in Threads /\ tidLatch[cur] = 0
      BY <2>1 DEF TidKnown, PoolInv, StarterInv, Starting
    <3>2. tid[cur] = TRUE
      BY <3>1 DEF PoolInv, ThreadInv
    <3>3. QED
      BY <2>1, <3>2 DEF TidKnown
  <2>2. CASE ~TidKnown
    BY <2>2 DEF StartThreads, DestroyServer, StartPool, StarterStep, SpuriousWakeup,
       Create, CreateFails, Wait, Sleep, StartLoopReturns, QuitLoop, ThreadStep,
       StoreTid, TidCountDown, StoreLoop, LoopCountDown, EnterLoop, DestroyPool,
       vars, ServerInv
  <2>3. QED
    BY <2>1, <2>2
<1>3. Loops' = Loops /\ StageInv' /\ QueueInv' /\ RefInv'
  BY <1>1, SameConnections DEF loopVars
<1>4. ServerTypes'
  BY <1>1, <1>3 DEF ServerInv, ServerTypes, loopVars
<1>5. ListenInv'
  BY <1>1, <1>3 DEF ServerInv, ListenInv, loopVars
<1>6. QED
  BY <1>2, <1>3, <1>4, <1>5 DEF ServerInv

LEMMA StartListeningInv ==
    ASSUME ServerInv, PoolInv, StartListening
    PROVE  ServerInv'
<1> DEFINE g == Functor("listen", NoConn)
<1>1. /\ UNCHANGED <<numThreads, connMap, conn, channels, nextConnId, held, active,
                     batch, fault>>
      /\ base' \in Serving
      /\ queue' = queue \/ queue' = [queue EXCEPT ![0] = Append(@, g)]
  BY DEF StartListening, Serving, connVars
<1>2. g \in Functors /\ g.op = "listen" /\ g.c = NoConn /\ 0 \in Loops
  BY DEF Functor, Functors, Loops, PoolInv, PoolTypes
<1> HIDE DEF g
<1>3. /\ queue \in [Loops -> Seq(Functors)]
      /\ \A l \in Loops : NoRepeat(queue[l])
      /\ \A l \in Loops : batch[l] <= Len(queue[l])
      /\ \A l \in Loops : batch[l] \in Nat /\ Len(queue[l]) \in Nat
  BY DEF ServerInv, ServerTypes, QueueInv
<1>4. /\ queue' \in [Loops -> Seq(Functors)]
      /\ \A l \in Loops : NoRepeat(queue'[l]) /\ Len(queue[l]) <= Len(queue'[l])
      /\ \A l \in Loops : /\ Range(queue[l]) \subseteq Range(queue'[l])
                          /\ Range(queue'[l]) \subseteq Range(queue[l]) \cup {g}
  <2>1. CASE queue' = queue
    BY <1>3, <2>1
  <2>2. CASE queue' = [queue EXCEPT ![0] = Append(@, g)]
    <3>1. /\ queue' \in [Loops -> Seq(Functors)]
          /\ queue'[0] = Append(queue[0], g)
          /\ \A l \in Loops : l # 0 => queue'[l] = queue[l]
      BY <1>2, <1>3, <2>2
    <3>2. /\ \A l \in Loops : NoRepeat(queue'[l]) /\ Len(queue[l]) <= Len(queue'[l])
          /\ Range(queue'[0]) = Range(queue[0]) \cup {g}
          /\ \A l \in Loops : l # 0 => Range(queue'[l]) = Range(queue[l])
      BY <1>2, <1>3, <3>1, Push
    <3>3. QED
      BY <3>1, <3>2
  <2>3. QED
    BY <1>1, <2>1, <2>2
<1>5. /\ Loops' = Loops /\ StageInv' /\ RefInv'
      /\ \A c \in Conns : Closed(c)' <=> Closed(c)
      /\ \A l, f : FunctorInv(l, f)' <=> FunctorInv(l, f)
  BY <1>1, SameConnections
<1>6. ServerTypes'
  <2>1. \A l \in Loops : Len(queue'[l]) \in Nat
    BY <1>4
  <2>2. \A l \in Loops : batch[l] <= Len(queue'[l])
    BY <1>3, <1>4, <2>1
  <2>3. QED
    BY <1>1, <1>4, <1>5, <2>2 DEF ServerInv, ServerTypes
<1>7. QueueInv'
  <2>1. \A l : FunctorInv(l, g)
    BY <1>2 DEF FunctorInv
  <2>2. \A l \in Loops : \A f \in Range(queue'[l]) : FunctorInv(l, f)'
    BY <1>4, <1>5, <2>1 DEF ServerInv, QueueInv
  <2>3. \A c \in Conns : Closed(c)' => \E l \in Loops : \E f \in Range(queue'[l]) : f.c = c
    BY <1>4, <1>5 DEF ServerInv, QueueInv
  <2>4. QED
    BY <1>4, <1>5, <2>2, <2>3 DEF QueueInv
<1>8. ListenInv'
  BY <1>1 DEF ListenInv
<1>9. QED
  BY <1>1, <1>5, <1>6, <1>7, <1>8 DEF ServerInv

\* A step that leaves the connections and the queues alone.
LEMMA QuietInv ==
    ASSUME ServerInv, UNCHANGED <<poolVars, serverVars, conn, channels, queue, held, fault>>,
           batch' \in [Loops -> Nat], \A l \in Loops : batch'[l] <= Len(queue[l]),
           active' \in [Loops -> SUBSET (Conns \cup {ListenChannel})],
           \A l \in Loops : \A c \in active'[l] \ {ListenChannel} :
               Established(c) /\ conn[c].loop = l
    PROVE  ServerInv'
<1>1. /\ Loops' = Loops /\ StageInv' /\ QueueInv'
      /\ \A c \in Conns : /\ Established(c)' <=> Established(c)
                          /\ Closed(c)' <=> Closed(c)
                          /\ Destroyed(c)' <=> Destroyed(c)
  BY SameConnections DEF poolVars, starterVars, serverVars
<1>2. ServerTypes' /\ ListenInv'
  BY <1>1 DEF ServerInv, ServerTypes, ListenInv, poolVars, starterVars, serverVars
<1>3. RefInv'
  <2>1. \A l \in Loops : \A c \in active'[l] \ {ListenChannel} : c \in Conns
    OBVIOUS
  <2>2. \A l \in Loops : \A c \in held[l] : c \in Conns
    BY DEF ServerInv, ServerTypes
  <2>3. /\ \A l \in Loops : \A c \in held'[l] :
             c \notin connMap' /\ (Closed(c)' \/ Destroyed(c)')
        /\ \A l \in Loops : \A c \in active'[l] \ {ListenChannel} :
             Established(c)' /\ conn'[c].loop = l
    BY <1>1, <2>1, <2>2 DEF ServerInv, RefInv, serverVars
  <2>4. /\ \A l \in Loops, fd \in Fds : \A c \in Conns : channels'[l][fd] = c =>
             /\ Established(c)' \/ Closed(c)'
             /\ conn'[c].fd = fd /\ conn'[c].loop = l
        /\ \A c \in Conns : Established(c)' \/ Closed(c)' =>
             channels'[conn'[c].loop][conn'[c].fd] = c
    BY <1>1 DEF ServerInv, RefInv
  <2>5. QED
    BY <1>1, <2>3, <2>4 DEF RefInv
<1>4. QED
  BY <1>1, <1>2, <1>3 DEF ServerInv

\* A channel that epoll reports belongs to an established connection.
LEMMA QuietSteps ==
    ASSUME ServerInv, PoolInv, NEW l \in Loops,
           \/ Poll(l)
           \/ l = 0 /\ AcceptEnds
           \/ DoPendingFunctors(l)
           \/ \E c \in Conns : PeerCloses(c)
    PROVE  ServerInv'
<1>1. \A c \in Ready(l) : c \in Conns /\ Established(c) /\ conn[c].loop = l
  BY OneStage DEF ServerInv, StageInv, Ready, Accepted, Established, Closed, Destroyed
<1>2. /\ batch \in [Loops -> Nat]
      /\ queue \in [Loops -> Seq(Functors)]
      /\ active \in [Loops -> SUBSET (Conns \cup {ListenChannel})]
      /\ \A m \in Loops : batch[m] <= Len(queue[m])
  BY DEF ServerInv, ServerTypes
<1>3. \A m \in Loops : \A c \in active[m] \ {ListenChannel} :
         Established(c) /\ conn[c].loop = m
  BY DEF ServerInv, RefInv
<1>4. CASE Poll(l)
  <2>1. PICK S \in {Ready(l), Ready(l) \cup {ListenChannel}} :
           active' = [active EXCEPT ![l] = S]
    BY <1>4 DEF Poll
  <2>2. S \in SUBSET (Conns \cup {ListenChannel})
    BY <1>1
  <2>3. active' \in [Loops -> SUBSET (Conns \cup {ListenChannel})]
    BY <1>2, <2>1, <2>2
  <2>4. \A m \in Loops : \A c \in active'[m] \ {ListenChannel} :
           Established(c) /\ conn[c].loop = m
    BY <1>1, <1>2, <1>3, <2>1
  <2>5. UNCHANGED <<poolVars, serverVars, conn, channels, queue, held, fault, batch>>
    BY <1>4 DEF Poll, connVars
  <2>6. QED
    BY <1>2, <2>3, <2>4, <2>5, QuietInv
<1>5. CASE l = 0 /\ AcceptEnds
  <2>1. /\ active' = [active EXCEPT ![l] = @ \ {ListenChannel}]
        /\ UNCHANGED <<poolVars, serverVars, conn, channels, queue, held, fault, batch>>
    BY <1>5 DEF AcceptEnds, connVars
  <2>2. active' \in [Loops -> SUBSET (Conns \cup {ListenChannel})]
    BY <1>2, <2>1
  <2>3. \A m \in Loops : \A c \in active'[m] \ {ListenChannel} :
           Established(c) /\ conn[c].loop = m
    BY <1>2, <1>3, <2>1
  <2>4. QED
    BY <1>2, <2>1, <2>2, <2>3, QuietInv
<1>6. CASE DoPendingFunctors(l)
  <2>1. /\ batch' = [batch EXCEPT ![l] = Len(queue[l])]
        /\ UNCHANGED <<poolVars, serverVars, conn, channels, queue, held, fault, active>>
    BY <1>6 DEF DoPendingFunctors, connVars
  <2>2. \A m \in Loops : Len(queue[m]) \in Nat
    BY <1>2
  <2>3. batch' \in [Loops -> Nat] /\ \A m \in Loops : batch'[m] <= Len(queue[m])
    BY <1>2, <2>1, <2>2
  <2>4. QED
    BY <1>2, <1>3, <2>1, <2>3, QuietInv
<1>7. CASE \E c \in Conns : PeerCloses(c)
  <2>1. UNCHANGED <<poolVars, serverVars, conn, channels, queue, held, fault, batch, active>>
    BY <1>7 DEF PeerCloses, loopVars
  <2>2. QED
    BY <1>2, <1>3, <2>1, QuietInv
<1>8. QED
  BY <1>4, <1>5, <1>6, <1>7

-----------------------------------------------------------------------------
(* The steps that move one connection c to another stage: what has to be    *)
(* shown of c alone.                                                        *)
OnlyConn(c) ==
    \A d \in Conns : d # c => conn'[d] = conn[d] /\ (d \in connMap' <=> d \in connMap)

LEMMA StageStep ==
    ASSUME ServerInv, NEW c \in Conns, OnlyConn(c), numThreads' = numThreads,
           \A d \in Conns : d >= nextConnId' => d # c /\ d >= nextConnId,
           connMap' \in SUBSET Conns, c \in connMap' => Alive(c)',
           Alive(c)' =>
               /\ conn'[c].fd \in Fds /\ conn'[c].loop \in Loops
               /\ Accepted(c)' \/ Established(c)' \/ Closed(c)' \/ Destroyed(c)'
               /\ \A d \in Conns : d # c /\ Alive(d) => conn[d].fd # conn'[c].fd
    PROVE  StageInv'
<1>1. Loops' = Loops
  BY DEF Loops
<1>2. \A d \in Conns : d # c =>
         /\ Alive(d)' <=> Alive(d)
         /\ Accepted(d)' <=> Accepted(d)
         /\ Established(d)' <=> Established(d)
         /\ Closed(d)' <=> Closed(d)
         /\ Destroyed(d)' <=> Destroyed(d)
         /\ conn'[d] = conn[d] /\ (d \in connMap' => d \in connMap)
  BY OthersKeepStage DEF OnlyConn
<1>3. /\ \A d \in Conns : d >= nextConnId => conn[d].life = "none"
      /\ \A d \in connMap : Alive(d)
      /\ \A d \in Conns : Alive(d) =>
           /\ conn[d].fd \in Fds /\ conn[d].loop \in Loops
           /\ Accepted(d) \/ Established(d) \/ Closed(d) \/ Destroyed(d)
      /\ \A d, e \in Conns : Alive(d) /\ Alive(e) /\ conn[d].fd = conn[e].fd => d = e
  BY DEF ServerInv, StageInv
<1>4. \A d \in Conns : d >= nextConnId' => conn'[d].life = "none"
  BY <1>2, <1>3
<1>5. \A d \in connMap' : Alive(d)'
  BY <1>2, <1>3
<1>6. \A d \in Conns : Alive(d)' =>
         /\ conn'[d].fd \in Fds /\ conn'[d].loop \in Loops'
         /\ Accepted(d)' \/ Established(d)' \/ Closed(d)' \/ Destroyed(d)'
  BY <1>1, <1>2, <1>3
<1>7. \A d, e \in Conns : Alive(d)' /\ Alive(e)' /\ conn'[d].fd = conn'[e].fd => d = e
  BY <1>2, <1>3
<1>8. QED
  BY <1>4, <1>5, <1>6, <1>7 DEF StageInv

LEMMA QueueStep ==
    ASSUME ServerInv, NEW c \in Conns, OnlyConn(c), numThreads' = numThreads,
           \A l \in Loops : NoRepeat(queue'[l]),
           \A l \in Loops : \A f \in Range(queue'[l]) :
               (f \in Range(queue[l]) /\ f.c # c) \/ FunctorInv(l, f)',
           \A l \in Loops : \A f \in Range(queue[l]) :
               f.c \in Conns /\ f.c # c => f \in Range(queue'[l]),
           Closed(c)' => \E l \in Loops : \E f \in Range(queue'[l]) : f.c = c
    PROVE  QueueInv'
<1>1. Loops' = Loops
  BY DEF Loops
<1>2. /\ \A d \in Conns : d # c => (Closed(d)' <=> Closed(d))
      /\ \A l \in Loops : \A f \in Functors : f.c # c =>
           (FunctorInv(l, f)' <=> FunctorInv(l, f))
  BY OthersKeepStage DEF OnlyConn
<1>3. \A l \in Loops : \A f \in Range(queue[l]) : f \in Functors /\ FunctorInv(l, f)
  BY FunctorStage
<1>4. \A l \in Loops : \A f \in Range(queue'[l]) : FunctorInv(l, f)'
  BY <1>2, <1>3
<1>5. ASSUME NEW d \in Conns, Closed(d)'
      PROVE  \E l \in Loops : \E f \in Range(queue'[l]) : f.c = d
  <2>1. CASE d = c
    BY <1>5, <2>1
  <2>2. CASE d # c
    <3>1. PICK l \in Loops : \E f \in Range(queue[l]) : f.c = d
      BY <1>2, <1>5, <2>2 DEF ServerInv, QueueInv
    <3>2. QED
      BY <2>2, <3>1
  <2>3. QED
    BY <2>1, <2>2
<1>6. QED
  BY <1>1, <1>4, <1>5 DEF QueueInv

LEMMA RefStep ==
    ASSUME ServerInv, NEW c \in Conns, OnlyConn(c), numThreads' = numThreads,
           held' \in [Loops -> SUBSET Conns],
           active' \in [Loops -> SUBSET (Conns \cup {ListenChannel})],
           \A l \in Loops : \A d \in held'[l] :
               \/ d # c /\ d \in held[l]
               \/ d = c /\ c \notin connMap' /\ (Closed(c)' \/ Destroyed(c)'),
           \A l \in Loops : \A d \in active'[l] \ {ListenChannel} :
               \/ d # c /\ d \in active[l]
               \/ d = c /\ Established(c)' /\ conn'[c].loop = l,
           \A l \in Loops, fd \in Fds : \A d \in Conns : d # c =>
               (channels'[l][fd] = d <=> channels[l][fd] = d),
           \A l \in Loops, fd \in Fds : channels'[l][fd] = c =>
               /\ Established(c)' \/ Closed(c)'
               /\ conn'[c].fd = fd /\ conn'[c].loop = l,
           Established(c)' \/ Closed(c)' => channels'[conn'[c].loop][conn'[c].fd] = c
    PROVE  RefInv'
<1>1. Loops' = Loops
  BY DEF Loops
<1>2. \A d \in Conns : d # c =>
         /\ Established(d)' <=> Established(d)
         /\ Closed(d)' <=> Closed(d)
         /\ Destroyed(d)' <=> Destroyed(d)
         /\ conn'[d] = conn[d] /\ (d \in connMap' <=> d \in connMap)
  BY OthersKeepStage DEF OnlyConn
<1>3. \A l \in Loops : \A d \in held'[l] :
         d \notin connMap' /\ (Closed(d)' \/ Destroyed(d)')
  BY <1>2 DEF ServerInv, RefInv
<1>4. \A l \in Loops : \A d \in active'[l] \ {ListenChannel} :
         Established(d)' /\ conn'[d].loop = l
  BY <1>2 DEF ServerInv, RefInv
<1>5. ASSUME NEW l \in Loops, NEW fd \in Fds, NEW d \in Conns, channels'[l][fd] = d
      PROVE  /\ Established(d)' \/ Closed(d)'
             /\ conn'[d].fd = fd /\ conn'[d].loop = l
  <2>1. CASE d = c
    BY <1>5, <2>1
  <2>2. CASE d # c
    <3>1. channels[l][fd] = d
      BY <1>5, <2>2
    <3>2. QED
      BY <1>2, <2>2, <3>1 DEF ServerInv, RefInv
  <2>3. QED
    BY <2>1, <2>2
<1>6. ASSUME NEW d \in Conns, Established(d)' \/ Closed(d)'
      PROVE  channels'[conn'[d].loop][conn'[d].fd] = d
  <2>1. CASE d = c
    BY <1>6, <2>1
  <2>2. CASE d # c
    <3>1. /\ Established(d) \/ Closed(d)
          /\ conn'[d] = conn[d]
      BY <1>2, <1>6, <2>2
    <3>2. /\ conn[d].loop \in Loops /\ conn[d].fd \in Fds
          /\ channels[conn[d].loop][conn[d].fd] = d
      BY <3>1 DEF ServerInv, StageInv, RefInv, Established, Closed
    <3>3. QED
      BY <2>2, <3>1, <3>2
  <2>3. QED
    BY <2>1, <2>2
<1>7. QED
  BY <1>1, <1>3, <1>4, <1>5, <1>6 DEF RefInv

\* shutdown() changes state_ of a connection that is not closed.
LEMMA UserShutsDownInv ==
    ASSUME ServerInv, PoolInv, NEW c \in Conns, UserShutsDown(c)
    PROVE  ServerInv'
<1>1. /\ Alive(c) /\ conn[c].state = "kConnected"
      /\ conn' = [conn EXCEPT ![c].state = "kDisConnecting"]
      /\ UNCHANGED <<numThreads, base, nextConnId, connMap, listening, channels,
                     queue, batch, held, active, fault>>
  BY DEF UserShutsDown, poolVars, starterVars, serverVars, loopVars
<1>2. conn \in [Conns -> ConnRecords]
  BY DEF ServerInv, ServerTypes
<1>3. /\ conn' \in [Conns -> ConnRecords]
      /\ conn'[c].life = conn[c].life /\ conn'[c].fd = conn[c].fd
      /\ conn'[c].loop = conn[c].loop /\ conn'[c].index = conn[c].index
      /\ \A d \in Conns : d # c => conn'[d] = conn[d]
  BY <1>1, <1>2 DEF ConnRecords
<1>4. OnlyConn(c)
  BY <1>1, <1>3 DEF OnlyConn
<1>5. ~Closed(c) /\ ~Destroyed(c)
  BY <1>1 DEF Closed, Destroyed
<1>6. /\ Alive(c)'
      /\ Accepted(c)' <=> Accepted(c)
      /\ Established(c)' <=> Established(c)
      /\ Accepted(c) \/ Established(c)
  BY <1>1, <1>3, <1>5 DEF ServerInv, StageInv, Alive, Accepted, Established
<1>7. ~Closed(c)' /\ ~Destroyed(c)'
  BY <1>6 DEF Accepted, Established, Closed, Destroyed
<1>8. ServerTypes' /\ ListenInv' /\ Loops' = Loops
  BY <1>1, <1>3 DEF ServerInv, ServerTypes, ListenInv, Loops
<1>9. StageInv'
  <2>1. /\ \A d \in Conns : d >= nextConnId => d # c
        /\ connMap \in SUBSET Conns
        /\ conn[c].fd \in Fds /\ conn[c].loop \in Loops
        /\ \A d \in Conns : d # c /\ Alive(d) => conn[d].fd # conn[c].fd
    BY <1>1 DEF ServerInv, ServerTypes, StageInv, Alive
  <2>2. QED
    BY <1>1, <1>3, <1>4, <1>6, <2>1, StageStep
<1>10. QueueInv'
  <2>1. \A l \in Loops : \A f \in Range(queue[l]) : f.c = c => FunctorInv(l, f)'
    <3> SUFFICES ASSUME NEW l \in Loops, NEW f \in Range(queue[l]), f.c = c
                 PROVE  FunctorInv(l, f)'
      OBVIOUS
    <3>1. FunctorInv(l, f) /\ f \in Functors
      BY FunctorStage
    <3>2. c # NoConn
      BY ServerAssumption DEF Conns, NoConn
    <3>3. QED
      BY <1>3, <1>5, <1>6, <3>1, <3>2 DEF FunctorInv
  <2>2. QED
    BY <1>1, <1>4, <1>7, <2>1, QueueStep DEF ServerInv, QueueInv
<1>11. RefInv'
  <2>1. \A l \in Loops : c \notin held[l]
    BY <1>5 DEF ServerInv, RefInv
  <2>2. \A l \in Loops : c \in active[l] /\ c # ListenChannel =>
           Established(c)' /\ conn'[c].loop = l
    BY <1>3, <1>6 DEF ServerInv, RefInv
  <2>3. \A l \in Loops, fd \in Fds : channels[l][fd] = c =>
           /\ Established(c)'
           /\ conn'[c].fd = fd /\ conn'[c].loop = l
    BY <1>3, <1>5, <1>6 DEF ServerInv, RefInv
  <2>4. Established(c)' => channels[conn'[c].loop][conn'[c].fd] = c
    BY <1>3, <1>6 DEF ServerInv, RefInv
  <2>5. /\ held' \in [Loops -> SUBSET Conns]
        /\ active' \in [Loops -> SUBSET (Conns \cup {ListenChannel})]
    BY <1>1 DEF ServerInv, ServerTypes
  <2>6. QED
    BY <1>1, <1>4, <1>7, <2>1, <2>2, <2>3, <2>4, <2>5, RefStep
<1>12. QED
  BY <1>1, <1>8, <1>9, <1>10, <1>11 DEF ServerInv

(* handleClose: the channel in activeChannels_ belongs to an established    *)
(* connection of this loop, which is closed now and waits for its removal.  *)
LEMMA HandleCloseInv ==
    ASSUME ServerInv, PoolInv, NEW l \in Loops, NEW c \in Conns, HandleClose(l, c)
    PROVE  ServerInv'
<1> DEFINE g == IF l = 0 THEN Functor("connectDestroyed", c)
                         ELSE Functor("removeConnectionInLoop", c)
<1>1. /\ c \in active[l]
      /\ active' = [active EXCEPT ![l] = @ \ {c}]
      /\ conn' = [conn EXCEPT ![c] = Updated([@ EXCEPT !.state = "kDisConnected"], FALSE)]
      /\ connMap' = IF l = 0 THEN connMap \ {c} ELSE connMap
      /\ queue' = [queue EXCEPT ![0] = Append(@, g)]
      /\ UNCHANGED <<numThreads, base, nextConnId, listening, channels, batch, held>>
  BY DEF HandleClose, poolVars, starterVars
<1>2. /\ g \in Functors /\ g.c = c /\ 0 \in Loops
      /\ g.op = IF l = 0 THEN "connectDestroyed" ELSE "removeConnectionInLoop"
  BY DEF Functor, Functors, Loops, PoolInv, PoolTypes
<1> HIDE DEF g
<1>3. c # NoConn /\ c # ListenChannel
  BY ServerAssumption DEF Conns, NoConn, ListenChannel
<1>4. /\ Established(c) /\ conn[c].loop = l /\ Alive(c) /\ c \in connMap
      /\ conn[c].index = "kAdded"
  BY <1>1, <1>3 DEF ServerInv, RefInv, Established
<1>5. Mapped(c) = c
  BY <1>4 DEF ServerInv, RefInv, Mapped
<1>6. fault' = "none"
  <2>1. UpdateAsserts(conn[c], Mapped(c), c)
    BY <1>4, <1>5 DEF UpdateAsserts
  <2>2. QED
    BY <1>4, <2>1 DEF HandleClose
<1>7. \A m \in Loops : \A f \in Range(queue[m]) : f.c # c
  BY <1>3, <1>4, FunctorStage, OneStage
<1>8. conn \in [Conns -> ConnRecords] /\ conn[c] \in ConnRecords
  BY DEF ServerInv, ServerTypes
<1>9. /\ conn' \in [Conns -> ConnRecords]
      /\ conn'[c].life = conn[c].life /\ conn'[c].loop = conn[c].loop
      /\ conn'[c].fd = conn[c].fd /\ conn'[c].state = "kDisConnected"
      /\ conn'[c].reading = FALSE /\ conn'[c].index = "kDeleted"
      /\ \A d \in Conns : d # c => conn'[d] = conn[d]
  <2>1. PICK y : y = Updated([conn[c] EXCEPT !.state = "kDisConnected"], FALSE)
    OBVIOUS
  <2>2. /\ y \in ConnRecords
        /\ y.life = conn[c].life /\ y.loop = conn[c].loop /\ y.fd = conn[c].fd
        /\ y.state = "kDisConnected" /\ y.reading = FALSE
        /\ y.index = "kDeleted"
    BY <1>4, <1>8, <2>1, ClosedRecord, ZenonT(60)
  <2>3. conn' = [conn EXCEPT ![c] = y]
    BY <1>1, <2>1
  <2>4. QED
    BY <1>8, <2>2, <2>3
<1>10. OnlyConn(c)
  BY <1>1, <1>9 DEF OnlyConn
<1>11. Alive(c)' /\ Closed(c)' /\ ~Established(c)'
  BY <1>4, <1>9 DEF Alive, Closed, Established
<1>12. Loops' = Loops /\ connMap' \in SUBSET Conns
  BY <1>1 DEF Loops, ServerInv, ServerTypes
<1>13. /\ queue \in [Loops -> Seq(Functors)] /\ queue' \in [Loops -> Seq(Functors)]
       /\ queue'[0] = Append(queue[0], g)
       /\ \A m \in Loops : m # 0 => queue'[m] = queue[m]
       /\ \A m \in Loops : NoRepeat(queue[m])
  BY <1>1, <1>2 DEF ServerInv, ServerTypes, QueueInv
<1>14. /\ \A m \in Loops : NoRepeat(queue'[m]) /\ Len(queue[m]) <= Len(queue'[m])
       /\ Range(queue'[0]) = Range(queue[0]) \cup {g}
       /\ \A m \in Loops : m # 0 => Range(queue'[m]) = Range(queue[m])
  <2>1. \A f \in Range(queue[0]) : f.c # g.c
    BY <1>2, <1>7
  <2>2. QED
    BY <1>2, <1>13, <2>1, Push, ZenonT(60)
<1>15. active' \in [Loops -> SUBSET (Conns \cup {ListenChannel})]
  BY <1>1 DEF ServerInv, ServerTypes
<1>16. ServerTypes'
  <2>1. \A m \in Loops : batch[m] \in Nat /\ Len(queue[m]) \in Nat
                         /\ Len(queue'[m]) \in Nat /\ batch[m] <= Len(queue[m])
    BY <1>13 DEF ServerInv, ServerTypes
  <2>2. \A m \in Loops : batch'[m] <= Len(queue'[m])
    BY <1>1, <1>14, <2>1
  <2>3. QED
    BY <1>1, <1>9, <1>12, <1>13, <1>15, <2>2 DEF ServerInv, ServerTypes
<1>17. StageInv'
  <2>1. /\ \A d \in Conns : d >= nextConnId => d # c
        /\ conn[c].fd \in Fds /\ conn[c].loop \in Loops
        /\ \A d \in Conns : d # c /\ Alive(d) => conn[d].fd # conn[c].fd
    BY <1>4 DEF ServerInv, StageInv, Alive
  <2>2. QED
    BY <1>1, <1>9, <1>10, <1>11, <1>12, <2>1, StageStep
<1>18. QueueInv'
  <2>1. FunctorInv(0, g)'
    BY <1>1, <1>2, <1>4, <1>9, <1>11 DEF FunctorInv
  <2>2. \A m \in Loops : \A f \in Range(queue'[m]) :
           (f \in Range(queue[m]) /\ f.c # c) \/ FunctorInv(m, f)'
    BY <1>7, <1>14, <2>1
  <2>3. \A m \in Loops : \A f \in Range(queue[m]) : f \in Range(queue'[m])
    BY <1>14
  <2>4. \E m \in Loops : \E f \in Range(queue'[m]) : f.c = c
    BY <1>2, <1>14
  <2>5. QED
    BY <1>1, <1>10, <1>14, <2>2, <2>3, <2>4, QueueStep
<1>19. RefInv'
  <2>1. \A m \in Loops : c \notin held[m]
    BY <1>4 DEF ServerInv, RefInv
  <2>2. \A m \in Loops : c \notin active'[m] /\ active'[m] \subseteq active[m]
    <3>1. \A m \in Loops : m # l => c \notin active[m]
      BY <1>3, <1>4 DEF ServerInv, RefInv
    <3>2. active \in [Loops -> SUBSET (Conns \cup {ListenChannel})]
      BY DEF ServerInv, ServerTypes
    <3>3. QED
      BY <1>1, <3>1, <3>2
  <2>3. \A m \in Loops, fd \in Fds : channels[m][fd] = c =>
           conn'[c].fd = fd /\ conn'[c].loop = m
    BY <1>9 DEF ServerInv, RefInv
  <2>4. channels[conn'[c].loop][conn'[c].fd] = c
    BY <1>5, <1>9 DEF Mapped
  <2>5. held' \in [Loops -> SUBSET Conns]
    BY <1>1 DEF ServerInv, ServerTypes
  <2>6. \A m \in Loops : \A d \in held'[m] : d # c /\ d \in held[m]
    BY <1>1, <2>1
  <2>7. \A m \in Loops : \A d \in active'[m] \ {ListenChannel} : d # c /\ d \in active[m]
    BY <2>2
  <2>8. QED
    BY <1>1, <1>10, <1>11, <1>15, <2>3, <2>4, <2>5, <2>6, <2>7, RefStep
<1>20. ListenInv'
  <2>1. g.op # "listen"
    BY <1>2
  <2>2. \A m \in Loops : \A f \in Range(queue'[m]) : f \in Range(queue[m]) \/ f = g
    BY <1>14
  <2>3. QED
    BY <1>1, <1>12, <2>1, <2>2 DEF ServerInv, ListenInv
<1>21. QED
  BY <1>6, <1>16, <1>17, <1>18, <1>19, <1>20 DEF ServerInv

(* The first functor of a batch is taken: no other functor of its           *)
(* connection waits in any loop.                                            *)
LEMMA Popped ==
    ASSUME ServerInv, PoolInv, NEW l \in Loops, RunFunctor(l)
    PROVE  \E q \in [Loops -> Seq(Functors)], f \in Functors :
             /\ q = [queue EXCEPT ![l] = Tail(@)]
             /\ f = Head(queue[l]) /\ f \in Range(queue[l]) /\ FunctorInv(l, f)
             /\ \A m \in Loops : NoRepeat(q[m])
             /\ \A m \in Loops : Range(q[m]) \subseteq Range(queue[m])
             /\ \A m \in Loops : \A h \in Range(queue[m]) : h \in Range(q[m]) \/ h = f
             /\ f.c # NoConn => \A m \in Loops : \A h \in Range(q[m]) : h.c # f.c
             /\ batch' \in [Loops -> Nat] /\ \A m \in Loops : batch'[m] <= Len(q[m])
<1> DEFINE q == [queue EXCEPT ![l] = Tail(@)]
           f == Head(queue[l])
<1>1. /\ queue \in [Loops -> Seq(Functors)] /\ batch \in [Loops -> Nat]
      /\ \A m \in Loops : batch[m] <= Len(queue[m])
      /\ \A m \in Loops : NoRepeat(queue[m])
  BY DEF ServerInv, ServerTypes, QueueInv
<1>2. batch[l] > 0 /\ batch' = [batch EXCEPT ![l] = @ - 1]
  BY DEF RunFunctor
<1>3. queue[l] # <<>> /\ Len(queue[l]) \in Nat
  BY <1>1, <1>2
<1>4. /\ q \in [Loops -> Seq(Functors)] /\ q[l] = Tail(queue[l])
      /\ \A m \in Loops : m # l => q[m] = queue[m]
  BY <1>1, <1>3
<1> HIDE DEF q
<1>5. /\ \A m \in Loops : NoRepeat(q[m])
      /\ Range(queue[l]) = Range(q[l]) \cup {f}
      /\ \A m \in Loops : m # l => Range(q[m]) = Range(queue[m])
      /\ f.c # NoConn => \A h \in Range(q[l]) : h.c # f.c
  <2>1. queue[l] \in Seq(Functors) /\ queue[l] # <<>> /\ NoRepeat(queue[l])
    BY <1>1, <1>3
  <2>2. /\ NoRepeat(Tail(queue[l]))
        /\ f.c # NoConn => \A h \in Range(Tail(queue[l])) : h.c # f.c
    BY <2>1, NoRepeatPop
  <2>3. Range(queue[l]) = Range(Tail(queue[l])) \cup {f}
    BY <2>1, RangePop
  <2> HIDE DEF f
  <2>4. \A m \in Loops : NoRepeat(q[m])
    BY <1>1, <1>4, <2>2
  <2>5. QED
    BY <1>4, <2>2, <2>3, <2>4
<1> HIDE DEF f
<1>6. f \in Range(queue[l])
  BY <1>5
<1>7. f \in Functors /\ FunctorInv(l, f)
  BY <1>6, FunctorStage
<1>8. ASSUME f.c # NoConn, NEW m \in Loops, NEW h \in Range(q[m])
      PROVE  h.c # f.c
  <2>1. CASE m = l
    BY <1>5, <1>8, <2>1
  <2>2. CASE m # l
    <3>1. FunctorInv(m, h)
      BY <1>5, <1>8, <2>2, FunctorStage
    <3>2. QED
      BY <1>7, <1>8, <2>2, <3>1, OneStage DEF FunctorInv
  <2>3. QED
    BY <2>1, <2>2
<1>9. batch' \in [Loops -> Nat] /\ \A m \in Loops : batch'[m] <= Len(q[m])
  <2>1. /\ batch' \in [Loops -> Nat] /\ batch'[l] = batch[l] - 1
        /\ \A m \in Loops : m # l => batch'[m] = batch[m]
    BY <1>1, <1>2
  <2>2. Len(q[l]) = Len(queue[l]) - 1 /\ batch[l] \in Nat
    BY <1>1, <1>3, <1>4
  <2>3. batch'[l] <= Len(q[l])
    BY <1>1, <1>3, <2>1, <2>2
  <2>4. \A m \in Loops : m # l => batch'[m] <= Len(q[m])
    BY <1>1, <1>4, <2>1
  <2>5. QED
    BY <2>1, <2>3, <2>4
<1>10. \A m \in Loops : /\ Range(q[m]) \subseteq Range(queue[m])
                        /\ \A h \in Range(queue[m]) : h \in Range(q[m]) \/ h = f
  BY <1>5
<1>11. q = [queue EXCEPT ![l] = Tail(@)] /\ f = Head(queue[l])
  BY DEF q, f
<1>12. q \in [Loops -> Seq(Functors)] /\ f \in Functors
  BY <1>4, <1>7
<1>13. QED
  <2> USE <1>12
  <2> WITNESS q \in [Loops -> Seq(Functors)], f \in Functors
  <2> QED
    BY <1>5, <1>6, <1>7, <1>8, <1>9, <1>10, <1>11

\* listen() runs in the base loop.
LEMMA ListenFunctorInv ==
    ASSUME ServerInv, PoolInv, NEW l \in Loops, RunFunctor(l),
           Head(queue[l]).op = "listen"
    PROVE  ServerInv'
<1>1. PICK q \in [Loops -> Seq(Functors)], f \in Functors :
         /\ q = [queue EXCEPT ![l] = Tail(@)]
         /\ f = Head(queue[l]) /\ f \in Range(queue[l]) /\ FunctorInv(l, f)
         /\ \A m \in Loops : NoRepeat(q[m])
         /\ \A m \in Loops : Range(q[m]) \subseteq Range(queue[m])
         /\ \A m \in Loops : \A h \in Range(queue[m]) : h \in Range(q[m]) \/ h = f
         /\ f.c # NoConn => \A m \in Loops : \A h \in Range(q[m]) : h.c # f.c
         /\ batch' \in [Loops -> Nat] /\ \A m \in Loops : batch'[m] <= Len(q[m])
  BY Popped
<1>2. f = Head(queue[l]) /\ q = [queue EXCEPT ![l] = Tail(@)]
  BY <1>1
<1>3. /\ queue' = q /\ listening' = TRUE
      /\ held' = [held EXCEPT ![l] = @]
      /\ UNCHANGED <<numThreads, base, nextConnId, connMap, conn, channels, active, fault>>
  BY <1>1, <1>2 DEF RunFunctor, Listen, Binds, poolVars, starterVars
<1>4. UNCHANGED held
  BY <1>3 DEF ServerInv, ServerTypes
<1>5. /\ f \in Functors /\ f \in Range(queue[l]) /\ FunctorInv(l, f)
      /\ q \in [Loops -> Seq(Functors)]
      /\ \A m \in Loops : NoRepeat(q[m])
      /\ \A m \in Loops : Range(q[m]) \subseteq Range(queue[m])
      /\ \A m \in Loops : \A h \in Range(queue[m]) : h \in Range(q[m]) \/ h = f
      /\ batch' \in [Loops -> Nat] /\ \A m \in Loops : batch'[m] <= Len(q[m])
  BY <1>1
<1>6. /\ Loops' = Loops /\ StageInv' /\ RefInv'
      /\ \A c \in Conns : Closed(c)' <=> Closed(c)
      /\ \A m, h : FunctorInv(m, h)' <=> FunctorInv(m, h)
  BY <1>3, <1>4, SameConnections
<1>7. f.c \notin Conns
  BY <1>1, <1>5, ServerAssumption DEF FunctorInv, Conns, NoConn
<1>8. QueueInv'
  <2>1. ASSUME NEW c \in Conns, Closed(c)'
        PROVE  \E m \in Loops : \E h \in Range(q[m]) : h.c = c
    <3>1. PICK m \in Loops : \E h \in Range(queue[m]) : h.c = c
      BY <1>6, <2>1 DEF ServerInv, QueueInv
    <3>2. QED
      BY <1>5, <1>7, <3>1
  <2>2. \A m \in Loops : \A h \in Range(q[m]) : FunctorInv(m, h)'
    BY <1>5, <1>6 DEF ServerInv, QueueInv
  <2>3. QED
    BY <1>3, <1>5, <1>6, <2>1, <2>2 DEF QueueInv
<1>9. ServerTypes'
  BY <1>3, <1>4, <1>5, <1>6 DEF ServerInv, ServerTypes
<1>10. ListenInv'
  BY <1>1, <1>3, <1>5 DEF ServerInv, ListenInv
<1>11. QED
  BY <1>3, <1>6, <1>8, <1>9, <1>10 DEF ServerInv

(* connectEstablished: the descriptor is registered in no poller of this    *)
(* loop, since no other connection that is alive has it.                    *)
LEMMA ConnectEstablishedInv ==
    ASSUME ServerInv, PoolInv, NEW l \in Loops, RunFunctor(l),
           Head(queue[l]).op = "connectEstablished"
    PROVE  ServerInv'
<1>1. PICK q \in [Loops -> Seq(Functors)], f \in Functors :
         /\ q = [queue EXCEPT ![l] = Tail(@)]
         /\ f = Head(queue[l]) /\ f \in Range(queue[l]) /\ FunctorInv(l, f)
         /\ \A m \in Loops : NoRepeat(q[m])
         /\ \A m \in Loops : Range(q[m]) \subseteq Range(queue[m])
         /\ \A m \in Loops : \A h \in Range(queue[m]) : h \in Range(q[m]) \/ h = f
         /\ f.c # NoConn => \A m \in Loops : \A h \in Range(q[m]) : h.c # f.c
         /\ batch' \in [Loops -> Nat] /\ \A m \in Loops : batch'[m] <= Len(q[m])
  BY Popped
<1>2. f = Head(queue[l]) /\ q = [queue EXCEPT ![l] = Tail(@)]
  BY <1>1
<1>3. PICK c : c = f.c
  OBVIOUS
<1>4. /\ queue' = q /\ held' = [held EXCEPT ![l] = @] /\ ConnectEstablished(c)
      /\ UNCHANGED <<numThreads, base, nextConnId, connMap, listening, active>>
  BY <1>1, <1>2, <1>3 DEF RunFunctor, ConnectEstablished, Binds, poolVars, starterVars
<1>5. held' = held
  BY <1>4 DEF ServerInv, ServerTypes
<1>6. /\ f \in Functors /\ f \in Range(queue[l]) /\ FunctorInv(l, f)
      /\ q \in [Loops -> Seq(Functors)]
      /\ \A m \in Loops : NoRepeat(q[m])
      /\ \A m \in Loops : Range(q[m]) \subseteq Range(queue[m])
      /\ \A m \in Loops : \A h \in Range(queue[m]) : h \in Range(q[m]) \/ h = f
      /\ f.c # NoConn => \A m \in Loops : \A h \in Range(q[m]) : h.c # f.c
      /\ batch' \in [Loops -> Nat] /\ \A m \in Loops : batch'[m] <= Len(q[m])
  BY <1>1
<1>7. /\ c \in Conns /\ Accepted(c) /\ conn[c].loop = l /\ Alive(c)
      /\ conn[c].index = "kNew" /\ c \in connMap
  BY <1>1, <1>3, <1>6 DEF FunctorInv, Accepted
<1>8. /\ c # NoConn /\ conn \in [Conns -> ConnRecords] /\ conn[c] \in ConnRecords
      /\ channels \in [Loops -> [Fds -> Conns \cup {NoConn}]]
      /\ conn[c].fd \in Fds
  BY <1>7, ServerAssumption DEF ServerInv, ServerTypes, StageInv, Conns, NoConn
<1>9. Mapped(c) = NoConn
  <2>1. SUFFICES ASSUME Mapped(c) \in Conns PROVE FALSE
    BY <1>7, <1>8 DEF Mapped
  <2>2. PICK d \in Conns : channels[l][conn[c].fd] = d
    BY <1>7, <2>1 DEF Mapped
  <2>3. (Established(d) \/ Closed(d)) /\ conn[d].fd = conn[c].fd
    BY <1>8, <2>2 DEF ServerInv, RefInv
  <2>4. Alive(d)
    BY <2>3 DEF Established, Closed
  <2>5. d = c
    BY <1>7, <2>3, <2>4 DEF ServerInv, StageInv
  <2>6. QED
    BY <1>7, <2>3, <2>5, OneStage
<1>10. fault' = "none"
  <2>1. UpdateAsserts(conn[c], Mapped(c), c)
    BY <1>7, <1>9 DEF UpdateAsserts
  <2>2. QED
    BY <1>4, <1>7, <2>1 DEF ConnectEstablished
<1>11. /\ conn' \in [Conns -> ConnRecords]
       /\ conn'[c].life = conn[c].life /\ conn'[c].loop = conn[c].loop
       /\ conn'[c].fd = conn[c].fd /\ conn'[c].state = "kConnected"
       /\ conn'[c].index = "kAdded"
       /\ \A d \in Conns : d # c => conn'[d] = conn[d]
  <2>1. PICK y : y = Updated([conn[c] EXCEPT !.state = "kConnected"], TRUE)
    OBVIOUS
  <2>2. /\ y \in ConnRecords
        /\ y.life = conn[c].life /\ y.loop = conn[c].loop /\ y.fd = conn[c].fd
        /\ y.state = "kConnected" /\ y.reading = TRUE /\ y.index = "kAdded"
    BY <1>8, <2>1 DEF Updated, UpdatedIndex, ConnRecords
  <2>3. conn' = [conn EXCEPT ![c] = y]
    BY <1>4, <2>1 DEF ConnectEstablished
  <2>4. QED
    BY <1>7, <1>8, <2>2, <2>3
<1>12. OnlyConn(c)
  BY <1>4, <1>11 DEF OnlyConn
<1>13. Alive(c)' /\ Established(c)' /\ ~Closed(c)'
  BY <1>4, <1>7, <1>11 DEF Alive, Established, Closed
<1>14. Loops' = Loops /\ connMap' \in SUBSET Conns
  BY <1>4 DEF Loops, ServerInv, ServerTypes
<1>15. /\ channels' \in [Loops -> [Fds -> Conns \cup {NoConn}]]
       /\ channels'[l][conn[c].fd] = c
       /\ \A m \in Loops, fd \in Fds : m # l \/ fd # conn[c].fd =>
            channels'[m][fd] = channels[m][fd]
  <2>1. channels' = [channels EXCEPT ![l][conn[c].fd] = c]
    BY <1>4, <1>7 DEF ConnectEstablished
  <2>2. QED
    BY <1>7, <1>8, <2>1
<1>16. ServerTypes'
  BY <1>4, <1>5, <1>6, <1>11, <1>14, <1>15 DEF ServerInv, ServerTypes
<1>17. StageInv'
  <2>1. /\ \A d \in Conns : d >= nextConnId => d # c
        /\ conn[c].fd \in Fds /\ conn[c].loop \in Loops
        /\ \A d \in Conns : d # c /\ Alive(d) => conn[d].fd # conn[c].fd
    BY <1>7 DEF ServerInv, StageInv, Alive
  <2>2. QED
    BY <1>4, <1>7, <1>11, <1>12, <1>13, <1>14, <2>1, StageStep
<1>18. QueueInv'
  <2>1. \A m \in Loops : \A h \in Range(queue'[m]) : h \in Range(queue[m]) /\ h.c # c
    BY <1>3, <1>4, <1>6, <1>8
  <2>2. \A m \in Loops : \A h \in Range(queue[m]) :
           h.c \in Conns /\ h.c # c => h \in Range(queue'[m])
    BY <1>3, <1>4, <1>6
  <2>3. \A m \in Loops : NoRepeat(queue'[m])
    BY <1>4, <1>6
  <2>4. QED
    BY <1>4, <1>7, <1>12, <1>13, <2>1, <2>2, <2>3, QueueStep
<1>19. RefInv'
  <2>1. \A m \in Loops : \A d \in held'[m] : d # c /\ d \in held[m]
    BY <1>5, <1>7, OneStage DEF ServerInv, RefInv
  <2>2. \A m \in Loops : \A d \in active'[m] \ {ListenChannel} : d # c /\ d \in active[m]
    BY <1>4, <1>7, OneStage DEF ServerInv, RefInv
  <2>3. \A m \in Loops, fd \in Fds : channels[m][fd] # c
    BY <1>7, OneStage DEF ServerInv, RefInv
  <2>4. channels[l][conn[c].fd] = NoConn
    BY <1>7, <1>9 DEF Mapped
  <2>5. \A m \in Loops, fd \in Fds : \A d \in Conns : d # c =>
           (channels'[m][fd] = d <=> channels[m][fd] = d)
    <3>1. NoConn \notin Conns
      BY ServerAssumption DEF Conns, NoConn
    <3>2. QED
      BY <1>15, <2>4, <3>1
  <2>6. \A m \in Loops, fd \in Fds : channels'[m][fd] = c =>
           conn'[c].fd = fd /\ conn'[c].loop = m
    BY <1>7, <1>11, <1>15, <2>3
  <2>7. channels'[conn'[c].loop][conn'[c].fd] = c
    BY <1>7, <1>11, <1>15
  <2>8. /\ held' \in [Loops -> SUBSET Conns]
        /\ active' \in [Loops -> SUBSET (Conns \cup {ListenChannel})]
    BY <1>4, <1>5 DEF ServerInv, ServerTypes
  <2>9. QED
    BY <1>4, <1>7, <1>12, <1>13, <2>1, <2>2, <2>5, <2>6, <2>7, <2>8, RefStep
<1>20. ListenInv'
  BY <1>4, <1>6, <1>14 DEF ServerInv, ListenInv
<1>21. QED
  BY <1>10, <1>16, <1>17, <1>18, <1>19, <1>20 DEF ServerInv

(* removeConnectionInLoop: connectDestroyed, which binds the connection,    *)
(* replaces it in the queue of the IO loop.                                 *)
LEMMA RemoveConnectionInv ==
    ASSUME ServerInv, PoolInv, NEW l \in Loops, RunFunctor(l),
           Head(queue[l]).op = "removeConnectionInLoop"
    PROVE  ServerInv'
<1>1. PICK q \in [Loops -> Seq(Functors)], f \in Functors :
         /\ q = [queue EXCEPT ![l] = Tail(@)]
         /\ f = Head(queue[l]) /\ f \in Range(queue[l]) /\ FunctorInv(l, f)
         /\ \A m \in Loops : NoRepeat(q[m])
         /\ \A m \in Loops : Range(q[m]) \subseteq Range(queue[m])
         /\ \A m \in Loops : \A h \in Range(queue[m]) : h \in Range(q[m]) \/ h = f
         /\ f.c # NoConn => \A m \in Loops : \A h \in Range(q[m]) : h.c # f.c
         /\ batch' \in [Loops -> Nat] /\ \A m \in Loops : batch'[m] <= Len(q[m])
  BY Popped
<1>2. PICK c : c = f.c
  OBVIOUS
<1>3. PICK g : g = Functor("connectDestroyed", c)
  OBVIOUS
<1>4. PICK k : k = conn[c].loop
  OBVIOUS
<1>5. /\ queue' = [q EXCEPT ![k] = Append(@, g)]
      /\ held' = [held EXCEPT ![l] = @ \cup {c}] /\ connMap' = connMap \ {c}
      /\ UNCHANGED <<numThreads, base, nextConnId, listening, conn, channels, active, fault>>
  BY <1>1, <1>2, <1>3, <1>4 DEF RunFunctor, RemoveConnectionInLoop, Binds, poolVars, starterVars
<1>6. c \in Conns /\ Closed(c) /\ c \in connMap /\ Alive(c)
  BY <1>1, <1>2 DEF FunctorInv, Closed
<1>7. /\ c # NoConn /\ k \in Loops /\ k = conn[c].loop /\ conn[c].fd \in Fds
      /\ held \in [Loops -> SUBSET Conns]
      /\ active' \in [Loops -> SUBSET (Conns \cup {ListenChannel})]
  BY <1>4, <1>5, <1>6, ServerAssumption DEF ServerInv, ServerTypes, StageInv, Conns, NoConn
<1>8. g \in Functors /\ g.c = c /\ g.op = "connectDestroyed"
  BY <1>3, <1>6 DEF Functor, Functors
<1>9. OnlyConn(c) /\ Loops' = Loops /\ connMap' \in SUBSET Conns
  BY <1>5 DEF OnlyConn, Loops, ServerInv, ServerTypes
<1>10. Alive(c)' /\ Closed(c)' /\ c \notin connMap'
  BY <1>5, <1>6 DEF Alive, Closed
<1>11. /\ queue' \in [Loops -> Seq(Functors)]
       /\ queue'[k] = Append(q[k], g)
       /\ \A m \in Loops : m # k => queue'[m] = q[m]
  BY <1>5, <1>7, <1>8
<1>12. /\ \A m \in Loops : NoRepeat(queue'[m]) /\ Len(q[m]) <= Len(queue'[m])
       /\ Range(queue'[k]) = Range(q[k]) \cup {g}
       /\ \A m \in Loops : m # k => Range(queue'[m]) = Range(q[m])
  <2>1. \A h \in Range(q[k]) : h.c # g.c
    BY <1>1, <1>2, <1>7, <1>8
  <2>2. \A m \in Loops : NoRepeat(q[m])
    BY <1>1
  <2>3. k \in Loops /\ g \in Functors
    BY <1>7, <1>8
  <2>4. QED
    BY <1>11, <2>1, <2>2, <2>3, Push
<1>13. ServerTypes'
  <2>1. \A m \in Loops : /\ batch'[m] \in Nat /\ Len(q[m]) \in Nat
                         /\ Len(queue'[m]) \in Nat /\ batch'[m] <= Len(q[m])
    BY <1>1, <1>11
  <2>2. \A m \in Loops : batch'[m] <= Len(queue'[m])
    BY <1>12, <2>1
  <2>3. held' \in [Loops -> SUBSET Conns]
    BY <1>5, <1>6, <1>7
  <2>4. QED
    BY <1>1, <1>5, <1>9, <1>11, <2>2, <2>3 DEF ServerInv, ServerTypes
<1>14. StageInv'
  <2>1. /\ \A d \in Conns : d >= nextConnId => d # c
        /\ \A d \in Conns : d # c /\ Alive(d) => conn[d].fd # conn[c].fd
    BY <1>6 DEF ServerInv, StageInv, Alive
  <2>2. QED
    BY <1>5, <1>6, <1>7, <1>9, <1>10, <2>1, StageStep
<1>15. QueueInv'
  <2>1. FunctorInv(k, g)'
    BY <1>5, <1>6, <1>7, <1>8, <1>10 DEF FunctorInv
  <2>2. ASSUME NEW m \in Loops, NEW h \in Range(queue'[m])
        PROVE  (h \in Range(queue[m]) /\ h.c # c) \/ FunctorInv(m, h)'
    <3>1. h \in Range(q[m]) \/ (m = k /\ h = g)
      BY <1>12, <2>2
    <3>2. h \in Range(q[m]) => h \in Range(queue[m]) /\ h.c # c
      BY <1>1, <1>2, <1>7
    <3>3. QED
      BY <2>1, <3>1, <3>2
  <2>3. \A m \in Loops : \A h \in Range(queue[m]) :
           h.c \in Conns /\ h.c # c => h \in Range(queue'[m])
    BY <1>1, <1>2, <1>12
  <2>4. \E m \in Loops : \E h \in Range(queue'[m]) : h.c = c
    BY <1>7, <1>8, <1>12
  <2>5. \A m \in Loops : NoRepeat(queue'[m])
    BY <1>12
  <2>6. QED
    BY <1>5, <1>6, <1>9, <2>2, <2>3, <2>4, <2>5, QueueStep
<1>16. RefInv'
  <2>1. \A m \in Loops : \A d \in held'[m] : d = c \/ (d # c /\ d \in held[m])
    BY <1>5, <1>7
  <2>2. ~Established(c)
    BY <1>6, OneStage
  <2>3. \A m \in Loops : \A d \in active'[m] \ {ListenChannel} : d # c /\ d \in active[m]
    BY <1>5, <2>2 DEF ServerInv, RefInv
  <2>4. \A m \in Loops, fd \in Fds : channels'[m][fd] = c =>
           conn'[c].fd = fd /\ conn'[c].loop = m
    BY <1>5, <1>6 DEF ServerInv, RefInv
  <2>5. channels'[conn'[c].loop][conn'[c].fd] = c
    BY <1>5, <1>6 DEF ServerInv, RefInv
  <2>6. held' \in [Loops -> SUBSET Conns]
    BY <1>5, <1>6, <1>7
  <2>7. /\ numThreads' = numThreads
        /\ \A m \in Loops, fd \in Fds : \A d \in Conns : d # c =>
             (channels'[m][fd] = d <=> channels[m][fd] = d)
    BY <1>5
  <2>8. QED
    BY <1>6, <1>7, <1>9, <1>10, <2>1, <2>3, <2>4, <2>5, <2>6, <2>7, RefStep
<1>17. ListenInv'
  <2>1. \A m \in Loops : \A h \in Range(queue'[m]) : h \in Range(queue[m]) \/ h = g
    BY <1>1, <1>12
  <2>2. QED
    BY <1>5, <1>8, <1>9, <2>1 DEF ServerInv, ListenInv
<1>18. QED
  BY <1>5, <1>13, <1>14, <1>15, <1>16, <1>17 DEF ServerInv

(* connectDestroyed: the poller forgets the channel; only the functors that *)
(* ran still hold the connection.                                           *)
LEMMA ConnectDestroyedInv ==
    ASSUME ServerInv, PoolInv, NEW l \in Loops, RunFunctor(l),
           Head(queue[l]).op = "connectDestroyed"
    PROVE  ServerInv'
<1>1. PICK q \in [Loops -> Seq(Functors)], f \in Functors :
         /\ q = [queue EXCEPT ![l] = Tail(@)]
         /\ f = Head(queue[l]) /\ f \in Range(queue[l]) /\ FunctorInv(l, f)
         /\ \A m \in Loops : NoRepeat(q[m])
         /\ \A m \in Loops : Range(q[m]) \subseteq Range(queue[m])
         /\ \A m \in Loops : \A h \in Range(queue[m]) : h \in Range(q[m]) \/ h = f
         /\ f.c # NoConn => \A m \in Loops : \A h \in Range(q[m]) : h.c # f.c
         /\ batch' \in [Loops -> Nat] /\ \A m \in Loops : batch'[m] <= Len(q[m])
  BY Popped
<1>2. PICK c : c = f.c
  OBVIOUS
<1>3. /\ queue' = q /\ held' = [held EXCEPT ![l] = @ \cup {c}] /\ ConnectDestroyed(c)
      /\ UNCHANGED <<numThreads, base, nextConnId, connMap, listening, active>>
  BY <1>1, <1>2 DEF RunFunctor, ConnectDestroyed, Binds, poolVars, starterVars
<1>4. /\ c \in Conns /\ Closed(c) /\ c \notin connMap /\ Alive(c) /\ conn[c].loop = l
      /\ conn[c].state = "kDisConnected" /\ conn[c].reading = FALSE
  BY <1>1, <1>2 DEF FunctorInv, Closed
<1>5. /\ c # NoConn /\ conn[c].fd \in Fds
      /\ held \in [Loops -> SUBSET Conns]
      /\ active' \in [Loops -> SUBSET (Conns \cup {ListenChannel})]
      /\ conn \in [Conns -> ConnRecords]
      /\ channels \in [Loops -> [Fds -> Conns \cup {NoConn}]]
  BY <1>3, <1>4, ServerAssumption DEF ServerInv, ServerTypes, StageInv, Conns, NoConn
<1>6. channels[l][conn[c].fd] = c /\ Mapped(c) = c
  BY <1>4 DEF ServerInv, RefInv, Mapped
<1>7. fault' = "none"
  BY <1>3, <1>4, <1>6 DEF ConnectDestroyed
<1>8. /\ conn' \in [Conns -> ConnRecords]
      /\ conn'[c].life = conn[c].life /\ conn'[c].loop = conn[c].loop
      /\ conn'[c].fd = conn[c].fd /\ conn'[c].state = conn[c].state
      /\ conn'[c].index = "kNew" /\ conn'[c].added = FALSE
      /\ \A d \in Conns : d # c => conn'[d] = conn[d]
  <2>1. conn' = [conn EXCEPT ![c].index = "kNew", ![c].added = FALSE]
    BY <1>3 DEF ConnectDestroyed
  <2>2. QED
    BY <1>4, <1>5, <2>1 DEF ConnRecords
<1>9. OnlyConn(c) /\ Loops' = Loops /\ connMap' \in SUBSET Conns
  BY <1>3, <1>8 DEF OnlyConn, Loops, ServerInv, ServerTypes
<1>10. Alive(c)' /\ Destroyed(c)' /\ ~Established(c)' /\ ~Closed(c)' /\ c \notin connMap'
  BY <1>3, <1>4, <1>8 DEF Alive, Destroyed, Established, Closed
<1>11. /\ channels' \in [Loops -> [Fds -> Conns \cup {NoConn}]]
       /\ channels'[l][conn[c].fd] = NoConn
       /\ \A m \in Loops, fd \in Fds : m # l \/ fd # conn[c].fd =>
            channels'[m][fd] = channels[m][fd]
  <2>1. channels' = [channels EXCEPT ![l][conn[c].fd] = NoConn]
    BY <1>3, <1>4 DEF ConnectDestroyed
  <2>2. QED
    BY <1>4, <1>5, <2>1
<1>12. held' \in [Loops -> SUBSET Conns]
  BY <1>3, <1>4, <1>5
<1>13. ServerTypes'
  BY <1>1, <1>3, <1>8, <1>9, <1>11, <1>12 DEF ServerInv, ServerTypes
<1>14. StageInv'
  <2>1. /\ \A d \in Conns : d >= nextConnId => d # c
        /\ \A d \in Conns : d # c /\ Alive(d) => conn[d].fd # conn[c].fd
    BY <1>4 DEF ServerInv, StageInv, Alive
  <2>2. QED
    BY <1>3, <1>4, <1>5, <1>8, <1>9, <1>10, <2>1, StageStep
<1>15. QueueInv'
  <2>1. \A m \in Loops : \A h \in Range(queue'[m]) : h \in Range(queue[m]) /\ h.c # c
    BY <1>1, <1>2, <1>3, <1>5
  <2>2. \A m \in Loops : \A h \in Range(queue[m]) :
           h.c \in Conns /\ h.c # c => h \in Range(queue'[m])
    BY <1>1, <1>2, <1>3
  <2>3. \A m \in Loops : NoRepeat(queue'[m])
    BY <1>1, <1>3
  <2>4. QED
    BY <1>3, <1>4, <1>9, <1>10, <2>1, <2>2, <2>3, QueueStep
<1>16. RefInv'
  <2>1. \A m \in Loops : \A d \in held'[m] : d = c \/ (d # c /\ d \in held[m])
    BY <1>3, <1>5
  <2>2. ~Established(c)
    BY <1>4, OneStage
  <2>3. \A m \in Loops : \A d \in active'[m] \ {ListenChannel} : d # c /\ d \in active[m]
    BY <1>3, <2>2 DEF ServerInv, RefInv
  <2>4. \A m \in Loops, fd \in Fds : channels'[m][fd] # c
    <3>1. \A m \in Loops, fd \in Fds : channels[m][fd] = c => m = l /\ fd = conn[c].fd
      BY <1>4 DEF ServerInv, RefInv
    <3>2. NoConn # c
      BY <1>5
    <3>3. ASSUME NEW m \in Loops, NEW fd \in Fds PROVE channels'[m][fd] # c
      <4>1. CASE m = l /\ fd = conn[c].fd
        BY <1>11, <3>2, <4>1
      <4>2. CASE ~(m = l /\ fd = conn[c].fd)
        BY <1>11, <3>1, <4>2
      <4>3. QED
        BY <4>1, <4>2
    <3>4. QED
      BY <3>3
  <2>5. \A m \in Loops, fd \in Fds : \A d \in Conns : d # c =>
           (channels'[m][fd] = d <=> channels[m][fd] = d)
    <3>1. NoConn \notin Conns
      BY ServerAssumption DEF Conns, NoConn
    <3>2. QED
      BY <1>6, <1>11, <3>1
  <2>6. QED
    BY <1>3, <1>4, <1>5, <1>9, <1>10, <1>12, <2>1, <2>3, <2>4, <2>5, RefStep
<1>17. ListenInv'
  BY <1>1, <1>3, <1>9 DEF ServerInv, ListenInv
<1>18. QED
  BY <1>7, <1>13, <1>14, <1>15, <1>16, <1>17 DEF ServerInv

(* The end of a batch frees connections that connectDestroyed has left:     *)
(* handleClose alone is not enough, a functor that binds the connection     *)
(* waits until then.                                                        *)
LEMMA EndBatchInv ==
    ASSUME ServerInv, PoolInv, NEW l \in Loops, EndBatch(l)
    PROVE  ServerInv'
<1>1. PICK gone : gone = {c \in held[l] : ~Referenced(c, l)}
  OBVIOUS
<1>2. /\ held' = [held EXCEPT ![l] = {}]
      /\ conn' = [c \in Conns |-> IF c \in gone THEN [conn[c] EXCEPT !.life = "freed"]
                                                ELSE conn[c]]
      /\ fault' = IF \A c \in gone : /\ conn[c].state = "kDisConnected"
                                     /\ ~conn[c].added
                                     /\ conn[c].loop = l => Mapped(c) # c
                    THEN "none" ELSE "dtor"
      /\ UNCHANGED <<numThreads, base, nextConnId, listening, connMap, channels, queue,
                     batch, active>>
  BY <1>1 DEF EndBatch, poolVars, starterVars, serverVars
<1>3. /\ conn \in [Conns -> ConnRecords] /\ held \in [Loops -> SUBSET Conns]
      /\ channels \in [Loops -> [Fds -> Conns \cup {NoConn}]]
      /\ gone \subseteq Conns
  BY <1>1 DEF ServerInv, ServerTypes
<1>4. ASSUME NEW c \in gone
      PROVE  /\ Destroyed(c) /\ c \notin connMap
             /\ \A m \in Loops : m # l => c \notin held[m]
  <2>1. c \notin connMap /\ \A m \in Loops : m # l => c \notin held[m]
    BY <1>1, <1>4 DEF Referenced
  <2>2. Closed(c) \/ Destroyed(c)
    BY <1>1, <1>4 DEF ServerInv, RefInv
  <2>3. ~Closed(c)
    <3>1. SUFFICES ASSUME Closed(c) PROVE FALSE
      OBVIOUS
    <3>2. c \in Conns /\ c # NoConn
      BY <1>3, <1>4, ServerAssumption DEF Conns, NoConn
    <3>3. PICK m \in Loops : \E f \in Range(queue[m]) : f.c = c
      BY <3>1, <3>2 DEF ServerInv, QueueInv
    <3>4. PICK f \in Range(queue[m]) : f.c = c
      BY <3>3
    <3>5. FunctorInv(m, f)
      BY <3>4, FunctorStage
    <3>6. Binds(f)
      BY <3>1, <3>2, <3>4, <3>5, OneStage DEF FunctorInv, Binds
    <3>7. QED
      BY <1>1, <1>4, <3>4, <3>6 DEF Referenced
  <2>4. QED
    BY <2>1, <2>2, <2>3
<1>5. ASSUME NEW c \in gone PROVE Mapped(c) # c
  <2>1. /\ c \in Conns /\ Destroyed(c) /\ Alive(c)
        /\ conn[c].fd \in Fds /\ conn[c].loop \in Loops
    BY <1>3, <1>4, <1>5 DEF ServerInv, StageInv, Destroyed
  <2>2. Mapped(c) = c => Established(c) \/ Closed(c)
    BY <2>1 DEF ServerInv, RefInv, Mapped
  <2>3. QED
    BY <2>1, <2>2, OneStage
<1>6. fault' = "none"
  BY <1>2, <1>4, <1>5 DEF Destroyed
<1>7. /\ conn' \in [Conns -> ConnRecords]
      /\ \A c \in gone : conn'[c].life = "freed"
      /\ \A c \in Conns : c \notin gone => conn'[c] = conn[c]
  <2>1. \A c \in gone : /\ [conn[c] EXCEPT !.life = "freed"] \in ConnRecords
                        /\ [conn[c] EXCEPT !.life = "freed"].life = "freed"
    BY <1>3 DEF ConnRecords
  <2>2. QED
    BY <1>2, <1>3, <2>1
<1>8. \A c \in gone : ~Alive(c)' /\ ~Established(c)' /\ ~Closed(c)'
  BY <1>7 DEF Alive, Established, Closed
<1>9. \A c \in Conns : c \notin gone =>
         /\ Alive(c)' <=> Alive(c)
         /\ Accepted(c)' <=> Accepted(c)
         /\ Established(c)' <=> Established(c)
         /\ Closed(c)' <=> Closed(c)
         /\ Destroyed(c)' <=> Destroyed(c)
  BY <1>2, <1>7 DEF Alive, Accepted, Established, Closed, Destroyed
<1>10. Loops' = Loops
  BY <1>2 DEF Loops
<1>11. ServerTypes'
  <2>1. held' \in [Loops -> SUBSET Conns]
    BY <1>2, <1>3
  <2>2. QED
    BY <1>2, <1>7, <1>10, <2>1 DEF ServerInv, ServerTypes
<1>12. StageInv'
  <2>1. \A c \in Conns : c >= nextConnId' => conn'[c].life = "none"
    <3>1. \A c \in gone : Alive(c)
      BY <1>4 DEF Destroyed
    <3>2. \A c \in Conns : c >= nextConnId => conn[c].life = "none" /\ c \notin gone
      BY <3>1 DEF ServerInv, StageInv, Alive
    <3>3. QED
      BY <1>2, <1>7, <3>2
  <2>2. \A c \in connMap' : Alive(c)'
    BY <1>2, <1>4, <1>9 DEF ServerInv, ServerTypes, StageInv
  <2>3. \A c \in Conns : Alive(c)' =>
           /\ conn'[c].fd \in Fds /\ conn'[c].loop \in Loops'
           /\ Accepted(c)' \/ Established(c)' \/ Closed(c)' \/ Destroyed(c)'
    BY <1>7, <1>8, <1>9, <1>10 DEF ServerInv, StageInv
  <2>4. \A c, d \in Conns : Alive(c)' /\ Alive(d)' /\ conn'[c].fd = conn'[d].fd => c = d
    <3>1. \A c \in Conns : Alive(c)' => Alive(c) /\ conn'[c] = conn[c]
      BY <1>7, <1>8, <1>9
    <3>2. QED
      BY <3>1 DEF ServerInv, StageInv
  <2>5. QED
    BY <2>1, <2>2, <2>3, <2>4 DEF StageInv
<1>13. QueueInv'
  <2>1. ASSUME NEW m \in Loops, NEW f \in Range(queue[m]) PROVE FunctorInv(m, f)'
    <3>1. FunctorInv(m, f)
      BY FunctorStage
    <3>2. f.c \in Conns /\ (Accepted(f.c) \/ Closed(f.c)) => f.c \notin gone
      BY <1>4, OneStage
    <3>3. QED
      BY <1>2, <1>7, <1>9, <3>1, <3>2 DEF FunctorInv
  <2>2. \A c \in Conns : Closed(c)' => \E m \in Loops : \E f \in Range(queue[m]) : f.c = c
    BY <1>8, <1>9 DEF ServerInv, QueueInv
  <2>3. \A m \in Loops : NoRepeat(queue[m])
    BY DEF ServerInv, QueueInv
  <2>4. QED
    BY <1>2, <1>10, <2>1, <2>2, <2>3 DEF QueueInv
<1>14. RefInv'
  <2>1. \A m \in Loops : \A c \in held'[m] :
           c \notin connMap' /\ (Closed(c)' \/ Destroyed(c)')
    <3>1. \A m \in Loops : \A c \in held'[m] : m # l /\ c \in held[m] /\ c \in Conns
      BY <1>2, <1>3
    <3>2. \A m \in Loops : \A c \in held'[m] : c \notin gone
      BY <1>4, <3>1
    <3>3. QED
      BY <1>2, <1>9, <3>1, <3>2 DEF ServerInv, RefInv
  <2>2. \A c \in Conns : Established(c) \/ Closed(c) => c \notin gone /\ conn'[c] = conn[c]
    BY <1>4, <1>7, OneStage
  <2>3. \A m \in Loops : \A c \in active'[m] \ {ListenChannel} :
           Established(c)' /\ conn'[c].loop = m
    <3>1. \A m \in Loops : \A c \in active[m] \ {ListenChannel} :
             c \in Conns /\ Established(c) /\ conn[c].loop = m
      BY DEF ServerInv, ServerTypes, RefInv
    <3>2. QED
      BY <1>2, <1>9, <2>2, <3>1
  <2>4. \A m \in Loops, fd \in Fds : \A c \in Conns : channels'[m][fd] = c =>
           /\ Established(c)' \/ Closed(c)'
           /\ conn'[c].fd = fd /\ conn'[c].loop = m
    <3>1. \A m \in Loops, fd \in Fds : \A c \in Conns : channels[m][fd] = c =>
             /\ Established(c) \/ Closed(c)
             /\ conn[c].fd = fd /\ conn[c].loop = m
      BY DEF ServerInv, RefInv
    <3>2. QED
      BY <1>2, <1>9, <2>2, <3>1
  <2>5. \A c \in Conns : Established(c)' \/ Closed(c)' =>
           channels'[conn'[c].loop][conn'[c].fd] = c
    <3>1. \A c \in Conns : Established(c) \/ Closed(c) =>
             channels[conn[c].loop][conn[c].fd] = c
      BY DEF ServerInv, RefInv
    <3>2. \A c \in Conns : Established(c)' \/ Closed(c)' => Established(c) \/ Closed(c)
      BY <1>8, <1>9
    <3>3. QED
      BY <1>2, <2>2, <3>1, <3>2
  <2>6. QED
    BY <1>10, <2>1, <2>3, <2>4, <2>5 DEF RefInv
<1>15. ListenInv'
  BY <1>2, <1>10 DEF ServerInv, ListenInv
<1>16. QED
  BY <1>6, <1>11, <1>12, <1>13, <1>14, <1>15 DEF ServerInv

(* newConnection: nothing in any loop refers to the new connection yet, and *)
(* no poller has a channel for its descriptor.                              *)
LEMMA NewConnectionInv ==
    ASSUME ServerInv, PoolInv, NewConnection
    PROVE  ServerInv'
<1>1. PICK c : c = nextConnId
  OBVIOUS
<1>2. PICK l : l = NextLoop
  OBVIOUS
<1>3. PICK fd : fd = Min(FreeFds)
  OBVIOUS
<1>4. PICK x : x = [Unborn EXCEPT !.life = "alive", !.loop = l, !.fd = fd]
  OBVIOUS
<1>5. PICK g : g = Functor("connectEstablished", c)
  OBVIOUS
<1>6. /\ nextConnId <= MaxConns /\ FreeFds # {}
      /\ connMap' = connMap \cup {c} /\ nextConnId' = nextConnId + 1
      /\ UNCHANGED <<numThreads, base, listening, batch, held, active>>
  BY <1>1 DEF NewConnection
<1>7. /\ l = 0 => /\ conn' = [conn EXCEPT ![c] =
                                Updated([x EXCEPT !.state = "kConnected"], TRUE)]
                  /\ channels' = [channels EXCEPT ![l][fd] = c]
                  /\ fault' = IF UpdateAsserts(x, channels[l][fd], c)
                                THEN "none" ELSE "poller"
                  /\ UNCHANGED queue
      /\ l # 0 => /\ conn' = [conn EXCEPT ![c] = x]
                  /\ queue' = [queue EXCEPT ![l] = Append(@, g)]
                  /\ UNCHANGED <<channels, fault>>
  <2>1. x.fd = fd
    BY <1>4 DEF Unborn
  <2>2. QED
    BY <1>1, <1>2, <1>3, <1>4, <1>5, <2>1 DEF NewConnection
<1>8. c \in Conns /\ c # NoConn /\ conn[c].life = "none" /\ ~Alive(c)
  BY <1>1, <1>6, ServerAssumption
     DEF ServerInv, ServerTypes, StageInv, Conns, NoConn, Alive
<1>9. l \in Loops /\ l \in Nat
  BY <1>2, NextLoopExists DEF Loops, PoolInv, PoolTypes
<1>10. fd \in Fds /\ fd \in Nat /\ \A d \in Conns : Alive(d) => conn[d].fd # fd
  <2>1. FreeFds \in SUBSET Nat
    BY ServerAssumption DEF FreeFds, Fds
  <2>2. fd \in FreeFds
    BY <1>3, <1>6, <2>1, LowestFd
  <2>3. QED
    BY <2>1, <2>2 DEF FreeFds, OpenFds
<1>11. /\ x \in ConnRecords /\ x.life = "alive" /\ x.loop = l /\ x.fd = fd
       /\ x.index = "kNew" /\ x.state = "kConnecting"
  BY <1>4, <1>9, <1>10 DEF Unborn, ConnRecords
<1>12. /\ \A m \in Loops : \A f \in Range(queue[m]) : f.c # c
       /\ c \notin connMap
       /\ \A m \in Loops : c \notin held[m]
       /\ \A m \in Loops : c \notin active[m] \ {ListenChannel}
       /\ \A m \in Loops, n \in Fds : channels[m][n] # c
  <2>1. ~Accepted(c) /\ ~Established(c) /\ ~Closed(c) /\ ~Destroyed(c)
    BY <1>8 DEF Accepted, Established, Closed, Destroyed
  <2>2. \A m \in Loops : \A f \in Range(queue[m]) : f.c # c
    BY <1>8, FunctorStage
  <2>3. c \notin connMap
    BY <1>8 DEF ServerInv, StageInv
  <2>4. QED
    BY <1>8, <2>1, <2>2, <2>3 DEF ServerInv, RefInv
<1>13. /\ conn \in [Conns -> ConnRecords]
       /\ channels \in [Loops -> [Fds -> Conns \cup {NoConn}]]
       /\ queue \in [Loops -> Seq(Functors)]
       /\ \A m \in Loops : NoRepeat(queue[m])
       /\ held' \in [Loops -> SUBSET Conns]
       /\ active' \in [Loops -> SUBSET (Conns \cup {ListenChannel})]
  BY <1>6 DEF ServerInv, ServerTypes, QueueInv
<1>14. \A m \in Loops : channels[m][fd] = NoConn
  <2>1. SUFFICES ASSUME NEW m \in Loops, NEW d \in Conns, channels[m][fd] = d PROVE FALSE
    BY <1>10, <1>13
  <2>2. Alive(d) /\ conn[d].fd = fd
    BY <1>10, <2>1 DEF ServerInv, RefInv, Established, Closed
  <2>3. QED
    BY <1>10, <2>2
<1>15. fault' \in {"none", "acceptor"}
  <2>1. UpdateAsserts(x, channels[l][fd], c)
    BY <1>9, <1>11, <1>14 DEF UpdateAsserts
  <2>2. QED
    BY <1>7, <2>1 DEF ServerInv
<1>16. PICK y : y = IF l = 0 THEN Updated([x EXCEPT !.state = "kConnected"], TRUE) ELSE x
  OBVIOUS
<1>17. /\ y \in ConnRecords /\ y.life = "alive" /\ y.loop = l /\ y.fd = fd
       /\ y.index = IF l = 0 THEN "kAdded" ELSE "kNew"
  <2>1. CASE l = 0
    <3>1. y = [[x EXCEPT !.state = "kConnected"] EXCEPT
               !.reading = TRUE, !.added = TRUE, !.index = "kAdded"]
      <4>1. [x EXCEPT !.state = "kConnected"].index = "kNew"
        BY <1>11 DEF ConnRecords
      <4>2. QED
        BY <1>16, <2>1, <4>1 DEF Updated, UpdatedIndex
    <3>2. QED
      BY <1>11, <2>1, <3>1 DEF ConnRecords
  <2>2. CASE l # 0
    BY <1>11, <1>16, <2>2
  <2>3. QED
    BY <2>1, <2>2
<1>18. /\ conn' \in [Conns -> ConnRecords] /\ conn'[c] = y
       /\ \A d \in Conns : d # c => conn'[d] = conn[d]
  <2>1. conn' = [conn EXCEPT ![c] = y]
    BY <1>7, <1>16
  <2>2. QED
    BY <1>8, <1>13, <1>17, <2>1
<1>19. OnlyConn(c) /\ Loops' = Loops /\ connMap' \in SUBSET Conns /\ c \in connMap'
  BY <1>6, <1>8, <1>18 DEF OnlyConn, Loops, ServerInv, ServerTypes
<1>20. /\ Alive(c)' /\ ~Closed(c)' /\ ~Destroyed(c)'
       /\ l = 0 => Established(c)'
       /\ l # 0 => Accepted(c)' /\ ~Established(c)'
  BY <1>17, <1>18, <1>19 DEF Alive, Accepted, Established, Closed, Destroyed
<1>21. /\ channels' \in [Loops -> [Fds -> Conns \cup {NoConn}]]
       /\ l = 0 => channels'[l][fd] = c
       /\ \A m \in Loops, n \in Fds : channels'[m][n] = c => l = 0 /\ m = l /\ n = fd
       /\ \A m \in Loops, n \in Fds : \A d \in Conns : d # c =>
            (channels'[m][n] = d <=> channels[m][n] = d)
  <2>1. CASE l = 0
    <3>1. channels' = [channels EXCEPT ![l][fd] = c]
      BY <1>7, <2>1
    <3>2. /\ channels' \in [Loops -> [Fds -> Conns \cup {NoConn}]]
          /\ channels'[l][fd] = c
          /\ \A m \in Loops, n \in Fds : m # l \/ n # fd =>
               channels'[m][n] = channels[m][n]
      BY <1>8, <1>9, <1>10, <1>13, <3>1
    <3>3. \A d \in Conns : d # NoConn
      BY ServerAssumption DEF Conns, NoConn
    <3>4. \A m \in Loops, n \in Fds : \A d \in Conns : d # c =>
             (channels'[m][n] = d <=> channels[m][n] = d)
      BY <1>9, <1>14, <3>2, <3>3
    <3>5. \A m \in Loops, n \in Fds : channels'[m][n] = c => m = l /\ n = fd
      BY <1>12, <3>2
    <3>6. QED
      BY <2>1, <3>2, <3>4, <3>5
  <2>2. CASE l # 0
    BY <1>7, <1>12, <1>13, <2>2
  <2>3. QED
    BY <2>1, <2>2
<1>22. /\ queue' \in [Loops -> Seq(Functors)]
       /\ \A m \in Loops : NoRepeat(queue'[m]) /\ Len(queue[m]) <= Len(queue'[m])
       /\ \A m \in Loops : Range(queue[m]) \subseteq Range(queue'[m])
       /\ \A m \in Loops : \A f \in Range(queue'[m]) :
            f \in Range(queue[m]) \/ (m = l /\ l # 0 /\ f = g)
  <2>1. CASE l = 0
    <3>1. queue' = queue
      BY <1>7, <2>1
    <3>2. \A m \in Loops : Len(queue[m]) <= Len(queue[m])
      BY <1>13
    <3>3. QED
      BY <1>13, <3>1, <3>2
  <2>2. CASE l # 0
    <3>1. g \in Functors /\ g.c = c
      BY <1>5, <1>8 DEF Functor, Functors
    <3>2. queue' = [queue EXCEPT ![l] = Append(@, g)]
      BY <1>7, <2>2
    <3>3. /\ queue' \in [Loops -> Seq(Functors)]
          /\ queue'[l] = Append(queue[l], g)
          /\ \A m \in Loops : m # l => queue'[m] = queue[m]
      BY <1>9, <1>13, <3>1, <3>2
    <3>4. \A f \in Range(queue[l]) : f.c # g.c
      BY <1>9, <1>12, <3>1
    <3>5. /\ queue \in [Loops -> Seq(Functors)] /\ l \in Loops
          /\ \A m \in Loops : NoRepeat(queue[m])
      BY <1>9, <1>13
    <3>6. /\ \A m \in Loops : NoRepeat(queue'[m]) /\ Len(queue[m]) <= Len(queue'[m])
          /\ Range(queue'[l]) = Range(queue[l]) \cup {g}
          /\ \A m \in Loops : m # l => Range(queue'[m]) = Range(queue[m])
      BY <3>1, <3>3, <3>4, <3>5, Push
    <3>7. \A m \in Loops : Range(queue[m]) \subseteq Range(queue'[m])
      BY <3>6
    <3>8. QED
      BY <2>2, <3>3, <3>6, <3>7
  <2>3. QED
    BY <2>1, <2>2
<1>23. ServerTypes'
  <2>1. \A m \in Loops : /\ batch[m] \in Nat /\ Len(queue[m]) \in Nat
                         /\ Len(queue'[m]) \in Nat /\ batch[m] <= Len(queue[m])
    BY <1>13, <1>22 DEF ServerInv, ServerTypes
  <2>2. \A m \in Loops : batch'[m] <= Len(queue'[m])
    BY <1>6, <1>22, <2>1
  <2>3. nextConnId' \in Nat \ {0}
    BY <1>6 DEF ServerInv, ServerTypes
  <2>4. batch' \in [Loops -> Nat]
    BY <1>6 DEF ServerInv, ServerTypes
  <2>5. QED
    BY <1>13, <1>18, <1>19, <1>21, <1>22, <2>2, <2>3, <2>4 DEF ServerTypes
<1>24. StageInv'
  <2>1. \A d \in Conns : d >= nextConnId' => d # c /\ d >= nextConnId
    BY <1>1, <1>6, ServerAssumption DEF ServerInv, ServerTypes, Conns
  <2>2. /\ conn'[c].fd \in Fds /\ conn'[c].loop \in Loops
        /\ Accepted(c)' \/ Established(c)'
        /\ \A d \in Conns : d # c /\ Alive(d) => conn[d].fd # conn'[c].fd
    BY <1>9, <1>10, <1>17, <1>18, <1>20
  <2>3. QED
    BY <1>6, <1>8, <1>19, <1>20, <2>1, <2>2, StageStep
<1>25. QueueInv'
  <2>1. l # 0 => FunctorInv(l, g)'
    <3>1. g.op = "connectEstablished" /\ g.c = c
      BY <1>5 DEF Functor
    <3>2. QED
      BY <1>8, <1>17, <1>18, <1>20, <3>1 DEF FunctorInv
  <2>2. \A m \in Loops : \A f \in Range(queue'[m]) :
           (f \in Range(queue[m]) /\ f.c # c) \/ FunctorInv(m, f)'
    BY <1>12, <1>22, <2>1
  <2>3. \A m \in Loops : \A f \in Range(queue[m]) : f \in Range(queue'[m])
    BY <1>22
  <2>4. \A m \in Loops : NoRepeat(queue'[m])
    BY <1>22
  <2>5. QED
    BY <1>6, <1>8, <1>19, <1>20, <2>2, <2>3, <2>4, QueueStep
<1>26. RefInv'
  <2>1. \A m \in Loops : \A d \in held'[m] : d # c /\ d \in held[m]
    BY <1>6, <1>12
  <2>2. \A m \in Loops : \A d \in active'[m] \ {ListenChannel} : d # c /\ d \in active[m]
    BY <1>6, <1>12
  <2>3. \A m \in Loops, n \in Fds : channels'[m][n] = c =>
           /\ Established(c)' \/ Closed(c)'
           /\ conn'[c].fd = n /\ conn'[c].loop = m
    BY <1>17, <1>18, <1>20, <1>21
  <2>4. Established(c)' \/ Closed(c)' => channels'[conn'[c].loop][conn'[c].fd] = c
    BY <1>17, <1>18, <1>20, <1>21
  <2>5. QED
    BY <1>6, <1>8, <1>13, <1>19, <1>21, <2>1, <2>2, <2>3, <2>4, RefStep
<1>27. ListenInv'
  <2>1. g.op # "listen"
    BY <1>5 DEF Functor
  <2>2. QED
    BY <1>6, <1>19, <1>22, <2>1 DEF ServerInv, ListenInv
<1>28. QED
  BY <1>15, <1>23, <1>24, <1>25, <1>26, <1>27 DEF ServerInv

-----------------------------------------------------------------------------
(* The invariant of the server, with the one of the pool.                   *)
LEMMA ServerInvariant == Spec => [](PoolInv /\ ServerInv)
<1>1. Init => ServerInv
  BY ServerInit
<1>2. PoolInv /\ ServerInv /\ [Next]_vars => ServerInv'
  <2> SUFFICES ASSUME PoolInv, ServerInv, [Next]_vars PROVE ServerInv'
    OBVIOUS
  <2>1. CASE StartThreads \/ DestroyServer \/ UNCHANGED vars
    BY <2>1, PoolStepInv
  <2>2. CASE StartListening
    BY <2>2, StartListeningInv
  <2>3. ASSUME NEW c \in Conns, PeerCloses(c) PROVE ServerInv'
    <3>1. 0 \in Loops
      BY DEF Loops, PoolInv, PoolTypes
    <3>2. QED
      BY <2>3, <3>1, QuietSteps
  <2>4. ASSUME NEW c \in Conns, UserShutsDown(c) PROVE ServerInv'
    BY <2>4, UserShutsDownInv
  <2>5. ASSUME NEW l \in Loops, LoopStep(l) PROVE ServerInv'
    <3>1. CASE Poll(l) \/ (l = 0 /\ AcceptEnds) \/ DoPendingFunctors(l)
      BY <3>1, QuietSteps
    <3>2. CASE NewConnection
      BY <3>2, NewConnectionInv
    <3>3. ASSUME NEW c \in Conns, HandleClose(l, c) PROVE ServerInv'
      BY <3>3, HandleCloseInv
    <3>4. CASE RunFunctor(l)
      <4>1. Head(queue[l]).op \in {"listen", "connectEstablished",
                                   "removeConnectionInLoop", "connectDestroyed"}
        BY <3>4 DEF RunFunctor
      <4>2. QED
        BY <3>4, <4>1, ListenFunctorInv, ConnectEstablishedInv, RemoveConnectionInv,
           ConnectDestroyedInv
    <3>5. CASE EndBatch(l)
      BY <3>5, EndBatchInv
    <3>6. QED
      BY <2>5, <3>1, <3>2, <3>3, <3>4, <3>5 DEF LoopStep
  <2>6. QED
    BY <2>1, <2>2, <2>3, <2>4, <2>5 DEF Next
<1>3. QED
  BY <1>1, <1>2, PoolInvariant, PTL DEF Spec

(* For any number of threads, connections and descriptors: every pointer    *)
(* that start() stores in loops_ is one that its thread has published, and  *)
(* nobody is accepted before they are all there (EventLoopThread.cc:21-34,  *)
(* Thread.cc:86-99, TcpServer.cc:34-42).                                    *)
THEOREM PublishedLoops == Spec => []LoopsAreReady
<1>1. PoolInv /\ ServerInv => LoopsAreReady
  <2> SUFFICES ASSUME PoolInv, ServerInv PROVE LoopsAreReady
    OBVIOUS
  <2>1. fault # "tid"
    BY DEF ServerInv
  <2>2. \A t \in 1..Len(loops) : loops[t] /\ pc[t] \in {"enter", "looping"}
    BY DEF PoolInv, StarterInv
  <2>3. listening => Len(loops) = numThreads
    BY DEF PoolInv, StarterInv, ServerInv, ListenInv
  <2>4. QED
    BY <2>1, <2>2, <2>3 DEF LoopsAreReady
<1>2. QED
  BY <1>1, ServerInvariant, PTL

(* No raw pointer to a connection dangles, whatever the number of loops and *)
(* however the steps of the base loop and the IO loops interleave           *)
(* (TcpServer.cc:45-83).                                                    *)
THEOREM RawPointersAreValid == Spec => []NoDanglingPointer
<1>1. PoolInv /\ ServerInv => NoDanglingPointer
  <2> SUFFICES ASSUME PoolInv, ServerInv PROVE NoDanglingPointer
    OBVIOUS
  <2>1. \A l \in Loops : \A f \in Range(queue[l]) : f.c # NoConn => Alive(f.c)
    BY FunctorStage
  <2>2. \A l \in Loops : \A c \in active[l] \ {ListenChannel} : Alive(c)
    BY DEF ServerInv, RefInv, Established
  <2>3. ASSUME NEW l \in Loops, NEW fd \in Fds, NEW c, c = channels[l][fd], c # NoConn
        PROVE  Alive(c) /\ conn[c].fd = fd /\ conn[c].loop = l
    <3>1. c \in Conns
      BY <2>3 DEF ServerInv, ServerTypes
    <3>2. QED
      BY <2>3, <3>1 DEF ServerInv, RefInv, Established, Closed
  <2>4. QED
    BY <2>1, <2>2, <2>3 DEF NoDanglingPointer, ServerInv
<1>2. QED
  BY <1>1, ServerInvariant, PTL

(* No assertion that the poller, ~Channel and ~TcpConnection make about a   *)
(* connection and its channel fails, although the kernel reuses descriptors *)
(* (EpollPoller.cc:64-114, Channel.cc:23-32, TcpConnection.cc:50-55).  The  *)
(* channel of the Acceptor is not a connection's: see DestroyServer.        *)
THEOREM ConnAssertionsNeverFail == Spec => []ConnAssertionsHold
<1>1. ServerInv => ConnAssertionsHold
  BY DEF ServerInv, ConnAssertionsHold
<1>2. QED
  BY <1>1, ServerInvariant, PTL

-----------------------------------------------------------------------------
(* The Acceptor of the server, in the detail of module Acceptor: the table  *)
(* of descriptors of the process, idlefd_, the Sockets, and handleRead one  *)
(* system call at a time, for every limit of descriptors and any number of  *)
(* clients.                                                                 *)
AcceptorTypes ==
    /\ table \in [Descriptors -> Clients \cup {Free, DevNull}]
    /\ idlefd \in Descriptors \cup {NoFd}
    /\ sock \in [Clients -> Descriptors \cup {NoFd}]
    /\ came \in 0..MaxClients
    /\ backlog \subseteq 1..came
    /\ limits \in 0..2
    /\ acceptPc \in {"loop", "accept", "closed", "refuse"}

\* A client nobody has accepted yet: no descriptor and no Socket is his.
Unseen(c) == sock[c] = NoFd /\ c \notin refused /\ \A fd \in Descriptors : table[fd] # c

(* A client goes from the backlog either to a Socket or to the spare        *)
(* descriptor, once, and never to both.                                     *)
ClientsInv ==
    /\ \A c \in Clients : c > came \/ c \in backlog => Unseen(c)
    /\ refused \cap Connected = {}

\* DescriptorsAreOwned, first part: an open socket has an owner.
OwnersInv ==
    \A fd \in Descriptors : table[fd] \in Clients =>
        \/ sock[table[fd]] = fd
        \/ table[fd] \in refused /\ idlefd = fd /\ acceptPc = "refuse"

(* Second part: why the Acceptor's own closes spare the connections up to   *)
(* the first EMFILE.  Until then idlefd_ is /dev/null; while the client who *)
(* took its place is turned away it is that client's, or none.              *)
SocketsInv ==
    /\ limits = 0 => acceptPc \in {"loop", "accept"} /\ idlefd \in Descriptors
                        /\ table[idlefd] = DevNull
    /\ limits = 1 /\ acceptPc = "refuse" /\ idlefd # NoFd => table[idlefd] \in refused
    /\ limits <= 1 => \A c \in Connected : table[sock[c]] = c

AcceptorInv == AcceptorTypes /\ ClientsInv /\ OwnersInv /\ SocketsInv

\* The lowest free descriptor, and the first of the clients waiting, is one of them.
LEMMA MinIsMember ==
    ASSUME NEW S \in SUBSET Nat, S # {}
    PROVE  Min(S) \in S
<1> DEFINE Less == {ss \in Nat \X Nat : ss[1] < ss[2]}
<1>1. IsWellFoundedOn(Less, Nat)
  BY NatLessThanWellFounded DEF OpToRel
<1>2. PICK x \in S : \A y \in S : ~(<<y, x>> \in Less)
  <2> HIDE DEF Less
  <2> QED
    BY <1>1, WFMin
<1>3. ASSUME NEW y \in S PROVE x <= y
  <2>1. x \in Nat /\ y \in Nat
    OBVIOUS
  <2>2. y < x => <<y, x>> \in Less
    BY <2>1
  <2>3. QED
    BY <1>2, <2>1, <2>2
<1>4. QED
  BY <1>3 DEF Min

\* What accept() picks when there are a free descriptor and a client.
LEMMA AcceptPicks ==
    ASSUME AcceptorTypes, FreeDescriptors(table) # {}, backlog # {}
    PROVE  /\ Min(FreeDescriptors(table)) \in Descriptors
           /\ table[Min(FreeDescriptors(table))] = Free
           /\ Min(backlog) \in Clients /\ Min(backlog) \in backlog
<1>1. FreeDescriptors(table) \in SUBSET Nat /\ backlog \in SUBSET Nat
  BY DEF FreeDescriptors, Descriptors, AcceptorTypes
<1>2. Min(FreeDescriptors(table)) \in FreeDescriptors(table) /\ Min(backlog) \in backlog
  BY <1>1, MinIsMember
<1>3. 1..came \subseteq Clients
  BY AcceptorAssumption DEF Clients, AcceptorTypes
<1>4. QED
  BY <1>2, <1>3 DEF FreeDescriptors, AcceptorTypes

-----------------------------------------------------------------------------
(* The invariant holds of a fresh Acceptor and is kept by every client that *)
(* connects, every branch of handleRead and every ~Socket, at any moment    *)
(* between two of handleRead's system calls.                                *)
LEMMA AcceptorInvariant == AcceptorSpec => []AcceptorInv
<1> USE AcceptorAssumption DEF Free, DevNull, NoFd, Descriptors, Clients
<1>1. AcceptorInit => AcceptorInv
  BY DEF AcceptorInit, AcceptorInv, AcceptorTypes, ClientsInv, Unseen, OwnersInv,
     SocketsInv, Connected
<1>2. AcceptorInv /\ [AcceptorNext]_acceptorVars => AcceptorInv'
  <2> SUFFICES ASSUME AcceptorInv, [AcceptorNext]_acceptorVars PROVE AcceptorInv'
    OBVIOUS
  <2> USE DEF AcceptorInv
  <2>1. CASE ClientConnects
    BY <2>1 DEF ClientConnects, AcceptorTypes, ClientsInv, Unseen, OwnersInv,
       SocketsInv, Connected
  <2>2. CASE ListenReady
    BY <2>2 DEF ListenReady, AcceptorTypes, ClientsInv, Unseen, OwnersInv,
       SocketsInv, Connected
  <2>3. CASE Accept
    <3> DEFINE c == Min(backlog)
               fd == Min(FreeDescriptors(table))
    <3>1. fd \in Descriptors /\ table[fd] = Free /\ c \in Clients /\ c \in backlog
      BY <2>3, AcceptPicks DEF Accept
    <3>2. /\ table' = [table EXCEPT ![fd] = c]
          /\ sock' = [sock EXCEPT ![c] = fd]
          /\ backlog' = backlog \ {c}
          /\ UNCHANGED <<idlefd, came, refused, limits, acceptPc>>
          /\ acceptPc = "accept"
      BY <2>3 DEF Accept
    <3> HIDE DEF c, fd
    <3>3. Unseen(c)
      BY <3>1 DEF ClientsInv
    <3>4. AcceptorTypes'
      BY <3>1, <3>2 DEF AcceptorTypes
    <3>5. ClientsInv'
      BY <3>1, <3>2, <3>3 DEF AcceptorTypes, ClientsInv, Unseen, Connected
    <3>6. OwnersInv'
      BY <3>1, <3>2, <3>3 DEF AcceptorTypes, OwnersInv, Unseen
    <3>7. SocketsInv'
      BY <3>1, <3>2, <3>3 DEF AcceptorTypes, SocketsInv, Unseen, Connected
    <3>8. QED
      BY <3>4, <3>5, <3>6, <3>7
  <2>4. CASE AcceptEmpty
    BY <2>4 DEF AcceptEmpty, AcceptorTypes, ClientsInv, Unseen, OwnersInv,
       SocketsInv, Connected
  <2>5. CASE AcceptFails
    BY <2>5 DEF AcceptFails, Close, AcceptorTypes, ClientsInv, Unseen,
       OwnersInv, SocketsInv, Connected
  <2>6. CASE AcceptSpare
    <3>1. CASE FreeDescriptors(table) # {} /\ backlog # {}
      <4> DEFINE c == Min(backlog)
                 fd == Min(FreeDescriptors(table))
      <4>1. fd \in Descriptors /\ table[fd] = Free /\ c \in Clients /\ c \in backlog
        BY <3>1, AcceptPicks
      <4>2. /\ table' = [table EXCEPT ![fd] = c] /\ idlefd' = fd
            /\ backlog' = backlog \ {c} /\ refused' = refused \cup {c}
            /\ UNCHANGED <<sock, came, limits>>
            /\ acceptPc = "closed" /\ acceptPc' = "refuse"
        BY <2>6, <3>1 DEF AcceptSpare
      <4> HIDE DEF c, fd
      <4>3. Unseen(c)
        BY <4>1 DEF ClientsInv
      <4>4. AcceptorTypes'
        BY <4>1, <4>2 DEF AcceptorTypes
      <4>5. ClientsInv'
        BY <4>1, <4>2, <4>3 DEF AcceptorTypes, ClientsInv, Unseen, Connected
      <4>6. OwnersInv'
        BY <4>1, <4>2, <4>3 DEF AcceptorTypes, OwnersInv, Unseen
      <4>7. SocketsInv'
        BY <4>1, <4>2, <4>3 DEF AcceptorTypes, SocketsInv, Unseen, Connected
      <4>8. QED
        BY <4>4, <4>5, <4>6, <4>7
    <3>2. CASE ~(FreeDescriptors(table) # {} /\ backlog # {})
      BY <2>6, <3>2 DEF AcceptSpare, AcceptorTypes, ClientsInv, Unseen,
         OwnersInv, SocketsInv, Connected
    <3>3. QED
      BY <3>1, <3>2
  <2>7. CASE Refuse
    BY <2>7, SMTT(30) DEF Refuse, Close, AcceptorTypes, ClientsInv, Unseen, OwnersInv,
       SocketsInv, Connected
  <2>8. ASSUME NEW c \in Clients, SocketDtor(c) PROVE AcceptorInv'
    <3>1. sock[c] \in Descriptors /\ table' = [table EXCEPT ![sock[c]] = Free]
             /\ sock' = [sock EXCEPT ![c] = NoFd]
             /\ UNCHANGED <<idlefd, backlog, came, refused, limits, acceptPc>>
      BY <2>8 DEF SocketDtor, Close, AcceptorTypes
    <3>2. AcceptorTypes'
      BY <3>1 DEF AcceptorTypes
    <3>3. ClientsInv'
      BY <3>1 DEF AcceptorTypes, ClientsInv, Unseen, Connected
    <3>4. OwnersInv'
      BY <3>1 DEF AcceptorTypes, OwnersInv
    <3>5. SocketsInv'
      BY <3>1 DEF AcceptorTypes, SocketsInv, ClientsInv, Connected
    <3>6. QED
      BY <3>2, <3>3, <3>4, <3>5
  <2>9. CASE UNCHANGED acceptorVars
    BY <2>9 DEF acceptorVars, AcceptorTypes, ClientsInv, Unseen, OwnersInv, SocketsInv,
       Connected
  <2>10. QED
    BY <2>1, <2>2, <2>3, <2>4, <2>5, <2>6, <2>7, <2>8, <2>9 DEF AcceptorNext, HandleRead
<1>3. QED
  BY <1>1, <1>2, PTL DEF AcceptorSpec

(* Whatever the limit of descriptors and whenever connections end: every    *)
(* open socket belongs to a connection that will close it or is about to be *)
(* closed by handleRead, and as long as accept has met EMFILE at most once  *)
(* the descriptor of every live connection still is that connection's.      *)
THEOREM NoDescriptorLeaks == AcceptorSpec => []DescriptorsAreOwned
<1>1. AcceptorInv => DescriptorsAreOwned
  BY DEF AcceptorInv, OwnersInv, SocketsInv, DescriptorsAreOwned
<1>2. QED
  BY <1>1, AcceptorInvariant, PTL
=============================================================================
