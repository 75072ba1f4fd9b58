--------------------------- MODULE TimerQueueProofs -------------------------
(* Theorems about TimerQueue for any timers, delays, intervals and times:   *)
(* every Timer object is owned exactly once, the timerfd is armed whenever  *)
(* a timer waits, and timers run only when they may; and about MinHeap for  *)
(* any keys: it stays ordered and holds what was put into it.               *)
EXTENDS TimerQueue, MinHeap, FiniteSetTheorems, WellFoundedInduction, TLAPS

Timers == [index : 0..MaxTimers, expiration : Nat, interval : Nat,
           repeat : BOOLEAN, canceled : BOOLEAN]
Histories == [interval : Nat, runs : Nat, cancelled : {"no", "asked", "stray"}]
Entries == Nat \X Addrs

TimerTypes ==
    /\ now \in Nat /\ readTime \in Nat /\ created \in 0..MaxTimers
    /\ heap \in SUBSET Entries /\ toReset \in SUBSET Entries
    /\ timer \in [Addrs -> Timers]
    /\ armedAt \in Nat \cup {Disarmed}
    /\ pc \in {"loop", "expired", "callback"}
    /\ hist \in [Indexes -> Histories]

(* TimersOwned without counting.  The vector of a handleRead is empty       *)
(* outside of it, and shares no entry with the heap.                        *)
OwnedInv ==
    /\ \A e \in heap \cup toReset : Live(e[2])
    /\ \A e, f \in heap \cup toReset : e[2] = f[2] => e = f
    /\ \A a \in Addrs : Live(a) => \E e \in heap \cup toReset : e[2] = a
    /\ heap \cap toReset = {}
    /\ \A e \in heap : e[1] = timer[e[2]].expiration
    /\ pc = "loop" => toReset = {}

(* The history of an index is that of the one Timer that carries it: no two *)
(* objects share an index, although addresses are used again.               *)
HistoryInv ==
    /\ \A a \in Addrs : timer[a].index <= created
    /\ \A a, b \in Addrs : Live(a) /\ timer[a].index = timer[b].index => a = b
    /\ \A i \in Indexes : i > created => hist[i].runs = 0 /\ hist[i].cancelled = "no"
    /\ \A a \in Addrs : Live(a) =>
         /\ (hist[timer[a].index].cancelled = "no" <=> timer[a].canceled = FALSE)
         /\ hist[timer[a].index].interval = timer[a].interval
         /\ timer[a].repeat => timer[a].interval > 0

Spent(a) == hist[timer[a].index].interval = 0 /\ hist[timer[a].index].runs # 0

(* A one-shot timer that still waits, in the heap or in the rest of the     *)
(* vector, has not run; the vector names no timer twice.                    *)
OnceInv ==
    /\ expired \in Seq(toReset)
    /\ \A e \in heap : ~Spent(e[2])
    /\ \A k \in 1..Len(expired) : ~Spent(expired[k][2])
    /\ \A j, k \in 1..Len(expired) : expired[j] = expired[k] => j = k

-----------------------------------------------------------------------------
\* The earliest of the entries is one of them.
LEMMA MinOfNaturals ==
    ASSUME NEW S \in SUBSET Nat, S # {}
    PROVE  Min(S) \in S /\ \A y \in S : Min(S) <= y
<1> DEFINE Less == {ss \in Nat \X Nat : ss[1] < ss[2]}
<1>1. IsWellFoundedOn(Less, Nat)
  BY NatLessThanWellFounded DEF OpToRel
<1>2. PICK x \in S : \A y \in S : ~(<<y, x>> \in Less)
  <2> HIDE DEF Less
  <2> QED
    BY <1>1, WFMin
<1>3. ASSUME NEW y \in S PROVE x <= y
  <2>1. x \in Nat /\ y \in Nat
    OBVIOUS
  <2>2. y < x => <<y, x>> \in Less
    BY <2>1
  <2>3. QED
    BY <1>2, <2>1, <2>2
<1>4. QED
  BY <1>3 DEF Min

LEMMA EarliestIsFirst ==
    ASSUME NEW h \in SUBSET Entries, h # {}
    PROVE  /\ Earliest(h) \in Nat
           /\ \E e \in h : e[1] = Earliest(h)
           /\ \A e \in h : Earliest(h) <= e[1]
<1> DEFINE times == {e[1] : e \in h}
<1>1. times \in SUBSET Nat /\ times # {}
  BY DEF Entries
<1>2. Min(times) \in times /\ \A y \in times : Min(times) <= y
  <2> HIDE DEF times
  <2> QED
    BY <1>1, MinOfNaturals
<1>3. QED
  BY <1>1, <1>2 DEF Earliest

\* cancelInLoop marks a Timer and changes nothing else of it.
LEMMA MarkedIsTimer ==
    ASSUME NEW t \in Timers
    PROVE  [t EXCEPT !.canceled = TRUE, !.repeat = FALSE] \in Timers
  BY DEF Timers

\* Every operation keeps the types.
LEMMA TimerTypesInvariant == Spec => []TimerTypes
<1> USE TimerAssumption DEF Timers, Histories, Entries, Indexes, Disarmed
<1>1. Init => TimerTypes
  BY DEF Init, TimerTypes, NoTimer
<1>2. TimerTypes /\ [Next]_vars => TimerTypes'
  <2> SUFFICES ASSUME TimerTypes, [Next]_vars PROVE TimerTypes'
    OBVIOUS
  <2> USE DEF TimerTypes
  <2>1. CASE Tick
    BY <2>1 DEF Tick
  <2>2. ASSUME NEW a \in Addrs, NEW d \in Delays, NEW i \in Intervals,
               AddTimer(a, d, i)
        PROVE  TimerTypes'
    <3>1. now + d \in Nat /\ i \in Nat /\ created + 1 \in 1..MaxTimers
      BY <2>2 DEF AddTimer
    <3>2. heap' \in SUBSET Entries
      <4>1. PICK e : e = <<now + d, a>>
        OBVIOUS
      <4>2. heap' = heap \cup {e}
        BY <2>2, <4>1 DEF AddTimer
      <4>3. e \in Entries
        BY <3>1, <4>1
      <4>4. QED
        BY <4>2, <4>3
    <3>3. timer' \in [Addrs -> Timers]
      <4>1. PICK t : t = [index |-> created + 1, expiration |-> now + d,
                          interval |-> i, repeat |-> i > 0, canceled |-> FALSE]
        OBVIOUS
      <4>2. timer' = [timer EXCEPT ![a] = t]
        BY <2>2, <4>1 DEF AddTimer
      <4>3. t \in Timers
        BY <3>1, <4>1
      <4>4. QED
        BY <4>2, <4>3
    <3>4. hist' \in [Indexes -> Histories]
      <4>1. PICK c \in Indexes : c = created + 1
        BY <3>1
      <4>2. hist' = [hist EXCEPT ![c] = [hist[c] EXCEPT !.interval = i]]
        BY <2>2, <4>1 DEF AddTimer
      <4>3. [hist[c] EXCEPT !.interval = i] \in Histories
        BY <3>1
      <4>4. QED
        BY <4>2, <4>3
    <3>5. armedAt' \in Nat \cup {Disarmed}
      BY <2>2, <3>1 DEF AddTimer, ResetTimerfd
    <3>6. QED
      BY <2>2, <3>1, <3>2, <3>3, <3>4, <3>5 DEF AddTimer
  <2>3. ASSUME NEW a \in Addrs, NEW i \in Indexes, Cancel(<<a, i>>)
        PROVE  TimerTypes'
    <3>1. CASE Live(a)
      <4>1. timer' = [timer EXCEPT ![a].canceled = TRUE, ![a].repeat = FALSE]
        BY <2>3, <3>1 DEF Cancel
      <4>2. PICK m \in {"asked", "stray"} :
               hist' = [hist EXCEPT ![timer[a].index].cancelled = m]
        BY <2>3, <3>1 DEF Cancel
      <4>3. timer' \in [Addrs -> Timers]
        <5>1. timer' = [timer EXCEPT ![a] = [timer[a] EXCEPT !.canceled = TRUE, !.repeat = FALSE]]
          BY <4>1
        <5>2. [timer[a] EXCEPT !.canceled = TRUE, !.repeat = FALSE] \in Timers
          BY MarkedIsTimer
        <5>3. QED
          BY <5>1, <5>2
      <4>4. hist' \in [Indexes -> Histories]
        <5>1. PICK c : c = timer[a].index
          OBVIOUS
        <5>2. hist' = [hist EXCEPT ![c] = [hist[c] EXCEPT !.cancelled = m]]
          BY <4>2, <5>1
        <5>3. c \in Indexes => [hist[c] EXCEPT !.cancelled = m] \in Histories
          OBVIOUS
        <5>4. QED
          BY <5>2, <5>3
      <4>5. QED
        BY <2>3, <4>3, <4>4 DEF Cancel
    <3>2. CASE ~Live(a)
      BY <2>3, <3>2 DEF Cancel
    <3>3. QED
      BY <3>1, <3>2
  <2>4. CASE HandleRead
    BY <2>4 DEF HandleRead, GetExpired
  <2>5. CASE RunTimer
    <3>1. hist' \in [Indexes -> Histories]
      <4> DEFINE i == timer[Head(expired)[2]].index
      <4>1. hist' = [hist EXCEPT ![i].runs = @ + 1] \/ hist' = hist
        BY <2>5 DEF RunTimer
      <4> HIDE DEF i
      <4>2. CASE hist' = [hist EXCEPT ![i].runs = @ + 1] /\ i \in Indexes
        <5>1. hist[i] \in Histories /\ hist[i].runs + 1 \in Nat
          BY <4>2
        <5>2. [hist[i] EXCEPT !.runs = @ + 1] \in Histories
          BY <5>1
        <5>3. hist' = [hist EXCEPT ![i] = [hist[i] EXCEPT !.runs = @ + 1]]
          BY <4>2
        <5>4. QED
          BY <5>2, <5>3
      <4>3. CASE hist' = [hist EXCEPT ![i].runs = @ + 1] /\ i \notin Indexes
        <5>1. hist' = hist
          BY <4>3
        <5>2. QED
          BY <5>1
      <4>4. QED
        BY <4>1, <4>2, <4>3
    <3>2. pc' \in {"loop", "expired", "callback"}
      BY <2>5 DEF RunTimer
    <3>3. QED
      BY <2>5, <3>1, <3>2 DEF RunTimer
  <2>6. CASE CallbackReturns
    BY <2>6 DEF CallbackReturns
  <2>7. CASE Reset
    <3> DEFINE again == {a \in {e[2] : e \in toReset} : Restarts(a)}
    <3>1. heap' = heap \cup {<<readTime + timer[a].interval, a>> : a \in again}
      BY <2>7 DEF Reset
    <3>2. ASSUME NEW a \in again
          PROVE  a \in Addrs /\ readTime + timer[a].interval \in Nat
      <4>1. a \in Addrs
        OBVIOUS
      <4>2. QED
        BY <4>1
    <3>3. heap' \in SUBSET Entries
      BY <3>1, <3>2
    <3>4. timer' \in [Addrs -> Timers]
      <4>1. NoTimer \in Timers
        BY DEF NoTimer
      <4>2. \A a \in Addrs :
               \/ timer'[a] = [timer[a] EXCEPT
                                !.expiration = readTime + timer[a].interval]
               \/ timer'[a] = NoTimer
               \/ timer'[a] = timer[a]
        BY <2>7 DEF Reset, Deleted
      <4>3. ASSUME NEW a \in Addrs PROVE timer'[a] \in Timers
        <5>1. timer[a] \in Timers /\ readTime + timer[a].interval \in Nat
          OBVIOUS
        <5>2. [timer[a] EXCEPT !.expiration = readTime + timer[a].interval] \in Timers
          BY <5>1
        <5>3. QED
          BY <4>1, <4>2, <5>1, <5>2
      <4>4. timer' = [a \in Addrs |-> timer'[a]]
        BY <2>7 DEF Reset
      <4>5. QED
        BY <4>3, <4>4
    <3>5. armedAt' \in Nat \cup {Disarmed}
      <4>1. armedAt' = Rearmed(heap')
        BY <2>7 DEF Reset
      <4>2. CASE heap' = {}
        BY <4>1, <4>2 DEF Rearmed
      <4>3. CASE heap' # {}
        <5>1. Earliest(heap') \in Nat
          BY <3>3, <4>3, EarliestIsFirst
        <5>2. QED
          BY <4>1, <4>3, <5>1 DEF Rearmed, ResetTimerfd
      <4>4. QED
        BY <4>2, <4>3
    <3>6. QED
      BY <2>7, <3>3, <3>4, <3>5 DEF Reset
  <2>8. CASE UNCHANGED vars
    BY <2>8 DEF vars
  <2>9. QED
    BY <2>1, <2>2, <2>3, <2>4, <2>5, <2>6, <2>7, <2>8 DEF Next
<1>3. QED
  BY <1>1, <1>2, PTL DEF Spec

-----------------------------------------------------------------------------
(* Adding a timer that is not earlier than the others leaves the earliest   *)
(* time as it is: addTimerInLoop need not touch the timerfd.                *)
LEMMA LaterEntry ==
    ASSUME NEW h \in SUBSET Entries, h # {}, NEW when \in Nat, NEW a \in Addrs,
           ~(when < Earliest(h))
    PROVE  Earliest(h \cup {<<when, a>>}) = Earliest(h)
<1> DEFINE g == h \cup {<<when, a>>}
<1>1. g \in SUBSET Entries /\ g # {}
  BY DEF Entries
<1>2. /\ Earliest(h) \in Nat /\ \E e \in h : e[1] = Earliest(h)
      /\ \A e \in h : Earliest(h) <= e[1]
  BY EarliestIsFirst
<1>3. /\ Earliest(g) \in Nat /\ \E e \in g : e[1] = Earliest(g)
      /\ \A e \in g : Earliest(g) <= e[1]
  <2> HIDE DEF g
  <2> QED
    BY <1>1, EarliestIsFirst
<1>4. Earliest(g) <= Earliest(h)
  BY <1>2, <1>3
<1>5. Earliest(h) <= Earliest(g)
  <2>1. PICK e \in g : e[1] = Earliest(g)
    BY <1>3
  <2>2. CASE e \in h
    BY <1>2, <2>1, <2>2
  <2>3. CASE e = <<when, a>>
    BY <1>2, <2>1, <2>3
  <2>4. QED
    BY <2>2, <2>3
<1>6. QED
  BY <1>2, <1>3, <1>4, <1>5

(* Whenever the loop polls and a timer waits, the timerfd fires no later    *)
(* than that timer is due, whatever was added, cancelled or restarted       *)
(* before, from callbacks too.                                              *)
THEOREM TimerfdIsArmed == Spec => []TimerfdArmed
<1>1. Init => TimerfdArmed
  BY DEF Init, TimerfdArmed
<1>2. TimerTypes /\ TimerTypes' /\ TimerfdArmed /\ [Next]_vars => TimerfdArmed'
  <2> SUFFICES ASSUME TimerTypes, TimerTypes', TimerfdArmed, [Next]_vars,
                      pc' = "loop", heap' # {}
               PROVE  /\ armedAt' # Disarmed
                      /\ armedAt' <= Earliest(heap') \/ armedAt' <= now'
    BY DEF TimerfdArmed
  <2>0. Earliest(heap') \in Nat /\ now \in Nat /\ now' \in Nat
    BY EarliestIsFirst DEF TimerTypes
  <2>1. CASE Tick
    BY <2>0, <2>1 DEF Tick, TimerfdArmed, TimerTypes, Disarmed
  <2>2. ASSUME NEW a \in Addrs, NEW d \in Delays, NEW i \in Intervals,
               AddTimer(a, d, i)
        PROVE  /\ armedAt' # Disarmed
               /\ armedAt' <= Earliest(heap') \/ armedAt' <= now'
    <3> DEFINE when == now + d
    <3>1. /\ when \in Nat /\ pc = "loop" /\ now' = now
          /\ heap' = heap \cup {<<when, a>>}
          /\ armedAt' = IF heap = {} \/ when < Earliest(heap)
                          THEN ResetTimerfd(now, when) ELSE armedAt
      BY <2>2, TimerAssumption DEF AddTimer, TimerTypes
    <3> HIDE DEF when
    <3>2. CASE heap = {} \/ when < Earliest(heap)
      <4>1. armedAt' \in Nat /\ (armedAt' = when \/ armedAt' = now)
        BY <2>0, <3>1, <3>2 DEF ResetTimerfd
      <4>2. when <= Earliest(heap')
        <5>1. PICK e \in heap' : e[1] = Earliest(heap')
          BY EarliestIsFirst DEF TimerTypes
        <5>2. CASE e = <<when, a>>
          BY <3>1, <5>1, <5>2
        <5>3. CASE e \in heap
          <6>1. Earliest(heap) \in Nat /\ Earliest(heap) <= e[1]
            BY <5>3, EarliestIsFirst DEF TimerTypes
          <6>2. QED
            BY <2>0, <3>1, <3>2, <5>1, <5>3, <6>1
        <5>4. QED
          BY <3>1, <5>2, <5>3
      <4>3. QED
        BY <2>0, <3>1, <4>1, <4>2 DEF Disarmed
    <3>3. CASE ~(heap = {} \/ when < Earliest(heap))
      <4>1. Earliest(heap') = Earliest(heap)
        BY <3>1, <3>3, LaterEntry DEF TimerTypes
      <4>2. QED
        BY <3>1, <3>3, <4>1 DEF TimerfdArmed
    <3>4. QED
      BY <3>2, <3>3
  <2>3. CASE Reset
    <3>1. armedAt' = ResetTimerfd(now, Earliest(heap')) /\ now' = now
      BY <2>3 DEF Reset, Rearmed
    <3>2. QED
      BY <2>0, <3>1 DEF ResetTimerfd, Disarmed
  <2>4. ASSUME UNCHANGED <<now, heap, armedAt, pc>>
        PROVE  /\ armedAt' # Disarmed
               /\ armedAt' <= Earliest(heap') \/ armedAt' <= now'
    BY <2>4 DEF TimerfdArmed
  <2>5. CASE HandleRead \/ RunTimer \/ CallbackReturns
    BY <2>5 DEF HandleRead, RunTimer, CallbackReturns
  <2>6. QED
    BY <2>1, <2>2, <2>3, <2>4, <2>5 DEF Next, Cancel, vars
<1>3. QED
  BY <1>1, <1>2, TimerTypesInvariant, PTL DEF Spec

-----------------------------------------------------------------------------
(* Ownership moves with the entry: from the heap to the vector in           *)
(* handleRead, and in reset() back to the heap or to delete.                *)
LEMMA OwnedInvariant == Spec => []OwnedInv
<1>1. Init => OwnedInv
  BY DEF Init, OwnedInv, Live, NoTimer
<1>2. TimerTypes /\ OwnedInv /\ [Next]_vars => OwnedInv'
  <2> SUFFICES ASSUME TimerTypes, OwnedInv, [Next]_vars PROVE OwnedInv'
    OBVIOUS
  <2>1. ASSUME NEW a \in Addrs, NEW d \in Delays, NEW i \in Intervals,
               AddTimer(a, d, i)
        PROVE  OwnedInv'
    <3> DEFINE when == now + d
    <3>1. /\ heap' = heap \cup {<<when, a>>} /\ UNCHANGED <<toReset, pc>>
          /\ ~Live(a)
      BY <2>1 DEF AddTimer
    <3>2. \A b \in Addrs : b # a => timer'[b] = timer[b]
      BY <2>1 DEF AddTimer, TimerTypes
    <3>3. timer'[a].index = created + 1 /\ timer'[a].expiration = when
      BY <2>1 DEF AddTimer, TimerTypes
    <3>4. Live(a)'
      BY <3>3 DEF Live, TimerTypes
    <3>5. \A e \in heap \cup toReset : e[2] \in Addrs /\ e[2] # a
      BY <3>1 DEF OwnedInv, TimerTypes, Entries
    <3> HIDE DEF when
    <3>6. \A e \in (heap \cup toReset)' :
             e \in heap \cup toReset \/ e = <<when, a>>
      BY <3>1
    <3>7. \A e \in (heap \cup toReset)' : Live(e[2])'
      BY <3>2, <3>4, <3>5, <3>6 DEF OwnedInv, Live
    <3>8. \A e, f \in (heap \cup toReset)' : e[2] = f[2] => e = f
      BY <3>5, <3>6 DEF OwnedInv
    <3>9. ASSUME NEW b \in Addrs, Live(b)'
          PROVE  \E e \in (heap \cup toReset)' : e[2] = b
      <4>1. CASE b = a
        <5>1. <<when, a>> \in (heap \cup toReset)' /\ <<when, a>>[2] = a
          BY <3>1
        <5>2. QED
          BY <4>1, <5>1
      <4>2. CASE b # a
        <5>1. Live(b)
          BY <3>2, <3>9, <4>2 DEF Live
        <5>2. QED
          BY <3>1, <5>1 DEF OwnedInv
      <4>3. QED
        BY <4>1, <4>2
    <3>10. (heap \cap toReset)' = {}
      BY <3>1, <3>5 DEF OwnedInv
    <3>11. \A e \in heap' : e[1] = timer'[e[2]].expiration
      BY <3>1, <3>2, <3>3, <3>5 DEF OwnedInv
    <3>12. QED
      BY <3>1, <3>7, <3>8, <3>9, <3>10, <3>11 DEF OwnedInv
  <2>2. ASSUME NEW a \in Addrs, NEW i \in Indexes, Cancel(<<a, i>>)
        PROVE  OwnedInv'
    <3>1. \A b \in Addrs : timer'[b].index = timer[b].index
                             /\ timer'[b].expiration = timer[b].expiration
      <4>1. CASE timer' = [timer EXCEPT ![a].canceled = TRUE, ![a].repeat = FALSE]
        BY <4>1 DEF TimerTypes, Timers
      <4>2. CASE timer' = timer
        BY <4>2
      <4>3. QED
        BY <2>2, <4>1, <4>2 DEF Cancel
    <3>2. UNCHANGED <<heap, toReset, pc>>
      BY <2>2 DEF Cancel
    <3>3. \A e \in heap \cup toReset : e[2] \in Addrs
      BY DEF TimerTypes, Entries
    <3>4. QED
      BY <3>1, <3>2, <3>3 DEF OwnedInv, Live
  <2>3. CASE HandleRead
    BY <2>3 DEF HandleRead, GetExpired, OwnedInv, Live
  <2>4. CASE Reset
    <3> DEFINE addrs == {e[2] : e \in toReset}
               again == {a \in addrs : Restarts(a)}
    <3>1. /\ heap' = heap \cup {<<readTime + timer[a].interval, a>> : a \in again}
          /\ toReset' = {}
      BY <2>4 DEF Reset
    <3>2. addrs \subseteq Addrs /\ again \subseteq addrs
      BY DEF TimerTypes, Entries
    <3>3. \A a \in again :
             /\ timer'[a].index = timer[a].index
             /\ timer'[a].expiration = readTime + timer[a].interval
      <4> SUFFICES ASSUME NEW a \in again
                   PROVE  /\ timer'[a].index = timer[a].index
                          /\ timer'[a].expiration = readTime + timer[a].interval
        OBVIOUS
      <4>1. a \in Addrs
        BY <3>2
      <4>2. timer'[a] = [timer[a] EXCEPT
                           !.expiration = readTime + timer[a].interval]
        BY <2>4, <4>1 DEF Reset
      <4>3. timer[a] \in Timers
        BY <4>1 DEF TimerTypes
      <4>4. QED
        BY <4>2, <4>3 DEF Timers
    <3>4. \A a \in addrs \ again : timer'[a] = NoTimer
      BY <2>4, <3>2 DEF Reset, Deleted
    <3>5. \A a \in Addrs \ addrs : timer'[a] = timer[a]
      BY <2>4 DEF Reset
    <3>6. \A e \in heap : e[2] \in Addrs \ addrs
      BY DEF OwnedInv, TimerTypes, Entries
    <3>7. \A a \in addrs : Live(a)
      BY DEF OwnedInv
    <3>8. \A e \in heap' : \/ e \in heap
                           \/ e[2] \in again /\ e[1] = readTime + timer[e[2]].interval
                                /\ e = <<e[1], e[2]>>
      BY <3>1
    <3>9. \A a \in again : <<readTime + timer[a].interval, a>> \in heap'
      BY <3>1
    <3>10. heap \subseteq heap'
      BY <3>1
    <3> HIDE DEF addrs, again
    <3>11. \A e \in heap' : Live(e[2])' /\ e[1] = timer'[e[2]].expiration
      BY <3>2, <3>3, <3>5, <3>6, <3>7, <3>8 DEF OwnedInv, Live
    <3>12. \A e, f \in heap' : e[2] = f[2] => e = f
      BY <3>2, <3>6, <3>8 DEF OwnedInv
    <3>13. ASSUME NEW a \in Addrs, Live(a)' PROVE \E e \in heap' : e[2] = a
      <4>1. CASE a \in again
        BY <3>9, <4>1
      <4>2. CASE a \in addrs \ again
        BY <3>4, <3>13, <4>2 DEF Live, NoTimer
      <4>3. CASE a \in Addrs \ addrs
        <5>1. PICK e \in heap \cup toReset : e[2] = a
          BY <3>5, <3>13, <4>3 DEF OwnedInv, Live
        <5>2. e \notin toReset
          BY <4>3, <5>1 DEF addrs
        <5>3. QED
          BY <3>10, <5>1, <5>2
      <4>4. QED
        BY <4>1, <4>2, <4>3
    <3>14. QED
      BY <3>1, <3>11, <3>12, <3>13 DEF OwnedInv
  <2>5. ASSUME UNCHANGED <<heap, toReset, timer>>, pc' = "loop" => pc = "loop"
        PROVE  OwnedInv'
    BY <2>5 DEF OwnedInv, Live
  <2>6. QED
    BY <2>1, <2>2, <2>3, <2>4, <2>5 DEF Next, Tick, RunTimer, CallbackReturns, vars
<1>3. QED
  BY <1>1, <1>2, TimerTypesInvariant, PTL DEF Spec

(* No Timer leaks, none is deleted twice and no entry dangles: each live    *)
(* object has exactly one entry, in the heap or in handleRead's vector, and *)
(* an entry of the heap carries the time of its timer.                      *)
THEOREM TimersAreOwnedOnce == Spec => []TimersOwned
<1>1. ASSUME OwnedInv PROVE TimersOwned
  <2>1. ASSUME NEW a \in Addrs
        PROVE  Cardinality({e \in heap \cup toReset : e[2] = a})
                  = IF Live(a) THEN 1 ELSE 0
    <3> DEFINE owners == {e \in heap \cup toReset : e[2] = a}
    <3>1. CASE Live(a)
      <4>1. PICK e \in heap \cup toReset : e[2] = a
        BY <1>1, <3>1 DEF OwnedInv
      <4>2. owners = {e}
        BY <1>1, <4>1 DEF OwnedInv
      <4>3. QED
        BY <3>1, <4>2, FS_Singleton
    <3>2. CASE ~Live(a)
      <4>1. owners = {}
        BY <1>1, <3>2 DEF OwnedInv
      <4>2. QED
        BY <3>2, <4>1, FS_EmptySet
    <3>3. QED
      BY <3>1, <3>2
  <2>2. QED
    BY <1>1, <2>1 DEF OwnedInv, TimersOwned
<1>2. QED
  BY <1>1, OwnedInvariant, PTL

-----------------------------------------------------------------------------
(* What the operations do to a timer and to the history of its index.       *)
LEMMA AddTimerHistory ==
    ASSUME TimerTypes, NEW a \in Addrs, NEW d \in Delays, NEW i \in Intervals,
           AddTimer(a, d, i)
    PROVE  /\ created' = created + 1 /\ created + 1 \in Indexes
           /\ timer'[a].index = created + 1 /\ timer'[a].interval = i
           /\ timer'[a].canceled = FALSE /\ timer'[a].repeat = (i > 0)
           /\ \A b \in Addrs : b # a => timer'[b] = timer[b]
           /\ \A j \in Indexes : /\ hist'[j].runs = hist[j].runs
                                 /\ hist'[j].cancelled = hist[j].cancelled
           /\ \A j \in Indexes : j # created + 1 => hist'[j] = hist[j]
           /\ hist'[created + 1].interval = i
<1>1. created' = created + 1 /\ created + 1 \in Indexes
  BY TimerAssumption DEF AddTimer, TimerTypes, Indexes
<1>2. timer' = [timer EXCEPT ![a] =
                  [index |-> created + 1, expiration |-> now + d, interval |-> i,
                   repeat |-> i > 0, canceled |-> FALSE]]
  BY DEF AddTimer
<1>3. hist' = [hist EXCEPT ![created + 1].interval = i]
  BY DEF AddTimer
<1>4. /\ timer'[a].index = created + 1 /\ timer'[a].interval = i
      /\ timer'[a].canceled = FALSE /\ timer'[a].repeat = (i > 0)
      /\ \A b \in Addrs : b # a => timer'[b] = timer[b]
  BY <1>2 DEF TimerTypes
<1>5. /\ \A j \in Indexes : /\ hist'[j].runs = hist[j].runs
                            /\ hist'[j].cancelled = hist[j].cancelled
      /\ \A j \in Indexes : j # created + 1 => hist'[j] = hist[j]
      /\ hist'[created + 1].interval = i
  BY <1>1, <1>3 DEF TimerTypes, Histories
<1>6. QED
  BY <1>1, <1>4, <1>5

LEMMA CancelHistory ==
    ASSUME TimerTypes, NEW a \in Addrs, NEW i \in Indexes, Cancel(<<a, i>>), Live(a)
    PROVE  /\ timer[a].index \in Indexes
           /\ timer'[a].canceled = TRUE /\ timer'[a].repeat = FALSE
           /\ \A b \in Addrs : b # a => timer'[b] = timer[b]
           /\ \A b \in Addrs : timer'[b].index = timer[b].index
                                 /\ timer'[b].interval = timer[b].interval
           /\ \A j \in Indexes : /\ hist'[j].runs = hist[j].runs
                                 /\ hist'[j].interval = hist[j].interval
           /\ \A j \in Indexes : j # timer[a].index => hist'[j] = hist[j]
           /\ hist'[timer[a].index].cancelled # "no"
<1>1. timer' = [timer EXCEPT ![a].canceled = TRUE, ![a].repeat = FALSE]
  BY DEF Cancel
<1>2. PICK m \in {"asked", "stray"} :
         hist' = [hist EXCEPT ![timer[a].index].cancelled = m]
  BY DEF Cancel
<1>3. timer[a].index \in Indexes
  BY TimerAssumption DEF TimerTypes, Timers, Live, Indexes
<1>4. /\ timer'[a].canceled = TRUE /\ timer'[a].repeat = FALSE
      /\ \A b \in Addrs : b # a => timer'[b] = timer[b]
      /\ \A b \in Addrs : timer'[b].index = timer[b].index
                            /\ timer'[b].interval = timer[b].interval
  BY <1>1 DEF TimerTypes, Timers
<1>5. /\ \A j \in Indexes : /\ hist'[j].runs = hist[j].runs
                            /\ hist'[j].interval = hist[j].interval
      /\ \A j \in Indexes : j # timer[a].index => hist'[j] = hist[j]
      /\ hist'[timer[a].index].cancelled # "no"
  BY <1>2, <1>3 DEF TimerTypes, Histories
<1>6. QED
  BY <1>3, <1>4, <1>5

LEMMA RunTimerHistory ==
    ASSUME TimerTypes, OwnedInv, OnceInv, RunTimer
    PROVE  /\ Head(expired) \in toReset /\ Head(expired)[2] \in Addrs
           /\ timer[Head(expired)[2]].index \in Indexes
           /\ \A j \in Indexes : /\ hist'[j].interval = hist[j].interval
                                 /\ hist'[j].cancelled = hist[j].cancelled
           /\ \A j \in Indexes : hist'[j].runs # hist[j].runs =>
                 j = timer[Head(expired)[2]].index /\ IsDue(Head(expired)[2])
<1> DEFINE a == Head(expired)[2]
<1>1. Head(expired) \in toReset
  BY DEF RunTimer, OnceInv
<1>2. a \in Addrs /\ Live(a)
  BY <1>1 DEF OwnedInv, TimerTypes, Entries
<1>3. timer[a].index \in Indexes
  <2> HIDE DEF a
  <2> QED
    BY <1>2, TimerAssumption DEF TimerTypes, Timers, Live, Indexes
<1>4. \/ hist' = [hist EXCEPT ![timer[a].index].runs = @ + 1] /\ IsDue(a)
      \/ hist' = hist
  BY DEF RunTimer
<1> HIDE DEF a
<1>5. /\ \A j \in Indexes : /\ hist'[j].interval = hist[j].interval
                            /\ hist'[j].cancelled = hist[j].cancelled
      /\ \A j \in Indexes : hist'[j].runs # hist[j].runs =>
            j = timer[a].index /\ IsDue(a)
  BY <1>3, <1>4 DEF TimerTypes, Histories
<1>6. QED
  BY <1>1, <1>2, <1>3, <1>5 DEF a

LEMMA ResetTimers ==
    ASSUME TimerTypes, OwnedInv, Reset
    PROVE  /\ \A a \in Addrs : timer'[a] = NoTimer
                 \/ /\ timer'[a].index = timer[a].index
                    /\ timer'[a].interval = timer[a].interval
                    /\ timer'[a].repeat = timer[a].repeat
                    /\ timer'[a].canceled = timer[a].canceled
           /\ \A e \in heap' :
                 \/ e \in heap /\ timer'[e[2]] = timer[e[2]]
                 \/ /\ e[2] \in Addrs /\ Live(e[2]) /\ timer[e[2]].repeat
                    /\ timer'[e[2]].index = timer[e[2]].index
<1> DEFINE addrs == {e[2] : e \in toReset}
           again == {a \in addrs : Restarts(a)}
<1>1. addrs \subseteq Addrs /\ again \subseteq addrs
  BY DEF TimerTypes, Entries
<1>2. ASSUME NEW a \in again
      PROVE  /\ timer'[a].index = timer[a].index
             /\ timer'[a].interval = timer[a].interval
             /\ timer'[a].repeat = timer[a].repeat
             /\ timer'[a].canceled = timer[a].canceled
  <2>1. a \in Addrs
    BY <1>1
  <2>2. timer'[a] = [timer[a] EXCEPT !.expiration = readTime + timer[a].interval]
    BY <2>1 DEF Reset
  <2>3. timer[a] \in Timers
    BY <2>1 DEF TimerTypes
  <2>4. QED
    BY <2>2, <2>3 DEF Timers
<1>3. \A a \in addrs \ again : timer'[a] = NoTimer
  BY <1>1 DEF Reset, Deleted
<1>4. \A a \in Addrs \ addrs : timer'[a] = timer[a]
  BY DEF Reset
<1>5. \A e \in heap' : e \in heap \/ e[2] \in again
  BY DEF Reset
<1>6. \A a \in again : Live(a) /\ timer[a].repeat
  BY DEF Restarts, OwnedInv
<1>7. \A e \in heap : e[2] \in Addrs \ addrs
  BY DEF OwnedInv, TimerTypes, Entries
<1> HIDE DEF addrs, again
<1>8. QED
  BY <1>1, <1>2, <1>3, <1>4, <1>5, <1>6, <1>7

\* However many addresses there are, only MaxTimers timers are in the heap.
LEMMA HeapIsFinite ==
    ASSUME TimerTypes, OwnedInv, HistoryInv
    PROVE  IsFiniteSet(heap)
<1> DEFINE indexOf == [e \in heap |-> timer[e[2]].index]
<1>1. ASSUME NEW e \in heap
      PROVE  e[2] \in Addrs /\ Live(e[2]) /\ timer[e[2]].index \in Indexes
  <2>1. e[2] \in Addrs /\ Live(e[2])
    BY DEF TimerTypes, Entries, OwnedInv
  <2>2. timer[e[2]] \in Timers
    BY <2>1 DEF TimerTypes
  <2>3. QED
    BY <2>1, <2>2, TimerAssumption DEF Timers, Live, Indexes
<1>2. \A e, f \in heap : timer[e[2]].index = timer[f[2]].index => e = f
  BY <1>1 DEF HistoryInv, OwnedInv
<1>3. indexOf \in Injection(heap, Indexes)
  BY <1>1, <1>2 DEF Injection, IsInjective
<1>4. IsFiniteSet(Indexes)
  BY TimerAssumption, FS_Interval DEF Indexes
<1>5. QED
  BY <1>3, <1>4, FS_Injection

(* A timer's history is found under its index by nobody else, so what users *)
(* asked for and what happened to it stay together.                         *)
LEMMA HistoryInvariant == Spec => [](HistoryInv /\ OnceInv)
<1>1. ASSUME Init PROVE HistoryInv /\ OnceInv
  <2>1. \A a \in Addrs : timer[a].index = 0 /\ ~Live(a)
    BY <1>1 DEF Init, Live, NoTimer
  <2>2. ASSUME NEW i \in Indexes PROVE hist[i].runs = 0 /\ hist[i].cancelled = "no"
    <3>1. hist[i] = [interval |-> 0, runs |-> 0, cancelled |-> "no"]
      BY <1>1 DEF Init
    <3>2. QED
      BY <3>1
  <2>3. HistoryInv
    <3>1. created = 0 /\ \A a \in Addrs : timer[a].index <= created
      BY <1>1, <2>1 DEF Init
    <3>2. QED
      BY <2>1, <2>2, <3>1 DEF HistoryInv
  <2>4. OnceInv
    BY <1>1 DEF Init, OnceInv
  <2>5. QED
    BY <2>3, <2>4
<1>2. TimerTypes /\ OwnedInv /\ HistoryInv /\ OnceInv /\ [Next]_vars
         => HistoryInv' /\ OnceInv'
  <2> SUFFICES ASSUME TimerTypes, OwnedInv, HistoryInv, OnceInv, [Next]_vars
               PROVE  HistoryInv' /\ OnceInv'
    OBVIOUS
  <2>0. \A b \in Addrs : timer[b].index \in 0..MaxTimers
           /\ (Live(b) => timer[b].index \in Indexes)
    BY TimerAssumption DEF TimerTypes, Timers, Live, Indexes
  <2>1. ASSUME NEW a \in Addrs, NEW d \in Delays, NEW i \in Intervals,
               AddTimer(a, d, i)
        PROVE  HistoryInv' /\ OnceInv'
    <3>1. ~Live(a) /\ UNCHANGED <<expired, toReset>> /\ i \in Nat
             /\ heap' = heap \cup {<<now + d, a>>}
      BY <2>1, TimerAssumption DEF AddTimer
    <3>2. /\ created' = created + 1 /\ created + 1 \in Indexes
          /\ timer'[a].index = created + 1 /\ timer'[a].interval = i
          /\ timer'[a].canceled = FALSE /\ timer'[a].repeat = (i > 0)
          /\ \A b \in Addrs : b # a => timer'[b] = timer[b]
          /\ \A j \in Indexes : /\ hist'[j].runs = hist[j].runs
                                /\ hist'[j].cancelled = hist[j].cancelled
          /\ \A j \in Indexes : j # created + 1 => hist'[j] = hist[j]
          /\ hist'[created + 1].interval = i
      BY <2>1, AddTimerHistory
    <3>3. \A b \in Addrs : timer[b].index # created + 1
      BY <2>0 DEF HistoryInv, TimerTypes
    <3>4. HistoryInv'
      <4>1. \A b \in Addrs : timer'[b].index <= created'
        BY <2>0, <3>2 DEF HistoryInv, TimerTypes
      <4>2. \A b, c \in Addrs : Live(b)' /\ timer'[b].index = timer'[c].index
                                   => b = c
        BY <3>1, <3>2, <3>3 DEF HistoryInv, Live
      <4>3. \A j \in Indexes : j > created' => hist'[j].runs = 0
                                                 /\ hist'[j].cancelled = "no"
        BY <3>2 DEF HistoryInv, TimerTypes, Indexes
      <4>4. ASSUME NEW b \in Addrs, Live(b)'
            PROVE  /\ (hist'[timer'[b].index].cancelled = "no" <=> timer'[b].canceled = FALSE)
                   /\ hist'[timer'[b].index].interval = timer'[b].interval
                   /\ timer'[b].repeat => timer'[b].interval > 0
        <5>1. CASE b = a
          <6>1. hist'[created + 1].cancelled = "no"
            BY <3>2 DEF HistoryInv, TimerTypes, Histories, Indexes
          <6>2. QED
            BY <3>1, <3>2, <5>1, <6>1
        <5>2. CASE b # a
          <6>1. Live(b) /\ timer[b].index \in Indexes
            BY <2>0, <3>2, <4>4, <5>2 DEF Live
          <6>2. hist'[timer[b].index] = hist[timer[b].index]
            BY <3>2, <3>3, <6>1
          <6>3. QED
            BY <3>2, <5>2, <6>1, <6>2 DEF HistoryInv
        <5>3. QED
          BY <5>1, <5>2
      <4>5. QED
        BY <4>1, <4>2, <4>3, <4>4 DEF HistoryInv
    <3>5. hist'[created + 1].runs = 0
      BY <3>2 DEF HistoryInv, TimerTypes, Indexes
    <3>6. \A b \in Addrs : Live(b) => Spent(b)' = Spent(b)
      BY <2>0, <3>1, <3>2, <3>3 DEF Spent
    <3>7. \A e \in heap \cup toReset : e[2] \in Addrs /\ Live(e[2])
      BY DEF OwnedInv, TimerTypes, Entries
    <3>8. \A k \in 1..Len(expired) : expired[k] \in toReset
      BY DEF OnceInv
    <3>9. ~Spent(a)'
      BY <3>2, <3>5 DEF Spent
    <3>10. \A e \in heap' : ~Spent(e[2])'
      BY <3>1, <3>6, <3>7, <3>9 DEF OnceInv
    <3>11. (\A k \in 1..Len(expired) : ~Spent(expired[k][2]))'
      BY <3>1, <3>6, <3>7, <3>8 DEF OnceInv
    <3>12. QED
      BY <3>1, <3>4, <3>10, <3>11 DEF OnceInv
  <2>2. ASSUME NEW a \in Addrs, NEW i \in Indexes, Cancel(<<a, i>>)
        PROVE  HistoryInv' /\ OnceInv'
    <3>1. UNCHANGED <<created, heap, expired, toReset>>
      BY <2>2 DEF Cancel
    <3>2. CASE ~Live(a)
      <4>1. UNCHANGED <<timer, hist>>
        BY <2>2, <3>2 DEF Cancel
      <4>2. QED
        BY <3>1, <4>1 DEF HistoryInv, OnceInv, Live, Spent
    <3>3. CASE Live(a)
      <4>1. /\ timer[a].index \in Indexes
            /\ timer'[a].canceled = TRUE /\ timer'[a].repeat = FALSE
            /\ \A b \in Addrs : b # a => timer'[b] = timer[b]
            /\ \A b \in Addrs : timer'[b].index = timer[b].index
                                  /\ timer'[b].interval = timer[b].interval
            /\ \A j \in Indexes : /\ hist'[j].runs = hist[j].runs
                                  /\ hist'[j].interval = hist[j].interval
            /\ \A j \in Indexes : j # timer[a].index => hist'[j] = hist[j]
            /\ hist'[timer[a].index].cancelled # "no"
        BY <2>2, <3>3, CancelHistory
      <4>2. timer[a].index <= created
        BY DEF HistoryInv
      <4>3. HistoryInv'
        <5>1. \A b \in Addrs : timer'[b].index <= created'
          BY <3>1, <4>1 DEF HistoryInv
        <5>2. \A b, c \in Addrs : Live(b)' /\ timer'[b].index = timer'[c].index
                                     => b = c
          BY <4>1 DEF HistoryInv, Live
        <5>3. \A j \in Indexes : j > created' => hist'[j].runs = 0
                                                   /\ hist'[j].cancelled = "no"
          BY <3>1, <4>1, <4>2 DEF HistoryInv, TimerTypes, Indexes
        <5>4. ASSUME NEW b \in Addrs, Live(b)'
              PROVE  /\ (hist'[timer'[b].index].cancelled = "no" <=> timer'[b].canceled = FALSE)
                     /\ hist'[timer'[b].index].interval = timer'[b].interval
                     /\ timer'[b].repeat => timer'[b].interval > 0
          <6>1. Live(b) /\ timer[b].index \in Indexes
            BY <2>0, <4>1, <5>4 DEF Live
          <6>2. CASE b = a
            <7>1. hist[timer[a].index].interval = timer[a].interval
              BY <3>3 DEF HistoryInv
            <7>2. QED
              BY <4>1, <6>2, <7>1
          <6>3. CASE b # a
            <7>1. timer[b].index # timer[a].index
              BY <6>1, <6>3 DEF HistoryInv
            <7>2. QED
              BY <4>1, <6>1, <6>3, <7>1 DEF HistoryInv
          <6>4. QED
            BY <6>2, <6>3
        <5>5. QED
          BY <5>1, <5>2, <5>3, <5>4 DEF HistoryInv
      <4>4. \A b \in Addrs : Live(b) => Spent(b)' = Spent(b)
        BY <2>0, <4>1 DEF Spent
      <4>5. \A e \in heap \cup toReset : e[2] \in Addrs /\ Live(e[2])
        BY DEF OwnedInv, TimerTypes, Entries
      <4>6. \A k \in 1..Len(expired) : expired[k] \in toReset
        BY DEF OnceInv
      <4>7. QED
        BY <3>1, <4>3, <4>4, <4>5, <4>6 DEF OnceInv
    <3>4. QED
      BY <3>2, <3>3
  <2>3. CASE HandleRead
    <3> DEFINE due == GetExpired(now)
    <3>1. /\ expired' \in InOrder(due) /\ toReset' = due /\ heap' \subseteq heap
          /\ UNCHANGED <<timer, created, hist>>
      BY <2>3 DEF HandleRead
    <3>2. due \subseteq heap
      BY DEF GetExpired
    <3>3. Cardinality(due) \in Nat
      <4>1. IsFiniteSet(due)
        BY <3>2, HeapIsFinite, FS_Subset
      <4>2. QED
        BY <4>1, FS_CardinalityType
    <3> HIDE DEF due
    <3>4. /\ expired' \in [1..Cardinality(due) -> due]
          /\ \A j, k \in 1..Cardinality(due) :
                j < k => Before(expired'[j], expired'[k])
      BY <3>1 DEF InOrder
    <3>5. expired' \in Seq(due) /\ Len(expired') = Cardinality(due)
      BY <3>3, <3>4
    <3>6. \A e \in due : e[1] \in Nat /\ e[2] \in Nat
      BY <3>2, TimerAssumption DEF TimerTypes, Entries
    <3>7. ASSUME NEW j \in 1..Len(expired'), NEW k \in 1..Len(expired'),
                 expired'[j] = expired'[k]
          PROVE  j = k
      <4>1. ~(j < k)
        BY <3>4, <3>5, <3>6, <3>7 DEF Before
      <4>2. ~(k < j)
        BY <3>4, <3>5, <3>6, <3>7 DEF Before
      <4>3. QED
        BY <3>3, <3>5, <4>1, <4>2
    <3>8. \A k \in 1..Len(expired') : expired'[k] \in heap
      BY <3>2, <3>4, <3>5
    <3>9. OnceInv'
      BY <3>1, <3>5, <3>7, <3>8 DEF OnceInv, Spent
    <3>10. HistoryInv'
      BY <3>1 DEF HistoryInv, Live
    <3>11. QED
      BY <3>9, <3>10
  <2>4. CASE RunTimer
    <3> DEFINE a == Head(expired)[2]
    <3>1. /\ UNCHANGED <<timer, created, heap, toReset>>
          /\ expired # <<>> /\ expired' = Tail(expired)
      BY <2>4 DEF RunTimer
    <3>2. /\ Head(expired) \in toReset /\ a \in Addrs /\ timer[a].index \in Indexes
          /\ \A j \in Indexes : /\ hist'[j].interval = hist[j].interval
                                /\ hist'[j].cancelled = hist[j].cancelled
          /\ \A j \in Indexes : hist'[j].runs # hist[j].runs => j = timer[a].index
      BY <2>4, RunTimerHistory
    <3>3. /\ expired' \in Seq(toReset) /\ Len(expired') = Len(expired) - 1
          /\ \A k \in 1..Len(expired') : k + 1 \in 1..Len(expired)
                                           /\ expired'[k] = expired[k + 1]
          /\ Head(expired) = expired[1] /\ 1 \in 1..Len(expired)
          /\ Len(expired) \in Nat
      BY <3>1 DEF OnceInv
    <3>4. \A e \in heap \cup toReset : e[2] \in Addrs /\ Live(e[2])
      BY DEF OwnedInv, TimerTypes, Entries
    <3>5. ASSUME NEW e \in heap \cup toReset, e # Head(expired)
          PROVE  Spent(e[2])' = Spent(e[2])
      <4>1. e[2] # a
        BY <3>2, <3>5 DEF OwnedInv
      <4>2. timer[e[2]].index # timer[a].index
        BY <3>2, <3>4, <4>1 DEF HistoryInv
      <4>3. timer[e[2]].index \in Indexes
        BY <2>0, <3>4
      <4>4. QED
        BY <3>1, <3>2, <4>2, <4>3 DEF Spent
    <3> HIDE DEF a
    <3>6. HistoryInv'
      <4>1. \A j \in Indexes : j > created => hist'[j].runs = 0
        BY <3>2 DEF HistoryInv, TimerTypes, Indexes
      <4>2. QED
        BY <2>0, <3>1, <3>2, <4>1 DEF HistoryInv, Live
    <3>7. \A e \in heap' : ~Spent(e[2])'
      <4>1. \A e \in heap : e # Head(expired)
        BY <3>2 DEF OwnedInv
      <4>2. QED
        BY <3>1, <3>5, <4>1 DEF OnceInv
    <3>8. ASSUME NEW k \in 1..Len(expired') PROVE ~(Spent(expired[k][2])')
      <4>1. expired'[k] = expired[k + 1] /\ expired[k + 1] \in toReset
               /\ k + 1 \in 1..Len(expired) /\ k + 1 # 1
        BY <3>3 DEF OnceInv
      <4>2. expired[k + 1] # Head(expired)
        BY <3>3, <4>1 DEF OnceInv
      <4>3. Spent(expired[k + 1][2])
               <=> hist'[timer'[expired[k + 1][2]].index].interval = 0
                     /\ hist'[timer'[expired[k + 1][2]].index].runs # 0
        BY <3>5, <4>1, <4>2 DEF Spent
      <4>4. ~Spent(expired[k + 1][2])
        BY <4>1 DEF OnceInv
      <4>5. QED
        BY <4>1, <4>3, <4>4 DEF Spent
    <3>9. \A j, k \in 1..Len(expired') : expired'[j] = expired'[k] => j = k
      BY <3>3 DEF OnceInv
    <3>10. OnceInv'
      BY <3>1, <3>3, <3>7, <3>8, <3>9 DEF OnceInv
    <3>11. QED
      BY <3>6, <3>10
  <2>5. CASE Reset
    <3>1. /\ expired = <<>> /\ expired' = <<>>
          /\ UNCHANGED <<created, hist>>
      BY <2>5 DEF Reset
    <3>2. /\ \A a \in Addrs : timer'[a] = NoTimer
                \/ /\ timer'[a].index = timer[a].index
                   /\ timer'[a].interval = timer[a].interval
                   /\ timer'[a].repeat = timer[a].repeat
                   /\ timer'[a].canceled = timer[a].canceled
          /\ \A e \in heap' :
                \/ e \in heap /\ timer'[e[2]] = timer[e[2]]
                \/ /\ e[2] \in Addrs /\ Live(e[2]) /\ timer[e[2]].repeat
                   /\ timer'[e[2]].index = timer[e[2]].index
      BY <2>5, ResetTimers
    <3>3. NoTimer.index = 0 /\ 0 <= created
      BY DEF NoTimer, TimerTypes
    <3>4. HistoryInv'
      <4>1. \A b \in Addrs : timer'[b].index <= created'
        BY <3>1, <3>2, <3>3 DEF HistoryInv
      <4>2. \A b \in Addrs : Live(b)' => Live(b)
               /\ timer'[b].index = timer[b].index
               /\ timer'[b].interval = timer[b].interval
               /\ timer'[b].repeat = timer[b].repeat
               /\ timer'[b].canceled = timer[b].canceled
        BY <3>2, <3>3 DEF Live
      <4>3. \A b, c \in Addrs : Live(b)' /\ timer'[b].index = timer'[c].index
                                   => b = c
        <5>1. SUFFICES ASSUME NEW b \in Addrs, NEW c \in Addrs, Live(b)',
                              timer'[b].index = timer'[c].index
                       PROVE  b = c
          OBVIOUS
        <5>2. Live(c)'
          BY <5>1 DEF Live
        <5>3. QED
          BY <4>2, <5>1, <5>2 DEF HistoryInv
      <4>4. QED
        BY <3>1, <4>1, <4>2, <4>3 DEF HistoryInv
    <3>5. \A e \in heap' : ~Spent(e[2])'
      <4> SUFFICES ASSUME NEW e \in heap' PROVE ~Spent(e[2])'
        OBVIOUS
      <4>1. CASE e \in heap /\ timer'[e[2]] = timer[e[2]]
        BY <3>1, <4>1 DEF OnceInv, Spent
      <4>2. CASE /\ e[2] \in Addrs /\ Live(e[2]) /\ timer[e[2]].repeat
                 /\ timer'[e[2]].index = timer[e[2]].index
        <5>1. hist[timer[e[2]].index].interval # 0
          BY <4>2 DEF HistoryInv, TimerTypes, Timers
        <5>2. QED
          BY <3>1, <4>2, <5>1 DEF Spent
      <4>3. QED
        BY <3>2, <4>1, <4>2
    <3>6. OnceInv'
      BY <3>1, <3>5 DEF OnceInv
    <3>7. QED
      BY <3>4, <3>6
  <2>6. ASSUME UNCHANGED <<heap, toReset, timer, expired, created, hist>>
        PROVE  HistoryInv' /\ OnceInv'
    BY <2>6 DEF HistoryInv, OnceInv, Live, Spent
  <2>7. QED
    BY <2>1, <2>2, <2>3, <2>4, <2>5, <2>6 DEF Next, Tick, CallbackReturns, vars
<1>3. QED
  BY <1>1, <1>2, TimerTypesInvariant, OwnedInvariant, PTL DEF Spec

(* handleRead calls a timer only while nobody has cancelled it, also when   *)
(* the cancel came from a callback earlier in the same vector, and never    *)
(* calls a one-shot timer a second time, although addresses of deleted      *)
(* timers are used again.                                                   *)
THEOREM TimersRunLegally == Spec => RunsAreLegal
<1>1. ASSUME TimerTypes, OwnedInv, HistoryInv, OnceInv, [Next]_vars,
             NEW i \in Indexes, hist'[i].runs # hist[i].runs
      PROVE  hist[i].cancelled = "no" /\ (hist[i].interval = 0 => hist[i].runs = 0)
  <2>1. CASE RunTimer
    <3> DEFINE a == Head(expired)[2]
    <3>1. /\ Head(expired) \in toReset /\ a \in Addrs
          /\ i = timer[a].index /\ IsDue(a)
      BY <1>1, <2>1, RunTimerHistory
    <3>2. Live(a)
      BY <1>1, <3>1 DEF OwnedInv
    <3>3. hist[i].cancelled = "no"
      <4> HIDE DEF a
      <4> QED
        BY <1>1, <3>1, <3>2 DEF HistoryInv, IsDue
    <3>4. ~Spent(a)
      <4>1. Head(expired) = expired[1] /\ 1 \in 1..Len(expired)
        BY <1>1, <2>1 DEF OnceInv, RunTimer
      <4>2. QED
        BY <1>1, <4>1 DEF OnceInv
    <3>5. QED
      BY <3>1, <3>3, <3>4 DEF Spent
  <2>2. ASSUME NEW a \in Addrs, NEW d \in Delays, NEW j \in Intervals,
               AddTimer(a, d, j)
        PROVE  FALSE
    BY <1>1, <2>2, AddTimerHistory
  <2>3. ASSUME NEW a \in Addrs, NEW j \in Indexes, Cancel(<<a, j>>)
        PROVE  FALSE
    <3>1. CASE Live(a)
      BY <1>1, <2>3, <3>1, CancelHistory
    <3>2. CASE ~Live(a)
      BY <1>1, <2>3, <3>2 DEF Cancel
    <3>3. QED
      BY <3>1, <3>2
  <2>4. hist' # hist
    BY <1>1
  <2>5. QED
    BY <1>1, <2>1, <2>2, <2>3, <2>4
       DEF Next, Tick, HandleRead, CallbackReturns, Reset, vars
<1>2. TimerTypes /\ OwnedInv /\ HistoryInv /\ OnceInv /\ [Next]_vars
        => [\A i \in Indexes : hist'[i].runs # hist[i].runs =>
              /\ hist[i].cancelled = "no"
              /\ hist[i].interval = 0 => hist[i].runs = 0]_vars
  BY <1>1
<1>3. QED
  BY <1>2, TimerTypesInvariant, OwnedInvariant, HistoryInvariant, PTL
     DEF Spec, RunsAreLegal

-----------------------------------------------------------------------------
(* MinHeap: the heap of the timers.                                         *)

HeapTypes ==
    /\ VectorCapacity \in Nat \ {0} /\ mem \in [0..(VectorCapacity - 1) -> Nat]
    /\ dataSize \in Nat /\ size \in Nat /\ capacity \in Nat
    /\ heapPc \in {"idle", "push", "climb", "sink"} /\ hole \in Nat /\ moving \in Nat
    /\ lost \in BOOLEAN

\* Every index an operation uses is inside the storage.
Room ==
    /\ heapPc = "idle" => size < VectorCapacity
    /\ heapPc # "idle" => /\ lost = FALSE /\ size <= VectorCapacity
                          /\ hole < VectorCapacity
                          /\ hole < size \/ size = 0
    /\ heapPc \in {"push", "climb"} => hole < size
    /\ heapPc \in {"climb", "sink"} => size < VectorCapacity

\* The elements of the heap, with x where the hole is.
Values == [i \in 0..(size - 1) |-> IF heapPc # "idle" /\ i = hole THEN moving ELSE mem[i]]

\* V lists the n elements of S, each once.
Lists(V, n, S) ==
    /\ \A i, j \in 0..(n - 1) : V[i] = V[j] => i = j
    /\ \A i \in 0..(n - 1) : V[i] \in S
    /\ \A c \in S : \E i \in 0..(n - 1) : V[i] = c
    /\ IsFiniteSet(S) /\ Cardinality(S) = n

(* The order holds around the hole, and across it: the children of the hole *)
(* are above its parent, x is below the children of a hole that climbs and  *)
(* above the parent of one that sinks.                                      *)
HeapOrder ==
    /\ \A j \in 1..(size - 1) :
         heapPc = "idle" \/ (j # hole /\ Parent(j) # hole) => mem[Parent(j)] < mem[j]
    /\ heapPc # "idle" => \A c \in 1..(size - 1) : Parent(c) = hole =>
         /\ hole # 0 => mem[Parent(hole)] < mem[c]
         /\ heapPc # "sink" => moving < mem[c]
    /\ heapPc = "sink" /\ hole # 0 => mem[Parent(hole)] < moving

HeapInv ==
    /\ HeapTypes /\ Room
    /\ lost = FALSE => Lists(Values, size, contents) /\ HeapOrder

-----------------------------------------------------------------------------
LEMMA ParentOf ==
    /\ Parent(0) = 0
    /\ \A i \in Nat \ {0} : /\ Parent(i) \in Nat /\ Parent(i) < i
                            /\ i = Left(Parent(i)) \/ i = Right(Parent(i))
    /\ \A i \in Nat : /\ Left(i) \in Nat /\ Right(i) \in Nat
                      /\ i < Left(i) /\ i < Right(i)
                      /\ Parent(Left(i)) = i /\ Parent(Right(i)) = i
  BY DEF Parent, Left, Right

\* push: one more element.
LEMMA OneMore ==
    ASSUME NEW n \in Nat, NEW V, NEW W, NEW S, NEW key,
           Lists(V, n, S), key \notin S, W[n] = key,
           \A i \in 0..(n - 1) : W[i] = V[i]
    PROVE  Lists(W, n + 1, S \cup {key})
<1>1. IsFiniteSet(S \cup {key}) /\ Cardinality(S \cup {key}) = n + 1
  BY FS_AddElement DEF Lists
<1>2. \A i \in 0..n : i = n \/ i \in 0..(n - 1)
  OBVIOUS
<1>3. \A i \in 0..(n - 1) : V[i] \in S /\ W[i] \in S /\ i \in 0..n
  BY DEF Lists
<1>4. \A i, j \in 0..n : W[i] = W[j] => i = j
  BY <1>2, <1>3 DEF Lists
<1>5. \A i \in 0..n : W[i] \in S \cup {key}
  BY <1>2, <1>3
<1>6. \A c \in S \cup {key} : \E i \in 0..n : W[i] = c
  BY <1>3 DEF Lists
<1>7. QED
  BY <1>1, <1>4, <1>5, <1>6 DEF Lists

\* pop and remove: the last element takes the place of the one at i.
LEMMA OneLess ==
    ASSUME NEW n \in Nat, NEW V, NEW W, NEW S, NEW i \in 0..n,
           Lists(V, n + 1, S),
           \A j \in 0..(n - 1) : W[j] = IF j = i THEN V[n] ELSE V[j]
    PROVE  Lists(W, n, S \ {V[i]})
<1>1. /\ \A j \in 0..n : V[j] \in S
      /\ \A j, k \in 0..n : V[j] = V[k] => j = k
      /\ \A c \in S : \E j \in 0..n : V[j] = c
      /\ IsFiniteSet(S) /\ Cardinality(S) = n + 1
  BY DEF Lists
<1>2. IsFiniteSet(S \ {V[i]}) /\ Cardinality(S \ {V[i]}) = n
  BY <1>1, FS_RemoveElement
<1>3. \A j \in 0..(n - 1) : j \in 0..n /\ j # n
  OBVIOUS
<1>4. n \in 0..n
  OBVIOUS
<1>5. \A j, k \in 0..(n - 1) : W[j] = W[k] => j = k
  BY <1>1, <1>3, <1>4
<1>6. \A j \in 0..(n - 1) : W[j] \in S \ {V[i]}
  BY <1>1, <1>3, <1>4
<1>7. ASSUME NEW c \in S \ {V[i]} PROVE \E j \in 0..(n - 1) : W[j] = c
  <2>1. PICK j \in 0..n : V[j] = c
    BY <1>1
  <2>2. CASE j = n
    BY <2>1, <2>2
  <2>3. CASE j # n
    BY <2>1, <2>3
  <2>4. QED
    BY <2>2, <2>3
<1>8. QED
  BY <1>2, <1>5, <1>6, <1>7 DEF Lists

\* A turn of a loop: an element and x change places.
LEMMA Exchanged ==
    ASSUME NEW n \in Nat, NEW V, NEW W, NEW S, NEW a \in 0..(n - 1), NEW b \in 0..(n - 1),
           Lists(V, n, S), W[a] = V[b], W[b] = V[a],
           \A i \in 0..(n - 1) : i # a /\ i # b => W[i] = V[i]
    PROVE  Lists(W, n, S)
<1>1. \A i, j \in 0..(n - 1) : W[i] = W[j] => i = j
  BY DEF Lists
<1>2. \A i \in 0..(n - 1) : W[i] \in S
  BY DEF Lists
<1>3. ASSUME NEW c \in S PROVE \E i \in 0..(n - 1) : W[i] = c
  <2>1. PICK i \in 0..(n - 1) : V[i] = c
    BY DEF Lists
  <2>2. QED
    BY <2>1
<1>4. QED
  BY <1>1, <1>2, <1>3 DEF Lists

-----------------------------------------------------------------------------
(* The operations.                                                          *)
LEMMA HeapStarts == HeapInit => HeapInv
<1> SUFFICES ASSUME HeapInit PROVE HeapInv
  OBVIOUS
<1>1. InitSize \in Nat \ {0}
  BY HeapAssumption
<1>2. Cardinality(0..(InitSize - 1)) = InitSize
  BY <1>1, FS_Interval
<1>3. DOMAIN mem = 0..(InitSize - 1)
  BY DEF HeapInit
<1>4. VectorCapacity = InitSize
  BY <1>2, <1>3 DEF VectorCapacity
<1>5. HeapTypes
  BY <1>1, <1>4 DEF HeapInit, HeapTypes, T
<1>6. Room
  BY <1>1, <1>4 DEF HeapInit, Room
<1>7. Lists(Values, size, contents)
  BY FS_EmptySet DEF HeapInit, Lists
<1>8. HeapOrder
  BY DEF HeapInit, HeapOrder
<1>9. QED
  BY <1>5, <1>6, <1>7, <1>8 DEF HeapInv

LEMMA PushStep ==
    ASSUME HeapInv, NEW key \in Keys, Push(key)
    PROVE  HeapInv'
<1>1. /\ heapPc = "idle" /\ lost = FALSE /\ key \notin contents /\ size' = size + 1
      /\ heapPc' = "push" /\ hole' = size /\ moving' = key
      /\ contents' = contents \cup {key}
      /\ UNCHANGED <<mem, dataSize, capacity, lost>>
  BY DEF HeapInv, HeapTypes, Push, vectorVars
<1>2. HeapTypes /\ Room /\ Lists(Values, size, contents) /\ HeapOrder
  BY <1>1 DEF HeapInv
<1>3. VectorCapacity' = VectorCapacity
  BY <1>1 DEF VectorCapacity
<1>4. key \in Nat
  BY HeapAssumption
<1>5. HeapTypes'
  BY <1>1, <1>2, <1>3, <1>4 DEF HeapTypes
<1>6. Room'
  BY <1>1, <1>2, <1>3 DEF Room, HeapTypes
<1>7. Lists(Values', size + 1, contents')
  <2>1. size \in Nat
    BY <1>2 DEF HeapTypes
  <2>2. Values'[size] = key
    BY <1>1, <2>1 DEF Values
  <2>3. \A i \in 0..(size - 1) : Values'[i] = Values[i]
    BY <1>1, <2>1 DEF Values
  <2>4. QED
    BY <1>1, <1>2, <2>1, <2>2, <2>3, OneMore
<1>8. HeapOrder'
  <2>1. size \in Nat
    BY <1>2 DEF HeapTypes
  <2>2. ASSUME NEW j \in 1..size PROVE Parent(j) # size /\ (j # size => mem[Parent(j)] < mem[j])
    <3>1. Parent(j) < j /\ Parent(j) \in Nat
      BY <2>1, ParentOf
    <3>2. QED
      BY <1>1, <1>2, <2>1, <3>1 DEF HeapOrder
  <2>3. QED
    BY <1>1, <2>1, <2>2 DEF HeapOrder
<1>9. QED
  BY <1>1, <1>5, <1>6, <1>7, <1>8 DEF HeapInv

(* The element at i is taken out and the last one is held to replace it.    *)
LEMMA TakenOut ==
    ASSUME HeapInv, NEW i \in 0..(size - 1), heapPc = "idle", lost = FALSE,
           size' = size - 1, contents' = contents \ {mem[i]},
           UNCHANGED <<mem, dataSize, capacity, lost>>,
           hole' = i, moving' = mem[size - 1],
           heapPc' \in {"climb", "sink"},
           heapPc' = "climb" => moving' < mem[Parent(i)],
           heapPc' = "sink" /\ i # 0 => ~(moving' < mem[Parent(i)]),
           i = size - 1 => i = 0
    PROVE  HeapInv'
<1>1. HeapTypes /\ Room /\ Lists(Values, size, contents) /\ HeapOrder
  BY DEF HeapInv
<1>2. VectorCapacity' = VectorCapacity
  BY DEF VectorCapacity
<1>3. PICK n \in Nat : size = n + 1
  BY <1>1 DEF HeapTypes
<1>4. /\ VectorCapacity \in Nat /\ n + 1 < VectorCapacity
      /\ mem \in [0..(VectorCapacity - 1) -> Nat] /\ i \in 0..n /\ i \in Nat
      /\ size' = n /\ moving' = mem[n] /\ mem[n] \in Nat
  BY <1>1, <1>3 DEF HeapTypes, Room
<1>5. HeapTypes'
  BY <1>1, <1>2, <1>4 DEF HeapTypes
<1>6. i < n \/ (n = 0 /\ i = 0)
  BY <1>3, <1>4
<1>7. \A j \in 0..n : Values[j] = mem[j]
  BY <1>3 DEF Values
<1>8. \A j, k \in 0..n : mem[j] = mem[k] => j = k
  BY <1>1, <1>3, <1>7 DEF Lists
<1>9. n = 0 => heapPc' = "sink"
  <2>1. n = 0 => Parent(i) = i /\ mem[Parent(i)] = mem[n]
    BY <1>4, ParentOf
  <2>2. QED
    BY <1>4, <2>1
<1>10. Room'
  <2>1. heapPc' # "idle" /\ lost' = FALSE /\ size' <= VectorCapacity' /\ hole' < VectorCapacity'
    BY <1>2, <1>4
  <2>2. hole' < size' \/ size' = 0
    BY <1>4, <1>6
  <2>3. heapPc' \in {"push", "climb"} => hole' < size'
    BY <1>4, <1>6, <1>9
  <2>4. size' < VectorCapacity'
    BY <1>2, <1>4
  <2>5. QED
    BY <2>1, <2>2, <2>3, <2>4 DEF Room
<1>11. Lists(Values', n, contents')
  <2>1. \A j \in 0..(n - 1) : Values'[j] = IF j = i THEN Values[n] ELSE Values[j]
    BY <1>3, <1>4, <1>7 DEF Values
  <2>2. contents' = contents \ {Values[i]}
    BY <1>4, <1>7
  <2>3. Lists(Values, n + 1, contents)
    BY <1>1, <1>3
  <2>4. i \in 0..n
    BY <1>4
  <2>5. Lists(Values', n, contents \ {Values[i]})
    BY <2>1, <2>3, <2>4, OneLess
  <2>6. QED
    BY <2>2, <2>5
<1>12. \A j \in 1..n : /\ Parent(j) \in 0..n /\ Parent(j) < j
                       /\ mem[Parent(j)] < mem[j] /\ mem[j] \in Nat /\ mem[Parent(j)] \in Nat
  <2>1. ASSUME NEW j \in 1..n PROVE Parent(j) \in 0..n /\ Parent(j) < j
    BY ParentOf
  <2>2. \A j \in 1..n : mem[Parent(j)] < mem[j]
    BY <1>1, <1>3 DEF HeapOrder
  <2>3. \A j \in 0..n : j \in 0..(VectorCapacity - 1) /\ mem[j] \in Nat
    BY <1>4
  <2>4. \A j \in 1..n : j \in 0..n
    OBVIOUS
  <2>5. QED
    BY <2>1, <2>2, <2>3, <2>4
<1>13. HeapOrder'
  <2>1. \A j \in 1..(n - 1) : mem'[Parent(j)] < mem'[j]
    BY <1>12
  <2>2. ASSUME NEW c \in 1..(n - 1), Parent(c) = i
        PROVE  /\ i # 0 => mem[Parent(i)] < mem[c]
               /\ heapPc' # "sink" => moving' < mem[c]
    <3>1. c \in 1..n /\ mem[i] < mem[c] /\ mem[i] \in Nat /\ mem[c] \in Nat
      BY <1>12, <2>2
    <3>2. i # 0 => mem[Parent(i)] < mem[i] /\ mem[Parent(i)] \in Nat
      BY <1>4, <1>12
    <3>3. i = 0 => Parent(i) = 0
      BY ParentOf
    <3>4. heapPc' # "sink" => moving' < mem[Parent(i)] /\ moving' \in Nat
      BY <1>4
    <3>5. QED
      BY <3>1, <3>2, <3>3, <3>4
  <2>3. heapPc' = "sink" /\ i # 0 => mem[Parent(i)] < moving'
    <3>1. SUFFICES ASSUME heapPc' = "sink", i # 0 PROVE mem[Parent(i)] < mem[n]
      BY <1>4
    <3>2. Parent(i) \in 0..n /\ Parent(i) < i /\ mem[Parent(i)] \in Nat /\ i < n
      BY <1>4, <1>6, <1>12, <3>1
    <3>3. mem[Parent(i)] # mem[n]
      BY <1>4, <1>8, <3>2
    <3>4. ~(mem[n] < mem[Parent(i)])
      BY <1>4, <3>1
    <3>5. QED
      BY <1>4, <3>2, <3>3, <3>4
  <2>4. heapPc' # "idle"
    OBVIOUS
  <2>5. Parent(i)' = Parent(i)
    BY DEF Parent
  <2>6. QED
    BY <1>4, <2>1, <2>2, <2>3, <2>4 DEF HeapOrder
<1>14. QED
  BY <1>4, <1>5, <1>10, <1>11, <1>13 DEF HeapInv

\* The keys in a heap that is at rest are different, and mem lists them.
LEMMA RestingHeap ==
    ASSUME HeapInv, heapPc = "idle", lost = FALSE
    PROVE  /\ size \in Nat /\ \A i \in 0..(size - 1) : Values[i] = mem[i]
           /\ Lists(Values, size, contents)
  BY DEF HeapInv, HeapTypes, Values

LEMMA PopStep ==
    ASSUME HeapInv, Pop
    PROVE  HeapInv'
<1>1. /\ heapPc = "idle" /\ lost = FALSE /\ size > 0 /\ size' = size - 1
      /\ heapPc' = "sink" /\ hole' = 0 /\ moving' = mem[size - 1]
      /\ contents' = contents \ {mem[0]}
      /\ UNCHANGED <<mem, dataSize, capacity, lost>>
  BY DEF HeapInv, HeapTypes, Pop, vectorVars, Last
<1>2. size \in Nat
  BY DEF HeapInv, HeapTypes
<1>3. 0 \in 0..(size - 1)
  BY <1>1, <1>2
<1>4. QED
  BY <1>1, <1>3, TakenOut

LEMMA RemoveStep ==
    ASSUME HeapInv, NEW i \in 0..(size - 1), Remove(i)
    PROVE  HeapInv'
<1>1. /\ heapPc = "idle" /\ lost = FALSE /\ size' = size - 1
      /\ contents' = contents \ {mem[i]}
      /\ UNCHANGED <<mem, dataSize, capacity, lost>>
  BY DEF HeapInv, HeapTypes, Remove, vectorVars
<1>2. PICK n \in Nat : size = n + 1
  BY DEF HeapInv, HeapTypes
<1>3. CASE i # size - 1
  <2>1. /\ hole' = i /\ moving' = mem[size - 1]
        /\ heapPc' = IF mem[size - 1] < mem[Parent(i)] THEN "climb" ELSE "sink"
    BY <1>3 DEF Remove, Last
  <2>2. /\ heapPc' \in {"climb", "sink"}
        /\ heapPc' = "climb" => moving' < mem[Parent(i)]
        /\ heapPc' = "sink" /\ i # 0 => ~(moving' < mem[Parent(i)])
    BY <2>1
  <2>3. QED
    BY <1>1, <1>3, <2>1, <2>2, TakenOut
<1>4. CASE i = size - 1
  <2>1. heapPc' = "idle" /\ hole' = hole /\ moving' = moving
    BY <1>1, <1>4 DEF Remove, loopVars
  <2>2. HeapTypes /\ Room /\ HeapOrder
    BY <1>1 DEF HeapInv
  <2>3. VectorCapacity' = VectorCapacity
    BY <1>1 DEF VectorCapacity
  <2>4. i = n /\ size' = n /\ i \in 0..n
    BY <1>1, <1>2, <1>4
  <2>5. HeapTypes'
    BY <1>1, <2>1, <2>2, <2>3, <2>4 DEF HeapTypes
  <2>6. Room'
    BY <1>1, <1>2, <2>1, <2>2, <2>3, <2>4 DEF Room, HeapTypes
  <2>7. Lists(Values', n, contents')
    <3>1. \A j \in 0..n : Values[j] = mem[j]
      BY <1>1, <1>2 DEF Values
    <3>2. \A j \in 0..(n - 1) : Values'[j] = IF j = i THEN Values[n] ELSE Values[j]
      BY <1>1, <2>1, <2>4, <3>1 DEF Values
    <3>3. Lists(Values, n + 1, contents)
      BY <1>1, <1>2, RestingHeap
    <3>4. Lists(Values', n, contents \ {Values[i]})
      BY <2>4, <3>2, <3>3, OneLess
    <3>5. QED
      BY <1>1, <2>4, <3>1, <3>4
  <2>8. HeapOrder'
    <3>1. \A j \in 1..(n - 1) : j \in 1..(size - 1)
      BY <1>2
    <3>2. QED
      BY <1>1, <2>1, <2>2, <2>4, <3>1 DEF HeapOrder
  <2>9. QED
    BY <2>4, <2>5, <2>6, <2>7, <2>8 DEF HeapInv
<1>5. QED
  BY <1>3, <1>4

-----------------------------------------------------------------------------
(* The turns of the loops.                                                  *)

\* What holds inside an operation, of indices below size.
LEMMA InLoop ==
    ASSUME HeapInv, heapPc # "idle"
    PROVE  /\ lost = FALSE /\ Lists(Values, size, contents) /\ HeapOrder
           /\ size \in Nat /\ hole \in Nat /\ moving \in Nat
           /\ VectorCapacity \in Nat /\ size <= VectorCapacity
           /\ mem \in [0..(VectorCapacity - 1) -> Nat]
           /\ hole \in 0..(VectorCapacity - 1)
           /\ \A i \in 0..(size - 1) : i \in 0..(VectorCapacity - 1) /\ mem[i] \in Nat
           /\ \A j \in 1..(size - 1) : /\ Parent(j) \in 0..(size - 1) /\ Parent(j) < j
                                       /\ mem[Parent(j)] \in Nat /\ mem[j] \in Nat
           /\ \A i \in 0..(size - 1) : i # hole => Values[i] = mem[i]
           /\ hole \in 0..(size - 1) => Values[hole] = moving
<1>1. HeapTypes /\ Room
  BY DEF HeapInv
<1>2. lost = FALSE
  BY <1>1 DEF Room
<1>3. Lists(Values, size, contents) /\ HeapOrder
  BY <1>2 DEF HeapInv
<1>4. /\ size \in Nat /\ hole \in Nat /\ moving \in Nat
      /\ VectorCapacity \in Nat /\ size <= VectorCapacity
      /\ mem \in [0..(VectorCapacity - 1) -> Nat]
      /\ hole \in 0..(VectorCapacity - 1)
  BY <1>1 DEF HeapTypes, Room
<1>5. \A i \in 0..(size - 1) : i \in 0..(VectorCapacity - 1) /\ mem[i] \in Nat
  BY <1>4
<1>6. ASSUME NEW j \in 1..(size - 1)
      PROVE  /\ Parent(j) \in 0..(size - 1) /\ Parent(j) < j
             /\ mem[Parent(j)] \in Nat /\ mem[j] \in Nat
  <2>1. j \in Nat \ {0} /\ j \in 0..(size - 1) /\ j <= size - 1
    BY <1>4
  <2>2. Parent(j) \in Nat /\ Parent(j) < j
    BY <2>1, ParentOf
  <2>3. Parent(j) \in 0..(size - 1)
    BY <1>4, <2>1, <2>2
  <2>4. QED
    BY <1>5, <2>1, <2>2, <2>3
<1>7. /\ \A i \in 0..(size - 1) : i # hole => Values[i] = mem[i]
      /\ hole \in 0..(size - 1) => Values[hole] = moving
  BY DEF Values
<1>8. QED
  BY <1>2, <1>3, <1>4, <1>5, <1>6, <1>7

\* What a turn that moves the element at q into the hole changes.
LEMMA Turn ==
    ASSUME HeapInv, heapPc # "idle", NEW q \in 0..(size - 1), q # hole, hole < size, MoveFrom(q)
    PROVE  /\ HeapTypes' /\ Room' /\ Lists(Values', size', contents')
           /\ size' = size /\ heapPc' = heapPc /\ moving' = moving /\ hole' = q /\ lost' = lost
           /\ mem'[hole] = mem[q]
           /\ \A i \in 0..(size - 1) : i # hole => mem'[i] = mem[i]
<1>1. /\ size' = size /\ heapPc' = heapPc /\ moving' = moving /\ hole' = q /\ lost' = lost
      /\ dataSize' = dataSize /\ capacity' = capacity /\ contents' = contents
      /\ mem' = [mem EXCEPT ![hole] = mem[q]]
  BY DEF MoveFrom
<1>2. HeapTypes /\ Room
  BY DEF HeapInv
<1>3. /\ Lists(Values, size, contents)
      /\ size \in Nat /\ hole \in Nat /\ VectorCapacity \in Nat /\ size <= VectorCapacity
      /\ mem \in [0..(VectorCapacity - 1) -> Nat] /\ hole \in 0..(VectorCapacity - 1)
      /\ \A i \in 0..(size - 1) : i # hole => Values[i] = mem[i]
      /\ hole \in 0..(size - 1) => Values[hole] = moving
  BY InLoop
<1>4. hole \in 0..(size - 1) /\ q \in 0..(VectorCapacity - 1) /\ mem[q] \in Nat
  BY <1>3
<1>5. VectorCapacity' = VectorCapacity
  <2>1. DOMAIN mem' = DOMAIN mem
    BY <1>1
  <2>2. QED
    BY <2>1 DEF VectorCapacity
<1>6. /\ mem' \in [0..(VectorCapacity - 1) -> Nat]
      /\ mem'[hole] = mem[q]
      /\ \A i \in 0..(size - 1) : i # hole => mem'[i] = mem[i]
  BY <1>1, <1>3, <1>4
<1>7. HeapTypes'
  BY <1>1, <1>2, <1>4, <1>5, <1>6 DEF HeapTypes
<1>8. Room'
  BY <1>1, <1>2, <1>3, <1>4, <1>5 DEF Room
<1>9. Lists(Values', size, contents)
  <2>1. Values'[q] = moving
    BY <1>1 DEF Values
  <2>2. \A i \in 0..(size - 1) : i # q => Values'[i] = mem'[i]
    BY <1>1 DEF Values
  <2>3. Values'[hole] = Values[q] /\ Values'[q] = Values[hole]
    BY <1>3, <1>4, <1>6, <2>1, <2>2
  <2>4. \A i \in 0..(size - 1) : i # hole /\ i # q => Values'[i] = Values[i]
    BY <1>3, <1>6, <2>2
  <2>5. QED
    BY <1>3, <1>4, <2>3, <2>4, Exchanged
<1>10. QED
  BY <1>1, <1>6, <1>7, <1>8, <1>9

LEMMA ClimbStep ==
    ASSUME HeapInv, Climb
    PROVE  HeapInv'
<1>1. /\ heapPc \in {"push", "climb"} /\ heapPc # "idle" /\ heapPc # "sink"
      /\ moving < mem[Parent(hole)] /\ MoveFrom(Parent(hole))
  BY DEF Climb, Climbing
<1>2. /\ HeapOrder /\ size \in Nat /\ hole \in Nat /\ moving \in Nat /\ lost = FALSE
      /\ mem \in [0..(VectorCapacity - 1) -> Nat]
      /\ \A j \in 1..(size - 1) : /\ Parent(j) \in 0..(size - 1) /\ Parent(j) < j
                                  /\ mem[Parent(j)] \in Nat /\ mem[j] \in Nat
  BY <1>1, InLoop
<1>3. hole < size
  BY <1>1 DEF HeapInv, Room
<1>4. CASE hole = 0
  <2>1. Parent(hole) = hole
    BY <1>4, ParentOf
  <2>2. /\ mem' = mem /\ hole' = hole
        /\ UNCHANGED <<dataSize, capacity, size, heapPc, moving, contents, lost>>
    BY <1>1, <1>2, <2>1 DEF MoveFrom
  <2>3. VectorCapacity' = VectorCapacity /\ Values' = Values
    BY <2>2 DEF VectorCapacity, Values
  <2>4. HeapTypes' /\ Room' /\ Lists(Values', size', contents') /\ HeapOrder'
    BY <1>1, <1>2, <2>2, <2>3, InLoop DEF HeapInv, HeapTypes, Room, HeapOrder
  <2>5. QED
    BY <2>4 DEF HeapInv
<1>5. CASE hole # 0
  <2>1. PICK p : p = Parent(hole)
    OBVIOUS
  <2>2. hole \in 1..(size - 1)
    BY <1>2, <1>3, <1>5
  <2>3. p \in 0..(size - 1) /\ p < hole /\ mem[p] \in Nat /\ p # hole /\ p \in Nat
    BY <1>2, <2>1, <2>2
  <2>4. /\ HeapTypes' /\ Room' /\ Lists(Values', size', contents')
        /\ size' = size /\ heapPc' = heapPc /\ moving' = moving /\ hole' = p /\ lost' = lost
        /\ mem'[hole] = mem[p]
        /\ \A i \in 0..(size - 1) : i # hole => mem'[i] = mem[i]
    BY <1>1, <1>3, <2>1, <2>3, Turn
  <2>5. \A j \in 1..(size - 1) : j # hole /\ Parent(j) # hole => mem[Parent(j)] < mem[j]
    BY <1>1, <1>2 DEF HeapOrder
  <2>6. \A j \in 1..(size - 1) : Parent(j) = hole => mem[p] < mem[j]
    BY <1>1, <1>2, <1>5, <2>1 DEF HeapOrder
  <2>7. ASSUME NEW j \in 1..(size - 1), j # p, Parent(j) # p
        PROVE  mem'[Parent(j)] < mem'[j]
    <3>1. j # hole /\ mem'[j] = mem[j]
      BY <1>2, <2>1, <2>4, <2>7
    <3>2. CASE Parent(j) = hole
      BY <2>4, <2>6, <3>1, <3>2
    <3>3. CASE Parent(j) # hole
      BY <1>2, <2>4, <2>5, <3>1, <3>3
    <3>4. QED
      BY <3>2, <3>3
  <2>8. ASSUME NEW c \in 1..(size - 1), Parent(c) = p
        PROVE  /\ p # 0 => mem'[Parent(p)] < mem'[c]
               /\ moving < mem'[c]
    <3>1. mem[p] <= mem'[c] /\ mem'[c] \in Nat
      <4>1. CASE c = hole
        BY <2>3, <2>4, <4>1
      <4>2. CASE c # hole
        <5>1. mem[p] < mem[c] /\ mem'[c] = mem[c] /\ mem[c] \in Nat
          BY <1>2, <2>3, <2>4, <2>5, <2>8, <4>2
        <5>2. QED
          BY <2>3, <5>1
      <4>3. QED
        BY <4>1, <4>2
    <3>2. ASSUME p # 0 PROVE mem'[Parent(p)] < mem[p] /\ mem'[Parent(p)] \in Nat
      <4>1. p \in 1..(size - 1)
        BY <1>2, <2>3, <3>2
      <4>2. Parent(p) \in 0..(size - 1) /\ Parent(p) < p /\ mem[Parent(p)] \in Nat
        BY <1>2, <4>1
      <4>3. Parent(p) # hole
        BY <1>2, <2>3, <4>2
      <4>4. QED
        BY <2>3, <2>4, <2>5, <4>1, <4>2, <4>3
    <3>3. moving < mem[p]
      BY <1>1, <2>1
    <3>4. QED
      BY <1>2, <2>3, <3>1, <3>2, <3>3
  <2>9. HeapOrder'
    BY <1>1, <2>4, <2>7, <2>8 DEF HeapOrder
  <2>10. QED
    BY <2>4, <2>9 DEF HeapInv
<1>6. QED
  BY <1>4, <1>5

\* The children of the hole are not less than the one that moves up.
LEMMA SinkStep ==
    ASSUME HeapInv, Sink
    PROVE  HeapInv'
<1>1. PICK q \in SmallerChildren : heapPc = "sink" /\ heapPc # "idle" /\ MoveFrom(q)
  BY DEF Sink
<1>2. /\ HeapOrder /\ size \in Nat /\ hole \in Nat /\ moving \in Nat /\ lost = FALSE
      /\ Lists(Values, size, contents)
      /\ \A i \in 0..(size - 1) : i # hole => Values[i] = mem[i]
      /\ \A j \in 1..(size - 1) : /\ Parent(j) \in 0..(size - 1) /\ Parent(j) < j
                                  /\ mem[Parent(j)] \in Nat /\ mem[j] \in Nat
  BY <1>1, InLoop
<1>3. /\ q \in {Left(hole), Right(hole)} /\ q < size /\ moving > mem[q]
      /\ \A k \in {Left(hole), Right(hole)} : k < size /\ moving > mem[k] => mem[q] <= mem[k]
  BY <1>1 DEF SmallerChildren
<1>4. Parent(q) = hole /\ q \in Nat /\ hole < q
  BY <1>2, <1>3, ParentOf
<1>5. q \in 1..(size - 1) /\ q \in 0..(size - 1) /\ q # hole /\ hole < size /\ q # 0
  BY <1>2, <1>3, <1>4
<1>6. mem[q] \in Nat /\ mem[q] < moving
  BY <1>2, <1>3, <1>5
<1>7. /\ HeapTypes' /\ Room' /\ Lists(Values', size', contents')
      /\ size' = size /\ heapPc' = heapPc /\ moving' = moving /\ hole' = q /\ lost' = lost
      /\ mem'[hole] = mem[q]
      /\ \A i \in 0..(size - 1) : i # hole => mem'[i] = mem[i]
  BY <1>1, <1>5, Turn
<1>8. ASSUME NEW j \in 1..(size - 1), Parent(j) = hole, j # q PROVE mem[q] < mem[j]
  <2>1. j \in Nat \ {0} /\ j < size /\ j # hole /\ mem[j] \in Nat /\ j \in 0..(size - 1)
    BY <1>2, <1>8
  <2>2. j \in {Left(hole), Right(hole)}
    BY <1>8, <2>1, ParentOf
  <2>3. mem[q] <= mem[j]
    BY <1>2, <1>3, <1>6, <2>1, <2>2
  <2>4. mem[q] # mem[j]
    BY <1>2, <1>5, <1>8, <2>1 DEF Lists
  <2>5. QED
    BY <1>6, <2>1, <2>3, <2>4
<1>9. \A j \in 1..(size - 1) : j # hole /\ Parent(j) # hole => mem[Parent(j)] < mem[j]
  BY <1>1, <1>2 DEF HeapOrder
<1>10. ASSUME NEW j \in 1..(size - 1), j # q, Parent(j) # q
       PROVE  mem'[Parent(j)] < mem'[j]
  <2>1. CASE j = hole
    <3>1. mem[Parent(hole)] < mem[q]
      BY <1>1, <1>2, <1>4, <1>5, <2>1 DEF HeapOrder
    <3>2. Parent(hole) # hole /\ Parent(hole) \in 0..(size - 1)
      BY <1>2, <2>1
    <3>3. QED
      BY <1>7, <2>1, <3>1, <3>2
  <2>2. CASE j # hole /\ Parent(j) = hole
    BY <1>7, <1>8, <1>10, <2>2
  <2>3. CASE j # hole /\ Parent(j) # hole
    BY <1>2, <1>7, <1>9, <2>3
  <2>4. QED
    BY <2>1, <2>2, <2>3
<1>11. ASSUME NEW c \in 1..(size - 1), Parent(c) = q
       PROVE  mem'[Parent(q)] < mem'[c]
  <2>1. c # hole
    BY <1>2, <1>4, <1>11
  <2>2. QED
    BY <1>4, <1>5, <1>7, <1>9, <1>11, <2>1
<1>12. mem'[Parent(q)] < moving
  BY <1>4, <1>6, <1>7
<1>13. HeapOrder'
  BY <1>1, <1>7, <1>10, <1>11, <1>12 DEF HeapOrder
<1>14. QED
  BY <1>7, <1>13 DEF HeapInv

-----------------------------------------------------------------------------
(* The ends of the operations: x goes into the hole.                        *)
LEMMA HoleFilled ==
    ASSUME HeapInv, heapPc # "idle",
           hole # 0 /\ heapPc # "sink" => ~(moving < mem[Parent(hole)]),
           \A c \in 1..(size - 1) : heapPc = "sink" /\ Parent(c) = hole => ~(moving > mem[c]),
           heapPc = "sink" => hole < size \/ size = 0,
           NEW m, m = [mem EXCEPT ![hole] = moving]
    PROVE  /\ \A i \in 0..(size - 1) : m[i] = Values[i]
           /\ \A j \in 1..(size - 1) : m[Parent(j)] < m[j]
           /\ m \in [0..(VectorCapacity - 1) -> Nat]
<1>1. /\ HeapOrder /\ size \in Nat /\ hole \in Nat /\ moving \in Nat /\ lost = FALSE
      /\ Lists(Values, size, contents) /\ VectorCapacity \in Nat /\ size <= VectorCapacity
      /\ mem \in [0..(VectorCapacity - 1) -> Nat] /\ hole \in 0..(VectorCapacity - 1)
      /\ \A i \in 0..(size - 1) : i # hole => Values[i] = mem[i]
      /\ hole \in 0..(size - 1) => Values[hole] = moving
      /\ \A i \in 0..(size - 1) : i \in 0..(VectorCapacity - 1) /\ mem[i] \in Nat
      /\ \A j \in 1..(size - 1) : /\ Parent(j) \in 0..(size - 1) /\ Parent(j) < j
                                  /\ mem[Parent(j)] \in Nat /\ mem[j] \in Nat
  BY InLoop
<1>2. /\ m \in [0..(VectorCapacity - 1) -> Nat] /\ m[hole] = moving
      /\ \A i \in 0..(size - 1) : i # hole => m[i] = mem[i]
  BY <1>1
<1>3. \A i \in 0..(size - 1) : m[i] = Values[i]
  BY <1>1, <1>2
<1>4. \A i \in 0..(size - 1) : i # hole /\ hole \in 0..(size - 1) => mem[i] # moving
  BY <1>1 DEF Lists
<1>5. ASSUME NEW j \in 1..(size - 1) PROVE m[Parent(j)] < m[j]
  <2>1. /\ j \in 0..(size - 1) /\ Parent(j) \in 0..(size - 1) /\ Parent(j) < j
        /\ mem[Parent(j)] \in Nat /\ mem[j] \in Nat /\ Parent(j) # j
    BY <1>1
  <2>2. CASE j = hole
    <3>1. hole # 0 /\ Parent(j) # hole /\ hole \in 0..(size - 1)
      BY <1>1, <2>1, <2>2
    <3>2. mem[Parent(j)] # moving
      BY <1>4, <2>1, <3>1
    <3>3. mem[Parent(j)] < moving
      <4>1. CASE heapPc = "sink"
        BY <1>1, <2>2, <3>1, <4>1 DEF HeapOrder
      <4>2. CASE heapPc # "sink"
        BY <1>1, <2>1, <2>2, <3>1, <3>2, <4>2
      <4>3. QED
        BY <4>1, <4>2
    <3>4. QED
      BY <1>2, <2>1, <2>2, <3>1, <3>3
  <2>3. CASE Parent(j) = hole
    <3>1. j # hole /\ hole \in 0..(size - 1)
      BY <1>1, <2>1, <2>3
    <3>2. mem[j] # moving
      BY <1>4, <2>1, <3>1
    <3>3. moving < mem[j]
      <4>1. CASE heapPc = "sink"
        <5>1. ~(moving > mem[j])
          BY <2>3, <4>1
        <5>2. QED
          BY <1>1, <2>1, <3>2, <5>1
      <4>2. CASE heapPc # "sink"
        BY <1>1, <2>3, <4>2 DEF HeapOrder
      <4>3. QED
        BY <4>1, <4>2
    <3>4. QED
      BY <1>2, <2>1, <2>3, <3>1, <3>3
  <2>4. CASE j # hole /\ Parent(j) # hole
    <3>1. mem[Parent(j)] < mem[j]
      BY <1>1, <2>4 DEF HeapOrder
    <3>2. QED
      BY <1>2, <2>1, <2>4, <3>1
  <2>5. QED
    BY <2>2, <2>3, <2>4
<1>6. QED
  BY <1>2, <1>3, <1>5

\* An operation is over and nothing was left behind.
LEMMA AtRest ==
    ASSUME HeapInv, heapPc # "idle", HeapTypes', Room', NEW m,
           \A i \in 0..(size - 1) : m[i] = Values[i],
           \A j \in 1..(size - 1) : m[Parent(j)] < m[j],
           size' = size, contents' = contents, heapPc' = "idle",
           lost' = FALSE => \A i \in 0..(size - 1) : mem'[i] = m[i]
    PROVE  HeapInv'
<1>1. /\ size \in Nat /\ Lists(Values, size, contents)
      /\ \A j \in 1..(size - 1) : Parent(j) \in 0..(size - 1) /\ Parent(j) < j
  BY InLoop
<1>2. ASSUME lost' = FALSE PROVE Lists(Values', size', contents') /\ HeapOrder'
  <2>1. \A i \in 0..(size - 1) : Values'[i] = Values[i]
    BY <1>2 DEF Values
  <2>2. Lists(Values', size, contents)
    BY <1>1, <2>1 DEF Lists
  <2>3. ASSUME NEW j \in 1..(size - 1) PROVE mem'[Parent(j)] < mem'[j]
    <3>1. j \in 0..(size - 1) /\ Parent(j) \in 0..(size - 1)
      BY <1>1
    <3>2. QED
      BY <1>2, <3>1
  <2>4. HeapOrder'
    BY <2>3 DEF HeapOrder
  <2>5. QED
    BY <2>2, <2>4
<1>3. QED
  BY <1>2 DEF HeapInv

LEMMA PushEndsStep ==
    ASSUME HeapInv, PushEnds
    PROVE  HeapInv'
<1>1. /\ heapPc = "push" /\ ~Climbing /\ heapPc' = "idle" /\ hole' = 0 /\ moving' = 0
      /\ size' = size /\ capacity' = capacity /\ contents' = contents
  BY DEF PushEnds, Return, T
<1>2. PICK m : m = [mem EXCEPT ![hole] = moving]
  OBVIOUS
<1>3. Expand(m)
  BY <1>2 DEF PushEnds
<1>4. HeapTypes /\ Room
  BY DEF HeapInv
<1>5. hole # 0 => ~(moving < mem[Parent(hole)])
  BY <1>1, <1>4 DEF Climbing, HeapTypes
<1>6. /\ \A i \in 0..(size - 1) : m[i] = Values[i]
      /\ \A j \in 1..(size - 1) : m[Parent(j)] < m[j]
      /\ m \in [0..(VectorCapacity - 1) -> Nat]
  BY <1>1, <1>2, <1>5, HoleFilled
<1>7. size \in Nat /\ hole \in Nat /\ VectorCapacity \in Nat /\ size <= VectorCapacity
  BY <1>1, InLoop
<1>8. lost = FALSE /\ hole < size /\ dataSize \in Nat
  BY <1>1, <1>4 DEF Room, HeapTypes
<1>9. CASE Full
  <2>1. /\ mem' = [i \in 0..(2 * size - 1) |-> IF i < dataSize /\ i < size THEN m[i] ELSE 0]
        /\ dataSize' = 2 * size /\ lost' = (dataSize < size)
    BY <1>3, <1>9 DEF Expand, T
  <2>2. size = VectorCapacity /\ size > 0
    BY <1>7, <1>8, <1>9 DEF Full
  <2>3. VectorCapacity' = 2 * size
    <3>1. DOMAIN mem' = 0..(2 * size - 1)
      BY <2>1
    <3>2. Cardinality(0..(2 * size - 1)) = 2 * size
      BY <1>7, <2>2, FS_Interval
    <3>3. QED
      BY <3>1, <3>2 DEF VectorCapacity
  <2>4. mem' \in [0..(2 * size - 1) -> Nat]
    <3>1. ASSUME NEW i \in 0..(2 * size - 1)
          PROVE  (IF i < dataSize /\ i < size THEN m[i] ELSE 0) \in Nat
      BY <1>6, <1>7, <2>2
    <3>2. QED
      BY <2>1, <3>1
  <2>5. HeapTypes'
    BY <1>1, <1>4, <1>7, <2>1, <2>2, <2>3, <2>4 DEF HeapTypes
  <2>6. Room'
    BY <1>1, <1>7, <2>2, <2>3 DEF Room
  <2>7. ASSUME lost' = FALSE, NEW i \in 0..(size - 1) PROVE mem'[i] = m[i]
    <3>1. ~(dataSize < size)
      BY <2>1, <2>7
    <3>2. i < dataSize /\ i < size /\ i \in 0..(2 * size - 1)
      BY <1>7, <1>8, <3>1
    <3>3. QED
      BY <2>1, <3>2
  <2>8. QED
    BY <1>1, <1>6, <2>5, <2>6, <2>7, AtRest
<1>10. CASE ~Full
  <2>1. mem' = m /\ dataSize' = dataSize /\ lost' = lost
    BY <1>3, <1>10 DEF Expand
  <2>2. DOMAIN mem' = DOMAIN mem
    BY <1>2, <2>1
  <2>3. VectorCapacity' = VectorCapacity
    BY <2>2 DEF VectorCapacity
  <2>4. HeapTypes'
    BY <1>1, <1>4, <1>6, <2>1, <2>3 DEF HeapTypes
  <2>5. Room'
    BY <1>1, <1>7, <1>10, <2>3 DEF Room, Full
  <2>6. QED
    BY <1>1, <1>6, <2>1, <2>4, <2>5, AtRest
<1>11. QED
  BY <1>9, <1>10

\* When no child is taken, none is less than x.
LEMMA NoSmallerChild ==
    ASSUME HeapInv, heapPc # "idle", SmallerChildren = {}, NEW c \in 1..(size - 1), Parent(c) = hole
    PROVE  ~(moving > mem[c])
<1>1. /\ size \in Nat /\ hole \in Nat /\ moving \in Nat
      /\ \A i \in 0..(size - 1) : mem[i] \in Nat
  BY InLoop
<1>2. c \in Nat \ {0} /\ c < size /\ mem[c] \in Nat
  BY <1>1
<1>3. c \in {Left(hole), Right(hole)}
  BY <1>2, ParentOf
<1>4. PICK l, r : l = Left(hole) /\ r = Right(hole)
  OBVIOUS
<1>5. l \in Nat /\ r \in Nat
  BY <1>1, <1>4, ParentOf
<1>6. (l < size => mem[l] \in Nat) /\ (r < size => mem[r] \in Nat)
  BY <1>1, <1>5
<1>7. \A j \in {l, r} : j < size /\ moving > mem[j] =>
        \E k \in {l, r} : k < size /\ moving > mem[k] /\ ~(mem[j] <= mem[k])
  BY <1>4 DEF SmallerChildren
<1>8. QED
  BY <1>1, <1>2, <1>3, <1>4, <1>5, <1>6, <1>7

LEMMA RemoveEndsStep ==
    ASSUME HeapInv, RemoveEnds
    PROVE  HeapInv'
<1>1. /\ heapPc \in {"climb", "sink"} /\ heapPc' = "idle" /\ hole' = 0 /\ moving' = 0
      /\ size' = size /\ lost' = lost /\ contents' = contents /\ heapPc # "idle"
  BY DEF RemoveEnds, Return, T
<1>2. PICK m : m = [mem EXCEPT ![hole] = moving]
  OBVIOUS
<1>3. mem' = m /\ Shrink
  BY <1>2 DEF RemoveEnds
<1>4. HeapTypes /\ Room
  BY DEF HeapInv
<1>5. heapPc # "sink" => ~(moving < mem[Parent(hole)])
  BY <1>1 DEF RemoveEnds, Climbing
<1>6. ASSUME NEW c \in 1..(size - 1), heapPc = "sink", Parent(c) = hole PROVE ~(moving > mem[c])
  <2>1. SmallerChildren = {}
    BY <1>6 DEF RemoveEnds
  <2>2. QED
    BY <1>1, <1>6, <2>1, NoSmallerChild
<1>7. heapPc = "sink" => hole < size \/ size = 0
  BY <1>1, <1>4 DEF Room
<1>8. /\ \A i \in 0..(size - 1) : m[i] = Values[i]
      /\ \A j \in 1..(size - 1) : m[Parent(j)] < m[j]
      /\ m \in [0..(VectorCapacity - 1) -> Nat]
  BY <1>1, <1>2, <1>5, <1>6, <1>7, HoleFilled
<1>9. DOMAIN mem' = DOMAIN mem
  BY <1>2, <1>3
<1>10. VectorCapacity' = VectorCapacity
  BY <1>9 DEF VectorCapacity
<1>11. dataSize' \in Nat /\ capacity' \in Nat
  BY <1>3, <1>4 DEF Shrink, HeapTypes
<1>12. HeapTypes'
  BY <1>1, <1>3, <1>4, <1>8, <1>10, <1>11 DEF HeapTypes
<1>13. Room'
  BY <1>1, <1>4, <1>10 DEF Room
<1>14. QED
  BY <1>1, <1>3, <1>8, <1>12, <1>13, AtRest

LEMMA HeapStep ==
    ASSUME HeapInv, [HeapNext]_heapVars
    PROVE  HeapInv'
<1>1. CASE UNCHANGED heapVars
  <2>1. UNCHANGED <<mem, dataSize, capacity, size, heapPc, hole, moving, contents, lost>>
    BY <1>1 DEF heapVars, vectorVars, loopVars
  <2>2. VectorCapacity' = VectorCapacity /\ Values' = Values
    BY <2>1 DEF VectorCapacity, Values
  <2>3. HeapTypes' /\ Room'
    BY <2>1, <2>2 DEF HeapInv, HeapTypes, Room
  <2>4. lost' = FALSE => Lists(Values', size', contents') /\ HeapOrder'
    <3>1. lost = FALSE => Lists(Values, size, contents)
      BY DEF HeapInv
    <3>2. lost = FALSE => HeapOrder
      BY DEF HeapInv
    <3>3. HeapOrder => HeapOrder'
      BY <2>1 DEF HeapOrder
    <3>4. QED
      BY <2>1, <2>2, <3>1, <3>2, <3>3
  <2>5. QED
    BY <2>3, <2>4 DEF HeapInv
<1>2. CASE \E key \in Keys : Push(key)
  BY <1>2, PushStep
<1>3. CASE Pop
  BY <1>3, PopStep
<1>4. CASE \E i \in 0..(size - 1) : Remove(i)
  BY <1>4, RemoveStep
<1>5. CASE Climb
  BY <1>5, ClimbStep
<1>6. CASE Sink
  BY <1>6, SinkStep
<1>7. CASE PushEnds
  BY <1>7, PushEndsStep
<1>8. CASE RemoveEnds
  BY <1>8, RemoveEndsStep
<1>9. QED
  BY <1>1, <1>2, <1>3, <1>4, <1>5, <1>6, <1>7, <1>8 DEF HeapNext

LEMMA HeapInvariant == HeapSpec => []HeapInv
<1>1. HeapInit => HeapInv
  BY HeapStarts
<1>2. HeapInv /\ [HeapNext]_heapVars => HeapInv'
  BY HeapStep
<1>3. QED
  BY <1>1, <1>2, PTL DEF HeapSpec

(* As long as expand() leaves nothing behind, the heap order that           *)
(* TimerQueue asserts around handling timers holds after every sequence of  *)
(* pushes, pops and removals, of any length and on any keys                 *)
(* (MinHeap.h:36-126, TimerQueue.cc:127, 148).                              *)
THEOREM TimersStayOrdered == HeapSpec => []OrderKept
<1>1. HeapInv => OrderKept
  <2> SUFFICES ASSUME HeapInv, heapPc = "idle", lost = FALSE PROVE Ordered
    BY DEF OrderKept, HeapInv, HeapTypes
  <2>1. size \in Nat /\ \A j \in 1..(size - 1) : mem[Parent(j)] < mem[j]
    BY DEF HeapInv, HeapTypes, HeapOrder
  <2>2. ASSUME NEW i \in 0..(size - 1), NEW j \in {Left(i), Right(i)}, j < size
        PROVE  mem[i] < mem[j]
    <3>1. i \in Nat
      BY <2>1
    <3>2. j \in 1..(size - 1) /\ Parent(j) = i
      BY <2>1, <2>2, <3>1, ParentOf
    <3>3. QED
      BY <2>1, <3>2
  <2>3. QED
    BY <2>2 DEF Ordered
<1>2. QED
  BY <1>1, HeapInvariant, PTL

(* As long as expand() leaves nothing behind, the heap holds exactly what   *)
(* was pushed and neither popped nor removed, top() is the least of it, and *)
(* data_[size_] is inside the storage for the next push()                   *)
(* (MinHeap.h:36-137).                                                      *)
THEOREM TimersStayInHeap == HeapSpec => []ContentsKept
<1>1. HeapInv => ContentsKept
  <2> SUFFICES ASSUME HeapInv, heapPc = "idle" PROVE ContentsKept
    BY DEF ContentsKept
  <2>1. size < VectorCapacity
    BY DEF HeapInv, Room
  <2>2. ASSUME lost = FALSE
        PROVE  /\ {mem[i] : i \in 0..(size - 1)} = contents /\ Cardinality(contents) = size
               /\ size > 0 => mem[0] = Min(contents)
    <3>1. /\ size \in Nat /\ \A i \in 0..(size - 1) : Values[i] = mem[i]
          /\ Lists(Values, size, contents)
      BY <2>2, RestingHeap
    <3>2. /\ \A i \in 0..(size - 1) : mem[i] \in contents
          /\ \A c \in contents : \E i \in 0..(size - 1) : mem[i] = c
          /\ Cardinality(contents) = size
      BY <3>1 DEF Lists
    <3>3. ASSUME size > 0 PROVE mem[0] = Min(contents)
      <4>1. VectorCapacity \in Nat /\ mem \in [0..(VectorCapacity - 1) -> Nat]
        BY DEF HeapInv, HeapTypes
      <4>2. \A i \in 0..(size - 1) : mem[i] \in Nat
        BY <2>1, <3>1, <4>1
      <4>3. contents \in SUBSET Nat
        BY <3>2, <4>2
      <4>4. contents # {}
        BY <3>1, <3>2, <3>3
      <4>5. PICK least : least = Min(contents)
        OBVIOUS
      <4>6. least \in contents /\ \A c \in contents : least <= c
        BY <4>3, <4>4, <4>5, MinOfNaturals
      <4>7. PICK i \in 0..(size - 1) : mem[i] = least
        BY <3>2, <4>6
      <4>8. ASSUME i # 0 PROVE FALSE
        <5>1. i \in 1..(size - 1)
          BY <3>1, <4>8
        <5>2. mem[Parent(i)] < mem[i]
          BY <2>2, <5>1 DEF HeapInv, HeapOrder
        <5>3. Parent(i) \in 0..(size - 1)
          <6>1. i \in Nat \ {0} /\ i <= size - 1
            BY <3>1, <5>1
          <6>2. Parent(i) \in Nat /\ Parent(i) < i
            BY <6>1, ParentOf
          <6>3. QED
            BY <3>1, <6>1, <6>2
        <5>4. mem[Parent(i)] \in contents /\ mem[Parent(i)] \in Nat /\ mem[i] \in Nat
          BY <3>2, <4>2, <5>3
        <5>5. QED
          BY <4>6, <4>7, <5>2, <5>4
      <4>9. QED
        BY <4>5, <4>7, <4>8
    <3>4. QED
      BY <3>2, <3>3
  <2>3. lost \in BOOLEAN
    BY DEF HeapInv, HeapTypes
  <2>4. QED
    BY <2>1, <2>2, <2>3 DEF ContentsKept
<1>2. QED
  BY <1>1, HeapInvariant, PTL
=============================================================================
