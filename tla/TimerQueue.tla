----------------------------- MODULE TimerQueue -----------------------------
(* muduo/net/TimerQueue.cc, Timer.h, Timer.cc and TimerId.h: timers in a    *)
(* heap ordered by (expiration, address), one timerfd armed for the         *)
(* earliest, cancellation by a flag that handleRead looks at.               *)
(*                                                                          *)
(* Everything here runs in the loop's thread.  The heap is taken as an      *)
(* ordered set; a Timer lives at an address that the allocator may hand out *)
(* again after the delete in reset().  Time is a counter that advances at   *)
(* any moment; Timestamp::now() and the clock of the timerfd agree.         *)
EXTENDS Integers, Sequences, FiniteSets, FiniteSetsExt

CONSTANTS
    Addrs,          \* addresses for Timer objects, numbers
    Delays,         \* delays users ask for
    Intervals,      \* intervals users ask for; 0 is a one-shot timer
    MaxTimers,      \* bound: timers created
    MaxTime         \* bound: the clock

ASSUME TimerAssumption ==
    /\ Addrs \subseteq Nat /\ Delays \subseteq Nat /\ Intervals \subseteq Nat
    /\ MaxTimers \in Nat /\ MaxTime \in Nat

Indexes == 1..MaxTimers
Disarmed == -1

VARIABLES
    now,            \* the clock
    heap,           \* timerQueue_: pairs <<expiration, address>>
    timer,          \* the Timer at an address, index 0 where there is none
    armedAt,        \* when the timerfd becomes readable
    pc,             \* "loop", "expired" (inside handleRead) or "callback"
    expired,        \* what is left of handleRead's vector, earliest first
    toReset,        \* the timers of that vector, for reset()
    readTime,       \* now as handleRead read it
    created,        \* s_numCreated_
    ids,            \* TimerIds that users were given
    hist,           \* history: per index its interval, its runs, and whether it was
                    \* cancelled: "no", "asked" or, by the id of another, "stray"
    fault           \* "uaf" when a deleted Timer is touched, else "none"

vars == <<now, heap, timer, armedAt, pc, expired, toReset, readTime, created,
          ids, hist, fault>>

NoTimer == [index |-> 0, expiration |-> 0, interval |-> 0, repeat |-> FALSE,
            canceled |-> FALSE]
Live(a) == timer[a].index # 0
Running == fault = "none"

Init ==
    /\ now = 0 /\ heap = {} /\ timer = [a \in Addrs |-> NoTimer]
    /\ armedAt = Disarmed /\ pc = "loop" /\ expired = <<>> /\ toReset = {}
    /\ readTime = 0 /\ created = 0 /\ ids = {}
    /\ hist = [i \in Indexes |-> [interval |-> 0, runs |-> 0, cancelled |-> "no"]]
    /\ fault = "none"

Tick ==
    /\ Running
    /\ now < MaxTime
    /\ now' = now + 1
    /\ UNCHANGED <<heap, timer, armedAt, pc, expired, toReset, readTime, created,
                   ids, hist, fault>>

-----------------------------------------------------------------------------
\* resetTimerfd with howMuchTimeFromNow: never in the past.
ResetTimerfd(t, when) == IF when > t THEN when ELSE t

Earliest(h) == Min({e[1] : e \in h})
Before(e, f) == e[1] < f[1] \/ (e[1] = f[1] /\ e[2] < f[2])

(* runAt, runAfter, runEvery: addTimer and addTimerInLoop, in the thread of *)
(* the caller.  The timerfd is set again only when the new one is earliest. *)
AddTimer(a, delay, interval) ==
    /\ Running
    /\ pc \in {"loop", "callback"}
    /\ created < MaxTimers
    /\ ~Live(a)
    /\ LET when == now + delay IN
         /\ timer' = [timer EXCEPT ![a] =
                        [index |-> created + 1, expiration |-> when,
                         interval |-> interval, repeat |-> interval > 0,
                         canceled |-> FALSE]]
         /\ heap' = heap \cup {<<when, a>>}
         /\ armedAt' = IF heap = {} \/ when < Earliest(heap)
                         THEN ResetTimerfd(now, when) ELSE armedAt
    /\ created' = created + 1
    /\ ids' = ids \cup {<<a, created + 1>>}
    /\ hist' = [hist EXCEPT ![created + 1].interval = interval]
    /\ UNCHANGED <<now, pc, expired, toReset, readTime, fault>>

(* cancelInLoop: the Timer behind the pointer is marked, whichever timer    *)
(* that is by now; index_ is not compared, so that the id of a timer that   *)
(* is gone cancels the one that was given its address.                      *)
Cancel(id) ==
    /\ Running
    /\ pc \in {"loop", "callback"}
    /\ id \in ids
    /\ IF Live(id[1])
         THEN /\ timer' = [timer EXCEPT ![id[1]].canceled = TRUE,
                                        ![id[1]].repeat = FALSE]
              /\ hist' = [hist EXCEPT ![timer[id[1]].index].cancelled =
                             IF id[2] = timer[id[1]].index THEN "asked" ELSE "stray"]
              /\ UNCHANGED fault
         ELSE /\ fault' = "uaf"
              /\ UNCHANGED <<timer, hist>>
    /\ UNCHANGED <<now, heap, armedAt, pc, expired, toReset, readTime, created, ids>>

-----------------------------------------------------------------------------
\* getExpired: everything up to and including now, popped in heap order.
GetExpired(t) == {e \in heap : e[1] <= t}
InOrder(entries) ==
    {s \in [1..Cardinality(entries) -> entries] :
        \A i, j \in 1..Cardinality(entries) : i < j => Before(s[i], s[j])}

\* handleRead: read the clock and the timerfd, take the expired timers.
HandleRead ==
    /\ Running
    /\ pc = "loop"
    /\ armedAt # Disarmed /\ armedAt <= now
    /\ armedAt' = Disarmed
    /\ readTime' = now
    /\ expired' \in InOrder(GetExpired(now))
    /\ toReset' = GetExpired(now)
    /\ heap' = heap \ GetExpired(now)
    /\ pc' = "expired"
    /\ UNCHANGED <<now, timer, created, ids, hist, fault>>

\* Mutant: the flag is not looked at.
IsDue_Always(a) == TRUE

\* Mutant: only repeating timers run.
IsDue_RepeatOnly(a) == ~timer[a].canceled /\ timer[a].repeat

IsDue(a) == ~timer[a].canceled

\* handleRead: the next expired timer runs its callback, or is skipped.
RunTimer ==
    /\ Running
    /\ pc = "expired" /\ expired # <<>>
    /\ LET a == Head(expired)[2] IN
         IF IsDue(a)
           THEN /\ pc' = "callback"
                /\ hist' = [hist EXCEPT ![timer[a].index].runs = @ + 1]
           ELSE UNCHANGED <<pc, hist>>
    /\ expired' = Tail(expired)
    /\ UNCHANGED <<now, heap, timer, armedAt, toReset, readTime, created, ids, fault>>

CallbackReturns ==
    /\ Running
    /\ pc = "callback"
    /\ pc' = "expired"
    /\ UNCHANGED <<now, heap, timer, armedAt, expired, toReset, readTime, created,
                   ids, hist, fault>>

\* reset: which timers are restarted; the others are deleted.
Restarts(a) == timer[a].repeat /\ ~timer[a].canceled

\* Mutant: a timer that is not restarted is leaked.
Deleted_Leaked(a) == timer[a]

\* reset: delete.
Deleted(a) == NoTimer

\* Mutant: reset() leaves the timerfd alone.
Rearmed_Not(h) == armedAt

\* reset: the timerfd follows the top of the heap, if there is one.
Rearmed(h) == IF h = {} THEN armedAt ELSE ResetTimerfd(now, Earliest(h))

Reset ==
    /\ Running
    /\ pc = "expired" /\ expired = <<>>
    /\ LET addrs == {e[2] : e \in toReset}
           again == {a \in addrs : Restarts(a)}
           h == heap \cup {<<readTime + timer[a].interval, a>> : a \in again}
       IN /\ timer' = [a \in Addrs |->
                         IF a \in again
                           THEN [timer[a] EXCEPT !.expiration = readTime + timer[a].interval]
                         ELSE IF a \in addrs THEN Deleted(a) ELSE timer[a]]
          /\ heap' = h
          /\ armedAt' = Rearmed(h)
    /\ toReset' = {}
    /\ pc' = "loop"
    /\ UNCHANGED <<now, expired, readTime, created, ids, hist, fault>>

-----------------------------------------------------------------------------
Next ==
    \/ Tick
    \/ \E a \in Addrs, d \in Delays, i \in Intervals : AddTimer(a, d, i)
    \/ \E a \in Addrs, i \in Indexes : Cancel(<<a, i>>)
    \/ HandleRead
    \/ RunTimer
    \/ CallbackReturns
    \/ Reset

Spec == Init /\ [][Next]_vars

\* The clock runs, and the loop's thread serves the timerfd and its callbacks return.
FairSpec ==
    /\ Spec
    /\ WF_vars(Tick)
    /\ WF_vars(HandleRead \/ RunTimer \/ CallbackReturns \/ Reset)

-----------------------------------------------------------------------------
(* Whenever the loop is about to poll and a timer waits, the timerfd is     *)
(* armed for it or for an earlier moment: no timer is forgotten, whatever   *)
(* was added, cancelled or restarted, also from inside a callback           *)
(* (TimerQueue.cc:99-156).                                                  *)
TimerfdArmed ==
    pc = "loop" /\ heap # {} =>
        armedAt # Disarmed /\ (armedAt <= Earliest(heap) \/ armedAt <= now)

(* Every Timer object is owned once, by the heap or by the vector of a      *)
(* handleRead in progress, and the entry carries the time of the timer: no  *)
(* leak, no double delete, no dangling entry (TimerQueue.cc:115-156).       *)
TimersOwned ==
    /\ \A a \in Addrs :
         Cardinality({e \in heap \cup toReset : e[2] = a}) = IF Live(a) THEN 1 ELSE 0
    /\ \A e \in heap : e[1] = timer[e[2]].expiration

(* A timer runs only while it is not cancelled, by its own id or by a stray *)
(* one, and a one-shot timer runs once, also when the cancel comes from the *)
(* callback of a timer that expired together with it (TimerQueue.cc:115-124,*)
(* README.md:192).                                                          *)
RunsAreLegal ==
    [][\A i \in Indexes : hist'[i].runs # hist[i].runs =>
          /\ hist[i].cancelled = "no"
          /\ hist[i].interval = 0 => hist[i].runs = 0]_vars

(* A timer that falls due runs, unless somebody asked to cancel it, or a    *)
(* cancel() with the id of a timer that is gone hit it because it has that  *)
(* timer's address (TimerQueue.cc:165), or hit no timer and stopped the     *)
(* program: the first time round, at least, for a repeating one             *)
(* (TimerQueue.cc:99-156).                                                  *)
TimersFire ==
    \A i \in Indexes :
        (\E e \in heap : timer[e[2]].index = i /\ e[1] <= MaxTime)
            ~> hist[i].runs > 0 \/ hist[i].cancelled \in {"asked", "stray"} \/ ~Running
=============================================================================
