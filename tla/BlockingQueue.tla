---------------------------- MODULE BlockingQueue ---------------------------
(* muduo/base/BlockingQueue.h (capacity 0) and BoundedBlockingQueue.h       *)
(* (capacity > 0): a queue between threads, one mutex, a condition for the  *)
(* takers and, when bounded, one for the putters.                           *)
(*                                                                          *)
(* From the lock to the unlock, or to a wait, is one step.  notify() wakes  *)
(* any one of the waiters; a waiter may also wake for no reason.  A woken   *)
(* thread has to get the mutex again, and anybody may be faster.            *)
EXTENDS Integers, Sequences, FiniteSets, Functions

CONSTANTS
    Putters, Takers,    \* threads
    Items,              \* what is put, each at most once
    Capacities,         \* maxSize, 0 for a BlockingQueue
    None

ASSUME QueueAssumption ==
    /\ Putters \cap Takers = {}
    /\ Capacities \subseteq Nat
    /\ None \notin Items

VARIABLES
    capacity,       \* maxSize, 0 for a BlockingQueue
    queue,          \* queue_
    putting,        \* the item of a putter that is inside put(), else None
    taking,         \* takers inside take()
    notEmpty,       \* takers waiting on notEmpty_
    notFull,        \* putters waiting on notFull_
    fresh,          \* items not put yet
    accepted,       \* history: the items in the order they entered the queue
    delivered       \* history: the items in the order they left it

itemVars == <<queue, accepted, delivered>>
condVars == <<notEmpty, notFull, fresh>>
vars == <<capacity, itemVars, putting, taking, condVars>>

Init ==
    /\ capacity \in Capacities
    /\ queue = <<>>
    /\ putting = [p \in Putters |-> None] /\ taking = {}
    /\ notEmpty = {} /\ notFull = {}
    /\ fresh = Items /\ accepted = <<>> /\ delivered = <<>>

\* Condition::notify.
Notify(waiters) == IF waiters = {} THEN {{}} ELSE {waiters \ {t} : t \in waiters}

IsFull == capacity > 0 /\ Len(queue) = capacity

-----------------------------------------------------------------------------
\* The next item to put: which one it is makes no difference.
Fresh == IF fresh = {} THEN {} ELSE {CHOOSE x \in fresh : TRUE}

CallPut(p, x) ==
    /\ putting[p] = None /\ x \in Fresh
    /\ putting' = [putting EXCEPT ![p] = x]
    /\ fresh' = fresh \ {x}
    /\ UNCHANGED <<capacity, itemVars, taking, notEmpty, notFull>>

\* Mutant: a put into a full queue gives up.
PutWait_Drops(p) ==
    /\ putting[p] # None /\ p \notin notFull
    /\ IsFull
    /\ putting' = [putting EXCEPT ![p] = None]
    /\ UNCHANGED <<capacity, itemVars, taking, condVars>>

PutWait(p) ==
    /\ putting[p] # None /\ p \notin notFull
    /\ IsFull
    /\ notFull' = notFull \cup {p}
    /\ UNCHANGED <<capacity, itemVars, putting, taking, notEmpty, fresh>>

\* put(): every put notifies.
PutNotifies == Notify(notEmpty)

Put(p) ==
    /\ putting[p] # None /\ p \notin notFull
    /\ ~IsFull
    /\ queue' = Append(queue, putting[p])
    /\ accepted' = Append(accepted, putting[p])
    /\ notEmpty' \in PutNotifies
    /\ putting' = [putting EXCEPT ![p] = None]
    /\ UNCHANGED <<capacity, taking, notFull, fresh, delivered>>

-----------------------------------------------------------------------------
CallTake(t) ==
    /\ t \notin taking
    /\ taking' = taking \cup {t}
    /\ UNCHANGED <<capacity, itemVars, putting, condVars>>

TakeWait(t) ==
    /\ t \in taking /\ t \notin notEmpty
    /\ queue = <<>>
    /\ notEmpty' = notEmpty \cup {t}
    /\ UNCHANGED <<capacity, itemVars, putting, taking, notFull, fresh>>

\* Mutant: take() tells nobody that there is room.
TakeNotifies_Nobody == {notFull}

\* take(): of a bounded queue, notifies a putter.
TakeNotifies == IF capacity > 0 THEN Notify(notFull) ELSE {notFull}

Take(t) ==
    /\ t \in taking /\ t \notin notEmpty
    /\ queue # <<>>
    /\ delivered' = Append(delivered, Head(queue))
    /\ queue' = Tail(queue)
    /\ notFull' \in TakeNotifies
    /\ taking' = taking \ {t}
    /\ UNCHANGED <<capacity, putting, notEmpty, fresh, accepted>>

\* Mutant: a copy, not a move.
Drain_Copies ==
    /\ capacity = 0
    /\ delivered' = delivered \o queue
    /\ UNCHANGED <<capacity, queue, putting, taking, condVars, accepted>>

\* drain(), by any thread, of a BlockingQueue: everything at once.
Drain ==
    /\ capacity = 0
    /\ delivered' = delivered \o queue
    /\ queue' = <<>>
    /\ UNCHANGED <<capacity, putting, taking, condVars, accepted>>

SpuriousWakeup ==
    \/ /\ \E t \in notEmpty : notEmpty' = notEmpty \ {t}
       /\ UNCHANGED <<capacity, itemVars, putting, taking, notFull, fresh>>
    \/ /\ \E p \in notFull : notFull' = notFull \ {p}
       /\ UNCHANGED <<capacity, itemVars, putting, taking, notEmpty, fresh>>

-----------------------------------------------------------------------------
TakerStep(t) == CallTake(t) \/ TakeWait(t) \/ Take(t)
PutterStep(p) == PutWait(p) \/ Put(p)

Next ==
    \/ \E p \in Putters, x \in Items : CallPut(p, x)
    \/ \E p \in Putters : PutterStep(p)
    \/ \E t \in Takers : TakerStep(t)
    \/ Drain
    \/ SpuriousWakeup

Spec == Init /\ [][Next]_vars

(* Takers keep calling take(), as the consumers of the tests do; a putter   *)
(* need not call put(), but a call that can go on does.  No thread can      *)
(* count on a spurious wakeup or on drain().                                *)
FairSpec ==
    /\ Spec
    /\ \A t \in Takers : WF_vars(TakerStep(t))
    /\ \A p \in Putters : WF_vars(PutterStep(p))

-----------------------------------------------------------------------------
Puts == {p \in Putters : putting[p] # None}

(* One notify per put and one per take is enough: whenever a taker sleeps,  *)
(* there are as many awake takers as items, and whenever a putter sleeps,   *)
(* as many awake putters as free places, whoever overtakes whom             *)
(* (BoundedBlockingQueue.h:24-56, BlockingQueue.h:28-50).                   *)
WakeupsSuffice ==
    /\ notEmpty # {} => Len(queue) <= Cardinality(taking \ notEmpty)
    /\ notFull # {} => capacity - Len(queue) <= Cardinality(Puts \ notFull)

(* Items leave in the order they entered, each once, and a bounded queue    *)
(* keeps its bound (BoundedBlockingQueue.h:24-56, BlockingQueue.h:28-59).   *)
FIFO ==
    /\ accepted = delivered \o queue
    /\ capacity > 0 => Len(queue) <= capacity

(* Every item that somebody puts is delivered: no put() and no take() hangs *)
(* while there is room, or something to take                                *)
(* (BoundedBlockingQueue.h:24-56).                                          *)
ItemsAreDelivered ==
    \A x \in Items : (\E p \in Putters : putting[p] = x) ~> x \in Range(delivered)
=============================================================================
