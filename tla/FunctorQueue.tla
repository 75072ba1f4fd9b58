---------------------------- MODULE FunctorQueue ----------------------------
(* What EventLoop promises to the callers of queueInLoop: the functors are  *)
(* executed by one thread, in the order in which they were queued, each of  *)
(* them once.  EventLoop.tla implements this specification with two vectors *)
(* (the shared pendingFunctors_ and the local vector of doPendingFunctors). *)
EXTENDS Sequences, Functions

CONSTANT Functors     \* identities of the functors that may be queued

VARIABLES
    queue,            \* functors accepted and not yet started
    ran               \* functors started so far, oldest first

vars == <<queue, ran>>

Init ==
    /\ queue = <<>>
    /\ ran = <<>>

\* A functor is queued at most once.
Enqueue(f) ==
    /\ f \notin Range(queue) \cup Range(ran)
    /\ queue' = Append(queue, f)
    /\ ran' = ran

RunHead ==
    /\ queue # <<>>
    /\ ran' = Append(ran, Head(queue))
    /\ queue' = Tail(queue)

Next ==
    \/ \E f \in Functors : Enqueue(f)
    \/ RunHead

Spec == Init /\ [][Next]_vars

\* The liveness half of the promise: a functor that is queued is executed.
Liveness == WF_vars(RunHead)
=============================================================================
