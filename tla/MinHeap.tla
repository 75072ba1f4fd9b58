------------------------------ MODULE MinHeap -------------------------------
(* muduo/base/MinHeap.h: the binary heap of the timers, in a std::vector    *)
(* whose size() and capacity() the heap manages by hand.                    *)
(*                                                                          *)
(* mem is the storage of data_, as long as data_.capacity(); an index at or *)
(* past data_.size() is outside the vector but inside its storage, and      *)
(* operator[] does not check.  Keys are distinct, as the entries            *)
(* <expiration, address> of TimerQueue are; T() is the default entry, less  *)
(* than every key.                                                          *)
(*                                                                          *)
(* An operation is its start, the turns of its loop and its end.  push()    *)
(* and remove() make a hole climb, pop() and remove() make one sink.        *)
EXTENDS Integers, FiniteSets, FiniteSetsExt

CONSTANTS
    Keys,           \* what is pushed, numbers above T()
    InitSize        \* initSize

T == 0

ASSUME HeapAssumption == Keys \subseteq Nat \ {T} /\ InitSize \in Nat \ {0}

VARIABLES
    mem,            \* the storage of data_
    dataSize,       \* data_.size()
    size,           \* size_
    capacity,       \* capacity_
    heapPc,         \* "idle", "push", or "climb" and "sink" inside remove and pop
    hole,           \* i
    moving,         \* x
    contents,       \* history: the keys that are in the heap
    lost            \* history: expand() reallocated and left entries behind

vectorVars == <<mem, dataSize, capacity>>
loopVars == <<heapPc, hole, moving>>
heapVars == <<vectorVars, size, loopVars, contents, lost>>

VectorCapacity == Cardinality(DOMAIN mem)
Parent(i) == IF i = 0 THEN 0 ELSE (i - 1) \div 2
Left(i) == 2 * i + 1
Right(i) == 2 * i + 2

HeapInit ==
    /\ mem = [i \in 0..(InitSize - 1) |-> T]
    /\ dataSize = InitSize /\ size = 0 /\ capacity = InitSize
    /\ heapPc = "idle" /\ hole = 0 /\ moving = T
    /\ contents = {} /\ lost = FALSE

-----------------------------------------------------------------------------
\* expand: the test compares with data_.capacity(), not with data_.size().
Full == size = VectorCapacity

(* expand: resize reallocates; only the data_.size() elements of the vector *)
(* move to the new storage, the others are T().                       *)
Expand(m) ==
    IF Full
      THEN /\ mem' = [i \in 0..(2 * size - 1) |-> IF i < dataSize /\ i < size THEN m[i] ELSE T]
           /\ dataSize' = 2 * size
           /\ lost' = (dataSize < size)
      ELSE /\ mem' = m
           /\ UNCHANGED <<dataSize, lost>>

(* shrink: resize to fewer elements keeps the storage and its contents.     *)
Shrink ==
    IF size <= capacity \div 2
      THEN dataSize' = size /\ capacity' = size
      ELSE UNCHANGED <<dataSize, capacity>>

-----------------------------------------------------------------------------
Push(key) ==
    /\ heapPc = "idle" /\ ~lost
    /\ key \notin contents
    /\ size' = size + 1
    /\ heapPc' = "push" /\ hole' = size /\ moving' = key
    /\ contents' = contents \cup {key}
    /\ UNCHANGED <<vectorVars, lost>>

\* Mutant: the element behind the last one.
Last_Behind == size

Last == size - 1

\* top() and pop(): the caller takes the root.
Pop ==
    /\ heapPc = "idle" /\ ~lost
    /\ size > 0
    /\ size' = size - 1
    /\ heapPc' = "sink" /\ hole' = 0 /\ moving' = mem[Last]
    /\ contents' = contents \ {mem[0]}
    /\ UNCHANGED <<vectorVars, lost>>

\* remove(i): of any element, by its index; the last one goes without shrink().
Remove(i) ==
    /\ heapPc = "idle" /\ ~lost
    /\ size' = size - 1
    /\ contents' = contents \ {mem[i]}
    /\ IF i = size - 1
         THEN UNCHANGED loopVars
         ELSE /\ heapPc' = IF mem[Last] < mem[Parent(i)] THEN "climb" ELSE "sink"
              /\ hole' = i /\ moving' = mem[Last]
    /\ UNCHANGED <<vectorVars, lost>>

-----------------------------------------------------------------------------
\* The tests of the loops; in remove() the root is its own parent.
Climbing == moving < mem[Parent(hole)] /\ (heapPc = "push" => hole > 0)

\* Mutant: the left child is taken whenever it is smaller than x.
SmallerChildren_LeftFirst ==
    LET c == {j \in {Left(hole), Right(hole)} : j < size /\ moving > mem[j]} IN
      IF Left(hole) \in c THEN {Left(hole)} ELSE c

\* The child to move up: the least of those that are less than x, if any.
SmallerChildren ==
    LET c == {j \in {Left(hole), Right(hole)} : j < size /\ moving > mem[j]} IN
      {j \in c : \A k \in c : mem[j] <= mem[k]}

\* A turn of a loop: the element at j moves into the hole.
MoveFrom(j) ==
    /\ mem' = [mem EXCEPT ![hole] = mem[j]]
    /\ hole' = j
    /\ UNCHANGED <<dataSize, capacity, size, heapPc, moving, contents, lost>>

Climb == heapPc \in {"push", "climb"} /\ Climbing /\ MoveFrom(Parent(hole))

Sink == heapPc = "sink" /\ \E j \in SmallerChildren : MoveFrom(j)

\* i and x go.
Return == heapPc' = "idle" /\ hole' = 0 /\ moving' = T

\* The end of push().
PushEnds ==
    /\ heapPc = "push" /\ ~Climbing
    /\ Expand([mem EXCEPT ![hole] = moving])
    /\ Return
    /\ UNCHANGED <<size, capacity, contents>>

\* The end of pop() and remove().
RemoveEnds ==
    /\ \/ heapPc = "climb" /\ ~Climbing
       \/ heapPc = "sink" /\ SmallerChildren = {}
    /\ mem' = [mem EXCEPT ![hole] = moving]
    /\ Shrink
    /\ Return
    /\ UNCHANGED <<size, contents, lost>>

HeapNext ==
    \/ \E key \in Keys : Push(key)
    \/ Pop
    \/ \E i \in 0..(size - 1) : Remove(i)
    \/ Climb \/ Sink \/ PushEnds \/ RemoveEnds

HeapSpec == HeapInit /\ [][HeapNext]_heapVars

-----------------------------------------------------------------------------
Ordered ==
    \A i \in 0..(size - 1) :
        /\ Left(i) < size => mem[i] < mem[Left(i)]
        /\ Right(i) < size => mem[i] < mem[Right(i)]

(* As long as expand() leaves nothing behind, every sequence of pushes,     *)
(* pops and removals keeps the heap order that TimerQueue asserts before    *)
(* and after it handles timers (MinHeap.h:36-126, TimerQueue.cc:127, 148).  *)
OrderKept == heapPc = "idle" /\ ~lost => Ordered

(* As long as expand() leaves nothing behind, the heap holds exactly what   *)
(* was pushed and neither popped nor removed, and top() is the least of it. *)
(* There is always room for the next push(), which writes data_[size_]      *)
(* before expand() looks at the capacity (MinHeap.h:36-137).                *)
ContentsKept ==
    heapPc = "idle" =>
      /\ size < VectorCapacity
      /\ ~lost => /\ {mem[i] : i \in 0..(size - 1)} = contents
                  /\ Cardinality(contents) = size
                  /\ size > 0 => mem[0] = Min(contents)

(* What assertOrder() asserts, without that proviso (MinHeap.h:149-158).    *)
AssertOrder == heapPc = "idle" => Ordered
=============================================================================
