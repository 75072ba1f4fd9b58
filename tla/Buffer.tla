------------------------------- MODULE Buffer -------------------------------
(* muduo/net/Buffer.h and Buffer.cc: the input and output buffer of a       *)
(* connection, a vector with a read and a write index that is compacted or  *)
(* grown when an append does not fit.                                       *)
(*                                                                          *)
(* The bytes of the stream are numbered 1, 2, 3, ... as they are put in, so *)
(* that the number says which byte of the stream a cell holds.              *)
EXTENDS Integers

CONSTANTS
    CheapPrepend,   \* kCheapPrepend
    InitSize,       \* kInitSize
    StackBuf,       \* the bytes of the second iovec of readFd
    MaxAppend,      \* bound: bytes of one append
    MaxBytes        \* bound: bytes of the stream

ASSUME BufferAssumption ==
    /\ CheapPrepend \in Nat /\ InitSize \in Nat /\ CheapPrepend <= InitSize
    /\ StackBuf \in Nat /\ MaxAppend \in Nat /\ MaxBytes \in Nat

VARIABLES
    buf,            \* the Buffer
    put,            \* history: bytes put in
    got,            \* history: bytes taken out
    peak            \* history: the most bytes that were readable at one time

vars == <<buf, put, got, peak>>

\* buffer_ with its size, and the two indexes.
Make(data, size, readIndex, writeIndex) ==
    [data |-> data, size |-> size, readIndex |-> readIndex, writeIndex |-> writeIndex]

Init ==
    /\ buf = Make([i \in 0..(InitSize - 1) |-> 0], InitSize, CheapPrepend, CheapPrepend)
    /\ put = 0 /\ got = 0 /\ peak = 0

-----------------------------------------------------------------------------
ReadableBytes(b) == b.writeIndex - b.readIndex
WritableBytes(b) == b.size - b.writeIndex
PrependableBytes(b) == b.readIndex

\* makeSpace, first branch: the vector grows behind writeIndex_.
Resize(b, len) ==
    Make([i \in 0..(b.writeIndex + len - 1) |-> IF i < b.size THEN b.data[i] ELSE 0],
         b.writeIndex + len, b.readIndex, b.writeIndex)

\* The readable bytes copied to the front.
MovedToFront(b) ==
    [i \in 0..(b.size - 1) |->
       IF i >= CheapPrepend /\ i < CheapPrepend + ReadableBytes(b)
         THEN b.data[b.readIndex + (i - CheapPrepend)] ELSE b.data[i]]

\* Mutant: the indexes move to the front but the bytes stay.
Compact_BytesStay(b) ==
    Make(b.data, b.size, CheapPrepend, CheapPrepend + ReadableBytes(b))

\* makeSpace, second branch.
Compact(b) ==
    Make(MovedToFront(b), b.size, CheapPrepend, CheapPrepend + ReadableBytes(b))

\* Mutant: the prependable bytes are not counted as space.
MakeSpace_AlwaysGrows(b, len) == Resize(b, len)

MakeSpace(b, len) ==
    IF WritableBytes(b) + PrependableBytes(b) - CheapPrepend < len
      THEN Resize(b, len) ELSE Compact(b)

EnsureWritableBytes(b, len) ==
    IF WritableBytes(b) < len THEN MakeSpace(b, len) ELSE b

\* The len bytes from number n + 1 on are copied behind writeIndex_.
Store(b, n, len) ==
    Make([i \in 0..(b.size - 1) |->
            IF i >= b.writeIndex /\ i < b.writeIndex + len
              THEN n + 1 + (i - b.writeIndex) ELSE b.data[i]],
         b.size, b.readIndex, b.writeIndex + len)

AppendTo(b, n, len) == Store(EnsureWritableBytes(b, len), n, len)

-----------------------------------------------------------------------------
PutIn(b, n) ==
    /\ buf' = b
    /\ put' = put + n
    /\ peak' = IF ReadableBytes(b) > peak THEN ReadableBytes(b) ELSE peak
    /\ UNCHANGED got

\* append(data, len).
Append(len) ==
    /\ put + len <= MaxBytes
    /\ PutIn(AppendTo(buf, put, len), len)

\* readFd: the most that readv can return.
Room == IF WritableBytes(buf) < StackBuf THEN WritableBytes(buf) + StackBuf
                                         ELSE WritableBytes(buf)

(* readFd: n bytes fill the space behind writeIndex_ and then the array on  *)
(* the stack, which is appended.  An error changes nothing.                 *)
ReadFd(n) ==
    /\ n <= Room /\ put + n <= MaxBytes
    /\ LET w == WritableBytes(buf) IN
         PutIn(IF n < w THEN Store(buf, put, n)
                        ELSE AppendTo(Store(buf, put, w), put + w, n - w), n)

\* Mutant: as much as was asked for.
Retrieved_Unchecked(len) == len

\* retrieve: at most what is readable.
Retrieved(len) == IF ReadableBytes(buf) >= len THEN len ELSE ReadableBytes(buf)

\* retrieve, with retrieveAll and retrieveAsString.
Retrieve(len) ==
    /\ buf' = Make(buf.data, buf.size, buf.readIndex + Retrieved(len), buf.writeIndex)
    /\ got' = got + Retrieved(len)
    /\ UNCHANGED <<put, peak>>

Next ==
    \/ \E len \in 0..MaxAppend : Append(len)
    \/ \E n \in 0..MaxBytes : ReadFd(n)
    \/ \E len \in 0..MaxBytes : Retrieve(len)

Spec == Init /\ [][Next]_vars

-----------------------------------------------------------------------------
(* Types, with the order of the indexes: they stay inside the vector with   *)
(* the room for a prepend kept, and so no subtraction of two size_t wraps   *)
(* (Buffer.h:26-34).                                                        *)
TypeOK ==
    /\ put \in Nat /\ got \in Nat /\ peak \in Nat
    /\ buf.size \in Nat /\ buf.readIndex \in Nat /\ buf.writeIndex \in Nat
    /\ buf.data \in [0..(buf.size - 1) -> Nat]
    /\ CheapPrepend <= buf.readIndex
    /\ buf.readIndex <= buf.writeIndex
    /\ buf.writeIndex <= buf.size

(* The readable bytes are the stream from the first byte not taken out to   *)
(* the last one put in, in order, across growing, compaction and a readFd   *)
(* that fills both iovecs (Buffer.cc:9-85).                                 *)
BytesInOrder ==
    /\ ReadableBytes(buf) = put - got
    /\ \A i \in buf.readIndex..(buf.writeIndex - 1) :
         buf.data[i] = got + 1 + (i - buf.readIndex)

(* The memory of a buffer is bounded by what was in it at one time, however *)
(* many bytes pass through it: it grows only when the bytes do not fit, and *)
(* then by no more than the append (Buffer.cc:70-85).                       *)
BoundedMemory == buf.size <= InitSize \/ buf.size <= CheapPrepend + 2 * peak
=============================================================================
