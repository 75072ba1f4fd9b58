------------------------- MODULE TcpConnectionProofs ------------------------
(* Theorems about TcpConnection for any messages, files, lengths, size of   *)
(* the socket buffer and threads: what the peer receives, when POLLOUT is   *)
(* watched, what shutdown() leaves behind, and that a connection which      *)
(* stays in its IO thread meets no assertion when it ends.                  *)
EXTENDS TcpConnection, SequenceTheorems, TLAPS

ByteSet == (Items \X Nat) \cup {Stray}
States == {"kConnecting", "kConnected", "kDisConnecting", "kDisConnected"}

\* What the operations of the IO thread work on, and the rest.
OpTypes ==
    /\ state \in States /\ events \in SUBSET {"r", "w"}
    /\ outputBuffer \in Seq(ByteSet) /\ stream \in Seq(ByteSet) /\ wire \in Seq(ByteSet)
    /\ file \in SUBSET Files /\ depth \in Nat
    /\ inflight \in 0..SndBuf /\ wrShut \in BOOLEAN /\ writeFailed \in BOOLEAN

LoopTypes ==
    /\ queue \in Seq(Functors) /\ batch \in 0..Len(queue)
    /\ revents \in SUBSET {"r", "w", "h"}
    /\ call \in [Foreign -> SUBSET (Functors)] /\ holders \in SUBSET Foreign
    /\ shared \in BOOLEAN /\ serverUp \in BOOLEAN /\ inMap \in BOOLEAN
    /\ removals \in Nat /\ closed \in BOOLEAN /\ life \in {"alive", "removed", "freed"}

(* connectEstablished is the first functor of the connection and the only   *)
(* one of its kind; nobody else knows the connection before.                *)
Establishing ==
    /\ state = "kConnecting" =>
         /\ queue # <<>> /\ queue[1].op = "connectEstablished"
         /\ InUse /\ wrShut = FALSE /\ depth = 0
         /\ events = {} /\ revents = {} /\ holders = {}
         /\ \A t \in Foreign : call[t] = {}
    /\ \A i \in 1..Len(queue) : queue[i].op = "connectEstablished" =>
         i = 1 /\ state = "kConnecting"
    /\ \A t \in Foreign : \A f \in call[t] : f.op # "connectEstablished"

(* A connection that is closed or removed is never kConnected again, and    *)
(* neither is one that some thread shuts down.                              *)
Ending ==
    /\ state = "kConnected" => InUse /\ wrShut = FALSE
    /\ \A i \in 1..Len(queue) : queue[i].op = "shutdownInLoop" =>
         state \notin {"kConnecting", "kConnected"}
    /\ \A t \in Foreign : \A f \in call[t] : f.op = "shutdownInLoop" =>
         state \notin {"kConnecting", "kConnected"}

\* POLLOUT is watched exactly while something is left to write.
Watching == "w" \in events <=> outputBuffer # <<>> \/ file # {}
Pending == InUse => Watching

(* What was accepted is on the wire or in the buffer.  A file that waits is *)
(* not in the buffer: then nothing goes to the wire any more.               *)
Accounted ==
    writeFailed = FALSE =>
        /\ IsPrefix(wire, stream)
        /\ file = {} => stream = wire \o outputBuffer

\* shutdown(SHUT_WR) is not called while bytes wait, and none are added after it.
Clean == InUse /\ wrShut = TRUE => outputBuffer = <<>>

ConnInv ==
    OpTypes /\ LoopTypes /\ Establishing /\ Ending /\ Pending /\ Accounted /\ Clean

-----------------------------------------------------------------------------
(* Sequences of bytes.                                                      *)
LEMMA BytesOfItem ==
    /\ \A m \in Messages : Bytes(m) \in Seq(ByteSet) /\ Len(Bytes(m)) = MsgLen
    /\ \A f \in Files : Bytes(f) \in Seq(ByteSet) /\ Len(Bytes(f)) = FileLen
<1>1. ASSUME NEW x \in Items, NEW n \in Nat \ {0}
      PROVE  /\ [i \in 1..n |-> <<x, i>>] \in Seq(ByteSet)
             /\ Len([i \in 1..n |-> <<x, i>>]) = n
  <2>1. \A i \in 1..n : <<x, i>> \in ByteSet
    BY DEF ByteSet
  <2>2. QED
    BY <2>1
<1>2. ASSUME NEW m \in Messages PROVE Bytes(m) \in Seq(ByteSet) /\ Len(Bytes(m)) = MsgLen
  <2>1. m \notin Files /\ m \in Items
    BY SizesAssumption DEF Items
  <2>2. Bytes(m) = [i \in 1..MsgLen |-> <<m, i>>]
    BY <2>1 DEF Bytes
  <2>3. QED
    BY <1>1, <2>1, <2>2, SizesAssumption
<1>3. ASSUME NEW f \in Files PROVE Bytes(f) \in Seq(ByteSet) /\ Len(Bytes(f)) = FileLen
  <2>1. Bytes(f) = [i \in 1..FileLen |-> <<f, i>>] /\ f \in Items
    BY DEF Bytes, Items
  <2>2. QED
    BY <1>1, <2>1, SizesAssumption
<1>4. QED
  BY <1>2, <1>3

\* What is taken from the front and what is left.
LEMMA SplitAt ==
    ASSUME NEW S, NEW s \in Seq(S), NEW n \in 0..Len(s)
    PROVE  /\ SubSeq(s, 1, n) \in Seq(S) /\ SubSeq(s, n + 1, Len(s)) \in Seq(S)
           /\ Len(SubSeq(s, 1, n)) = n
           /\ SubSeq(s, 1, n) \o SubSeq(s, n + 1, Len(s)) = s
           /\ n = Len(s) <=> SubSeq(s, n + 1, Len(s)) = <<>>
<1>1. /\ SubSeq(s, 1, n) \in Seq(S) /\ SubSeq(s, n + 1, Len(s)) \in Seq(S)
      /\ Len(SubSeq(s, 1, n)) = n
      /\ Len(SubSeq(s, n + 1, Len(s))) = Len(s) - n
  OBVIOUS
<1>2. SubSeq(s, 1, n) \o SubSeq(s, n + 1, Len(s)) = s
  <2> DEFINE a == SubSeq(s, 1, n)
             b == SubSeq(s, n + 1, Len(s))
  <2>1. /\ \A i \in 1..n : a[i] = s[i]
        /\ \A i \in 1..(Len(s) - n) : b[i] = s[n + i]
    OBVIOUS
  <2>2. /\ a \in Seq(S) /\ b \in Seq(S) /\ Len(a) = n /\ Len(b) = Len(s) - n
        /\ n \in Nat /\ Len(s) \in Nat /\ n <= Len(s)
    BY <1>1
  <2> HIDE DEF a, b
  <2>3. a \o b \in Seq(S) /\ Len(a \o b) = Len(s)
    BY <2>2
  <2>4. ASSUME NEW i \in 1..Len(s) PROVE (a \o b)[i] = s[i]
    <3>1. CASE i <= n
      BY <2>1, <2>2, <3>1
    <3>2. CASE i > n
      <4>1. i - n \in 1..(Len(s) - n) /\ n + (i - n) = i
        BY <2>2, <3>2
      <4>2. (a \o b)[i] = b[i - n]
        BY <2>2, <3>2
      <4>3. QED
        BY <2>1, <4>1, <4>2
    <3>3. QED
      BY <2>2, <3>1, <3>2
  <2>5. a \o b = s
    <3>1. PICK c : c = a \o b
      OBVIOUS
    <3>2. c \in Seq(S) /\ Len(c) = Len(s) /\ \A i \in 1..Len(c) : c[i] = s[i]
      BY <2>3, <2>4, <3>1
    <3>3. QED
      BY <3>1, <3>2, SeqEqual
  <2>6. QED
    BY <2>5 DEF a, b
<1>3. n = Len(s) <=> SubSeq(s, n + 1, Len(s)) = <<>>
  <2>1. PICK b : b = SubSeq(s, n + 1, Len(s))
    OBVIOUS
  <2>2. b \in Seq(S) /\ Len(b) = Len(s) - n /\ Len(s) \in Nat
    BY <1>1, <2>1
  <2>3. b = <<>> <=> Len(b) = 0
    BY <2>2, EmptySeq
  <2>4. n = Len(s) <=> b = <<>>
    BY <2>2, <2>3
  <2>5. QED
    BY <2>1, <2>4
<1>4. QED
  BY <1>1, <1>2, <1>3

LEMMA PrefixOfConcat ==
    ASSUME NEW S, NEW w \in Seq(S), NEW u \in Seq(S)
    PROVE  IsPrefix(w, w \o u)
<1>1. /\ Len(w) \in Nat /\ Len(u) \in Nat /\ Len(w \o u) = Len(w) + Len(u)
      /\ w \o u \in Seq(S)
      /\ \A i \in 1..Len(w) : (w \o u)[i] = w[i]
  OBVIOUS
<1>2. SubSeq(w, 1, Len(w)) = SubSeq(w \o u, 1, Len(w))
  BY <1>1
<1>3. QED
  BY <1>1, <1>2 DEF IsPrefix

LEMMA PrefixGrows ==
    ASSUME NEW S, NEW w \in Seq(S), NEW s \in Seq(S), NEW u \in Seq(S), IsPrefix(w, s)
    PROVE  IsPrefix(w, s \o u)
<1>1. /\ Len(w) \in Nat /\ Len(s) \in Nat /\ Len(u) \in Nat
      /\ Len(s \o u) = Len(s) + Len(u) /\ s \o u \in Seq(S)
      /\ \A i \in 1..Len(s) : (s \o u)[i] = s[i]
  OBVIOUS
<1>2. Len(w) <= Len(s) /\ SubSeq(w, 1, Len(w)) = SubSeq(s, 1, Len(w))
  BY DEF IsPrefix
<1>3. SubSeq(s, 1, Len(w)) = SubSeq(s \o u, 1, Len(w))
  BY <1>1, <1>2
<1>4. QED
  BY <1>1, <1>2, <1>3 DEF IsPrefix

\* What write() and sendfile() return.
LEMMA WriteReturns ==
    ASSUME inflight \in 0..SndBuf, NEW len \in Nat
    PROVE  /\ Accepted(len) \in Int /\ (Accepted(len) >= 0 \/ Accepted(len) = -1)
           /\ Accepted(len) >= 0 => /\ Accepted(len) \in 0..len
                                    /\ inflight + Accepted(len) \in 0..SndBuf
  BY SizesAssumption DEF Accepted

-----------------------------------------------------------------------------
(* The operations of the IO thread.                                         *)

\* What the IO thread relies on when it calls one of them.
Ready == OpTypes /\ Accounted /\ (state = "kConnected" => Watching)

LEMMA Keeping ==
    ASSUME OpTypes, NEW rest \in Seq(ByteSet), KeepRest(rest)
    PROVE  /\ outputBuffer' = outputBuffer \o rest /\ outputBuffer' \in Seq(ByteSet)
           /\ events' \in SUBSET {"r", "w"}
           /\ events \subseteq events' /\ events' \subseteq events \cup {"w"}
           /\ rest = <<>> => UNCHANGED <<events, outputBuffer>>
           /\ rest # <<>> => "w" \in events' /\ outputBuffer' # <<>>
<1>1. /\ outputBuffer' = outputBuffer \o rest
      /\ events' = IF rest = <<>> THEN events ELSE events \cup {"w"}
  BY DEF KeepRest
<1>2. outputBuffer \in Seq(ByteSet) /\ events \in SUBSET {"r", "w"}
  BY DEF OpTypes
<1>3. outputBuffer \o rest \in Seq(ByteSet)
  BY <1>2
<1>4. rest = <<>> => outputBuffer \o rest = outputBuffer
  BY <1>2, ConcatEmptySeq
<1>5. rest # <<>> => outputBuffer \o rest # <<>>
  BY <1>2, ConcatEqualIffEmpty
<1>6. events' \in SUBSET {"r", "w"}
  BY <1>1, <1>2
<1>7. QED
  BY <1>1, <1>3, <1>4, <1>5, <1>6

\* sendInLoop.
LEMMA SendInLoopStep ==
    ASSUME Ready, NEW m \in Messages, SendInLoop(m)
    PROVE  /\ OpTypes' /\ Accounted' /\ (Watching => Watching')
           /\ UNCHANGED <<state, file, wrShut, fault>>
           /\ events \subseteq events' /\ events' \subseteq events \cup {"w"}
           /\ state # "kConnected" => UNCHANGED opVars
<1>1. CASE state # "kConnected"
  <2>1. UNCHANGED opVars
    BY <1>1 DEF SendInLoop
  <2>2. OpTypes' /\ Accounted' /\ (Watching => Watching')
    BY <2>1 DEF opVars, connVars, Ready, OpTypes, Accounted, Watching
  <2>3. QED
    BY <1>1, <2>1, <2>2 DEF opVars, connVars
<1>2. CASE state = "kConnected"
  <2>1. PICK n : n = Accepted(MsgLen)
    OBVIOUS
  <2>2. PICK b : b = Bytes(m)
    OBVIOUS
  <2>3. b \in Seq(ByteSet) /\ Len(b) = MsgLen
    BY <2>2, BytesOfItem
  <2>4. /\ OpTypes /\ Watching /\ inflight \in 0..SndBuf
        /\ outputBuffer \in Seq(ByteSet) /\ stream \in Seq(ByteSet) /\ wire \in Seq(ByteSet)
    BY <1>2 DEF Ready, OpTypes
  <2>5. /\ stream' = stream \o b
        /\ \/ /\ DirectWriteAllowed /\ n >= 0
              /\ Take(SubSeq(b, 1, n))
              /\ KeepRest(SubSeq(b, n + 1, MsgLen))
              /\ depth' = IF n = MsgLen THEN depth + 1 ELSE depth
              /\ UNCHANGED writeFailed
           \/ /\ DirectWriteAllowed /\ n < 0
              /\ KeepRest(<<Stray>> \o b)
              /\ writeFailed' = TRUE
              /\ UNCHANGED <<wire, inflight, depth>>
           \/ /\ ~DirectWriteAllowed
              /\ KeepRest(b)
              /\ UNCHANGED <<wire, inflight, depth, writeFailed>>
        /\ UNCHANGED <<state, file, wrShut, fault>>
    BY <1>2, <2>1, <2>2 DEF SendInLoop
  <2>6. stream \o b \in Seq(ByteSet)
    BY <2>3, <2>4
  <2>7. /\ n \in Int
        /\ n >= 0 => n \in 0..MsgLen /\ inflight + n \in 0..SndBuf
    BY <2>1, <2>4, WriteReturns, SizesAssumption
  <2>8. CASE DirectWriteAllowed /\ n >= 0 /\ Take(SubSeq(b, 1, n))
               /\ KeepRest(SubSeq(b, n + 1, MsgLen))
               /\ depth' = (IF n = MsgLen THEN depth + 1 ELSE depth)
               /\ UNCHANGED writeFailed
    <3>1. PICK front : front = SubSeq(b, 1, n)
      OBVIOUS
    <3>2. PICK rest : rest = SubSeq(b, n + 1, MsgLen)
      OBVIOUS
    <3>3. /\ front \in Seq(ByteSet) /\ rest \in Seq(ByteSet) /\ Len(front) = n
          /\ front \o rest = b
      BY <2>3, <2>7, <2>8, <3>1, <3>2, SplitAt, ZenonT(60)
    <3>4. /\ outputBuffer' = outputBuffer \o rest /\ outputBuffer' \in Seq(ByteSet)
          /\ events' \in SUBSET {"r", "w"}
          /\ events \subseteq events' /\ events' \subseteq events \cup {"w"}
          /\ rest = <<>> => UNCHANGED <<events, outputBuffer>>
          /\ rest # <<>> => "w" \in events' /\ outputBuffer' # <<>>
      BY <2>4, <2>8, <3>2, <3>3, Keeping
    <3>5. wire' = wire \o front /\ inflight' = inflight + n /\ wire' \in Seq(ByteSet)
      <4>1. wire' = wire \o front /\ inflight' = inflight + n
        BY <2>8, <3>1, <3>3 DEF Take
      <4>2. QED
        BY <2>4, <3>3, <4>1
    <3>6. outputBuffer = <<>> /\ file = {} /\ "w" \notin events
      BY <2>4, <2>8 DEF DirectWriteAllowed, Watching
    <3>7. outputBuffer' = rest
      BY <3>3, <3>4, <3>6, ConcatEmptySeq
    <3>8. OpTypes'
      <4>1. depth' \in Nat
        BY <2>4, <2>8 DEF OpTypes
      <4>2. QED
        BY <2>4, <2>5, <2>6, <2>7, <2>8, <3>4, <3>5, <4>1 DEF OpTypes
    <3>9. Accounted'
      <4>1. SUFFICES ASSUME writeFailed' = FALSE
                     PROVE  IsPrefix(wire', stream') /\ stream' = wire' \o outputBuffer'
        BY DEF Accounted
      <4>2. stream = wire
        <5>1. stream = wire \o outputBuffer
          BY <2>8, <3>6, <4>1 DEF Ready, Accounted
        <5>2. QED
          BY <2>4, <3>6, <5>1, ConcatEmptySeq
      <4>3. stream' = wire \o (front \o rest)
        BY <2>5, <3>3, <4>2
      <4>4. (wire \o front) \o rest = wire \o (front \o rest)
        <5>1. wire \in Seq(ByteSet) /\ front \in Seq(ByteSet) /\ rest \in Seq(ByteSet)
          BY <2>4, <3>3
        <5>2. QED
          BY <5>1, ConcatAssociative
      <4>5. stream' = wire' \o outputBuffer'
        BY <3>5, <3>7, <4>3, <4>4
      <4>6. IsPrefix(wire', wire' \o outputBuffer')
        BY <3>4, <3>5, PrefixOfConcat
      <4>7. QED
        BY <4>5, <4>6
    <3>10. Watching'
      BY <2>4, <2>5, <3>4, <3>6 DEF Watching
    <3>11. QED
      BY <1>2, <2>5, <3>4, <3>8, <3>9, <3>10
  <2>9. CASE DirectWriteAllowed /\ n < 0 /\ KeepRest(<<Stray>> \o b)
               /\ writeFailed' = TRUE /\ UNCHANGED <<wire, inflight, depth>>
    <3>1. <<Stray>> \o b \in Seq(ByteSet)
      <4>1. Stray \in ByteSet
        BY DEF ByteSet
      <4>2. <<Stray>> \in Seq(ByteSet)
        BY <4>1
      <4>3. QED
        BY <2>3, <4>2
    <3>2. PICK rest \in Seq(ByteSet) : rest = <<Stray>> \o b
      BY <3>1
    <3>3. /\ outputBuffer' \in Seq(ByteSet)
          /\ events' \in SUBSET {"r", "w"}
          /\ events \subseteq events' /\ events' \subseteq events \cup {"w"}
          /\ rest = <<>> => UNCHANGED <<events, outputBuffer>>
          /\ rest # <<>> => "w" \in events' /\ outputBuffer' # <<>>
      BY <2>4, <2>9, <3>2, Keeping
    <3>4. OpTypes'
      BY <2>4, <2>5, <2>6, <2>9, <3>3 DEF OpTypes
    <3>5. Accounted'
      BY <2>9 DEF Accounted
    <3>6. Watching'
      BY <2>4, <2>5, <3>3 DEF Watching
    <3>7. QED
      BY <1>2, <2>5, <3>3, <3>4, <3>5, <3>6
  <2>10. CASE ~DirectWriteAllowed /\ KeepRest(b)
                /\ UNCHANGED <<wire, inflight, depth, writeFailed>>
    <3>1. /\ outputBuffer' = outputBuffer \o b /\ outputBuffer' \in Seq(ByteSet)
          /\ events' \in SUBSET {"r", "w"}
          /\ events \subseteq events' /\ events' \subseteq events \cup {"w"}
          /\ b = <<>> => UNCHANGED <<events, outputBuffer>>
          /\ b # <<>> => "w" \in events' /\ outputBuffer' # <<>>
      BY <2>3, <2>4, <2>10, Keeping
    <3>2. OpTypes'
      BY <2>4, <2>5, <2>6, <2>10, <3>1 DEF OpTypes
    <3>3. Accounted'
      <4>1. SUFFICES ASSUME writeFailed' = FALSE
                     PROVE  /\ IsPrefix(wire', stream')
                            /\ file' = {} => stream' = wire' \o outputBuffer'
        BY DEF Accounted
      <4>2. IsPrefix(wire, stream) /\ (file = {} => stream = wire \o outputBuffer)
        BY <2>10, <4>1 DEF Ready, Accounted
      <4>3. IsPrefix(wire, stream \o b)
        BY <2>3, <2>4, <4>2, PrefixGrows
      <4>4. (wire \o outputBuffer) \o b = wire \o (outputBuffer \o b)
        BY <2>3, <2>4, ConcatAssociative, SMTT(30)
      <4>5. QED
        BY <2>5, <2>10, <3>1, <4>2, <4>3, <4>4
    <3>4. Watching'
      BY <2>4, <2>5, <3>1 DEF Watching
    <3>5. QED
      BY <1>2, <2>5, <3>1, <3>2, <3>3, <3>4
  <2>11. QED
    BY <2>5, <2>8, <2>9, <2>10
<1>3. QED
  BY <1>1, <1>2

\* sendFileInLoop: unlike sendInLoop it does not look at state_.
LEMMA SendFileInLoopStep ==
    ASSUME Ready, NEW f \in Files, NEW opened \in BOOLEAN, SendFileInLoop(f, opened)
    PROVE  /\ OpTypes' /\ Accounted' /\ (Watching => Watching')
           /\ UNCHANGED <<state, outputBuffer, wrShut>> /\ fault' \in {fault, "sendFile"}
           /\ events \subseteq events' /\ events' \subseteq events \cup {"w"}
<1>1. CASE file # {} \/ ~opened
  <2>1. /\ UNCHANGED <<connVars, depth, inflight, wrShut, stream, wire, writeFailed>>
        /\ fault' \in {fault, "sendFile"}
    BY <1>1 DEF SendFileInLoop, opVars
  <2>2. OpTypes' /\ Accounted' /\ (Watching => Watching')
    BY <2>1 DEF connVars, Ready, OpTypes, Accounted, Watching
  <2>3. QED
    BY <2>1, <2>2 DEF connVars
<1>2. CASE file = {} /\ opened
  <2>1. PICK n : n = Accepted(FileLen)
    OBVIOUS
  <2>2. PICK b : b = Bytes(f)
    OBVIOUS
  <2>3. b \in Seq(ByteSet) /\ Len(b) = FileLen
    BY <2>2, BytesOfItem
  <2>4. /\ OpTypes /\ inflight \in 0..SndBuf /\ depth \in Nat
        /\ outputBuffer \in Seq(ByteSet) /\ stream \in Seq(ByteSet) /\ wire \in Seq(ByteSet)
    BY DEF Ready, OpTypes
  <2>5. /\ stream' = stream \o b
        /\ \/ /\ DirectWriteAllowed /\ n >= 0
              /\ Take(SubSeq(b, 1, n))
              /\ depth' = IF n = FileLen THEN depth + 1 ELSE depth
              /\ UNCHANGED writeFailed
           \/ /\ DirectWriteAllowed /\ n < 0
              /\ writeFailed' = TRUE
              /\ UNCHANGED <<wire, inflight, depth>>
           \/ /\ ~DirectWriteAllowed
              /\ UNCHANGED <<wire, inflight, depth, writeFailed>>
        /\ IF DirectWriteAllowed /\ n = FileLen
             THEN UNCHANGED <<file, events>>
             ELSE file' = {f} /\ events' = events \cup {"w"}
        /\ UNCHANGED <<state, outputBuffer, wrShut, fault>>
    BY <1>2, <2>1, <2>2 DEF SendFileInLoop
  <2>6. stream \o b \in Seq(ByteSet)
    BY <2>3, <2>4
  <2>7. /\ n \in Int
        /\ n >= 0 => n \in 0..FileLen /\ inflight + n \in 0..SndBuf
    BY <2>1, <2>4, WriteReturns, SizesAssumption
  <2>8. /\ file' \in SUBSET Files /\ events' \in SUBSET {"r", "w"}
        /\ events \subseteq events' /\ events' \subseteq events \cup {"w"}
        /\ Watching => Watching'
    <3>1. CASE DirectWriteAllowed /\ n = FileLen
      BY <2>4, <2>5, <3>1 DEF OpTypes, Watching
    <3>2. CASE ~(DirectWriteAllowed /\ n = FileLen)
      BY <2>4, <2>5, <3>2 DEF OpTypes, Watching
    <3>3. QED
      BY <3>1, <3>2
  <2>9. CASE DirectWriteAllowed /\ n >= 0 /\ Take(SubSeq(b, 1, n))
               /\ depth' = (IF n = FileLen THEN depth + 1 ELSE depth)
               /\ UNCHANGED writeFailed
    <3>1. PICK front : front = SubSeq(b, 1, n)
      OBVIOUS
    <3>2. PICK rest : rest = SubSeq(b, n + 1, FileLen)
      OBVIOUS
    <3>3. /\ front \in Seq(ByteSet) /\ rest \in Seq(ByteSet) /\ Len(front) = n
          /\ front \o rest = b /\ (n = FileLen <=> rest = <<>>)
      BY <2>3, <2>7, <2>9, <3>1, <3>2, SplitAt, ZenonT(60)
    <3>4. wire' = wire \o front /\ inflight' = inflight + n /\ wire' \in Seq(ByteSet)
      <4>1. wire' = wire \o front /\ inflight' = inflight + n
        BY <2>9, <3>1, <3>3 DEF Take
      <4>2. QED
        BY <2>4, <3>3, <4>1
    <3>5. OpTypes'
      <4>1. depth' \in Nat
        BY <2>4, <2>9
      <4>2. QED
        BY <2>4, <2>5, <2>6, <2>7, <2>8, <2>9, <3>4, <4>1 DEF OpTypes
    <3>6. outputBuffer = <<>>
      BY <2>9 DEF DirectWriteAllowed
    <3>7. Accounted'
      <4>1. SUFFICES ASSUME writeFailed' = FALSE
                     PROVE  /\ IsPrefix(wire', stream')
                            /\ file' = {} => stream' = wire' \o outputBuffer'
        BY DEF Accounted
      <4>2. stream = wire
        <5>1. stream = wire \o outputBuffer
          BY <1>2, <2>9, <4>1 DEF Ready, Accounted
        <5>2. QED
          BY <2>4, <3>6, <5>1, ConcatEmptySeq
      <4>3. stream' = wire \o (front \o rest)
        BY <2>5, <3>3, <4>2
      <4>4. (wire \o front) \o rest = wire \o (front \o rest)
        <5>1. wire \in Seq(ByteSet) /\ front \in Seq(ByteSet) /\ rest \in Seq(ByteSet)
          BY <2>4, <3>3
        <5>2. QED
          BY <5>1, ConcatAssociative
      <4>5. stream' = wire' \o rest
        BY <3>4, <4>3, <4>4
      <4>6. IsPrefix(wire', wire' \o rest)
        BY <3>3, <3>4, PrefixOfConcat
      <4>7. file' = {} => rest = <<>>
        BY <2>5, <2>9, <3>3
      <4>8. outputBuffer' = <<>>
        BY <2>5, <3>6
      <4>9. QED
        BY <4>5, <4>6, <4>7, <4>8
    <3>8. QED
      BY <2>5, <2>8, <3>5, <3>7
  <2>10. CASE DirectWriteAllowed /\ n < 0 /\ writeFailed' = TRUE
                /\ UNCHANGED <<wire, inflight, depth>>
    <3>1. OpTypes'
      BY <2>4, <2>5, <2>6, <2>8, <2>10 DEF OpTypes
    <3>2. Accounted'
      BY <2>10 DEF Accounted
    <3>3. QED
      BY <2>5, <2>8, <3>1, <3>2
  <2>11. CASE ~DirectWriteAllowed /\ UNCHANGED <<wire, inflight, depth, writeFailed>>
    <3>1. OpTypes'
      BY <2>4, <2>5, <2>6, <2>8, <2>11 DEF OpTypes
    <3>2. Accounted'
      <4>1. SUFFICES ASSUME writeFailed' = FALSE
                     PROVE  IsPrefix(wire', stream') /\ file' # {}
        BY DEF Accounted
      <4>2. IsPrefix(wire, stream)
        BY <2>11, <4>1 DEF Ready, Accounted
      <4>3. IsPrefix(wire, stream \o b)
        BY <2>3, <2>4, <4>2, PrefixGrows
      <4>4. QED
        BY <2>5, <2>11, <4>3
    <3>3. QED
      BY <2>5, <2>8, <3>1, <3>2
  <2>12. QED
    BY <2>5, <2>9, <2>10, <2>11
<1>3. QED
  BY <1>1, <1>2

\* handleWrite.
LEMMA HandleWriteStep ==
    ASSUME Ready, HandleWrite
    PROVE  /\ OpTypes' /\ Accounted' /\ (Watching => Watching')
           /\ UNCHANGED <<state, file, wrShut, stream>>
           /\ fault' = IF "w" \in events THEN fault ELSE "handleWrite"
           /\ outputBuffer = <<>> => outputBuffer' = <<>>
           /\ events' \subseteq events
<1>1. /\ OpTypes /\ inflight \in 0..SndBuf /\ depth \in Nat /\ Len(outputBuffer) \in Nat
      /\ outputBuffer \in Seq(ByteSet) /\ stream \in Seq(ByteSet) /\ wire \in Seq(ByteSet)
  BY DEF Ready, OpTypes
<1>2. PICK n : n = Accepted(Len(outputBuffer))
  OBVIOUS
<1>3. CASE "w" \notin events
  <2>1. /\ UNCHANGED <<connVars, depth, inflight, wrShut, stream, wire, writeFailed>>
        /\ fault' = "handleWrite"
    BY <1>3 DEF HandleWrite
  <2>2. OpTypes' /\ Accounted' /\ (Watching => Watching')
    BY <2>1 DEF connVars, Ready, OpTypes, Accounted, Watching
  <2>3. QED
    BY <1>3, <2>1, <2>2 DEF connVars
<1>4. CASE /\ "w" \in events
           /\ writeFailed' = TRUE
           /\ UNCHANGED <<connVars, depth, inflight, wrShut, stream, wire, fault>>
  <2>1. OpTypes' /\ Accounted' /\ (Watching => Watching')
    BY <1>1, <1>4 DEF connVars, OpTypes, Accounted, Watching
  <2>2. QED
    BY <1>4, <2>1 DEF connVars
<1>5. CASE /\ "w" \in events /\ file = {} /\ n > 0
           /\ Take(SubSeq(outputBuffer, 1, n))
           /\ outputBuffer' = SubSeq(outputBuffer, n + 1, Len(outputBuffer))
           /\ IF outputBuffer' = <<>>
                THEN events' = events \ {"w"} /\ depth' = depth + 1
                ELSE UNCHANGED <<events, depth>>
           /\ UNCHANGED <<state, file, wrShut, stream, writeFailed, fault>>
  <2>1. n \in 0..Len(outputBuffer) /\ inflight + n \in 0..SndBuf
    <3>1. n \in Int /\ (n >= 0 => n \in 0..Len(outputBuffer) /\ inflight + n \in 0..SndBuf)
      BY <1>1, <1>2, WriteReturns
    <3>2. QED
      BY <1>5, <3>1
  <2>2. PICK front : front = SubSeq(outputBuffer, 1, n)
    OBVIOUS
  <2>3. PICK rest : rest = SubSeq(outputBuffer, n + 1, Len(outputBuffer))
    OBVIOUS
  <2>4. /\ front \in Seq(ByteSet) /\ rest \in Seq(ByteSet) /\ Len(front) = n
        /\ front \o rest = outputBuffer
    BY <1>1, <2>1, <2>2, <2>3, SplitAt, ZenonT(60)
  <2>5. /\ wire' = wire \o front /\ inflight' = inflight + n /\ outputBuffer' = rest
    BY <1>5, <2>2, <2>3, <2>4 DEF Take
  <2>6. wire' \in Seq(ByteSet)
    BY <1>1, <2>4, <2>5
  <2>7. /\ events' \in SUBSET {"r", "w"} /\ events' \subseteq events /\ depth' \in Nat
        /\ "w" \in events' <=> rest # <<>>
    <3>1. CASE rest = <<>>
      <4>1. events' = events \ {"w"} /\ depth' = depth + 1
        BY <1>5, <2>5, <3>1
      <4>2. QED
        BY <1>1, <3>1, <4>1 DEF OpTypes
    <3>2. CASE rest # <<>>
      <4>1. UNCHANGED <<events, depth>>
        BY <1>5, <2>5, <3>2
      <4>2. QED
        BY <1>1, <1>5, <3>2, <4>1 DEF OpTypes
    <3>3. QED
      BY <3>1, <3>2
  <2>8. OpTypes'
    BY <1>1, <1>5, <2>1, <2>4, <2>5, <2>6, <2>7 DEF OpTypes
  <2>9. Accounted'
    <3>1. SUFFICES ASSUME writeFailed' = FALSE
                   PROVE  IsPrefix(wire', stream') /\ stream' = wire' \o outputBuffer'
      BY DEF Accounted
    <3>2. stream = wire \o (front \o rest)
      BY <1>5, <2>4, <3>1 DEF Ready, Accounted
    <3>3. (wire \o front) \o rest = wire \o (front \o rest)
      <4>1. wire \in Seq(ByteSet) /\ front \in Seq(ByteSet) /\ rest \in Seq(ByteSet)
        BY <1>1, <2>4
      <4>2. QED
        BY <4>1, ConcatAssociative
    <3>4. stream' = wire' \o rest
      BY <1>5, <2>5, <3>2, <3>3
    <3>5. IsPrefix(wire', wire' \o rest)
      BY <2>4, <2>6, PrefixOfConcat
    <3>6. QED
      BY <2>5, <3>4, <3>5
  <2>10. Watching'
    BY <1>5, <2>5, <2>7 DEF Watching
  <2>11. outputBuffer # <<>>
    <3>1. Len(outputBuffer) > 0
      BY <1>1, <1>5, <2>1
    <3>2. QED
      BY <1>1, <3>1, EmptySeq
  <2>12. QED
    BY <1>5, <2>7, <2>8, <2>9, <2>10, <2>11
<1>6. QED
  BY <1>2, <1>3, <1>4, <1>5 DEF HandleWrite

\* The operations that send nothing.
LEMMA OtherSteps ==
    ASSUME Ready, \/ ShutdownInLoop \/ Shutdown \/ ConnectEstablished
                  \/ ConnectDestroyed \/ UNCHANGED opVars
    PROVE  /\ OpTypes' /\ Accounted'
           /\ UNCHANGED <<outputBuffer, file, stream, wire>>
           /\ ConnectDestroyed \/ (Watching => Watching')
<1>1. /\ UNCHANGED <<outputBuffer, file, stream, wire, inflight, writeFailed>>
      /\ state' \in States /\ depth' \in Nat
      /\ events' \in SUBSET {"r", "w"} /\ wrShut' \in BOOLEAN
  <2>1. OpTypes
    BY DEF Ready
  <2>2. CASE ShutdownInLoop
    BY <2>1, <2>2 DEF OpTypes, ShutdownInLoop, connVars
  <2>3. CASE Shutdown
    BY <2>1, <2>3 DEF OpTypes, States, Shutdown, opVars, connVars
  <2>4. CASE ConnectEstablished
    BY <2>1, <2>4 DEF OpTypes, States, ConnectEstablished
  <2>5. CASE ConnectDestroyed
    BY <2>1, <2>5 DEF OpTypes, States, ConnectDestroyed
  <2>6. CASE UNCHANGED opVars
    BY <2>1, <2>6 DEF OpTypes, opVars, connVars
  <2>7. QED
    BY <2>2, <2>3, <2>4, <2>5, <2>6
<1>2. OpTypes' /\ Accounted'
  BY <1>1 DEF Ready, OpTypes, Accounted
<1>3. ConnectDestroyed \/ ("w" \in events' <=> "w" \in events)
  BY DEF ShutdownInLoop, Shutdown, ConnectEstablished, opVars, connVars
<1>4. QED
  BY <1>1, <1>2, <1>3 DEF Watching

-----------------------------------------------------------------------------
(* What a step does to the functors, and to the state the operations share. *)
LEMMA TailOf ==
    ASSUME NEW S, NEW q \in Seq(S), q # <<>>
    PROVE  /\ Tail(q) \in Seq(S) /\ Len(Tail(q)) = Len(q) - 1 /\ Len(q) \in Nat \ {0}
           /\ Head(q) = q[1] /\ q[1] \in S
           /\ \A i \in 1..Len(Tail(q)) : Tail(q)[i] = q[i + 1]
  OBVIOUS

LEMMA AppendOf ==
    ASSUME NEW S, NEW q \in Seq(S), NEW f \in S
    PROVE  /\ Append(q, f) \in Seq(S) /\ Len(Append(q, f)) = Len(q) + 1 /\ Len(q) \in Nat
           /\ \A i \in 1..Len(q) : Append(q, f)[i] = q[i]
           /\ Append(q, f)[Len(q) + 1] = f
  OBVIOUS

LEMMA InvReady == ASSUME ConnInv PROVE Ready
  BY DEF ConnInv, Ready, Ending, Pending

\* A step that leaves alone what the operations work on.
LEMMA OpsKept ==
    ASSUME ConnInv, UNCHANGED <<connVars, depth, wrShut, stream, wire, writeFailed>>,
           inflight' \in 0..SndBuf, InUse' => InUse
    PROVE  OpTypes' /\ Accounted' /\ Pending' /\ Clean'
<1>1. OpTypes' /\ Accounted'
  BY DEF ConnInv, OpTypes, Accounted, connVars
<1>2. Pending'
  BY DEF ConnInv, Pending, Watching, connVars
<1>3. Clean'
  BY DEF ConnInv, Clean, connVars
<1>4. QED
  BY <1>1, <1>2, <1>3

\* A step after connectEstablished that queues nothing.
LEMMA NothingQueued ==
    ASSUME ConnInv, state # "kConnecting", UNCHANGED <<queue, call>>,
           state' \in {state, "kDisConnecting", "kDisConnected"},
           state' = "kConnected" => InUse' /\ wrShut' = FALSE
    PROVE  Establishing' /\ Ending'
<1>1. Establishing'
  BY DEF ConnInv, Establishing
<1>2. \A i \in 1..Len(queue') : queue'[i].op = "shutdownInLoop" =>
         state' \notin {"kConnecting", "kConnected"}
  BY DEF ConnInv, Ending
<1>3. \A t \in Foreign : \A f \in call'[t] : f.op = "shutdownInLoop" =>
         state' \notin {"kConnecting", "kConnected"}
  BY DEF ConnInv, Ending
<1>4. QED
  BY <1>1, <1>2, <1>3 DEF Ending

\* A step that queues a functor.
LEMMA Queued ==
    ASSUME ConnInv, NEW f \in Functors, queue' = Append(queue, f),
           f.op # "connectEstablished",
           f.op = "shutdownInLoop" => state \notin {"kConnecting", "kConnected"},
           \A t \in Foreign : call'[t] \subseteq call[t],
           UNCHANGED <<state, batch, depth, events, revents, holders, wrShut,
                       closed, life>>
    PROVE  Establishing' /\ Ending' /\ queue' \in Seq(Functors) /\ batch' \in 0..Len(queue')
<1>1. PICK q : q = queue'
  OBVIOUS
<1>2. queue \in Seq(Functors) /\ batch \in 0..Len(queue)
  BY DEF ConnInv, LoopTypes
<1>3. /\ q \in Seq(Functors) /\ Len(q) = Len(queue) + 1 /\ Len(queue) \in Nat
      /\ \A i \in 1..Len(queue) : q[i] = queue[i]
      /\ q[Len(queue) + 1] = f
  BY <1>1, <1>2, AppendOf
<1>4. \A i \in 1..Len(q) : i \in 1..Len(queue) \/ i = Len(queue) + 1
  BY <1>3
<1>5. queue # <<>> => 1 \in 1..Len(queue)
  BY <1>2, <1>3, EmptySeq
<1>6. q # <<>>
  BY <1>3, EmptySeq
<1>7. state = "kConnecting" => queue # <<>> /\ queue[1].op = "connectEstablished"
  BY DEF ConnInv, Establishing
<1>8. Establishing'
  <2>1. state' = "kConnecting" =>
         /\ q # <<>> /\ q[1].op = "connectEstablished"
         /\ InUse' /\ wrShut' = FALSE /\ depth' = 0
         /\ events' = {} /\ revents' = {} /\ holders' = {}
         /\ \A t \in Foreign : call'[t] = {}
    <3>1. state = "kConnecting" => q[1].op = "connectEstablished"
      BY <1>3, <1>5, <1>7
    <3>2. QED
      BY <1>6, <3>1 DEF ConnInv, Establishing, InUse
  <2>2. \A i \in 1..Len(q) : q[i].op = "connectEstablished" => i = 1 /\ state' = "kConnecting"
    BY <1>3, <1>4 DEF ConnInv, Establishing
  <2>3. \A t \in Foreign : \A g \in call'[t] : g.op # "connectEstablished"
    BY DEF ConnInv, Establishing
  <2>4. QED
    BY <1>1, <2>1, <2>2, <2>3 DEF Establishing
<1>9. Ending'
  <2>1. \A i \in 1..Len(q) : q[i].op = "shutdownInLoop" =>
          state' \notin {"kConnecting", "kConnected"}
    BY <1>3, <1>4 DEF ConnInv, Ending
  <2>2. \A t \in Foreign : \A g \in call'[t] : g.op = "shutdownInLoop" =>
          state' \notin {"kConnecting", "kConnected"}
    BY DEF ConnInv, Ending
  <2>3. QED
    BY <1>1, <2>1, <2>2 DEF ConnInv, Ending, InUse
<1>10. QED
  BY <1>1, <1>2, <1>3, <1>8, <1>9

LEMMA KnownFunctors ==
    /\ \A f \in Functors :
         /\ f.op = "sendInLoop" => \A m \in f.arg : m \in Messages
         /\ f.op = "sendFileInLoop" => \A x \in f.arg : x \in Files
    /\ \A m \in Messages : Functor("sendInLoop", {m}) \in Functors
    /\ \A x \in Files : Functor("sendFileInLoop", {x}) \in Functors
    /\ Functor("shutdown", {}) \in Functors
    /\ Functor("shutdownInLoop", {}) \in Functors
    /\ Functor("connectDestroyed", {}) \in Functors
    /\ Functor("connectEstablished", {}) \in Functors
<1>1. ASSUME NEW f \in Functors
      PROVE  /\ f.op = "sendInLoop" => \A m \in f.arg : m \in Messages
             /\ f.op = "sendFileInLoop" => \A x \in f.arg : x \in Files
  <2>1. \/ \E m \in Messages : f = [op |-> "sendInLoop", arg |-> {m}]
        \/ \E x \in Files : f = [op |-> "sendFileInLoop", arg |-> {x}]
        \/ \E op \in {"shutdown", "shutdownInLoop", "connectEstablished",
                       "connectDestroyed"} : f = [op |-> op, arg |-> {}]
    BY DEF Functors, Functor
  <2>2. QED
    BY <2>1
<1>2. \A m \in Messages : Functor("sendInLoop", {m}) \in Functors
  BY DEF Functors
<1>3. \A x \in Files : Functor("sendFileInLoop", {x}) \in Functors
  BY DEF Functors
<1>4. \A op \in {"shutdown", "shutdownInLoop", "connectEstablished", "connectDestroyed"} :
        Functor(op, {}) \in Functors
  BY DEF Functors
<1>5. QED
  BY <1>1, <1>2, <1>3, <1>4

-----------------------------------------------------------------------------
(* The steps, one lemma for those that are alike.                           *)

\* The peer.
LEMMA PeerStep ==
    ASSUME ConnInv, PeerAcks \/ PeerSends \/ PeerCloses \/ PeerResets
    PROVE  ConnInv'
<1>1. /\ UNCHANGED <<connVars, loopVars, otherVars, wrShut, histVars>>
      /\ state # "kConnecting"
  BY DEF PeerAcks, PeerSends, PeerCloses, PeerResets, SocketOpen
<1>2. inflight' \in 0..SndBuf
  BY SizesAssumption DEF PeerAcks, PeerSends, PeerCloses, PeerResets, ConnInv, OpTypes
<1>3. OpTypes' /\ Accounted' /\ Pending' /\ Clean'
  BY <1>1, <1>2, OpsKept DEF connVars, loopVars, histVars, InUse
<1>4. Establishing' /\ Ending'
  <2>1. state' = "kConnected" => InUse' /\ wrShut' = FALSE
    BY <1>1 DEF ConnInv, Ending, InUse, connVars, histVars
  <2>2. UNCHANGED <<queue, call>> /\ state' = state
    BY <1>1 DEF connVars, loopVars, otherVars
  <2>3. QED
    BY <1>1, <2>1, <2>2, NothingQueued
<1>5. LoopTypes'
  BY <1>1 DEF ConnInv, LoopTypes, loopVars, otherVars, serverVars, histVars
<1>6. QED
  BY <1>3, <1>4, <1>5 DEF ConnInv

\* The loop polls, or takes its functors.
LEMMA LoopStep ==
    ASSUME ConnInv, PollEvent \/ DoPendingFunctors
    PROVE  ConnInv'
<1>1. UNCHANGED <<connVars, queue, depth, otherVars, sockVars, histVars>>
  BY DEF PollEvent, DoPendingFunctors
<1>2. OpTypes' /\ Accounted' /\ Pending' /\ Clean'
  <2>1. inflight' \in 0..SndBuf
    BY <1>1 DEF ConnInv, OpTypes, sockVars
  <2>2. QED
    BY <1>1, <2>1, OpsKept DEF sockVars, histVars, InUse
<1>3. LoopTypes'
  <2>1. batch' \in 0..Len(queue') /\ revents' \in SUBSET {"r", "w", "h"}
    <3>1. CASE PollEvent
      BY <1>1, <3>1 DEF PollEvent, ConnInv, LoopTypes, OpTypes
    <3>2. CASE DoPendingFunctors
      <4>1. Len(queue) \in Nat
        BY DEF ConnInv, LoopTypes
      <4>2. QED
        BY <1>1, <3>2, <4>1 DEF DoPendingFunctors, ConnInv, LoopTypes
    <3>3. QED
      BY <3>1, <3>2
  <2>2. QED
    BY <1>1, <2>1 DEF ConnInv, LoopTypes, otherVars, serverVars, histVars
<1>4. state = "kConnecting" => revents' = {}
  BY DEF PollEvent, DoPendingFunctors, ConnInv, Establishing
<1>5. Establishing' /\ Ending'
  BY <1>1, <1>4 DEF ConnInv, Establishing, Ending, InUse, connVars, otherVars, sockVars, histVars
<1>6. QED
  BY <1>2, <1>3, <1>5 DEF ConnInv

\* handleClose.
LEMMA CloseStep ==
    ASSUME ConnInv, NEW rest, revents' = rest, rest \subseteq revents, rest # revents,
           HandleClose,
           UNCHANGED <<outputBuffer, file, queue, batch, depth, call, holders,
                   shared, inflight, wrShut, stream, wire, writeFailed, life>>
    PROVE  ConnInv'
<1>1. state' = "kDisConnected" /\ events' = {} /\ closed' = TRUE
  BY DEF HandleClose
<1>2. state # "kConnecting"
  BY DEF ConnInv, Establishing
<1>3. OpTypes' /\ Accounted'
  BY <1>1 DEF ConnInv, OpTypes, States, Accounted
<1>4. Pending' /\ Clean'
  BY <1>1 DEF Pending, Clean, InUse
<1>5. Establishing' /\ Ending'
  BY <1>1, <1>2, NothingQueued
<1>6. LoopTypes'
  BY <1>1 DEF HandleClose, ConnInv, LoopTypes
<1>7. QED
  BY <1>3, <1>4, <1>5, <1>6 DEF ConnInv

LEMMA DispatchStep ==
    ASSUME ConnInv, DispatchHup \/ DispatchRead
    PROVE  ConnInv'
<1>1. CASE DispatchHup
  BY <1>1, CloseStep DEF DispatchHup, sockVars
<1>2. CASE DispatchRead /\ readable = "none"
  BY <1>2, CloseStep DEF DispatchRead
<1>3. CASE DispatchRead /\ readable # "none"
  <2>1. /\ depth' = depth + 1 /\ revents' = revents \ {"r"} /\ "r" \in revents
        /\ UNCHANGED <<state, events, closed, serverVars>>
        /\ UNCHANGED <<outputBuffer, file, queue, batch, call, holders, shared,
                       inflight, wrShut, stream, wire, writeFailed, life>>
    BY <1>3 DEF DispatchRead
  <2>2. state # "kConnecting"
    BY <2>1 DEF ConnInv, Establishing
  <2>3. OpTypes' /\ Accounted' /\ Pending' /\ Clean'
    BY <2>1 DEF ConnInv, OpTypes, Accounted, Pending, Watching, Clean, InUse
  <2>4. LoopTypes'
    BY <2>1 DEF ConnInv, LoopTypes, serverVars
  <2>5. state' = "kConnected" => InUse' /\ wrShut' = FALSE
    BY <2>1 DEF ConnInv, Ending, InUse
  <2>6. Establishing' /\ Ending'
    BY <2>1, <2>2, <2>5, NothingQueued
  <2>7. QED
    BY <2>3, <2>4, <2>6 DEF ConnInv
<1>4. QED
  BY <1>1, <1>2, <1>3

LEMMA DispatchWriteStep ==
    ASSUME ConnInv, DispatchWrite
    PROVE  ConnInv'
<1>1. /\ revents = {"w"} /\ revents' = {} /\ HandleWrite
      /\ UNCHANGED <<queue, batch, otherVars, closed, life>>
  BY DEF DispatchWrite
<1>2. /\ OpTypes' /\ Accounted' /\ (Watching => Watching')
      /\ UNCHANGED <<state, file, wrShut, stream>>
      /\ outputBuffer = <<>> => outputBuffer' = <<>>
  BY <1>1, InvReady, HandleWriteStep
<1>3. state # "kConnecting"
  BY <1>1 DEF ConnInv, Establishing
<1>4. Pending' /\ Clean'
  BY <1>1, <1>2 DEF ConnInv, Pending, Clean, InUse
<1>5. Establishing' /\ Ending'
  <2>1. state' = "kConnected" => InUse' /\ wrShut' = FALSE
    BY <1>1, <1>2 DEF ConnInv, Ending, InUse
  <2>2. UNCHANGED <<queue, call>> /\ state' = state
    BY <1>1, <1>2 DEF otherVars
  <2>3. QED
    BY <1>3, <2>1, <2>2, NothingQueued
<1>6. LoopTypes'
  BY <1>1 DEF ConnInv, LoopTypes, otherVars, serverVars
<1>7. QED
  BY <1>2, <1>4, <1>5, <1>6 DEF ConnInv

\* The destructor.
LEMMA DestroyStep ==
    ASSUME ConnInv, Destroy
    PROVE  ConnInv'
<1>1. /\ life = "removed" /\ life' = "freed"
      /\ UNCHANGED <<connVars, loopVars, otherVars, sockVars, stream, wire,
                     writeFailed, closed>>
  BY DEF Destroy
<1>2. OpTypes' /\ Accounted'
  BY <1>1 DEF ConnInv, OpTypes, Accounted, connVars, loopVars, sockVars
<1>3. Pending' /\ Clean'
  BY <1>1 DEF Pending, Clean, InUse
<1>4. state \notin {"kConnecting", "kConnected"}
  BY <1>1 DEF ConnInv, Establishing, Ending, InUse
<1>5. Establishing' /\ Ending'
  <2>1. UNCHANGED <<queue, call>> /\ state' = state
    BY <1>1 DEF connVars, loopVars, otherVars
  <2>2. QED
    BY <1>4, <2>1, NothingQueued
<1>6. LoopTypes'
  BY <1>1 DEF ConnInv, LoopTypes, loopVars, otherVars, serverVars
<1>7. QED
  BY <1>2, <1>3, <1>5, <1>6 DEF ConnInv

\* The functors that are left when the loop calls the first of its batch.
LEMMA FirstTaken ==
    ASSUME ConnInv, batch > 0, queue' = Tail(queue), batch' = batch - 1
    PROVE  /\ queue # <<>> /\ Head(queue) = queue[1] /\ queue[1] \in Functors
           /\ 1 \in 1..Len(queue)
           /\ queue' \in Seq(Functors) /\ batch' \in 0..Len(queue')
           /\ \A i \in 1..Len(queue') : queue'[i].op # "connectEstablished"
           /\ \A i \in 1..Len(queue') : queue'[i].op = "shutdownInLoop" =>
                state \notin {"kConnecting", "kConnected"}
<1>1. PICK q : q = queue'
  OBVIOUS
<1>2. queue \in Seq(Functors) /\ batch \in 0..Len(queue) /\ Len(queue) \in Nat
  BY DEF ConnInv, LoopTypes
<1>3. queue # <<>>
  BY <1>2, EmptySeq
<1>4. /\ q \in Seq(Functors) /\ Len(q) = Len(queue) - 1 /\ Len(queue) \in Nat \ {0}
      /\ Head(queue) = queue[1] /\ queue[1] \in Functors
      /\ \A i \in 1..Len(q) : q[i] = queue[i + 1]
  BY <1>1, <1>2, <1>3, TailOf
<1>5. \A i \in 1..Len(q) : i + 1 \in 1..Len(queue) /\ i + 1 # 1
  BY <1>4
<1>6. \A i \in 1..Len(q) : q[i].op # "connectEstablished"
  BY <1>4, <1>5 DEF ConnInv, Establishing
<1>7. \A i \in 1..Len(q) : q[i].op = "shutdownInLoop" =>
        state \notin {"kConnecting", "kConnected"}
  BY <1>4, <1>5 DEF ConnInv, Ending
<1>8. QED
  BY <1>1, <1>2, <1>3, <1>4, <1>6, <1>7

\* What the first functor does.
LEMMA FunctorCalled ==
    ASSUME ConnInv, RunFunctor
    PROVE  /\ OpTypes' /\ Accounted' /\ Pending' /\ Clean'
           /\ state' = "kConnected" => InUse' /\ wrShut' = FALSE
           /\ state' # "kConnecting"
           /\ state' \in {state, "kDisConnecting", "kDisConnected"} \/ state = "kConnecting"
<1>1. PICK f : f = Head(queue)
  OBVIOUS
<1>2. /\ batch > 0 /\ queue' = Tail(queue) /\ batch' = batch - 1 /\ closed' = closed
      /\ life' = IF f.op = "connectDestroyed" THEN "removed" ELSE life
      /\ IF life = "freed" THEN
             /\ fault' = "uaf"
             /\ UNCHANGED <<connVars, depth, inflight, wrShut, stream, wire,
                            writeFailed>>
         ELSE
             \/ f.op = "connectEstablished" /\ ConnectEstablished
             \/ f.op = "connectDestroyed" /\ ConnectDestroyed
             \/ f.op = "sendInLoop" /\ \E m \in f.arg : SendInLoop(m)
             \/ f.op = "sendFileInLoop"
                /\ \E x \in f.arg, opened \in BOOLEAN : SendFileInLoop(x, opened)
             \/ f.op = "shutdownInLoop" /\ ShutdownInLoop
  BY <1>1 DEF RunFunctor
<1>3. f = queue[1] /\ f \in Functors /\ 1 \in 1..Len(queue)
  BY <1>1, <1>2, FirstTaken
<1>4. /\ f.op = "connectEstablished" => state = "kConnecting"
      /\ state = "kConnecting" =>
           /\ f.op = "connectEstablished" /\ life = "alive" /\ InUse /\ wrShut = FALSE
      /\ f.op = "shutdownInLoop" => state \notin {"kConnecting", "kConnected"}
      /\ state = "kConnected" => InUse /\ wrShut = FALSE
  BY <1>3 DEF ConnInv, Establishing, Ending, InUse
<1>5. Ready
  BY InvReady
<1>6. ASSUME f.op # "connectDestroyed" PROVE InUse' <=> InUse
  BY <1>2, <1>6 DEF InUse
<1>7. CASE life = "freed"
  <2>1. /\ UNCHANGED <<connVars, depth, inflight, wrShut, stream, wire, writeFailed>>
        /\ InUse' = FALSE
    BY <1>2, <1>7 DEF InUse
  <2>2. OpTypes' /\ Accounted' /\ Pending' /\ Clean'
    BY <2>1 DEF ConnInv, OpTypes, Accounted, Pending, Clean, connVars
  <2>3. QED
    BY <1>4, <1>7, <2>1, <2>2 DEF InUse, connVars
<1>8. CASE f.op = "connectEstablished" /\ ConnectEstablished
  <2>1. OpTypes' /\ Accounted' /\ UNCHANGED <<outputBuffer, file>>
    BY <1>5, <1>8, OtherSteps
  <2>2. "w" \in events' <=> "w" \in events
    BY <1>8 DEF ConnectEstablished
  <2>3. state' = "kConnected" /\ wrShut' = wrShut
    BY <1>8 DEF ConnectEstablished
  <2>4. Pending' /\ Clean'
    BY <1>6, <1>8, <2>1, <2>2, <2>3 DEF ConnInv, Pending, Watching, Clean
  <2>5. QED
    BY <1>4, <1>6, <1>8, <2>1, <2>3, <2>4
<1>9. CASE f.op = "connectDestroyed" /\ ConnectDestroyed
  <2>1. OpTypes' /\ Accounted'
    BY <1>5, <1>9, OtherSteps
  <2>2. InUse' = FALSE
    BY <1>2, <1>9 DEF InUse
  <2>3. Pending' /\ Clean'
    BY <2>2 DEF Pending, Clean
  <2>4. state' \in {state, "kDisConnected"} /\ state' # "kConnected"
    BY <1>9 DEF ConnectDestroyed
  <2>5. QED
    BY <1>4, <1>9, <2>1, <2>3, <2>4
<1>10. CASE f.op = "sendInLoop" /\ \E m \in f.arg : SendInLoop(m)
  <2>1. PICK m \in f.arg : SendInLoop(m)
    BY <1>10
  <2>2. m \in Messages
    BY <1>3, <1>10, <2>1, KnownFunctors
  <2>3. /\ OpTypes' /\ Accounted' /\ (Watching => Watching')
        /\ UNCHANGED <<state, file, wrShut, fault>>
        /\ state # "kConnected" => UNCHANGED opVars
    BY <1>5, <2>1, <2>2, SendInLoopStep
  <2>4. Pending' /\ Clean'
    BY <1>4, <1>6, <1>10, <2>3 DEF ConnInv, Pending, Clean, opVars, connVars
  <2>5. QED
    BY <1>4, <1>6, <1>10, <2>3, <2>4
<1>11. CASE f.op = "sendFileInLoop"
              /\ \E x \in f.arg, opened \in BOOLEAN : SendFileInLoop(x, opened)
  <2>1. PICK x \in f.arg, opened \in BOOLEAN : SendFileInLoop(x, opened)
    BY <1>11
  <2>2. x \in Files
    BY <1>3, <1>11, <2>1, KnownFunctors
  <2>3. /\ OpTypes' /\ Accounted' /\ (Watching => Watching')
        /\ UNCHANGED <<state, outputBuffer, wrShut>>
    BY <1>5, <2>1, <2>2, SendFileInLoopStep
  <2>4. Pending' /\ Clean'
    BY <1>6, <1>11, <2>3 DEF ConnInv, Pending, Clean
  <2>5. QED
    BY <1>4, <1>6, <1>11, <2>3, <2>4
<1>12. CASE f.op = "shutdownInLoop" /\ ShutdownInLoop
  <2>1. OpTypes' /\ Accounted' /\ UNCHANGED connVars
    BY <1>5, <1>12, OtherSteps DEF ShutdownInLoop
  <2>2. Pending'
    BY <1>6, <1>12, <2>1 DEF ConnInv, Pending, Watching, connVars
  <2>3. Clean'
    <3>1. SUFFICES ASSUME InUse', wrShut' = TRUE PROVE outputBuffer' = <<>>
      BY DEF Clean
    <3>2. InUse /\ (wrShut = TRUE \/ "w" \notin events)
      BY <1>6, <1>12, <3>1 DEF ShutdownInLoop, ConnInv, OpTypes
    <3>3. QED
      BY <2>1, <3>2 DEF ConnInv, Pending, Watching, Clean, connVars
  <2>4. QED
    BY <1>4, <1>12, <2>1, <2>2, <2>3 DEF connVars
<1>13. QED
  BY <1>2, <1>7, <1>8, <1>9, <1>10, <1>11, <1>12

LEMMA RunFunctorStep ==
    ASSUME ConnInv, RunFunctor
    PROVE  ConnInv'
<1>1. /\ batch > 0 /\ queue' = Tail(queue) /\ batch' = batch - 1
      /\ UNCHANGED <<revents, otherVars, closed>>
      /\ life' \in {life, "removed"}
  BY DEF RunFunctor
<1>2. /\ OpTypes' /\ Accounted' /\ Pending' /\ Clean'
      /\ state' = "kConnected" => InUse' /\ wrShut' = FALSE
      /\ state' # "kConnecting"
      /\ state' \in {state, "kDisConnecting", "kDisConnected"} \/ state = "kConnecting"
  BY FunctorCalled
<1>3. /\ queue' \in Seq(Functors) /\ batch' \in 0..Len(queue')
      /\ \A i \in 1..Len(queue') : queue'[i].op # "connectEstablished"
      /\ \A i \in 1..Len(queue') : queue'[i].op = "shutdownInLoop" =>
           state \notin {"kConnecting", "kConnected"}
  BY <1>1, FirstTaken
<1>4. LoopTypes'
  BY <1>1, <1>3 DEF ConnInv, LoopTypes, otherVars, serverVars
<1>5. Establishing'
  BY <1>1, <1>2, <1>3 DEF ConnInv, Establishing, otherVars
<1>6. Ending'
  <2>1. \A i \in 1..Len(queue') : queue'[i].op = "shutdownInLoop" =>
          state' \notin {"kConnecting", "kConnected"}
    BY <1>2, <1>3
  <2>2. \A t \in Foreign : \A f \in call'[t] : f.op = "shutdownInLoop" =>
          state' \notin {"kConnecting", "kConnected"}
    BY <1>1, <1>2 DEF ConnInv, Establishing, Ending, otherVars
  <2>3. QED
    BY <1>2, <2>1, <2>2 DEF Ending
<1>7. QED
  BY <1>2, <1>4, <1>5, <1>6 DEF ConnInv

\* User code in a callback.
LEMMA UserStep ==
    ASSUME ConnInv,
           \/ \E m \in Messages : UserSends(m)
           \/ \E f \in Files : UserSendsFile(f)
           \/ \E t \in Foreign : UserShares(t)
           \/ UserShutsDown \/ UserReturns
    PROVE  ConnInv'
<1>1. /\ UNCHANGED <<queue, batch, revents, call, serverVars, closed, life>>
      /\ depth > 0 /\ holders' \in SUBSET Foreign /\ shared' \in BOOLEAN
  <2>1. UserCall /\ depth > 0
    BY DEF UserSends, UserSendsFile, UserShares, UserShutsDown, UserReturns
  <2>2. holders' \in SUBSET Foreign /\ shared' \in BOOLEAN
    BY DEF UserSends, UserSendsFile, UserShares, UserShutsDown, UserReturns, ConnInv, LoopTypes
  <2>3. QED
    BY <2>1, <2>2 DEF UserCall
<1>2. state # "kConnecting"
  BY <1>1 DEF ConnInv, Establishing
<1>3. Ready /\ (InUse' <=> InUse)
  BY <1>1, InvReady DEF InUse
<1>4. LoopTypes'
  BY <1>1 DEF ConnInv, LoopTypes, serverVars
<1>5. /\ OpTypes' /\ Accounted' /\ Pending' /\ Clean'
      /\ state' \in {state, "kDisConnecting"}
      /\ state' = "kConnected" => wrShut' = wrShut
  <2>1. CASE \E m \in Messages : UserSends(m)
    <3>1. PICK m \in Messages : SendInLoop(m)
      BY <2>1 DEF UserSends
    <3>2. /\ OpTypes' /\ Accounted' /\ (Watching => Watching')
          /\ UNCHANGED <<state, file, wrShut, fault>>
          /\ state # "kConnected" => UNCHANGED opVars
      BY <1>3, <3>1, SendInLoopStep
    <3>3. Pending' /\ Clean'
      BY <1>3, <3>2 DEF ConnInv, Ending, Pending, Clean, opVars, connVars
    <3>4. QED
      BY <3>2, <3>3
  <2>2. CASE \E f \in Files : UserSendsFile(f)
    <3>1. PICK f \in Files, opened \in BOOLEAN : SendFileInLoop(f, opened)
      BY <2>2 DEF UserSendsFile
    <3>2. /\ OpTypes' /\ Accounted' /\ (Watching => Watching')
          /\ UNCHANGED <<state, outputBuffer, wrShut>>
      BY <1>3, <3>1, SendFileInLoopStep
    <3>3. Pending' /\ Clean'
      BY <1>3, <3>2 DEF ConnInv, Pending, Clean
    <3>4. QED
      BY <3>2, <3>3
  <2>3. CASE UserShutsDown
    <3>1. Shutdown
      BY <2>3 DEF UserShutsDown
    <3>2. OpTypes' /\ Accounted' /\ UNCHANGED <<outputBuffer, file>>
      BY <1>3, <3>1, OtherSteps
    <3>3. /\ UNCHANGED events /\ state' \in {state, "kDisConnecting"}
          /\ wrShut' = wrShut \/ ("w" \notin events /\ state' = "kDisConnecting")
      BY <3>1 DEF Shutdown, opVars, connVars, ConnInv, OpTypes
    <3>4. Pending'
      BY <1>3, <3>2, <3>3 DEF ConnInv, Pending, Watching
    <3>5. Clean'
      BY <1>3, <3>2, <3>3 DEF ConnInv, Pending, Watching, Clean
    <3>6. QED
      BY <3>2, <3>3, <3>4, <3>5
  <2>4. CASE UserReturns \/ \E t \in Foreign : UserShares(t)
    <3>1. /\ UNCHANGED <<connVars, inflight, wrShut, stream, wire, writeFailed>>
          /\ depth' \in {depth, depth - 1}
      BY <2>4 DEF UserReturns, UserShares, opVars
    <3>2. depth' \in Nat
      BY <1>1, <3>1 DEF ConnInv, OpTypes
    <3>3. OpTypes' /\ Accounted' /\ Pending' /\ Clean'
      BY <1>3, <3>1, <3>2 DEF ConnInv, OpTypes, Accounted, Pending, Watching, Clean, connVars
    <3>4. QED
      BY <3>1, <3>3 DEF connVars
  <2>5. QED
    BY <2>1, <2>2, <2>3, <2>4
<1>6. state' = "kConnected" => InUse' /\ wrShut' = FALSE
  BY <1>3, <1>5 DEF ConnInv, Ending
<1>7. Establishing' /\ Ending'
  BY <1>1, <1>2, <1>5, <1>6, NothingQueued
<1>8. QED
  BY <1>4, <1>5, <1>7 DEF ConnInv

\* A foreign thread is about to queue a functor, or gives its pointer back.
LEMMA CallStep ==
    ASSUME ConnInv, NEW t \in Foreign,
           ForeignSend(t) \/ ForeignSendFile(t) \/ ForeignShutdown(t) \/ ForeignReleases(t)
    PROVE  ConnInv'
<1>1. /\ UNCHANGED <<connVars, loopVars, shared, serverVars, sockVars, stream, wire,
                     writeFailed, closed, life>>
      /\ t \in holders /\ holders' \subseteq holders
  BY DEF ForeignSend, ForeignSendFile, ForeignShutdown, ForeignReleases, Calls, histVars
<1>2. state # "kConnecting"
  BY <1>1 DEF ConnInv, Establishing
<1>3. OpTypes' /\ Accounted' /\ Pending' /\ Clean'
  <2>1. inflight' \in 0..SndBuf
    BY <1>1 DEF ConnInv, OpTypes, sockVars
  <2>2. QED
    BY <1>1, <2>1, OpsKept DEF loopVars, sockVars, InUse
<1>4. /\ call' \in [Foreign -> SUBSET (Functors)]
      /\ \A s \in Foreign : \A f \in call'[s] :
           f \in call[s] \/ f.op \in {"sendInLoop", "sendFileInLoop", "shutdown"}
  <2>1. call \in [Foreign -> SUBSET (Functors)]
    BY DEF ConnInv, LoopTypes
  <2>2. CASE ForeignReleases(t)
    BY <2>1, <2>2 DEF ForeignReleases
  <2>3. ASSUME NEW f \in Functors, f.op \in {"sendInLoop", "sendFileInLoop", "shutdown"},
               call' = [call EXCEPT ![t] = {f}]
        PROVE  /\ call' \in [Foreign -> SUBSET (Functors)]
               /\ \A s \in Foreign : \A g \in call'[s] : g \in call[s]
                    \/ g.op \in {"sendInLoop", "sendFileInLoop", "shutdown"}
    BY <2>1, <2>3
  <2>4. ASSUME ForeignSend(t) \/ ForeignSendFile(t) \/ ForeignShutdown(t)
        PROVE  \E f \in Functors : /\ f.op \in {"sendInLoop", "sendFileInLoop", "shutdown"}
                                   /\ call' = [call EXCEPT ![t] = {f}]
    <3>1. CASE ForeignSend(t)
      <4>1. PICK m \in Messages : call' = [call EXCEPT ![t] = {Functor("sendInLoop", {m})}]
        <5>1. \A m \in Fresh(Messages) : m \in Messages
          BY DEF Fresh
        <5>2. QED
          BY <3>1, <5>1 DEF ForeignSend, Calls
      <4>2. Functor("sendInLoop", {m}).op = "sendInLoop"
        BY DEF Functor
      <4>3. QED
        BY <4>1, <4>2, KnownFunctors
    <3>2. CASE ForeignSendFile(t)
      <4>1. PICK x \in Files : call' = [call EXCEPT ![t] = {Functor("sendFileInLoop", {x})}]
        <5>1. \A x \in Fresh(Files) : x \in Files
          BY DEF Fresh
        <5>2. QED
          BY <3>2, <5>1 DEF ForeignSendFile, Calls
      <4>2. Functor("sendFileInLoop", {x}).op = "sendFileInLoop"
        BY DEF Functor
      <4>3. QED
        BY <4>1, <4>2, KnownFunctors
    <3>3. CASE ForeignShutdown(t)
      <4>1. call' = [call EXCEPT ![t] = {Functor("shutdown", {})}]
        BY <3>3 DEF ForeignShutdown, Calls
      <4>2. Functor("shutdown", {}).op = "shutdown"
        BY DEF Functor
      <4>3. QED
        BY <4>1, <4>2, KnownFunctors
    <3>4. QED
      BY <2>4, <3>1, <3>2, <3>3
  <2>5. QED
    BY <2>2, <2>3, <2>4
<1>5. LoopTypes'
  BY <1>1, <1>4 DEF ConnInv, LoopTypes, loopVars, serverVars
<1>6. Establishing'
  BY <1>1, <1>2, <1>4 DEF ConnInv, Establishing, connVars, loopVars
<1>7. Ending'
  <2>1. UNCHANGED <<state, queue, wrShut, closed, life>>
    BY <1>1 DEF connVars, loopVars, sockVars
  <2>2. QED
    BY <1>4, <2>1 DEF ConnInv, Ending, InUse
<1>8. QED
  BY <1>3, <1>5, <1>6, <1>7 DEF ConnInv

\* shutdown() of a foreign thread stores kDisConnecting, whatever state_ has become.
LEMMA SetsStateStep ==
    ASSUME ConnInv, NEW t \in Foreign, ForeignSetsState(t)
    PROVE  ConnInv'
<1>1. /\ UNCHANGED <<events, outputBuffer, file, loopVars, holders, shared,
                     serverVars, sockVars, histVars>>
      /\ state' = "kDisConnecting"
      /\ call[t] = {Functor("shutdown", {})}
      /\ call' = [call EXCEPT ![t] = {Functor("shutdownInLoop", {})}]
  BY DEF ForeignSetsState
<1>2. state # "kConnecting"
  BY <1>1 DEF ConnInv, Establishing
<1>3. OpTypes' /\ Accounted' /\ Pending' /\ Clean'
  BY <1>1 DEF ConnInv, OpTypes, States, Accounted, Pending, Watching, Clean, InUse, loopVars,
     sockVars, histVars
<1>4. /\ call' \in [Foreign -> SUBSET (Functors)]
      /\ \A s \in Foreign : \A f \in call'[s] : f \in call[s] \/ f.op = "shutdownInLoop"
  <2>1. call \in [Foreign -> SUBSET (Functors)]
    BY DEF ConnInv, LoopTypes
  <2>2. Functor("shutdownInLoop", {}).op = "shutdownInLoop"
    BY DEF Functor
  <2>3. PICK f \in Functors : f = Functor("shutdownInLoop", {})
    BY KnownFunctors
  <2>4. QED
    BY <1>1, <2>1, <2>2, <2>3
<1>5. LoopTypes'
  BY <1>1, <1>4 DEF ConnInv, LoopTypes, loopVars, serverVars, histVars
<1>6. Establishing'
  BY <1>1, <1>2, <1>4 DEF ConnInv, Establishing, loopVars
<1>7. Ending'
  BY <1>1 DEF Ending
<1>8. QED
  BY <1>3, <1>5, <1>6, <1>7 DEF ConnInv

LEMMA ForeignQueuesStep ==
    ASSUME ConnInv, NEW t \in Foreign, ForeignQueues(t)
    PROVE  ConnInv'
<1>1. /\ UNCHANGED <<connVars, batch, revents, depth, holders, shared, serverVars,
                     sockVars, histVars>>
      /\ call' = [call EXCEPT ![t] = {}]
  BY DEF ForeignQueues
<1>2. PICK f \in call[t] : queue' = Append(queue, f)
  BY DEF ForeignQueues
<1>3. call \in [Foreign -> SUBSET (Functors)] /\ f \in Functors
  BY <1>2 DEF ConnInv, LoopTypes
<1>4. /\ f.op # "connectEstablished"
      /\ f.op = "shutdownInLoop" => state \notin {"kConnecting", "kConnected"}
  BY <1>2 DEF ConnInv, Establishing, Ending
<1>5. /\ call' \in [Foreign -> SUBSET (Functors)]
      /\ \A s \in Foreign : call'[s] \subseteq call[s]
  BY <1>1, <1>3
<1>6. UNCHANGED <<state, batch, depth, events, revents, holders, wrShut, closed, life>>
  BY <1>1 DEF connVars, sockVars, histVars
<1>7. Establishing' /\ Ending' /\ queue' \in Seq(Functors) /\ batch' \in 0..Len(queue')
  BY <1>2, <1>3, <1>4, <1>5, <1>6, Queued
<1>8. LoopTypes'
  BY <1>1, <1>5, <1>7 DEF ConnInv, LoopTypes, serverVars, histVars
<1>9. OpTypes' /\ Accounted' /\ Pending' /\ Clean'
  <2>1. inflight' \in 0..SndBuf
    BY <1>1 DEF ConnInv, OpTypes, sockVars
  <2>2. QED
    BY <1>1, <2>1, OpsKept DEF sockVars, histVars, InUse
<1>10. QED
  BY <1>7, <1>8, <1>9 DEF ConnInv

\* The base loop.
LEMMA ServerStep ==
    ASSUME ConnInv, RemoveConnectionInLoop \/ ServerDestroyed
    PROVE  ConnInv'
<1>1. /\ UNCHANGED <<connVars, batch, revents, depth, call, holders, shared, sockVars,
                     histVars>>
      /\ queue' = queue \/ queue' = Append(queue, Functor("connectDestroyed", {}))
  BY DEF RemoveConnectionInLoop, ServerDestroyed
<1>2. serverUp' \in BOOLEAN /\ inMap' \in BOOLEAN /\ removals' \in Nat
  <2>1. CASE RemoveConnectionInLoop
    <3>1. removals \in Nat /\ removals > 0 /\ removals' = removals - 1
      BY <2>1 DEF RemoveConnectionInLoop, ConnInv, LoopTypes
    <3>2. serverUp' \in BOOLEAN /\ inMap' \in BOOLEAN
      BY <2>1, Zenon DEF RemoveConnectionInLoop, ConnInv, LoopTypes
    <3>3. QED
      BY <3>1, <3>2
  <2>2. CASE ServerDestroyed
    BY <2>2, Zenon DEF ServerDestroyed, ConnInv, LoopTypes
  <2>3. QED
    BY <2>1, <2>2
<1>3. Establishing' /\ Ending' /\ queue' \in Seq(Functors) /\ batch' \in 0..Len(queue')
  <2>1. UNCHANGED <<state, batch, depth, events, revents, holders, wrShut, closed, life, call>>
    BY <1>1 DEF connVars, sockVars, histVars
  <2>2. CASE queue' = queue
    BY <2>1, <2>2 DEF ConnInv, LoopTypes, Establishing, Ending, InUse
  <2>3. CASE queue' = Append(queue, Functor("connectDestroyed", {}))
    <3>1. PICK f : f = Functor("connectDestroyed", {})
      OBVIOUS
    <3>2. f \in Functors /\ f.op = "connectDestroyed"
      BY <3>1, KnownFunctors DEF Functor
    <3>3. QED
      BY <2>1, <2>3, <3>1, <3>2, Queued
  <2>4. QED
    BY <1>1, <2>2, <2>3
<1>4. LoopTypes'
  BY <1>1, <1>2, <1>3 DEF ConnInv, LoopTypes, histVars
<1>5. OpTypes' /\ Accounted' /\ Pending' /\ Clean'
  <2>1. inflight' \in 0..SndBuf
    BY <1>1 DEF ConnInv, OpTypes, sockVars
  <2>2. QED
    BY <1>1, <2>1, OpsKept DEF sockVars, histVars, InUse
<1>6. QED
  BY <1>3, <1>4, <1>5 DEF ConnInv

LEMMA InitInv == Init => ConnInv
<1> SUFFICES ASSUME Init PROVE ConnInv
  OBVIOUS
<1>2. PICK f : f = Functor("connectEstablished", {})
  OBVIOUS
<1>3. f \in Functors /\ f.op = "connectEstablished" /\ queue = <<f>>
  BY <1>2, KnownFunctors DEF Init, Functor
<1>4. queue \in Seq(Functors) /\ Len(queue) = 1 /\ queue[1] = f /\ queue # <<>>
  BY <1>3
<1>5. OpTypes
  <2>1. <<>> \in Seq(ByteSet)
    OBVIOUS
  <2>2. 0 \in 0..SndBuf
    BY SizesAssumption
  <2>3. state \in States /\ events \in SUBSET {"r", "w"} /\ file \in SUBSET Files
    BY DEF Init, States
  <2>4. wrShut \in BOOLEAN /\ writeFailed \in BOOLEAN
    BY DEF Init
  <2>5. outputBuffer = <<>> /\ stream = <<>> /\ wire = <<>> /\ depth = 0 /\ inflight = 0
    BY DEF Init
  <2>6. QED
    BY <2>1, <2>2, <2>3, <2>4, <2>5 DEF OpTypes
<1>6. LoopTypes
  <2>1. call \in [Foreign -> SUBSET (Functors)]
    BY DEF Init
  <2>2. shared \in BOOLEAN /\ serverUp \in BOOLEAN /\ inMap \in BOOLEAN /\ closed \in BOOLEAN
    BY Zenon DEF Init
  <2>3. batch = 0 /\ revents = {} /\ holders = {} /\ removals = 0 /\ life = "alive"
    BY DEF Init
  <2>4. QED
    BY <1>4, <2>1, <2>2, <2>3 DEF LoopTypes
<1>7. Establishing
  <2>1. InUse
    BY DEF Init, InUse
  <2>2. \A t \in Foreign : call[t] = {}
    BY DEF Init
  <2>3. \A i \in 1..Len(queue) : i = 1
    BY <1>4
  <2>4. QED
    BY <1>3, <1>4, <2>1, <2>2, <2>3 DEF Init, Establishing
<1>8. Ending
  <2>1. \A t \in Foreign : call[t] = {}
    BY DEF Init
  <2>2. \A i \in 1..Len(queue) : queue[i].op # "shutdownInLoop"
    BY <1>3, <1>4
  <2>3. state = "kConnecting"
    BY DEF Init
  <2>4. QED
    BY <2>1, <2>2, <2>3 DEF Ending
<1>9. Pending /\ Clean
  BY DEF Init, Pending, Watching, Clean
<1>10. Accounted
  <2>1. wire = <<>> /\ stream = <<>> /\ outputBuffer = <<>>
    BY DEF Init
  <2>2. wire \in Seq(ByteSet) /\ outputBuffer \in Seq(ByteSet)
    BY <1>5 DEF OpTypes
  <2>3. wire \o outputBuffer = stream
    BY <2>1, <2>2, ConcatEmptySeq
  <2>4. IsPrefix(wire, wire \o outputBuffer)
    BY <2>2, PrefixOfConcat
  <2>5. QED
    BY <2>3, <2>4 DEF Accounted
<1>11. QED
  BY <1>5, <1>6, <1>7, <1>8, <1>9, <1>10 DEF ConnInv

LEMMA NextInv == ConnInv /\ [Next]_vars => ConnInv'
<1>1. SUFFICES ASSUME ConnInv, [Next]_vars PROVE ConnInv'
  OBVIOUS
<1>2. CASE PollEvent \/ DoPendingFunctors
  BY <1>1, <1>2, LoopStep
<1>3. CASE DispatchHup \/ DispatchRead
  BY <1>1, <1>3, DispatchStep
<1>4. CASE DispatchWrite
  BY <1>1, <1>4, DispatchWriteStep
<1>5. CASE RunFunctor
  BY <1>1, <1>5, RunFunctorStep
<1>6. CASE Destroy
  BY <1>1, <1>6, DestroyStep
<1>7. CASE \/ \E m \in Messages : UserSends(m)
           \/ \E f \in Files : UserSendsFile(f)
           \/ \E t \in Foreign : UserShares(t)
           \/ UserShutsDown \/ UserReturns
  BY <1>1, <1>7, UserStep
<1>8. CASE \E t \in Foreign : ForeignThread(t)
  BY <1>1, <1>8, CallStep, SetsStateStep, ForeignQueuesStep DEF ForeignThread
<1>9. CASE RemoveConnectionInLoop \/ ServerDestroyed
  BY <1>1, <1>9, ServerStep
<1>10. CASE PeerAcks \/ PeerSends \/ PeerCloses \/ PeerResets
  BY <1>1, <1>10, PeerStep
<1>11. CASE UNCHANGED vars
  <2>1. /\ UNCHANGED <<connVars, loopVars, otherVars, sockVars, histVars>>
    BY <1>11 DEF vars
  <2>2. OpTypes' /\ Accounted' /\ Pending' /\ Clean'
    <3>1. inflight' \in 0..SndBuf
      BY <1>1, <2>1 DEF ConnInv, OpTypes, sockVars
    <3>2. QED
      BY <1>1, <2>1, <3>1, OpsKept DEF loopVars, sockVars, histVars, InUse
  <2>3. LoopTypes' /\ Establishing' /\ Ending'
    BY <1>1, <2>1 DEF ConnInv, LoopTypes, Establishing, Ending, InUse, connVars, loopVars,
       otherVars, serverVars, sockVars, histVars
  <2>4. QED
    BY <2>2, <2>3 DEF ConnInv
<1>12. QED
  BY <1>1, <1>2, <1>3, <1>4, <1>5, <1>6, <1>7, <1>8, <1>9, <1>10, <1>11 DEF Next, IOThread

LEMMA ConnectionInvariant == Spec => []ConnInv
  BY InitInv, NextInv, PTL DEF Spec

(* The peer receives a prefix of what was accepted, for any mix of direct   *)
(* and buffered writes and of threads, until a write meets a full socket    *)
(* buffer (sendInLoop and handleWrite, TcpConnection.cc:96-136, 194-226).   *)
THEOREM PeerReceivesAPrefix == Spec => []WirePrefix
<1>1. ConnInv => WirePrefix
  BY DEF ConnInv, OpTypes, Accounted, WirePrefix
<1>2. QED
  BY <1>1, ConnectionInvariant, PTL

(* POLLOUT is watched exactly while something is left to write              *)
(* (enableWriting and disableWriting, TcpConnection.cc:96-136, 221-224).    *)
THEOREM OutputIsWatched == Spec => []WritingIffPending
<1>1. ConnInv => WritingIffPending
  BY DEF ConnInv, Pending, Watching, WritingIffPending
<1>2. QED
  BY <1>1, ConnectionInvariant, PTL

(* shutdown(), from whatever thread, closes the write side of a live        *)
(* connection only when no byte waits, and no byte is buffered after it     *)
(* (shutdownInLoop, TcpConnection.cc:409-428).                              *)
THEOREM ShutdownCutsNothingOff == Spec => []HalfCloseIsClean
<1>1. ConnInv => HalfCloseIsClean
  BY DEF ConnInv, OpTypes, Clean, HalfCloseIsClean
<1>2. QED
  BY <1>1, ConnectionInvariant, PTL

-----------------------------------------------------------------------------
(* A connection that never leaves its IO thread, while the server lives.    *)
(* Until a fault ends the program it goes through these phases: its loop    *)
(* has only connectEstablished to run; it serves; it is closed, and then    *)
(* waits for the base loop, for connectDestroyed, and for its destructor.   *)
Starting ==
    /\ state = "kConnecting" /\ queue = <<Functor("connectEstablished", {})>>
    /\ inMap = TRUE /\ removals = 0 /\ revents = {} /\ closed = FALSE /\ life = "alive"

Serving ==
    /\ state \in {"kConnected", "kDisConnecting"} /\ queue = <<>>
    /\ inMap = TRUE /\ removals = 0 /\ closed = FALSE /\ life = "alive"
    /\ "w" \in revents => "w" \in events
    /\ "h" \in revents => "r" \notin revents

\* POLLOUT may still be waiting in handleEvent.
Closed ==
    /\ state = "kDisConnected" /\ events = {} /\ closed = TRUE /\ revents \subseteq {"w"}
    /\ \/ queue = <<>> /\ inMap = TRUE /\ removals = 1 /\ life = "alive"
       \/ /\ queue = <<Functor("connectDestroyed", {})>>
          /\ inMap = FALSE /\ removals = 0 /\ life = "alive"
       \/ queue = <<>> /\ inMap = FALSE /\ removals = 0 /\ life # "alive"

Confined ==
    /\ holders = {} /\ \A t \in Foreign : call[t] = {}
    /\ Starting \/ Serving \/ Closed

ConfinedInv ==
    shared = FALSE /\ serverUp = TRUE =>
        /\ fault = "none" => Confined
        /\ fault \in {"none", "handleWrite", "sendFile"}
        /\ fault = "handleWrite" => closed = TRUE

\* The IO loop and the peer, while the connection serves or ends.
LEMMA ConfinedEvents ==
    ASSUME ConnInv, Confined, fault = "none",
           \/ PollEvent \/ DispatchHup \/ DispatchRead \/ DoPendingFunctors
           \/ PeerAcks \/ PeerSends \/ PeerCloses \/ PeerResets
    PROVE  Confined' /\ fault' = "none"
<1>1. CASE \/ DoPendingFunctors \/ PeerAcks \/ PeerSends \/ PeerCloses \/ PeerResets
  <2>1. UNCHANGED <<connVars, queue, revents, otherVars, histVars>>
    BY <1>1 DEF DoPendingFunctors, PeerAcks, PeerSends, PeerCloses, PeerResets, loopVars
  <2>2. UNCHANGED <<state, events, queue, revents, call, holders, inMap, removals,
                    closed, life, fault>>
    BY <2>1 DEF connVars, otherVars, serverVars, histVars
  <2>3. QED
    BY <2>2 DEF Confined, Starting, Serving, Closed
<1>2. CASE PollEvent
  <2>1. UNCHANGED <<state, events, queue, call, holders, inMap, removals, closed, life, fault>>
    BY <1>2 DEF PollEvent, connVars, otherVars, serverVars, histVars
  <2>2. /\ "w" \in revents' => "w" \in events
        /\ "h" \in revents' => "r" \notin revents'
        /\ events # {}
    BY <1>2 DEF PollEvent
  <2>3. ~Starting /\ ~Closed
    BY <2>2 DEF Starting, Closed, ConnInv, Establishing
  <2>4. Serving'
    BY <2>1, <2>2, <2>3 DEF Confined, Serving
  <2>5. QED
    BY <2>1, <2>4 DEF Confined
<1>3. ASSUME Serving, HandleClose, revents' \subseteq {"w"},
             UNCHANGED <<queue, call, holders, life, fault>>
      PROVE  Confined' /\ fault' = "none"
  BY <1>3 DEF Confined, Serving, Closed, HandleClose
<1>4. CASE DispatchHup
  <2>1. "h" \in revents /\ HandleClose /\ revents' = revents \ {"h"}
        /\ UNCHANGED <<queue, call, holders, life, fault>>
    BY <1>4 DEF DispatchHup
  <2>2. Serving
    BY <2>1 DEF Confined, Starting, Closed
  <2>3. revents' \subseteq {"w"}
    BY <2>1, <2>2 DEF Serving, ConnInv, LoopTypes
  <2>4. QED
    BY <1>3, <2>1, <2>2, <2>3
<1>5. CASE DispatchRead
  <2>1. "r" \in revents /\ revents' = revents \ {"r"}
        /\ UNCHANGED <<queue, call, holders, life, fault>>
    BY <1>5 DEF DispatchRead
  <2>2. Serving
    BY <2>1 DEF Confined, Starting, Closed
  <2>3. CASE readable = "none"
    <3>1. HandleClose
      BY <1>5, <2>3 DEF DispatchRead
    <3>2. revents' \subseteq {"w"}
      BY <2>1, <2>2 DEF Serving, ConnInv, LoopTypes
    <3>3. QED
      BY <1>3, <2>1, <2>2, <3>1, <3>2
  <2>4. CASE readable # "none"
    <3>1. UNCHANGED <<state, events, closed, inMap, removals>>
      BY <1>5, <2>4 DEF DispatchRead, serverVars
    <3>2. Serving'
      BY <2>1, <2>2, <3>1 DEF Serving
    <3>3. QED
      BY <2>1, <3>2 DEF Confined
  <2>5. QED
    BY <2>3, <2>4
<1>6. QED
  BY <1>1, <1>2, <1>4, <1>5

\* handleWrite, which asserts that the channel is writing.
LEMMA ConfinedWrite ==
    ASSUME ConnInv, Confined, fault = "none", DispatchWrite
    PROVE  /\ fault' = "none" => Confined'
           /\ fault' \in {"none", "handleWrite"} /\ (fault' = "handleWrite" => closed' = TRUE)
<1>1. /\ revents = {"w"} /\ revents' = {} /\ HandleWrite
      /\ UNCHANGED <<queue, call, holders, inMap, removals, closed, life>>
  BY DEF DispatchWrite, otherVars, serverVars
<1>2. /\ state' = state /\ events' \subseteq events
      /\ fault' = IF "w" \in events THEN fault ELSE "handleWrite"
  BY <1>1, InvReady, HandleWriteStep
<1>3. CASE Serving
  <2>1. fault' = "none"
    BY <1>1, <1>2, <1>3 DEF Serving
  <2>2. Serving'
    BY <1>1, <1>2, <1>3 DEF Serving
  <2>3. QED
    BY <1>1, <2>1, <2>2 DEF Confined
<1>4. CASE Closed
  BY <1>1, <1>2, <1>4 DEF Closed
<1>5. QED
  BY <1>1, <1>3, <1>4 DEF Confined, Starting

\* connectEstablished and connectDestroyed are the only functors.
LEMMA ConfinedFunctor ==
    ASSUME ConnInv, Confined, fault = "none", RunFunctor
    PROVE  Confined' /\ fault' = "none"
<1>1. /\ batch > 0 /\ queue' = Tail(queue)
      /\ UNCHANGED <<revents, call, holders, inMap, removals, closed>>
      /\ life' = IF Head(queue).op = "connectDestroyed" THEN "removed" ELSE life
  BY DEF RunFunctor, otherVars, serverVars
<1>2. queue # <<>>
  <2>1. queue \in Seq(Functors) /\ batch \in 0..Len(queue)
    BY DEF ConnInv, LoopTypes
  <2>2. QED
    BY <1>1, <2>1, EmptySeq
<1>3. ASSUME NEW op, queue = <<Functor(op, {})>>
      PROVE  Head(queue).op = op /\ queue' = <<>>
  BY <1>1, <1>3 DEF Functor
<1>4. CASE Starting
  <2>1. Head(queue).op = "connectEstablished" /\ queue' = <<>>
    BY <1>3, <1>4 DEF Starting
  <2>2. ConnectEstablished /\ life' = life
    BY <1>1, <1>4, <2>1 DEF RunFunctor, Starting
  <2>3. Serving' /\ fault' = "none"
    BY <1>1, <1>4, <2>1, <2>2 DEF Starting, Serving, ConnectEstablished
  <2>4. QED
    BY <1>1, <2>3 DEF Confined
<1>5. CASE Closed
  <2>1. /\ queue = <<Functor("connectDestroyed", {})>> /\ inMap = FALSE /\ removals = 0
        /\ life = "alive" /\ state = "kDisConnected" /\ events = {} /\ closed = TRUE
        /\ revents \subseteq {"w"}
    BY <1>2, <1>5 DEF Closed
  <2>2. Head(queue).op = "connectDestroyed" /\ queue' = <<>>
    BY <1>3, <2>1
  <2>3. ConnectDestroyed /\ life' = "removed"
    BY <1>1, <2>1, <2>2 DEF RunFunctor
  <2>4. state' = "kDisConnected" /\ events' = {} /\ fault' = "none"
    BY <2>1, <2>3 DEF ConnectDestroyed
  <2>5. Closed'
    BY <1>1, <2>1, <2>2, <2>3, <2>4 DEF Closed
  <2>6. QED
    BY <1>1, <2>4, <2>5 DEF Confined
<1>6. QED
  BY <1>2, <1>4, <1>5 DEF Confined, Serving

\* The user's callbacks, as long as they do not share the connection.
LEMMA ConfinedUser ==
    ASSUME ConnInv, Confined, fault = "none",
           \/ \E m \in Messages : UserSends(m)
           \/ \E f \in Files : UserSendsFile(f)
           \/ UserShutsDown \/ UserReturns
    PROVE  /\ fault' = "none" => Confined'
           /\ fault' \in {"none", "sendFile"}
<1>1. /\ UNCHANGED <<queue, revents, call, holders, inMap, removals, closed, life>>
      /\ depth > 0
  BY DEF UserSends, UserSendsFile, UserShutsDown, UserReturns, UserCall, serverVars
<1>2. Ready /\ ~Starting
  <2>1. ~Starting
    BY <1>1 DEF ConnInv, Establishing, Starting
  <2>2. QED
    BY <2>1, InvReady
<1>3. /\ fault' \in {"none", "sendFile"}
      /\ state # "kConnected" => UNCHANGED <<state, events>>
      /\ state = "kConnected" =>
           state' \in {"kConnected", "kDisConnecting"} /\ events \subseteq events'
  <2>1. CASE \E m \in Messages : UserSends(m)
    <3>1. PICK m \in Messages : SendInLoop(m)
      BY <2>1 DEF UserSends
    <3>2. /\ UNCHANGED <<state, fault>> /\ events \subseteq events'
          /\ state # "kConnected" => UNCHANGED opVars
      BY <1>2, <3>1, SendInLoopStep
    <3>3. QED
      BY <3>2 DEF opVars, connVars
  <2>2. CASE \E f \in Files : UserSendsFile(f)
    <3>1. PICK f \in Files, opened \in BOOLEAN : SendFileInLoop(f, opened)
      BY <2>2 DEF UserSendsFile
    <3>2. state' = state /\ fault' \in {fault, "sendFile"} /\ events \subseteq events'
      BY <1>2, <3>1, SendFileInLoopStep
    <3>3. state = "kConnected"
      BY <2>2 DEF UserSendsFile
    <3>4. QED
      BY <3>2, <3>3
  <2>3. CASE UserShutsDown \/ UserReturns
    BY <2>3 DEF UserShutsDown, Shutdown, UserReturns, opVars, connVars
  <2>4. QED
    BY <2>1, <2>2, <2>3
<1>4. CASE Serving
  <2>1. Serving'
    BY <1>1, <1>3, <1>4 DEF Serving
  <2>2. QED
    BY <1>1, <1>3, <2>1 DEF Confined
<1>5. CASE Closed
  <2>1. UNCHANGED <<state, events>>
    BY <1>3, <1>5 DEF Closed
  <2>2. Closed'
    BY <1>1, <1>5, <2>1 DEF Closed
  <2>3. QED
    BY <1>1, <1>3, <2>2 DEF Confined
<1>6. QED
  BY <1>2, <1>4, <1>5 DEF Confined

\* The base loop removes the connection once, and then it is destroyed.
LEMMA ConfinedEnd ==
    ASSUME ConnInv, Confined, fault = "none", RemoveConnectionInLoop \/ Destroy
    PROVE  Confined' /\ fault' = "none"
<1>1. CASE RemoveConnectionInLoop
  <2>1. /\ removals > 0 /\ removals' = removals - 1 /\ inMap' = FALSE
        /\ queue' = Append(queue, Functor("connectDestroyed", {}))
        /\ UNCHANGED <<state, events, revents, call, holders, closed, life, fault>>
    BY <1>1 DEF RemoveConnectionInLoop, connVars, histVars
  <2>2. /\ Closed /\ queue = <<>> /\ removals = 1 /\ life = "alive"
    BY <2>1 DEF Confined, Starting, Serving, Closed
  <2>3. queue' = <<Functor("connectDestroyed", {})>> /\ removals' = 0
    BY <2>1, <2>2
  <2>4. Closed'
    BY <2>1, <2>2, <2>3 DEF Closed
  <2>5. QED
    BY <2>1, <2>4 DEF Confined
<1>2. CASE Destroy
  <2>1. /\ life = "removed" /\ life' = "freed"
        /\ fault' = IF state = "kDisConnected" /\ events = {} THEN "none" ELSE "dtor"
        /\ UNCHANGED <<state, events, queue, revents, call, holders, inMap, removals, closed>>
    BY <1>2 DEF Destroy, connVars, loopVars, otherVars, serverVars
  <2>2. Closed
    BY <2>1 DEF Confined, Starting, Serving
  <2>3. Closed' /\ fault' = "none"
    BY <2>1, <2>2 DEF Closed
  <2>4. QED
    BY <2>1, <2>3 DEF Confined
<1>3. QED
  BY <1>1, <1>2

LEMMA NextConfined == ConnInv /\ ConfinedInv /\ [Next]_vars => ConfinedInv'
<1> SUFFICES ASSUME ConnInv, ConfinedInv, [Next]_vars, shared' = FALSE, serverUp' = TRUE
             PROVE  /\ fault' = "none" => Confined'
                    /\ fault' \in {"none", "handleWrite", "sendFile"}
                    /\ fault' = "handleWrite" => closed' = TRUE
  BY DEF ConfinedInv
<1>1. CASE UNCHANGED vars
  <2>1. UNCHANGED <<state, events, queue, revents, call, holders, shared, serverUp,
                    inMap, removals, closed, life, fault>>
    BY <1>1 DEF vars, connVars, loopVars, otherVars, serverVars, histVars
  <2>2. QED
    BY <2>1 DEF ConfinedInv, Confined, Starting, Serving, Closed
<1>2. CASE Next
  <2>1. fault = "none"
    BY <1>2 DEF Next, IOThread, ForeignThread, Running, PollEvent, DispatchHup, DispatchRead,
       DispatchWrite, DoPendingFunctors, RunFunctor, UserReturns, Destroy, UserSends,
       UserSendsFile, UserShares, ForeignSend, ForeignSendFile, ForeignShutdown, Calls,
       ForeignSetsState, ForeignQueues, ForeignReleases, UserShutsDown,
       RemoveConnectionInLoop, ServerDestroyed, PeerAcks, PeerSends, PeerCloses, PeerResets
  <2>2. /\ ~ServerDestroyed
        /\ \A t \in Foreign : ~UserShares(t)
    BY DEF ServerDestroyed, UserShares
  <2>3. shared = FALSE /\ serverUp = TRUE
    <3>1. UNCHANGED <<shared, serverUp>>
      BY <1>2, <2>2 DEF Next, IOThread, ForeignThread, PollEvent, DispatchHup, DispatchRead,
         HandleClose, DispatchWrite, DoPendingFunctors, RunFunctor, UserReturns, Destroy,
         UserSends, UserSendsFile, UserCall, ForeignSend, ForeignSendFile, ForeignShutdown,
         Calls, ForeignSetsState, ForeignQueues, ForeignReleases, UserShutsDown,
         RemoveConnectionInLoop, PeerAcks, PeerSends, PeerCloses, PeerResets,
         otherVars, serverVars
    <3>2. QED
      BY <3>1
  <2>4. Confined
    BY <2>1, <2>3 DEF ConfinedInv
  <2>5. \A t \in Foreign : ~ForeignThread(t)
    BY <2>4 DEF Confined, ForeignThread, ForeignSend, ForeignSendFile, ForeignShutdown,
       Calls, ForeignSetsState, ForeignQueues, ForeignReleases
  <2>6. CASE \/ PollEvent \/ DispatchHup \/ DispatchRead \/ DoPendingFunctors
             \/ PeerAcks \/ PeerSends \/ PeerCloses \/ PeerResets
    BY <2>1, <2>4, <2>6, ConfinedEvents
  <2>7. CASE DispatchWrite
    BY <2>1, <2>4, <2>7, ConfinedWrite
  <2>8. CASE RunFunctor
    BY <2>1, <2>4, <2>8, ConfinedFunctor
  <2>9. CASE \/ \E m \in Messages : UserSends(m)
             \/ \E f \in Files : UserSendsFile(f)
             \/ UserShutsDown \/ UserReturns
    BY <2>1, <2>4, <2>9, ConfinedUser
  <2>10. CASE RemoveConnectionInLoop \/ Destroy
    BY <2>1, <2>4, <2>10, ConfinedEnd
  <2>11. QED
    BY <1>2, <2>2, <2>5, <2>6, <2>7, <2>8, <2>9, <2>10 DEF Next, IOThread
<1>3. QED
  BY <1>1, <1>2

(* A connection that only its IO thread uses, of a server that lives, ends  *)
(* in order: only POLLOUT dispatched after the close and a second sendFile  *)
(* can fail (TcpConnection.cc:52-56, 138-190, EpollPoller.cc:97-112).       *)
THEOREM ConfinedConnectionIsSafe == Spec => []ConfinedIsSafe
<1>1. Init => ConfinedInv
  BY DEF Init, ConfinedInv, Confined, Starting
<1>2. ConnInv /\ ConfinedInv => ConfinedIsSafe
  BY DEF ConnInv, LoopTypes, ConfinedInv, ConfinedIsSafe
<1>3. QED
  BY <1>1, <1>2, ConnectionInvariant, NextConfined, PTL DEF Spec
=============================================================================
