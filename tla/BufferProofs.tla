---------------------------- MODULE BufferProofs ----------------------------
(* The properties of Buffer for every initial size, every prepend space and *)
(* every sequence of operations.  Good says of one Buffer value what TypeOK *)
(* and BytesInOrder say of the variable; each operation of Buffer.cc keeps  *)
(* it, and a growth is bounded by what the Buffer then holds.               *)
EXTENDS Buffer, TLAPS

(* A vector d of size s with the indexes r and w holds the bytes g + 1 to p *)
(* of the stream.                                                           *)
Sound(d, s, r, w, g, p) ==
    /\ s \in Nat /\ r \in Nat /\ w \in Nat
    /\ d \in [0..(s - 1) -> Nat]
    /\ CheapPrepend <= r /\ r <= w /\ w <= s
    /\ w - r = p - g
    /\ \A i \in r..(w - 1) : d[i] = g + 1 + (i - r)

Good(b, g, p) == Sound(b.data, b.size, b.readIndex, b.writeIndex, g, p)

(* Bytes copied into space that is there follow the ones already held       *)
(* (Buffer::append and the first iovec of readFd, Buffer.cc:21-29, 64-68).  *)
LEMMA StoreSound ==
    ASSUME NEW d, NEW s, NEW r, NEW w, NEW g \in Nat, NEW p \in Nat, NEW len \in Nat,
           Sound(d, s, r, w, g, p), w + len <= s,
           NEW e, e = [i \in 0..(s - 1) |-> IF i >= w /\ i < w + len
                                              THEN p + 1 + (i - w) ELSE d[i]]
    PROVE  Sound(e, s, r, w + len, g, p + len)
  <1>1. /\ s \in Nat /\ r \in Nat /\ w \in Nat
        /\ d \in [0..(s - 1) -> Nat]
        /\ CheapPrepend <= r /\ r <= w
        /\ w - r = p - g
        /\ CheapPrepend \in Nat
    BY BufferAssumption DEF Sound
  <1>2. \A i \in r..(w - 1) : d[i] = g + 1 + (i - r)
    BY DEF Sound
  <1>3. ASSUME NEW i \in 0..(s - 1)
        PROVE  (IF i >= w /\ i < w + len THEN p + 1 + (i - w) ELSE d[i]) \in Nat
    <2>1. CASE i >= w /\ i < w + len
      BY <1>1, <2>1
    <2>2. CASE ~(i >= w /\ i < w + len)
      BY <1>1, <2>2
    <2> QED BY <2>1, <2>2
  <1>4. e \in [0..(s - 1) -> Nat]
    BY <1>3
  <1>5. ASSUME NEW i \in r..((w + len) - 1) PROVE e[i] = g + 1 + (i - r)
    <2>1. i \in Int /\ i \in 0..(s - 1)
      BY <1>1
    <2>2. CASE i < w
      <3>1. e[i] = d[i]
        BY <1>1, <2>1, <2>2
      <3>2. i \in r..(w - 1)
        BY <1>1, <2>1, <2>2
      <3> QED BY <1>2, <3>1, <3>2
    <2>3. CASE i >= w
      <3>1. e[i] = p + 1 + (i - w)
        BY <1>1, <2>1, <2>3
      <3>2. p + 1 + (i - w) = g + 1 + (i - r)
        BY <1>1, <2>1
      <3> QED BY <3>1, <3>2
    <2> QED BY <1>1, <2>1, <2>2, <2>3
  <1>6. w + len \in Nat /\ r <= w + len /\ (w + len) - r = (p + len) - g
    BY <1>1
  <1> QED BY <1>1, <1>4, <1>5, <1>6 DEF Sound

(* Growing the vector behind writeIndex_ keeps the bytes (Buffer.cc:76-78). *)
LEMMA ResizeSound ==
    ASSUME NEW d, NEW s, NEW r, NEW w, NEW g \in Nat, NEW p \in Nat, NEW len \in Nat,
           Sound(d, s, r, w, g, p),
           NEW e, e = [i \in 0..(w + len - 1) |-> IF i < s THEN d[i] ELSE 0]
    PROVE  Sound(e, w + len, r, w, g, p)
  <1>1. /\ s \in Nat /\ r \in Nat /\ w \in Nat
        /\ d \in [0..(s - 1) -> Nat]
        /\ CheapPrepend <= r /\ r <= w /\ w <= s
        /\ w - r = p - g
    BY DEF Sound
  <1>2. \A i \in r..(w - 1) : d[i] = g + 1 + (i - r)
    BY DEF Sound
  <1>3. e \in [0..((w + len) - 1) -> Nat]
    BY <1>1
  <1>4. ASSUME NEW i \in r..(w - 1) PROVE e[i] = g + 1 + (i - r)
    <2>1. e[i] = d[i]
      BY <1>1
    <2> QED BY <1>2, <2>1
  <1> QED BY <1>1, <1>3, <1>4 DEF Sound

(* Moving the readable bytes to the front keeps them (Buffer.cc:80-84).     *)
LEMMA CompactSound ==
    ASSUME NEW d, NEW s, NEW r, NEW w, NEW g \in Nat, NEW p \in Nat,
           Sound(d, s, r, w, g, p),
           NEW e, e = [i \in 0..(s - 1) |->
                         IF i >= CheapPrepend /\ i < CheapPrepend + (w - r)
                           THEN d[r + (i - CheapPrepend)] ELSE d[i]]
    PROVE  Sound(e, s, CheapPrepend, CheapPrepend + (w - r), g, p)
  <1>1. /\ s \in Nat /\ r \in Nat /\ w \in Nat
        /\ d \in [0..(s - 1) -> Nat]
        /\ CheapPrepend <= r /\ r <= w /\ w <= s
        /\ w - r = p - g
        /\ CheapPrepend \in Nat
    BY BufferAssumption DEF Sound
  <1>2. \A i \in r..(w - 1) : d[i] = g + 1 + (i - r)
    BY DEF Sound
  <1>3. ASSUME NEW i \in 0..(s - 1)
        PROVE  (IF i >= CheapPrepend /\ i < CheapPrepend + (w - r)
                  THEN d[r + (i - CheapPrepend)] ELSE d[i]) \in Nat
    <2>1. CASE i >= CheapPrepend /\ i < CheapPrepend + (w - r)
      <3>1. r + (i - CheapPrepend) \in 0..(s - 1)
        BY <1>1, <2>1
      <3> QED BY <1>1, <2>1, <3>1
    <2>2. CASE ~(i >= CheapPrepend /\ i < CheapPrepend + (w - r))
      BY <1>1, <2>2
    <2> QED BY <2>1, <2>2
  <1>4. e \in [0..(s - 1) -> Nat]
    BY <1>3
  <1>5. ASSUME NEW i \in CheapPrepend..((CheapPrepend + (w - r)) - 1)
        PROVE  e[i] = g + 1 + (i - CheapPrepend)
    <2>1. i \in Int /\ i \in 0..(s - 1) /\ r + (i - CheapPrepend) \in r..(w - 1)
      BY <1>1
    <2>2. e[i] = d[r + (i - CheapPrepend)]
      BY <1>1, <2>1
    <2>3. d[r + (i - CheapPrepend)] = g + 1 + ((r + (i - CheapPrepend)) - r)
      BY <1>2, <2>1
    <2>4. (r + (i - CheapPrepend)) - r = i - CheapPrepend
      BY <1>1, <2>1
    <2> QED BY <2>2, <2>3, <2>4
  <1>6. /\ CheapPrepend + (w - r) \in Nat
        /\ CheapPrepend <= CheapPrepend + (w - r)
        /\ CheapPrepend + (w - r) <= s
        /\ (CheapPrepend + (w - r)) - CheapPrepend = p - g
        /\ CheapPrepend <= CheapPrepend
    BY <1>1
  <1>7. \A i \in CheapPrepend..((CheapPrepend + (w - r)) - 1) :
          e[i] = g + 1 + (i - CheapPrepend)
    BY <1>5
  <1> QED BY <1>1, <1>4, <1>6, <1>7, Zenon DEF Sound

(* Taking bytes from the front keeps the rest (Buffer.cc:35-46).            *)
LEMMA RetrieveSound ==
    ASSUME NEW d, NEW s, NEW r, NEW w, NEW g \in Nat, NEW p \in Nat, NEW n \in Nat,
           Sound(d, s, r, w, g, p), n <= p - g
    PROVE  Sound(d, s, r + n, w, g + n, p)
  <1>1. /\ s \in Nat /\ r \in Nat /\ w \in Nat
        /\ d \in [0..(s - 1) -> Nat]
        /\ CheapPrepend <= r /\ r <= w /\ w <= s
        /\ w - r = p - g
        /\ CheapPrepend \in Nat
    BY BufferAssumption DEF Sound
  <1>2. \A i \in r..(w - 1) : d[i] = g + 1 + (i - r)
    BY DEF Sound
  <1>3. ASSUME NEW i \in (r + n)..(w - 1) PROVE d[i] = (g + n) + 1 + (i - (r + n))
    <2>1. i \in Int /\ i \in r..(w - 1)
      BY <1>1
    <2>2. (g + n) + 1 + (i - (r + n)) = g + 1 + (i - r)
      BY <1>1, <2>1
    <2> QED BY <1>2, <2>1, <2>2
  <1>4. r + n \in Nat /\ CheapPrepend <= r + n /\ r + n <= w
        /\ w - (r + n) = p - (g + n)
    BY <1>1
  <1> QED BY <1>1, <1>3, <1>4 DEF Sound

-----------------------------------------------------------------------------
(* The same of Buffer values: bytes stored in space that is there.          *)
LEMMA StoreGood ==
    ASSUME NEW b, NEW g \in Nat, NEW p \in Nat, NEW len \in Nat,
           Good(b, g, p), len <= WritableBytes(b)
    PROVE  /\ Good(Store(b, p, len), g, p + len)
           /\ Store(b, p, len).size = b.size
  <1> DEFINE c == Store(b, p, len)
  <1>1. /\ c.size = b.size /\ c.readIndex = b.readIndex
        /\ c.writeIndex = b.writeIndex + len
        /\ c.data = [i \in 0..(b.size - 1) |->
                       IF i >= b.writeIndex /\ i < b.writeIndex + len
                         THEN p + 1 + (i - b.writeIndex) ELSE b.data[i]]
    BY DEF Store, Make
  <1>2. b.writeIndex + len <= b.size
    BY DEF Good, Sound, WritableBytes
  <1> HIDE DEF c
  <1>3. Sound(b.data, b.size, b.readIndex, b.writeIndex, g, p)
    BY DEF Good
  <1>4. Sound(c.data, b.size, b.readIndex, b.writeIndex + len, g, p + len)
    BY <1>1, <1>2, <1>3, StoreSound
  <1>5. Good(c, g, p + len)
    BY <1>1, <1>4 DEF Good
  <1> QED BY <1>1, <1>5 DEF c

(* makeSpace keeps the bytes and makes the space that was asked for; when   *)
(* it grows the vector, the new size is bounded by what the Buffer is about *)
(* to hold (Buffer.cc:70-85).                                               *)
LEMMA EnsureGood ==
    ASSUME NEW b, NEW g \in Nat, NEW p \in Nat, NEW len \in Nat, Good(b, g, p)
    PROVE  LET c == EnsureWritableBytes(b, len) IN
             /\ Good(c, g, p)
             /\ len <= WritableBytes(c)
             /\ c.size = b.size \/ c.size <= CheapPrepend + 2 * ((p - g) + len)
  <1> DEFINE c == EnsureWritableBytes(b, len)
  <1>1. /\ b.size \in Nat /\ b.readIndex \in Nat /\ b.writeIndex \in Nat
        /\ CheapPrepend <= b.readIndex /\ b.readIndex <= b.writeIndex
        /\ b.writeIndex <= b.size
        /\ b.writeIndex - b.readIndex = p - g
        /\ CheapPrepend \in Nat
    BY BufferAssumption DEF Good, Sound
  <1>2. Sound(b.data, b.size, b.readIndex, b.writeIndex, g, p)
    BY DEF Good
  <1>3. CASE len <= b.size - b.writeIndex
    <2>1. c = b
      BY <1>1, <1>3 DEF EnsureWritableBytes, WritableBytes
    <2> QED BY <1>3, <2>1 DEF WritableBytes
  <1>4. CASE /\ len > b.size - b.writeIndex
             /\ b.size - b.writeIndex + b.readIndex - CheapPrepend < len
    <2>1. c = Resize(b, len)
      BY <1>1, <1>4 DEF EnsureWritableBytes, MakeSpace, WritableBytes, PrependableBytes
    <2>2. /\ c.size = b.writeIndex + len
          /\ c.readIndex = b.readIndex /\ c.writeIndex = b.writeIndex
          /\ c.data = [i \in 0..(b.writeIndex + len - 1) |->
                         IF i < b.size THEN b.data[i] ELSE 0]
      BY <2>1 DEF Resize, Make
    <2> HIDE DEF c
    <2>3. Sound(c.data, b.writeIndex + len, b.readIndex, b.writeIndex, g, p)
      BY <1>2, <2>2, ResizeSound
    <2>4. Good(c, g, p)
      BY <2>2, <2>3 DEF Good
    <2>5. b.writeIndex + len <= CheapPrepend + 2 * ((p - g) + len)
      BY <1>1, <1>4
    <2>6. len <= WritableBytes(c)
      BY <1>1, <2>2 DEF WritableBytes
    <2> QED BY <2>2, <2>4, <2>5, <2>6 DEF c
  <1>5. CASE /\ len > b.size - b.writeIndex
             /\ b.size - b.writeIndex + b.readIndex - CheapPrepend >= len
    <2>1. c = Compact(b)
      BY <1>1, <1>5 DEF EnsureWritableBytes, MakeSpace, WritableBytes, PrependableBytes
    <2>2. /\ c.size = b.size /\ c.readIndex = CheapPrepend
          /\ c.writeIndex = CheapPrepend + (b.writeIndex - b.readIndex)
          /\ c.data = [i \in 0..(b.size - 1) |->
                         IF /\ i >= CheapPrepend
                            /\ i < CheapPrepend + (b.writeIndex - b.readIndex)
                           THEN b.data[b.readIndex + (i - CheapPrepend)]
                           ELSE b.data[i]]
      BY <2>1 DEF Compact, MovedToFront, Make, ReadableBytes
    <2> HIDE DEF c
    <2>3. Sound(c.data, b.size, CheapPrepend,
                CheapPrepend + (b.writeIndex - b.readIndex), g, p)
      BY <1>2, <2>2, CompactSound
    <2>4. Good(c, g, p)
      BY <2>2, <2>3 DEF Good
    <2>5. len <= WritableBytes(c)
      BY <1>1, <1>5, <2>2, SMTT(30) DEF WritableBytes
    <2> QED BY <2>2, <2>4, <2>5 DEF c
  <1> QED BY <1>1, <1>3, <1>4, <1>5

(* append keeps the order of the bytes and bounds the growth.               *)
LEMMA AppendGood ==
    ASSUME NEW b, NEW g \in Nat, NEW p \in Nat, NEW len \in Nat, Good(b, g, p)
    PROVE  LET c == AppendTo(b, p, len) IN
             /\ Good(c, g, p + len)
             /\ c.size = b.size \/ c.size <= CheapPrepend + 2 * ((p - g) + len)
  <1> DEFINE d == EnsureWritableBytes(b, len)
  <1>1. /\ Good(d, g, p) /\ len <= WritableBytes(d)
        /\ d.size = b.size \/ d.size <= CheapPrepend + 2 * ((p - g) + len)
    BY EnsureGood
  <1> HIDE DEF d
  <1>2. Good(Store(d, p, len), g, p + len) /\ Store(d, p, len).size = d.size
    BY <1>1, StoreGood
  <1> QED BY <1>1, <1>2 DEF AppendTo, d

-----------------------------------------------------------------------------
\* The inductive invariant: peak is not below what is readable.
BufferInv ==
    /\ put \in Nat /\ got \in Nat /\ peak \in Nat
    /\ Good(buf, got, put)
    /\ put - got <= peak
    /\ BoundedMemory

(* A step that puts n bytes into the Buffer keeps the invariant.            *)
LEMMA PutInKeeps ==
    ASSUME BufferInv, NEW b, NEW n \in Nat, PutIn(b, n),
           Good(b, got, put + n),
           b.size = buf.size \/ b.size <= CheapPrepend + 2 * ((put - got) + n)
    PROVE  BufferInv'
  <1>1. /\ buf' = b /\ put' = put + n /\ got' = got
        /\ peak' = IF ReadableBytes(b) > peak THEN ReadableBytes(b) ELSE peak
    BY DEF PutIn
  <1>2. ReadableBytes(b) = (put + n) - got /\ b.size \in Nat
    <2>1. Sound(b.data, b.size, b.readIndex, b.writeIndex, got, put + n)
      BY Zenon DEF Good
    <2> QED BY <2>1, Zenon DEF Sound, ReadableBytes
  <1>3. put \in Nat /\ got \in Nat /\ peak \in Nat /\ buf.size \in Nat
        /\ put - got <= peak /\ put - got \in Nat
    BY DEF BufferInv, Good, Sound
  <1>4. peak' \in Nat /\ put' - got' <= peak' /\ peak <= peak'
    BY <1>1, <1>2, <1>3
  <1>5. BoundedMemory'
    BY <1>1, <1>2, <1>3, <1>4, BufferAssumption DEF BufferInv, BoundedMemory
  <1>6. Good(buf', got', put')
    BY <1>1
  <1>7. Good(buf, got, put)'
    BY <1>6 DEF Good, Sound
  <1> QED BY <1>1, <1>3, <1>4, <1>5, <1>7 DEF BufferInv

(* Every operation of Buffer.cc keeps the invariant.                        *)
LEMMA InvariantKept == BufferInv /\ [Next]_vars => BufferInv'
  <1> SUFFICES ASSUME BufferInv, [Next]_vars PROVE BufferInv'
    OBVIOUS
  <1>1. /\ put \in Nat /\ got \in Nat /\ peak \in Nat /\ Good(buf, got, put)
        /\ buf.size \in Nat /\ buf.readIndex \in Nat /\ buf.writeIndex \in Nat
        /\ buf.readIndex <= buf.writeIndex /\ buf.writeIndex <= buf.size
        /\ buf.writeIndex - buf.readIndex = put - got
    BY DEF BufferInv, Good, Sound
  <1>2. ASSUME NEW len \in 0..MaxAppend, Append(len) PROVE BufferInv'
    <2>1. len \in Nat
      BY BufferAssumption
    <2>2. PutIn(AppendTo(buf, put, len), len)
      BY <1>2 DEF Append
    <2> QED BY <1>1, <2>1, <2>2, AppendGood, PutInKeeps
  <1>3. ASSUME NEW n \in 0..MaxBytes, ReadFd(n) PROVE BufferInv'
    <2> DEFINE w == WritableBytes(buf)
    <2>1. n \in Nat /\ w \in Nat
      BY <1>1, BufferAssumption DEF WritableBytes
    <2>2. CASE n < w
      <3>1. PutIn(Store(buf, put, n), n)
        BY <1>3, <2>2 DEF ReadFd
      <3>2. Good(Store(buf, put, n), got, put + n) /\ Store(buf, put, n).size = buf.size
        BY <1>1, <2>1, <2>2, StoreGood
      <3> QED BY <2>1, <3>1, <3>2, PutInKeeps
    <2>3. CASE ~(n < w)
      <3> DEFINE c == Store(buf, put, w)
      <3>1. PutIn(AppendTo(c, put + w, n - w), n)
        BY <1>3, <2>3 DEF ReadFd
      <3>2. Good(c, got, put + w) /\ c.size = buf.size
        BY <1>1, <2>1, StoreGood
      <3>3. n - w \in Nat /\ put + w \in Nat /\ (put + w) + (n - w) = put + n
            /\ ((put + w) - got) + (n - w) = (put - got) + n
        BY <1>1, <2>1, <2>3
      <3> HIDE DEF c, w
      <3>4. /\ Good(AppendTo(c, put + w, n - w), got, (put + w) + (n - w))
            /\ \/ AppendTo(c, put + w, n - w).size = c.size
               \/ AppendTo(c, put + w, n - w).size
                    <= CheapPrepend + 2 * (((put + w) - got) + (n - w))
        BY <1>1, <3>2, <3>3, AppendGood
      <3> QED BY <2>1, <3>1, <3>2, <3>3, <3>4, PutInKeeps
    <2> QED BY <2>2, <2>3
  <1>4. ASSUME NEW len \in 0..MaxBytes, Retrieve(len) PROVE BufferInv'
    <2> DEFINE n == Retrieved(len)
    <2>1. n \in Nat /\ n <= put - got
      BY <1>1, BufferAssumption DEF Retrieved, ReadableBytes
    <2>2. /\ buf'.size = buf.size /\ buf'.data = buf.data
          /\ buf'.readIndex = buf.readIndex + n /\ buf'.writeIndex = buf.writeIndex
          /\ got' = got + n /\ put' = put /\ peak' = peak
      BY <1>4 DEF Retrieve, Make
    <2> HIDE DEF n
    <2>3. Sound(buf.data, buf.size, buf.readIndex, buf.writeIndex, got, put)
      BY <1>1 DEF Good
    <2>4. Sound(buf.data, buf.size, buf.readIndex + n, buf.writeIndex, got + n, put)
      BY <2>1, <2>3, <1>1, RetrieveSound
    <2>5. Good(buf, got, put)'
      BY <2>2, <2>4 DEF Good, Sound
    <2>6. got' \in Nat /\ put' - got' <= peak'
      BY <1>1, <2>1, <2>2 DEF BufferInv
    <2>7. BoundedMemory'
      BY <2>2 DEF BufferInv, BoundedMemory
    <2> QED BY <1>1, <2>2, <2>5, <2>6, <2>7 DEF BufferInv
  <1>5. CASE UNCHANGED vars
    BY <1>5 DEF vars, BufferInv, Good, Sound, BoundedMemory
  <1> QED BY <1>2, <1>3, <1>4, <1>5 DEF Next

(* The constructor establishes the invariant.                               *)
LEMMA InvariantInitially == Init => BufferInv
  <1> SUFFICES ASSUME Init PROVE BufferInv
    OBVIOUS
  <1>1. /\ buf.size = InitSize /\ buf.readIndex = CheapPrepend
        /\ buf.writeIndex = CheapPrepend
        /\ buf.data = [i \in 0..(InitSize - 1) |-> 0]
        /\ put = 0 /\ got = 0 /\ peak = 0
    BY DEF Init, Make
  <1>2. Sound(buf.data, buf.size, buf.readIndex, buf.writeIndex, got, put)
    BY <1>1, BufferAssumption DEF Sound
  <1> QED BY <1>1, <1>2, BufferAssumption DEF BufferInv, Good, BoundedMemory

(* The indexes stay in order and no size_t subtraction wraps, whatever the  *)
(* sizes (Buffer.h:26-34, Buffer.cc:9-85).                                  *)
THEOREM IndexesInOrder == Spec => []TypeOK
  <1>1. BufferInv => TypeOK
    BY DEF BufferInv, Good, Sound, TypeOK
  <1> QED BY <1>1, InvariantInitially, InvariantKept, PTL DEF Spec

(* A Buffer is a FIFO of bytes, whatever mix of append, readFd and retrieve *)
(* is applied to it (Buffer.cc:9-85).                                       *)
THEOREM BufferIsFIFO == Spec => []BytesInOrder
  <1>1. BufferInv => BytesInOrder
    BY DEF BufferInv, Good, Sound, BytesInOrder, ReadableBytes
  <1> QED BY <1>1, InvariantInitially, InvariantKept, PTL DEF Spec

(* The size of a Buffer is bounded by twice the most it ever held           *)
(* (Buffer.cc:70-85).                                                       *)
THEOREM MemoryIsBounded == Spec => []BoundedMemory
  <1>1. BufferInv => BoundedMemory
    BY DEF BufferInv
  <1> QED BY <1>1, InvariantInitially, InvariantKept, PTL DEF Spec
=============================================================================
