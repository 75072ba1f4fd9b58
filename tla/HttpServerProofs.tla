--------------------------- MODULE HttpServerProofs -------------------------
(* Theorems about HttpServer for any requests, cut into any segments, and   *)
(* for any sizes of responses, files and kernel buffers.                    *)
EXTENDS HttpServer, SequenceTheorems, WellFoundedInduction, TLAPS

-----------------------------------------------------------------------------
(* The stream of the client.                                                *)

\* Induction over the natural numbers, for sets.
LEMMA SetInduction ==
    ASSUME NEW S, 0 \in S, \A n \in Nat : n \in S => n + 1 \in S
    PROVE  \A n \in Nat : n \in S
<1> DEFINE Less == {ss \in Nat \X Nat : ss[1] < ss[2]}
           Rest == {n \in Nat : n \notin S}
<1>1. IsWellFoundedOn(Less, Nat)
  BY NatLessThanWellFounded DEF OpToRel
<1>2. SUFFICES ASSUME Rest # {} PROVE FALSE
  OBVIOUS
<1>3. PICK x \in Rest : \A y \in Rest : ~(<<y, x>> \in Less)
  <2>1. Rest \subseteq Nat
    OBVIOUS
  <2> HIDE DEF Less, Rest
  <2> QED
    BY <1>1, <1>2, <2>1, WFMin
<1>4. x \in Nat /\ x # 0
  OBVIOUS
<1>5. x - 1 \in Nat /\ x - 1 < x /\ (x - 1) + 1 = x
  BY <1>4
<1>6. x - 1 \in Rest
  BY <1>5
<1>7. <<x - 1, x>> \in Less
  BY <1>4, <1>5
<1>8. QED
  BY <1>3, <1>6, <1>7

\* F[k] is what FlattenSeq makes of the first k of n parts.
Flattened(T, n, s, F) ==
    /\ F \in [0..n -> Seq(T)] /\ F[0] = <<>>
    /\ \A k \in 1..n : F[k] = F[k - 1] \o s[k]
    /\ \A k \in 0..n : FlattenSeq([i \in 1..k |-> s[i]]) = F[k]

\* FlattenSeq puts the parts together one after the other.
LEMMA FlattenByParts ==
    ASSUME NEW T, NEW n \in Nat, NEW s \in [1..n -> Seq(T)]
    PROVE  \E F : Flattened(T, n, s, F)
<1> DEFINE Parts(m, F) == /\ F \in [0..m -> Seq(T)] /\ F[0] = <<>>
                          /\ \A k \in 1..m : F[k] = F[k - 1] \o s[k]
           Good == {m \in Nat : m <= n => \E F : Parts(m, F)}
<1> HIDE DEF Parts
<1>1. 0 \in Good
  <2>1. <<>> \in Seq(T)
    OBVIOUS
  <2>2. Parts(0, [k \in 0..0 |-> <<>>])
    BY <2>1 DEF Parts
  <2>3. QED
    BY <2>2
<1>2. ASSUME NEW m \in Nat, m \in Good PROVE m + 1 \in Good
  <2>1. SUFFICES ASSUME m + 1 <= n PROVE \E F : Parts(m + 1, F)
    OBVIOUS
  <2>2. PICK F : Parts(m, F)
    BY <1>2, <2>1
  <2> DEFINE G == [k \in 0..(m + 1) |-> IF k <= m THEN F[k] ELSE F[m] \o s[m + 1]]
  <2>3. F[m] \in Seq(T) /\ s[m + 1] \in Seq(T)
    BY <2>1, <2>2 DEF Parts
  <2>4. F[m] \o s[m + 1] \in Seq(T)
    BY <2>3
  <2>5. G \in [0..(m + 1) -> Seq(T)]
    <3>1. ASSUME NEW k \in 0..(m + 1) PROVE G[k] \in Seq(T)
      BY <2>2, <2>4 DEF Parts
    <3>2. QED
      BY <3>1
  <2>6. G[0] = <<>>
    BY <2>2 DEF Parts
  <2>7. ASSUME NEW k \in 1..(m + 1) PROVE G[k] = G[k - 1] \o s[k]
    <3>1. k - 1 \in 0..m /\ k \in 0..(m + 1)
      OBVIOUS
    <3>2. G[k - 1] = F[k - 1]
      BY <3>1
    <3>3. CASE k <= m
      <4>1. G[k] = F[k] /\ k \in 1..m
        BY <3>1, <3>3
      <4>2. F[k] = F[k - 1] \o s[k]
        BY <2>2, <4>1 DEF Parts
      <4>3. QED
        BY <3>2, <4>1, <4>2
    <3>4. CASE k = m + 1
      <4>1. ~(k <= m) /\ k - 1 = m
        BY <3>4
      <4>2. G[k] = F[m] \o s[m + 1]
        BY <3>1, <4>1
      <4>3. QED
        BY <3>2, <3>4, <4>1, <4>2
    <3>5. k <= m \/ k = m + 1
      <4> HIDE DEF G
      <4> QED
        OBVIOUS
    <3>6. QED
      BY <3>3, <3>4, <3>5
  <2>8. Parts(m + 1, G)
    BY <2>5, <2>6, <2>7 DEF Parts
  <2>9. QED
    BY <2>8
<1>3. n \in Good
  <2> HIDE DEF Good
  <2> QED
    BY <1>1, <1>2, SetInduction
<1>4. PICK F : Parts(n, F)
  BY <1>3
<1> USE DEF Parts
<1>5. ASSUME NEW k \in 0..n PROVE FlattenSeq([i \in 1..k |-> s[i]]) = F[k]
  <2> DEFINE t == [i \in 1..k |-> s[i]]
             IsFlat(f) == f = [i \in 1..Len(t) |-> IF i = 1 THEN t[i] ELSE f[i - 1] \o t[i]]
             flatten == CHOOSE f : IsFlat(f)
  <2>1. /\ k \in Nat /\ \A i \in 1..k : i \in 1..n /\ s[i] \in Seq(T)
        /\ t \in Seq(Seq(T)) /\ Len(t) = k /\ \A i \in 1..k : t[i] = s[i]
    OBVIOUS
  <2>2. CASE k = 0
    <3>1. t = <<>>
      BY <2>1, <2>2
    <3>2. FlattenSeq(t) = <<>>
      BY <2>1, <2>2, <3>1 DEF FlattenSeq
    <3>3. QED
      BY <1>4, <2>2, <3>2
  <2>3. CASE k # 0
    <3>1. FlattenSeq(t) = flatten[k]
      BY <2>1, <2>3 DEF FlattenSeq
    <3>2. IsFlat([i \in 1..k |-> F[i]])
      <4> DEFINE f == [i \in 1..k |-> F[i]]
                 g == [i \in 1..Len(t) |-> IF i = 1 THEN t[i] ELSE f[i - 1] \o t[i]]
      <4>1. ASSUME NEW i \in 1..k PROVE f[i] = g[i]
        <5>1. F[i] = F[i - 1] \o s[i] /\ t[i] = s[i] /\ s[i] \in Seq(T)
          BY <1>4, <2>1
        <5>2. CASE i = 1
          <6>1. F[i] = <<>> \o s[i]
            <7>1. i - 1 = 0
              BY <5>2
            <7>2. QED
              BY <1>4, <5>1, <7>1
          <6>2. F[i] = s[i]
            BY <5>1, <6>1, ConcatEmptySeq
          <6>3. QED
            BY <2>1, <5>1, <5>2, <6>2
        <5>3. CASE i # 1
          <6>1. i - 1 \in 1..k
            BY <5>3
          <6>2. f[i - 1] = F[i - 1]
            BY <6>1
          <6>3. g[i] = f[i - 1] \o t[i]
            BY <2>1, <5>3
          <6>4. QED
            BY <5>1, <6>2, <6>3
        <5>4. QED
          BY <5>2, <5>3
      <4>2. f = g
        <5>1. Len(t) = k
          BY <2>1
        <5> HIDE DEF t
        <5>2. DOMAIN f = 1..k /\ DOMAIN g = 1..k
          BY <5>1
        <5>3. QED
          BY <4>1, <5>1, <5>2
      <4>3. QED
        BY <4>2
    <3>3. IsFlat(flatten)
      BY <3>2
    <3> DEFINE Same == {i \in Nat : i \in 1..k => flatten[i] = F[i]}
    <3>4. 0 \in Same
      OBVIOUS
    <3>5. ASSUME NEW i \in Nat, i \in Same PROVE i + 1 \in Same
      <4>1. SUFFICES ASSUME i + 1 \in 1..k PROVE flatten[i + 1] = F[i + 1]
        OBVIOUS
      <4>2. F[i + 1] = F[i] \o s[i + 1] /\ t[i + 1] = s[i + 1] /\ s[i + 1] \in Seq(T)
        <5>1. i + 1 \in 1..n /\ (i + 1) - 1 = i
          BY <2>1, <4>1
        <5>2. QED
          BY <1>4, <2>1, <4>1, <5>1
      <4>3. flatten[i + 1] = IF i + 1 = 1 THEN t[i + 1] ELSE flatten[i] \o t[i + 1]
        <5>1. Len(t) = k /\ (i + 1) - 1 = i
          BY <2>1
        <5> HIDE DEF flatten, t
        <5>2. QED
          BY <3>3, <4>1, <5>1
      <4> HIDE DEF flatten, t
      <4>4. CASE i = 0
        <5>1. F[i + 1] = <<>> \o s[i + 1]
          BY <1>4, <4>2, <4>4
        <5>2. F[i + 1] = s[i + 1]
          BY <4>2, <5>1, ConcatEmptySeq
        <5>3. flatten[i + 1] = t[i + 1]
          BY <4>3, <4>4
        <5>4. QED
          BY <4>2, <5>2, <5>3
      <4>5. CASE i # 0
        <5>1. flatten[i] = F[i]
          BY <3>5, <4>1, <4>5
        <5>2. flatten[i + 1] = flatten[i] \o t[i + 1]
          <6>1. i + 1 # 1
            BY <4>5
          <6>2. QED
            BY <4>3, <6>1
        <5>3. QED
          BY <4>2, <5>1, <5>2
      <4>6. QED
        BY <4>4, <4>5
    <3>6. k \in Same
      <4> HIDE DEF Same
      <4> QED
        BY <2>1, <3>4, <3>5, SetInduction
    <3>7. QED
      BY <2>1, <2>3, <3>1, <3>6
  <2>4. QED
    BY <2>2, <2>3
<1>6. Flattened(T, n, s, F)
  BY <1>4, <1>5 DEF Flattened
<1>7. QED
  BY <1>6

AllKinds == {"get", "post", "badLine", "badHeader"}
Tokens == {"get", "post", "badLine", "length", "noColon", "header", "cr", "lf",
           "body"} \X Nat

\* The tokens of request number k that are not CR, LF or a body.
LineOf(k, kind) == <<IF kind \in {"post", "badLine"} THEN kind ELSE "get", k>>
HeaderOf(k, kind) ==
    <<CASE kind = "post" -> "length" [] kind = "badHeader" -> "noColon"
        [] OTHER -> "header", k>>
LengthOf(kind) == IF kind = "post" THEN BodyLen ELSE 0

LEMMA Joined ==
    ASSUME NEW S, NEW s \in Seq(S), NEW t \in Seq(S), NEW v, v = s \o t
    PROVE  /\ v \in Seq(S) /\ Len(v) = Len(s) + Len(t)
           /\ Len(s) \in Nat /\ Len(t) \in Nat
           /\ \A i \in 1..Len(s) : v[i] = s[i]
           /\ \A i \in 1..Len(t) : v[Len(s) + i] = t[i]
<1>1. Len(s) \in Nat /\ Len(t) \in Nat
  OBVIOUS
<1>2. /\ v \in Seq(S) /\ Len(v) = Len(s) + Len(t)
      /\ \A i \in 1..(Len(s) + Len(t)) : v[i] = IF i <= Len(s) THEN s[i] ELSE t[i - Len(s)]
  BY ConcatProperties
<1>3. ASSUME NEW i \in 1..Len(t) PROVE v[Len(s) + i] = t[i]
  <2>1. /\ Len(s) + i \in 1..(Len(s) + Len(t)) /\ ~(Len(s) + i <= Len(s))
        /\ (Len(s) + i) - Len(s) = i
    BY <1>1
  <2>2. QED
    BY <1>2, <2>1
<1>4. ASSUME NEW i \in 1..Len(s) PROVE v[i] = s[i]
  BY <1>1, <1>2
<1>5. QED
  BY <1>1, <1>2, <1>3, <1>4

\* What stands where in the bytes of a request.
LEMMA WireOf ==
    ASSUME NEW k \in Nat, NEW kind \in AllKinds
    PROVE  /\ Wire(k, kind) \in Seq(Tokens) /\ Len(Wire(k, kind)) = 8 + LengthOf(kind)
           /\ Wire(k, kind)[1] = LineOf(k, kind) /\ Wire(k, kind)[4] = HeaderOf(k, kind)
           /\ \A i \in {2, 5, 7} : /\ Wire(k, kind)[i] = <<"cr", 0>>
                                   /\ Wire(k, kind)[i + 1] = <<"lf", 0>>
           /\ \A i \in 1..LengthOf(kind) : Wire(k, kind)[8 + i] = <<"body", k>>
<1> DEFINE l == LineOf(k, kind)
           h == HeaderOf(k, kind)
           cr == <<"cr", 0>>
           lf == <<"lf", 0>>
           b == IF kind = "post" THEN [i \in 1..BodyLen |-> <<"body", k>>] ELSE <<>>
           w1 == <<l>> \o CRLF
           w2 == w1 \o <<h>>
           w3 == w2 \o CRLF
           w4 == w3 \o CRLF
<1>1. l \in Tokens /\ h \in Tokens /\ cr \in Tokens /\ lf \in Tokens
  <2>1. /\ (IF kind \in {"post", "badLine"} THEN kind ELSE "get")
             \in {"get", "post", "badLine"}
        /\ (CASE kind = "post" -> "length" [] kind = "badHeader" -> "noColon"
              [] OTHER -> "header") \in {"length", "noColon", "header"}
    BY DEF AllKinds
  <2>2. QED
    BY <2>1 DEF LineOf, HeaderOf, Tokens
<1>2. /\ b \in Seq(Tokens) /\ Len(b) = LengthOf(kind)
      /\ \A i \in 1..LengthOf(kind) : b[i] = <<"body", k>>
  <2>1. CASE kind = "post"
    <3>1. <<"body", k>> \in Tokens
      BY DEF Tokens
    <3>2. b = [i \in 1..BodyLen |-> <<"body", k>>]
      BY <2>1
    <3>3. b \in Seq(Tokens) /\ Len(b) = BodyLen /\ \A i \in 1..BodyLen : b[i] = <<"body", k>>
      BY <3>1, <3>2, BodyAssumption
    <3>4. QED
      BY <2>1, <3>3 DEF LengthOf
  <2>2. CASE kind # "post"
    <3>1. b = <<>> /\ LengthOf(kind) = 0
      BY <2>2 DEF LengthOf
    <3> HIDE DEF b
    <3>2. QED
      BY <3>1, EmptySeq
  <2>3. QED
    BY <2>1, <2>2
<1>3. Wire(k, kind) = w4 \o b
  BY DEF Wire, LineOf, HeaderOf
<1> HIDE DEF l, h, b, cr, lf
<1> DEFINE H == <<h>>
           E == <<cr, lf>>
           v == w4 \o b
<1>4. CRLF = E
  BY DEF CRLF, cr, lf
<1>5. /\ w1 \in Seq(Tokens) /\ Len(w1) = 3 /\ w1[1] = l /\ w1[2] = cr /\ w1[3] = lf
      /\ H \in Seq(Tokens) /\ Len(H) = 1 /\ H[1] = h
      /\ E \in Seq(Tokens) /\ Len(E) = 2 /\ E[1] = cr /\ E[2] = lf
  BY <1>1, <1>4
<1>6. w2 = w1 \o H /\ w3 = w2 \o E /\ w4 = w3 \o E /\ v = w4 \o b
  BY <1>4
<1> HIDE DEF w1, w2, w3, w4, v, H, E
<1>7. /\ w2 \in Seq(Tokens) /\ Len(w2) = 4
      /\ \A i \in 1..3 : w2[i] = w1[i]
      /\ w2[4] = h
  <2>1. w1 \in Seq(Tokens) /\ H \in Seq(Tokens) /\ w2 = w1 \o H
    BY <1>5, <1>6
  <2>2. /\ w2 \in Seq(Tokens) /\ Len(w2) = Len(w1) + Len(H)
        /\ \A i \in 1..Len(w1) : w2[i] = w1[i]
        /\ \A i \in 1..Len(H) : w2[Len(w1) + i] = H[i]
    BY <2>1, Joined
  <2>3. QED
    BY <1>5, <2>2
<1>8. /\ w3 \in Seq(Tokens) /\ Len(w3) = 6
      /\ \A i \in 1..4 : w3[i] = w2[i]
      /\ w3[5] = cr /\ w3[6] = lf
  <2>1. w2 \in Seq(Tokens) /\ E \in Seq(Tokens) /\ w3 = w2 \o E
    BY <1>5, <1>6, <1>7
  <2>2. /\ w3 \in Seq(Tokens) /\ Len(w3) = Len(w2) + Len(E)
        /\ \A i \in 1..Len(w2) : w3[i] = w2[i]
        /\ \A i \in 1..Len(E) : w3[Len(w2) + i] = E[i]
    BY <2>1, Joined
  <2>3. QED
    BY <1>5, <1>7, <2>2
<1>9. /\ w4 \in Seq(Tokens) /\ Len(w4) = 8
      /\ \A i \in 1..6 : w4[i] = w3[i]
      /\ w4[7] = cr /\ w4[8] = lf
  <2>1. w3 \in Seq(Tokens) /\ E \in Seq(Tokens) /\ w4 = w3 \o E
    BY <1>5, <1>6, <1>8
  <2>2. /\ w4 \in Seq(Tokens) /\ Len(w4) = Len(w3) + Len(E)
        /\ \A i \in 1..Len(w3) : w4[i] = w3[i]
        /\ \A i \in 1..Len(E) : w4[Len(w3) + i] = E[i]
    BY <2>1, Joined
  <2>3. QED
    BY <1>5, <1>8, <2>2
<1>10. /\ v \in Seq(Tokens) /\ Len(v) = 8 + LengthOf(kind)
       /\ \A i \in 1..8 : v[i] = w4[i]
       /\ \A i \in 1..LengthOf(kind) : v[8 + i] = <<"body", k>>
  <2>1. w4 \in Seq(Tokens) /\ b \in Seq(Tokens) /\ v = w4 \o b
    BY <1>2, <1>6, <1>9
  <2>2. /\ v \in Seq(Tokens) /\ Len(v) = Len(w4) + Len(b)
        /\ \A i \in 1..Len(w4) : v[i] = w4[i]
        /\ \A i \in 1..Len(b) : v[Len(w4) + i] = b[i]
    BY <2>1, Joined
  <2>3. QED
    BY <1>2, <1>9, <2>2
<1>11. /\ v[1] = l /\ v[2] = cr /\ v[3] = lf /\ v[4] = h /\ v[5] = cr /\ v[6] = lf
       /\ v[7] = cr /\ v[8] = lf
  BY <1>5, <1>7, <1>8, <1>9, <1>10
<1>12. Wire(k, kind) = v
  BY <1>3, <1>6
<1>13. QED
  BY <1>10, <1>11, <1>12 DEF l, h, cr, lf

\* Stream and EndOf for the requests ks.
Toks(ks) == FlattenSeq([k \in DOMAIN ks |-> Wire(k, ks[k])])
Ends(ks, k) == Len(FlattenSeq([i \in 1..k |-> Wire(i, ks[i])]))

\* Where the requests are in the stream.
LEMMA StreamOf ==
    ASSUME NEW ks \in Seq(AllKinds)
    PROVE  /\ Toks(ks) \in Seq(Tokens) /\ Ends(ks, 0) = 0 /\ Ends(ks, Len(ks)) = Len(Toks(ks))
           /\ \A k \in 0..Len(ks) : Ends(ks, k) \in 0..Len(Toks(ks))
           /\ \A k \in 1..Len(ks) :
                /\ Ends(ks, k) = Ends(ks, k - 1) + Len(Wire(k, ks[k]))
                /\ \A i \in 1..Len(Wire(k, ks[k])) :
                     Toks(ks)[Ends(ks, k - 1) + i] = Wire(k, ks[k])[i]
<1> DEFINE n == Len(ks)
           s == [k \in 1..n |-> Wire(k, ks[k])]
<1>1. n \in Nat /\ DOMAIN ks = 1..n /\ \A k \in 1..n : ks[k] \in AllKinds
  OBVIOUS
<1>2. s \in [1..n -> Seq(Tokens)]
  <2>1. ASSUME NEW k \in 1..n PROVE Wire(k, ks[k]) \in Seq(Tokens)
    <3>1. k \in Nat /\ ks[k] \in AllKinds
      BY <1>1
    <3>2. QED
      BY <3>1, WireOf
  <2>2. QED
    BY <2>1
<1>3. Toks(ks) = FlattenSeq(s) /\ s = [i \in 1..n |-> s[i]]
  BY <1>1 DEF Toks
<1>4. ASSUME NEW k \in 0..n PROVE Ends(ks, k) = Len(FlattenSeq([i \in 1..k |-> s[i]]))
  <2>1. [i \in 1..k |-> s[i]] = [i \in 1..k |-> Wire(i, ks[i])]
    BY <1>1
  <2>2. QED
    BY <2>1 DEF Ends
<1>5. \A k \in 1..n : s[k] = Wire(k, ks[k])
  OBVIOUS
<1> HIDE DEF s, n
<1>6. PICK F \in [0..n -> Seq(Tokens)] :
         /\ F[0] = <<>>
         /\ \A k \in 1..n : F[k] = F[k - 1] \o s[k]
         /\ \A k \in 0..n : FlattenSeq([i \in 1..k |-> s[i]]) = F[k]
  <2>1. PICK m, p : m = n /\ p = s
    OBVIOUS
  <2>2. m \in Nat
    BY <1>1, <2>1
  <2>3. p \in [1..m -> Seq(Tokens)]
    BY <1>2, <2>1
  <2>4. \E F : Flattened(Tokens, m, p, F)
    BY <2>2, <2>3, FlattenByParts, Zenon
  <2>5. QED
    BY <2>1, <2>4, Zenon DEF Flattened
<1>7. Toks(ks) = F[n] /\ \A k \in 0..n : Ends(ks, k) = Len(F[k])
  <2>1. n \in 0..n
    BY <1>1
  <2>2. FlattenSeq([i \in 1..n |-> s[i]]) = F[n]
    BY <1>6, <2>1
  <2>3. QED
    BY <1>3, <1>4, <1>6, <2>2
<1>8. ASSUME NEW k \in 1..n
      PROVE  /\ F[k - 1] \in Seq(Tokens) /\ s[k] \in Seq(Tokens) /\ F[k] \in Seq(Tokens)
             /\ Len(F[k]) = Len(F[k - 1]) + Len(s[k])
             /\ \A i \in 1..Len(F[k - 1]) : F[k][i] = F[k - 1][i]
             /\ \A i \in 1..Len(s[k]) : F[k][Len(F[k - 1]) + i] = s[k][i]
  <2>1. F[k - 1] \in Seq(Tokens) /\ s[k] \in Seq(Tokens) /\ F[k] = F[k - 1] \o s[k]
    <3>1. k - 1 \in 0..n
      BY <1>1
    <3>2. QED
      BY <1>2, <1>6, <3>1
  <2>2. PICK a, b, v : a = F[k - 1] /\ b = s[k] /\ v = F[k]
    OBVIOUS
  <2>3. a \in Seq(Tokens) /\ b \in Seq(Tokens) /\ v = a \o b
    BY <2>1, <2>2
  <2>4. /\ v \in Seq(Tokens) /\ Len(v) = Len(a) + Len(b)
        /\ \A i \in 1..Len(a) : v[i] = a[i]
        /\ \A i \in 1..Len(b) : v[Len(a) + i] = b[i]
    BY <2>3, Joined
  <2>5. QED
    BY <2>2, <2>3, <2>4
<1> DEFINE Kept(m) == \A k \in 0..n : k <= m =>
                         /\ Len(F[k]) <= Len(F[m])
                         /\ \A i \in 1..Len(F[k]) : F[m][i] = F[k][i]
           Good == {m \in Nat : m <= n => Kept(m)}
<1>9. 0 \in Good
  BY <1>6
<1>10. ASSUME NEW m \in Nat, m \in Good PROVE m + 1 \in Good
  <2>1. SUFFICES ASSUME m + 1 <= n PROVE Kept(m + 1)
    OBVIOUS
  <2>2. Kept(m)
    BY <1>10, <2>1, <1>1
  <2>3. m + 1 \in 1..n /\ (m + 1) - 1 = m /\ m \in 0..n
    BY <1>1, <2>1
  <2> HIDE DEF Kept, Good
  <2>4. /\ F[m] \in Seq(Tokens) /\ s[m + 1] \in Seq(Tokens)
        /\ Len(F[m + 1]) = Len(F[m]) + Len(s[m + 1])
        /\ \A i \in 1..Len(F[m]) : F[m + 1][i] = F[m][i]
    <3>1. PICK j \in 1..n : j = m + 1 /\ j - 1 = m
      BY <2>3
    <3>2. /\ F[j - 1] \in Seq(Tokens) /\ s[j] \in Seq(Tokens)
          /\ Len(F[j]) = Len(F[j - 1]) + Len(s[j])
          /\ \A i \in 1..Len(F[j - 1]) : F[j][i] = F[j - 1][i]
      BY <1>8, Zenon
    <3>3. QED
      BY <3>1, <3>2, Zenon
  <2>5. SUFFICES ASSUME NEW k \in 0..n, k <= m + 1
                 PROVE  /\ Len(F[k]) <= Len(F[m + 1])
                        /\ \A i \in 1..Len(F[k]) : F[m + 1][i] = F[k][i]
    BY DEF Kept
  <2>6. CASE k = m + 1
    <3>1. F[k] \in Seq(Tokens)
      BY <1>6
    <3>2. QED
      BY <2>6, <3>1
  <2>7. CASE k <= m
    <3>1. /\ Len(F[k]) <= Len(F[m]) /\ F[k] \in Seq(Tokens)
          /\ \A i \in 1..Len(F[k]) : F[m][i] = F[k][i]
      BY <1>6, <2>2, <2>7 DEF Kept
    <3>2. /\ Len(F[k]) \in Nat /\ Len(F[m]) \in Nat /\ Len(s[m + 1]) \in Nat
          /\ Len(F[m + 1]) = Len(F[m]) + Len(s[m + 1])
      BY <2>4, <3>1
    <3>3. ASSUME NEW i \in 1..Len(F[k]) PROVE F[m + 1][i] = F[k][i]
      <4>1. i \in 1..Len(F[m])
        <5>1. PICK x \in Nat, y \in Nat : x = Len(F[k]) /\ y = Len(F[m])
          BY <3>2
        <5>2. QED
          BY <3>1, <5>1
      <4>2. F[m + 1][i] = F[m][i] /\ F[m][i] = F[k][i]
        BY <2>4, <3>1, <4>1
      <4>3. QED
        BY <4>2
    <3>4. Len(F[k]) <= Len(F[m + 1])
      <4>1. PICK x \in Nat, y \in Nat, z \in Nat :
               x = Len(F[k]) /\ y = Len(F[m]) /\ z = Len(s[m + 1])
        BY <3>2
      <4>2. x <= y /\ Len(F[m + 1]) = y + z
        BY <3>1, <3>2, <4>1
      <4>3. x <= y + z
        BY <4>2
      <4>4. QED
        BY <4>1, <4>2, <4>3, Zenon
    <3>5. QED
      BY <3>3, <3>4
  <2>8. QED
    BY <1>1, <2>5, <2>6, <2>7
<1>11. Kept(n)
  <2>1. n \in Good
    <3> HIDE DEF Good
    <3> QED
      BY <1>1, <1>9, <1>10, SetInduction
  <2>2. QED
    BY <1>1, <2>1
<1>12. ASSUME NEW k \in 0..n
       PROVE  Ends(ks, k) \in 0..Len(Toks(ks)) /\ F[k] \in Seq(Tokens)
  BY <1>1, <1>6, <1>7, <1>11
<1>13. ASSUME NEW k \in 1..n
       PROVE  /\ Ends(ks, k) = Ends(ks, k - 1) + Len(Wire(k, ks[k]))
              /\ \A i \in 1..Len(Wire(k, ks[k])) :
                   Toks(ks)[Ends(ks, k - 1) + i] = Wire(k, ks[k])[i]
  <2>1. k \in 0..n /\ k - 1 \in 0..n /\ k <= n
    BY <1>1
  <2>2. Ends(ks, k) = Len(F[k]) /\ Ends(ks, k - 1) = Len(F[k - 1])
    BY <1>7, <2>1
  <2>3. \A i \in 1..Len(F[k]) : F[n][i] = F[k][i]
    BY <1>11, <2>1
  <2>4. \A i \in 1..Len(s[k]) : Len(F[k - 1]) + i \in 1..Len(F[k])
    <3>1. /\ Len(F[k - 1]) \in Nat /\ Len(s[k]) \in Nat
          /\ Len(F[k]) = Len(F[k - 1]) + Len(s[k])
      <4>1. /\ F[k - 1] \in Seq(Tokens) /\ s[k] \in Seq(Tokens)
            /\ Len(F[k]) = Len(F[k - 1]) + Len(s[k])
        BY <1>8, Zenon
      <4>2. QED
        BY <4>1
    <3>2. PICK a \in Nat, b \in Nat :
             a = Len(F[k - 1]) /\ b = Len(s[k]) /\ Len(F[k]) = a + b
      BY <3>1
    <3>3. \A i \in 1..b : a + i \in 1..(a + b)
      OBVIOUS
    <3>4. QED
      BY <3>2, <3>3, Zenon
  <2> HIDE DEF Kept
  <2>5. \A i \in 1..Len(s[k]) : F[n][Len(F[k - 1]) + i] = s[k][i]
    BY <1>8, <2>3, <2>4
  <2>6. QED
    BY <1>5, <1>7, <1>8, <2>2, <2>5
<1>14. Ends(ks, 0) = 0 /\ Ends(ks, n) = Len(Toks(ks)) /\ Toks(ks) \in Seq(Tokens)
  BY <1>1, <1>6, <1>7
<1>15. QED
  BY <1>12, <1>13, <1>14 DEF n

-----------------------------------------------------------------------------
(* What the parser finds in the buffer.                                     *)

\* The buffer holds the stream from position p to what was received.
LEMMA CutAt ==
    ASSUME NEW T \in Seq(Tokens), NEW n \in 0..Len(T), NEW p \in 0..n,
           NEW b, b = SubSeq(T, p + 1, n)
    PROVE  /\ b \in Seq(Tokens) /\ Len(b) = n - p /\ Len(b) \in Nat
           /\ \A i \in 1..(n - p) : b[i] = T[p + i]
           /\ p < n => b # <<>> /\ Head(b) = T[p + 1]
<1>1. Len(T) \in Nat /\ n \in Nat /\ p \in Nat /\ p <= n /\ n <= Len(T)
  OBVIOUS
<1>2. p + 1 \in Int /\ n \in Int /\ \A i \in (p + 1)..n : T[i] \in Tokens
  BY <1>1
<1>3. /\ b \in Seq(Tokens) /\ Len(b) = IF p + 1 <= n THEN n - (p + 1) + 1 ELSE 0
      /\ \A i \in 1..(n - (p + 1) + 1) : b[i] = T[(p + 1) + i - 1]
  BY <1>2, SubSeqProperties
<1>4. Len(b) = n - p /\ Len(b) \in Nat
  BY <1>1, <1>3
<1>5. ASSUME NEW i \in 1..(n - p) PROVE b[i] = T[p + i]
  <2>1. i \in 1..(n - (p + 1) + 1) /\ (p + 1) + i - 1 = p + i
    BY <1>1
  <2>2. QED
    BY <1>3, <2>1
<1>6. ASSUME p < n PROVE b # <<>> /\ Head(b) = T[p + 1]
  <2>1. 1 \in 1..(n - p) /\ Len(b) # 0
    BY <1>1, <1>4, <1>6
  <2>2. b # <<>> /\ Head(b) = b[1]
    BY <1>3, <2>1
  <2>3. QED
    BY <1>5, <2>1, <2>2
<1>7. QED
  BY <1>3, <1>4, <1>5, <1>6

\* What is left when m tokens were retrieved.
LEMMA CutFurther ==
    ASSUME NEW T \in Seq(Tokens), NEW n \in 0..Len(T), NEW p \in 0..n,
           NEW b, b = SubSeq(T, p + 1, n), NEW m \in 0..(n - p)
    PROVE  SubSeq(b, m + 1, Len(b)) = SubSeq(T, (p + m) + 1, n)
<1>1. /\ Len(T) \in Nat /\ n \in Nat /\ p \in Nat /\ m \in Nat /\ p + m \in 0..n
      /\ n <= Len(T) /\ p + m <= n
  OBVIOUS
<1>2. b \in Seq(Tokens) /\ Len(b) = n - p /\ \A i \in 1..(n - p) : b[i] = T[p + i]
  BY CutAt
<1>3. PICK c, d : c = SubSeq(b, m + 1, Len(b)) /\ d = SubSeq(T, (p + m) + 1, n)
  OBVIOUS
<1>4. PICK q \in 0..n : q = p + m
  BY <1>1
<1>5. d \in Seq(Tokens) /\ Len(d) = n - q /\ \A i \in 1..(n - q) : d[i] = T[q + i]
  BY <1>3, <1>4, CutAt
<1>6. PICK l \in Nat : l = Len(b) /\ l = n - p /\ m \in 0..l /\ l \in 0..Len(b)
  BY <1>1, <1>2
<1>7. c = SubSeq(b, m + 1, l)
  BY <1>3, <1>6
<1>8. c \in Seq(Tokens) /\ Len(c) = l - m /\ \A i \in 1..(l - m) : c[i] = b[m + i]
  BY <1>2, <1>6, <1>7, CutAt
<1>9. l - m = n - q
  BY <1>1, <1>4, <1>6
<1>10. ASSUME NEW i \in 1..(n - q) PROVE c[i] = d[i]
  <2>1. m + i \in 1..(n - p) /\ p + (m + i) = q + i
    BY <1>1, <1>4
  <2>2. b[m + i] = T[q + i]
    BY <1>2, <2>1
  <2>3. QED
    BY <1>5, <1>8, <1>9, <2>2
<1>11. c = d
  BY <1>5, <1>8, <1>9, <1>10, SeqEqual
<1>12. QED
  BY <1>3, <1>11

\* findCRLF in front of a line that is not empty, and of one that is.
LEMMA FindCRLFOf ==
    ASSUME buffer \in Seq(Tokens)
    PROVE  /\ /\ 1 <= Len(buffer) => buffer[1] # <<"cr", 0>>
              /\ 3 <= Len(buffer) => buffer[2] = <<"cr", 0>> /\ buffer[3] = <<"lf", 0>>
              => FindCRLF = IF 3 <= Len(buffer) THEN 2 ELSE 0
           /\ (2 <= Len(buffer) => buffer[1] = <<"cr", 0>> /\ buffer[2] = <<"lf", 0>>)
              => FindCRLF = IF 2 <= Len(buffer) THEN 1 ELSE 0
           /\ FindCRLF # 0 => Len(buffer) >= 2
<1> DEFINE n == Len(buffer)
           at == {i \in 1..(n - 1) : SubSeq(buffer, i, i + 1) = CRLF}
<1>1. n \in Nat
  OBVIOUS
<1>2. ASSUME NEW i \in 1..(n - 1)
      PROVE  i \in at <=> buffer[i] = <<"cr", 0>> /\ buffer[i + 1] = <<"lf", 0>>
  <2>1. i \in Nat /\ i + 1 \in Nat /\ \A j \in i..(i + 1) : buffer[j] \in Tokens
    BY <1>1
  <2>2. PICK c : c = SubSeq(buffer, i, i + 1)
    OBVIOUS
  <2>3. /\ c \in Seq(Tokens) /\ Len(c) = 2 /\ c[1] = buffer[i] /\ c[2] = buffer[i + 1]
    <3>1. i \in Int /\ i + 1 \in Int
      BY <2>1
    <3>2. /\ c \in Seq(Tokens)
          /\ Len(c) = IF i <= i + 1 THEN (i + 1) - i + 1 ELSE 0
          /\ \A j \in 1..((i + 1) - i + 1) : c[j] = buffer[i + j - 1]
      BY <2>1, <2>2, <3>1, SubSeqProperties
    <3>3. /\ (i + 1) - i + 1 = 2 /\ i <= i + 1 /\ i + 1 - 1 = i /\ i + 2 - 1 = i + 1
      BY <2>1
    <3>4. QED
      BY <3>2, <3>3
  <2>4. PICK x, y : x = <<"cr", 0>> /\ y = <<"lf", 0>>
    OBVIOUS
  <2>5. x \in Tokens /\ y \in Tokens /\ CRLF = <<x, y>>
    BY <2>4 DEF Tokens, CRLF
  <2>6. /\ <<x, y>> \in Seq(Tokens) /\ Len(<<x, y>>) = 2
        /\ <<x, y>>[1] = x /\ <<x, y>>[2] = y
    BY <2>5
  <2>7. c = CRLF <=> c[1] = x /\ c[2] = y
    <3>1. PICK e : e = <<x, y>>
      OBVIOUS
    <3>2. e \in Seq(Tokens) /\ Len(e) = 2 /\ e[1] = x /\ e[2] = y
      BY <2>6, <3>1
    <3>3. ASSUME c[1] = x, c[2] = y PROVE c = e
      <4>1. \A j \in 1..2 : c[j] = e[j]
        BY <3>2, <3>3
      <4>2. QED
        BY <2>3, <3>2, <4>1, SeqEqual
    <3>4. QED
      BY <2>5, <3>1, <3>2, <3>3
  <2>8. QED
    BY <2>2, <2>3, <2>4, <2>7
<1>3. FindCRLF = IF at = {} THEN 0 ELSE CHOOSE i \in at : \A j \in at : i <= j
  BY DEF FindCRLF
<1>4. at \subseteq 1..(n - 1)
  OBVIOUS
<1> HIDE DEF at
<1>5. ASSUME NEW f \in at, \A j \in at : f <= j PROVE FindCRLF = f
  <2>1. \A i \in at : (\A j \in at : i <= j) => i = f
    BY <1>1, <1>4, <1>5
  <2>2. QED
    BY <1>3, <1>5, <2>1
<1>6. ASSUME 1 <= n => buffer[1] # <<"cr", 0>>,
             3 <= n => buffer[2] = <<"cr", 0>> /\ buffer[3] = <<"lf", 0>>
      PROVE  FindCRLF = IF 3 <= n THEN 2 ELSE 0
  <2>1. 1 \notin at
    BY <1>1, <1>2, <1>4, <1>6
  <2>2. CASE 3 <= n
    <3>1. 2 \in 1..(n - 1) /\ 2 + 1 = 3
      BY <1>1, <2>2
    <3>2. 2 \in at
      BY <1>2, <1>6, <2>2, <3>1
    <3>3. \A j \in at : 2 <= j
      BY <1>1, <1>4, <2>1
    <3>4. QED
      BY <1>5, <2>2, <3>2, <3>3
  <2>3. CASE ~(3 <= n)
    <3>1. at = {}
      BY <1>1, <1>4, <2>1, <2>3
    <3>2. QED
      BY <1>3, <2>3, <3>1
  <2>4. QED
    BY <2>2, <2>3
<1>7. ASSUME 2 <= n => buffer[1] = <<"cr", 0>> /\ buffer[2] = <<"lf", 0>>
      PROVE  FindCRLF = IF 2 <= n THEN 1 ELSE 0
  <2>1. CASE 2 <= n
    <3>1. 1 \in 1..(n - 1) /\ 1 + 1 = 2
      BY <1>1, <2>1
    <3>2. 1 \in at
      BY <1>2, <1>7, <2>1, <3>1
    <3>3. \A j \in at : 1 <= j
      BY <1>1, <1>4
    <3>4. QED
      BY <1>5, <2>1, <3>2, <3>3
  <2>2. CASE ~(2 <= n)
    <3>1. at = {}
      BY <1>1, <1>4, <2>2
    <3>2. QED
      BY <1>3, <2>2, <3>1
  <2>3. QED
    BY <2>1, <2>2
<1>8. FindCRLF # 0 => n >= 2
  <2>1. FindCRLF # 0 => at # {}
    BY <1>3
  <2>2. ASSUME NEW i \in at PROVE n >= 2
    BY <1>1, <1>4
  <2>3. QED
    BY <2>1, <2>2
<1>9. QED
  BY <1>6, <1>7, <1>8

\* The same of the buffer of the parser.
LEMMA ReceivedCut ==
    ASSUME NEW T \in Seq(Tokens), sent \in 0..Len(T), NEW p \in 0..sent,
           buffer = SubSeq(T, p + 1, sent)
    PROVE  /\ buffer \in Seq(Tokens) /\ Len(buffer) = sent - p
           /\ \A i \in 1..(sent - p) : buffer[i] = T[p + i]
           /\ p < sent => Head(buffer) = T[p + 1]
<1>1. PICK n \in 0..Len(T) : n = sent
  OBVIOUS
<1>2. Len(T) \in Nat /\ n \in Nat /\ p \in Nat /\ p <= n /\ n <= Len(T)
  BY <1>1
<1>3. p + 1 \in Int /\ n \in Int /\ \A i \in (p + 1)..n : T[i] \in Tokens
  BY <1>2
<1>4. buffer = SubSeq(T, p + 1, n)
  BY <1>1
<1>5. /\ buffer \in Seq(Tokens) /\ Len(buffer) = IF p + 1 <= n THEN n - (p + 1) + 1 ELSE 0
      /\ \A i \in 1..(n - (p + 1) + 1) : buffer[i] = T[(p + 1) + i - 1]
  BY <1>3, <1>4, SubSeqProperties
<1>6. Len(buffer) = n - p
  BY <1>2, <1>5
<1>7. ASSUME NEW i \in 1..(n - p) PROVE buffer[i] = T[p + i]
  <2>1. i \in 1..(n - (p + 1) + 1) /\ (p + 1) + i - 1 = p + i
    BY <1>2
  <2>2. QED
    BY <1>5, <2>1
<1>8. ASSUME p < n PROVE Head(buffer) = T[p + 1]
  <2>1. 1 \in 1..(n - p) /\ Len(buffer) # 0
    BY <1>2, <1>6, <1>8
  <2>2. Head(buffer) = buffer[1]
    BY <1>5, <2>1
  <2>3. QED
    BY <1>7, <2>1, <2>2
<1>9. QED
  BY <1>1, <1>5, <1>6, <1>7, <1>8

LEMMA LineAt ==
    ASSUME NEW T \in Seq(Tokens), sent \in 0..Len(T), NEW p \in 0..sent,
           buffer = SubSeq(T, p + 1, sent),
           p + 3 <= Len(T) =>
              /\ T[p + 1] # <<"cr", 0>> /\ T[p + 2] = <<"cr", 0>> /\ T[p + 3] = <<"lf", 0>>,
           p + 3 <= Len(T) \/ p = Len(T)
    PROVE  /\ FindCRLF \in {0, 2}
           /\ FindCRLF # 0 => /\ p + 3 <= sent /\ Head(buffer) = T[p + 1]
                              /\ Retrieve = SubSeq(T, (p + 3) + 1, sent)
<1>1. PICK n, b : n \in 0..Len(T) /\ n = sent /\ b = buffer
  OBVIOUS
<1>2. n \in Nat /\ p \in Nat /\ p <= n /\ n <= Len(T) /\ Len(T) \in Nat /\ p \in 0..n
  BY <1>1
<1>3. b = SubSeq(T, p + 1, n)
  BY <1>1
<1>4. /\ b \in Seq(Tokens) /\ Len(b) = n - p /\ \A i \in 1..(n - p) : b[i] = T[p + i]
      /\ p < n => Head(b) = T[p + 1]
  BY <1>1, ReceivedCut
<1>5. /\ 1 <= Len(b) => b[1] # <<"cr", 0>>
      /\ 3 <= Len(b) => b[2] = <<"cr", 0>> /\ b[3] = <<"lf", 0>>
  <2>1. /\ 1 <= n - p => b[1] = T[p + 1] /\ p + 3 <= Len(T)
        /\ 3 <= n - p => b[2] = T[p + 2] /\ b[3] = T[p + 3] /\ p + 3 <= Len(T)
    BY <1>2, <1>4
  <2>2. QED
    BY <1>4, <2>1
<1>6. FindCRLF = IF 3 <= Len(buffer) THEN 2 ELSE 0
  <2>1. buffer \in Seq(Tokens)
    BY <1>1, <1>4
  <2>2. /\ 1 <= Len(buffer) => buffer[1] # <<"cr", 0>>
        /\ 3 <= Len(buffer) => buffer[2] = <<"cr", 0>> /\ buffer[3] = <<"lf", 0>>
    BY <1>1, <1>5
  <2>3. QED
    BY <2>1, <2>2, FindCRLFOf
<1>7. FindCRLF \in {0, 2} /\ (FindCRLF # 0 => FindCRLF = 2 /\ 3 <= Len(b))
  BY <1>1, <1>6
<1>8. ASSUME FindCRLF # 0
      PROVE  /\ p + 3 <= sent /\ Head(buffer) = T[p + 1]
             /\ Retrieve = SubSeq(T, (p + 3) + 1, sent)
  <2>1. p + 3 <= n /\ p < n /\ 3 \in 0..(n - p)
    BY <1>2, <1>4, <1>7, <1>8
  <2>2. SubSeq(b, 3 + 1, Len(b)) = SubSeq(T, (p + 3) + 1, n)
    BY <1>2, <1>3, <2>1, CutFurther
  <2>3. FindCRLF + 2 = 3 + 1
    BY <1>7, <1>8
  <2>4. Retrieve = SubSeq(b, 3 + 1, Len(b))
    BY <1>1, <2>3 DEF Retrieve
  <2>5. QED
    BY <1>1, <1>4, <2>1, <2>2, <2>4
<1>9. QED
  BY <1>7, <1>8

LEMMA BlankAt ==
    ASSUME NEW T \in Seq(Tokens), sent \in 0..Len(T), NEW p \in 0..sent,
           buffer = SubSeq(T, p + 1, sent), p + 2 <= Len(T),
           T[p + 1] = <<"cr", 0>>, T[p + 2] = <<"lf", 0>>
    PROVE  /\ FindCRLF \in {0, 1}
           /\ FindCRLF # 0 => /\ p + 2 <= sent
                              /\ Retrieve = SubSeq(T, (p + 2) + 1, sent)
<1>1. PICK n, b : n \in 0..Len(T) /\ n = sent /\ b = buffer
  OBVIOUS
<1>2. n \in Nat /\ p \in Nat /\ p <= n /\ n <= Len(T) /\ Len(T) \in Nat /\ p \in 0..n
  BY <1>1
<1>3. b = SubSeq(T, p + 1, n)
  BY <1>1
<1>4. b \in Seq(Tokens) /\ Len(b) = n - p /\ \A i \in 1..(n - p) : b[i] = T[p + i]
  BY <1>1, ReceivedCut
<1>5. 2 <= Len(b) => b[1] = <<"cr", 0>> /\ b[2] = <<"lf", 0>>
  BY <1>2, <1>4
<1>6. FindCRLF = IF 2 <= Len(buffer) THEN 1 ELSE 0
  <2>1. buffer \in Seq(Tokens)
    BY <1>1, <1>4
  <2>2. 2 <= Len(buffer) => buffer[1] = <<"cr", 0>> /\ buffer[2] = <<"lf", 0>>
    BY <1>1, <1>5
  <2>3. QED
    BY <2>1, <2>2, FindCRLFOf
<1>7. FindCRLF \in {0, 1} /\ (FindCRLF # 0 => FindCRLF = 1 /\ 2 <= Len(b))
  BY <1>1, <1>6
<1>8. ASSUME FindCRLF # 0
      PROVE  p + 2 <= sent /\ Retrieve = SubSeq(T, (p + 2) + 1, sent)
  <2>1. p + 2 <= n /\ 2 \in 0..(n - p)
    BY <1>2, <1>4, <1>7, <1>8
  <2>2. SubSeq(b, 2 + 1, Len(b)) = SubSeq(T, (p + 2) + 1, n)
    BY <1>2, <1>3, <2>1, CutFurther
  <2>3. FindCRLF + 2 = 2 + 1
    BY <1>7, <1>8
  <2>4. Retrieve = SubSeq(b, 2 + 1, Len(b))
    BY <1>1, <2>3 DEF Retrieve
  <2>5. QED
    BY <1>1, <2>1, <2>2, <2>4
<1>9. QED
  BY <1>7, <1>8

\* The tokens of request q + 1, which begins at position e of the stream T.
RequestAt(T, e, q, kind) ==
    /\ e \in Nat /\ e + 8 + LengthOf(kind) <= Len(T)
    /\ T[e + 1] = LineOf(q + 1, kind) /\ T[e + 4] = HeaderOf(q + 1, kind)
    /\ T[e + 2] = <<"cr", 0>> /\ T[e + 3] = <<"lf", 0>>
    /\ T[e + 5] = <<"cr", 0>> /\ T[e + 6] = <<"lf", 0>>
    /\ T[e + 7] = <<"cr", 0>> /\ T[e + 8] = <<"lf", 0>>
    /\ \A i \in 1..LengthOf(kind) : T[(e + 8) + i] = <<"body", q + 1>>

LEMMA RequestInStream ==
    ASSUME NEW ks \in Seq(AllKinds), NEW q \in Nat, q < Len(ks)
    PROVE  /\ RequestAt(Toks(ks), Ends(ks, q), q, ks[q + 1])
           /\ Ends(ks, q + 1) = Ends(ks, q) + 8 + LengthOf(ks[q + 1])
           /\ ks[q + 1] \in AllKinds /\ LengthOf(ks[q + 1]) \in Nat
<1>1. PICK k, e, T, w : /\ k = q + 1 /\ e = Ends(ks, q) /\ T = Toks(ks)
                        /\ w = Wire(q + 1, ks[q + 1])
  OBVIOUS
<1>2. Len(ks) \in Nat /\ k \in 1..Len(ks) /\ k - 1 = q /\ q \in 0..Len(ks)
  BY <1>1
<1>3. ks[k] \in AllKinds /\ k \in Nat /\ k \in 0..Len(ks)
  BY <1>2
<1>4. /\ Len(w) = 8 + LengthOf(ks[k])
      /\ w[1] = LineOf(k, ks[k]) /\ w[4] = HeaderOf(k, ks[k])
      /\ \A i \in {2, 5, 7} : w[i] = <<"cr", 0>> /\ w[i + 1] = <<"lf", 0>>
      /\ \A i \in 1..LengthOf(ks[k]) : w[8 + i] = <<"body", k>>
  <2>1. w = Wire(k, ks[k])
    BY <1>1
  <2>2. QED
    BY <1>3, <2>1, WireOf, Zenon
<1>5. /\ Ends(ks, k) = e + Len(w) /\ e \in 0..Len(T) /\ Ends(ks, k) \in 0..Len(T)
      /\ \A i \in 1..Len(w) : T[e + i] = w[i]
  <2>1. /\ Ends(ks, k) = Ends(ks, k - 1) + Len(Wire(k, ks[k]))
        /\ \A i \in 1..Len(Wire(k, ks[k])) :
             Toks(ks)[Ends(ks, k - 1) + i] = Wire(k, ks[k])[i]
    BY <1>2, StreamOf, Zenon
  <2>2. Ends(ks, q) \in 0..Len(Toks(ks)) /\ Ends(ks, k) \in 0..Len(Toks(ks))
    BY <1>2, <1>3, StreamOf, Zenon
  <2>3. QED
    BY <1>1, <1>2, <2>1, <2>2, Zenon
<1>6. T \in Seq(Tokens)
  BY <1>1, StreamOf, Zenon
<1>7. PICK l \in Nat : l = LengthOf(ks[k])
  BY BodyAssumption DEF LengthOf
<1>8. e \in Nat /\ Len(T) \in Nat /\ Len(w) = 8 + l /\ e + 8 + l <= Len(T)
  <2>1. Len(T) \in Nat
    BY <1>6
  <2>2. Len(w) = 8 + l
    BY <1>4, <1>7
  <2>3. e \in 0..Len(T) /\ e + Len(w) \in 0..Len(T)
    BY <1>5
  <2>4. QED
    BY <2>1, <2>2, <2>3
<1>9. \A i \in 1..(8 + l) : T[e + i] = w[i]
  BY <1>5, <1>8
<1>10. /\ T[e + 1] = w[1] /\ T[e + 2] = w[2] /\ T[e + 3] = w[3] /\ T[e + 4] = w[4]
       /\ T[e + 5] = w[5] /\ T[e + 6] = w[6] /\ T[e + 7] = w[7] /\ T[e + 8] = w[8]
  BY <1>9
<1>11. w[2 + 1] = w[3] /\ w[5 + 1] = w[6] /\ w[7 + 1] = w[8]
  OBVIOUS
<1>12. ASSUME NEW i \in 1..l PROVE T[(e + 8) + i] = <<"body", k>>
  <2>1. 8 + i \in 1..(8 + l) /\ e + (8 + i) = (e + 8) + i
    BY <1>8
  <2>2. w[8 + i] = <<"body", k>>
    BY <1>4, <1>7
  <2>3. T[e + (8 + i)] = w[8 + i]
    BY <1>9, <2>1
  <2>4. QED
    BY <2>1, <2>2, <2>3
<1>13. RequestAt(T, e, q, ks[k])
  BY <1>1, <1>4, <1>7, <1>8, <1>10, <1>11, <1>12 DEF RequestAt
<1>14. Ends(ks, k) = e + 8 + l
  BY <1>5, <1>8
<1>15. QED
  BY <1>1, <1>3, <1>7, <1>13, <1>14

-----------------------------------------------------------------------------
(* Where the parser is in the stream.                                       *)
Requests == [path : Nat, method : {"kInvalid", "kGet", "kPost"}, length : Nat,
             body : Seq(Tokens)]

ParseTypes ==
    /\ kinds \in Seq(AllKinds) /\ Len(kinds) \in 1..MaxRequests
    /\ sent \in 0..Len(Toks(kinds))
    /\ request \in Requests /\ called \in Seq(Requests)

\* The parser has consumed p tokens.
Rest(p) == p \in 0..sent /\ buffer = SubSeq(Toks(kinds), p + 1, sent)

\* r is what the parser knows of request k after its request line.
Named(r, k, kind) == r.path = k /\ r.method = (IF kind = "post" THEN "kPost" ELSE "kGet")

\* Seen, for a request of a given kind.
SeenAs(r, k, kind) ==
    /\ Named(r, k, kind) /\ r.length = LengthOf(kind)
    /\ kind = "post" => r.body = [i \in 1..BodyLen |-> <<"body", k>>]

(* The state of the parser tells where in the current request it is, whose  *)
(* number is one more than the number of calls of httpCallback_: at its     *)
(* line, its header, its blank line or its body.  A malformed line is not   *)
(* consumed, a malformed header is.                                         *)
Place(q, e) ==
    \/ /\ parsing \in {"no", "loop", "failed"} /\ state = "kExpectRequestLine"
       /\ Rest(e) /\ request.length = 0
    \/ /\ parsing \in {"no", "loop", "failed"} /\ q < Len(kinds)
       /\ Named(request, q + 1, kinds[q + 1])
       /\ \/ state = "kExpectHeaders" /\ Rest(e + 3) /\ request.length = 0
          \/ /\ state = "kExpectHeaders" /\ Rest(e + 6)
             /\ request.length = LengthOf(kinds[q + 1])
          \/ /\ state = "kExpectBody" /\ Rest(e + 8) /\ kinds[q + 1] = "post"
             /\ request.length = LengthOf(kinds[q + 1])
    \/ /\ parsing = "complete" /\ q < Len(kinds)
       /\ Rest(Ends(kinds, q + 1)) /\ SeenAs(request, q + 1, kinds[q + 1])
    \/ parsing = "answered" /\ Rest(e)

(* Nothing is parsed any more once the connection does not read.            *)
ParseInv ==
    /\ ParseTypes
    /\ Len(called) <= Len(kinds)
    /\ \A k \in 1..Len(called) : SeenAs(called[k], k, kinds[k])
    /\ IF "r" \in events THEN Place(Len(called), Ends(kinds, Len(called)))
                         ELSE parsing = "no"

\* Every turn of parseRequest keeps the parser in its place.
LEMMA ParseStepKeeps ==
    ASSUME ParseTypes, NEW q \in Nat, q <= Len(kinds), NEW e, e = Ends(kinds, q),
           Place(q, e), ParseStep, UNCHANGED <<kinds, sent>>
    PROVE  Place(q, e)' /\ request' \in Requests
<1>1. PICK T, N, n : T = Toks(kinds) /\ N = Len(kinds) /\ n = sent
  OBVIOUS
<1>2. /\ T \in Seq(Tokens) /\ Len(T) \in Nat /\ N \in Nat /\ n \in 0..Len(T)
      /\ n \in Nat /\ kinds \in Seq(AllKinds) /\ request \in Requests
  BY <1>1, StreamOf DEF ParseTypes
<1>3. e \in 0..Len(T) /\ (q = N => e = Len(T))
  BY <1>1, <1>2, StreamOf
<1>4. PICK kind, k : kind = kinds[q + 1] /\ k = q + 1
  OBVIOUS
<1>5. ASSUME q < N
      PROVE  /\ RequestAt(T, e, q, kind) /\ Ends(kinds, k) = e + 8 + LengthOf(kind)
             /\ kind \in AllKinds /\ LengthOf(kind) \in Nat
  BY <1>1, <1>2, <1>4, <1>5, RequestInStream
<1>6. parsing = "loop"
  BY DEF ParseStep, ParseRequestLine, ParseHeader, ParseBlank, ParseIncomplete,
     ParseRequestBody
<1>7. ASSUME NEW p PROVE Rest(p) <=> p \in 0..n /\ buffer = SubSeq(T, p + 1, n)
  BY <1>1 DEF Rest
<1>8. ASSUME NEW p PROVE Rest(p)' <=> p \in 0..n /\ buffer' = SubSeq(T, p + 1, n)
  BY <1>1 DEF Rest
<1>9. CASE ParseRequestLine
  <2>1. /\ state = "kExpectRequestLine" /\ FindCRLF # 0 /\ Rest(e) /\ request.length = 0
    BY <1>6, <1>9 DEF ParseRequestLine, Place
  <2>2. e + 3 <= Len(T) \/ e = Len(T)
    <3>1. CASE q < N
      <4>1. PICK x, m : x = LengthOf(kind) /\ m = Len(T)
        OBVIOUS
      <4>2. x \in Nat /\ m \in Nat /\ e \in Nat /\ e + 8 + x <= m
        BY <1>2, <1>5, <3>1, <4>1 DEF RequestAt
      <4>3. e + 3 <= m
        BY <4>2
      <4>4. QED
        BY <4>1, <4>3
    <3>2. CASE ~(q < N)
      BY <1>1, <1>2, <1>3, <3>2
    <3>3. QED
      BY <3>1, <3>2
  <2>3. e + 3 <= Len(T) => q < N
    BY <1>1, <1>2, <1>3
  <2>4. LineOf(k, kind) # <<"cr", 0>>
    BY <1>5 DEF LineOf
  <2>5. e + 3 <= Len(T) =>
           T[e + 1] # <<"cr", 0>> /\ T[e + 2] = <<"cr", 0>> /\ T[e + 3] = <<"lf", 0>>
    BY <1>4, <1>5, <2>3, <2>4 DEF RequestAt
  <2>6. e \in 0..sent /\ buffer = SubSeq(T, e + 1, sent) /\ sent \in 0..Len(T)
    BY <1>1, <1>2, <1>7, <2>1
  <2>7. /\ e + 3 <= sent /\ Head(buffer) = T[e + 1]
        /\ Retrieve = SubSeq(T, (e + 3) + 1, sent)
    BY <1>2, <2>1, <2>2, <2>5, <2>6, LineAt
  <2>8. q < N /\ kind \in AllKinds /\ Head(buffer) = LineOf(k, kind)
    <3>1. e + 3 <= Len(T)
      BY <1>2, <1>3, <2>6, <2>7
    <3>2. q < N
      BY <2>3, <3>1
    <3>3. QED
      BY <1>4, <1>5, <2>7, <3>2 DEF RequestAt
  <2>9. CASE kind = "badLine"
    <3>1. LineOf(k, kind)[1] = "badLine"
      BY <2>9 DEF LineOf
    <3>2. parsing' = "failed" /\ UNCHANGED <<state, request, buffer>>
      BY <1>9, <2>8, <3>1 DEF ParseRequestLine, Finish
    <3>3. Rest(e)'
      BY <1>7, <1>8, <2>1, <3>2
    <3>4. QED
      BY <1>2, <2>1, <3>2, <3>3 DEF Place
  <2>10. CASE kind # "badLine"
    <3>1. /\ LineOf(k, kind)[1] = (IF kind = "post" THEN "post" ELSE "get")
          /\ LineOf(k, kind)[2] = k
      BY <2>8, <2>10 DEF LineOf, AllKinds
    <3>2. /\ state' = "kExpectHeaders" /\ UNCHANGED parsing /\ buffer' = Retrieve
          /\ request' = [request EXCEPT !.path = k,
                           !.method = IF kind = "post" THEN "kPost" ELSE "kGet"]
      BY <1>9, <2>8, <3>1 DEF ParseRequestLine, GoOn
    <3>3. /\ request' \in Requests /\ Named(request, k, kind)' /\ request'.length = 0
      <4>1. k \in Nat
        BY <1>4
      <4>2. QED
        BY <1>2, <2>1, <3>2, <4>1 DEF Requests, Named
    <3>4. Rest(e + 3)'
      <4>1. e + 3 \in 0..n
        BY <1>1, <1>2, <1>3, <2>7
      <4>2. QED
        BY <1>1, <1>8, <2>7, <3>2, <4>1
    <3>5. QED
      BY <1>1, <1>4, <1>6, <2>8, <3>2, <3>3, <3>4 DEF Place
  <2>11. QED
    BY <2>9, <2>10
<1>10. CASE ParseHeader \/ ParseBlank
  <2>1. /\ state = "kExpectHeaders" /\ q < N /\ Named(request, k, kind)
        /\ \/ Rest(e + 3) /\ request.length = 0
           \/ Rest(e + 6) /\ request.length = LengthOf(kind)
    BY <1>1, <1>4, <1>6, <1>10 DEF ParseHeader, ParseBlank, Place
  <2>2. RequestAt(T, e, q, kind) /\ Ends(kinds, k) = e + 8 + LengthOf(kind)
           /\ kind \in AllKinds /\ LengthOf(kind) \in Nat /\ e \in Nat
           /\ e + 8 + LengthOf(kind) <= Len(T)
    BY <1>5, <2>1 DEF RequestAt
  <2>3. (ParseHeader => FindCRLF > 1) /\ (ParseBlank => FindCRLF = 1)
    BY DEF ParseHeader, ParseBlank
  <2>4. e \in Nat /\ Len(T) \in Nat /\ e + 8 <= Len(T)
    <3>1. PICK x, m : x = LengthOf(kind) /\ m = Len(T)
      OBVIOUS
    <3>2. x \in Nat /\ m \in Nat /\ e \in Nat /\ e + 8 + x <= m
      BY <1>2, <2>2, <3>1
    <3>3. e + 8 <= m
      BY <3>2
    <3>4. QED
      BY <3>1, <3>2, <3>3
  <2>5. CASE Rest(e + 3) /\ request.length = 0
    <3>1. PICK p : p = e + 3
      OBVIOUS
    <3>2. /\ p \in 0..sent /\ buffer = SubSeq(T, p + 1, sent) /\ sent \in 0..Len(T)
      BY <1>1, <1>2, <1>7, <2>5, <3>1
    <3>3. /\ p + 1 = e + 4 /\ p + 2 = e + 5 /\ p + 3 = e + 6 /\ p + 3 <= Len(T)
      BY <2>4, <3>1
    <3>4. HeaderOf(k, kind) # <<"cr", 0>>
      BY DEF HeaderOf
    <3>5. T[p + 1] # <<"cr", 0>> /\ T[p + 2] = <<"cr", 0>> /\ T[p + 3] = <<"lf", 0>>
      BY <1>4, <2>2, <3>3, <3>4 DEF RequestAt
    <3>6. /\ FindCRLF \in {0, 2}
          /\ FindCRLF # 0 => /\ p + 3 <= sent /\ Head(buffer) = T[p + 1]
                             /\ Retrieve = SubSeq(T, (p + 3) + 1, sent)
      BY <1>2, <3>2, <3>3, <3>5, LineAt
    <3>7. ParseHeader /\ FindCRLF = 2
      BY <1>10, <2>3, <3>6
    <3>8. e + 6 <= sent /\ Head(buffer) = HeaderOf(k, kind)
             /\ Retrieve = SubSeq(T, (e + 6) + 1, sent)
      <4>1. /\ p + 3 <= sent /\ Head(buffer) = T[p + 1]
            /\ Retrieve = SubSeq(T, (p + 3) + 1, sent)
        BY <3>6, <3>7
      <4>2. QED
        BY <1>4, <2>2, <3>3, <4>1 DEF RequestAt
    <3>9. /\ HeaderOf(k, kind)[1] = CASE kind = "post" -> "length"
               [] kind = "badHeader" -> "noColon" [] OTHER -> "header"
      BY DEF HeaderOf
    <3>10. /\ state' = state /\ buffer' = Retrieve
           /\ request' = IF kind = "post" THEN [request EXCEPT !.length = BodyLen]
                                          ELSE request
           /\ parsing' = IF kind = "badHeader" THEN "failed" ELSE parsing
      <4>1. CASE kind = "post"
        BY <3>7, <3>8, <3>9, <4>1 DEF ParseHeader, GoOn
      <4>2. CASE kind = "badHeader"
        BY <3>7, <3>8, <3>9, <4>2 DEF ParseHeader, Finish
      <4>3. CASE kind \notin {"post", "badHeader"}
        BY <3>7, <3>8, <3>9, <4>3 DEF ParseHeader, GoOn
      <4>4. QED
        BY <4>1, <4>2, <4>3
    <3>11. /\ request' \in Requests /\ Named(request, k, kind)'
           /\ request'.length = LengthOf(kind)
      BY <1>2, <2>1, <2>5, <3>10, BodyAssumption DEF Requests, Named, LengthOf
    <3>12. Rest(e + 6)'
      <4>1. e + 6 \in 0..n
        BY <1>1, <1>2, <2>4, <3>8
      <4>2. QED
        BY <1>1, <1>8, <3>8, <3>10, <4>1
    <3>13. QED
      BY <1>1, <1>4, <1>6, <2>1, <3>10, <3>11, <3>12 DEF Place
  <2>6. CASE Rest(e + 6) /\ request.length = LengthOf(kind)
    <3>1. PICK p : p = e + 6
      OBVIOUS
    <3>2. /\ p \in 0..sent /\ buffer = SubSeq(T, p + 1, sent) /\ sent \in 0..Len(T)
      BY <1>1, <1>2, <1>7, <2>6, <3>1
    <3>3. /\ p + 1 = e + 7 /\ p + 2 = e + 8 /\ p + 2 <= Len(T)
      BY <2>4, <3>1
    <3>4. T[p + 1] = <<"cr", 0>> /\ T[p + 2] = <<"lf", 0>>
      BY <2>2, <3>3 DEF RequestAt
    <3>5. /\ FindCRLF \in {0, 1}
          /\ FindCRLF # 0 => p + 2 <= sent /\ Retrieve = SubSeq(T, (p + 2) + 1, sent)
      BY <1>2, <3>2, <3>3, <3>4, BlankAt
    <3>6. ParseBlank /\ FindCRLF = 1
      BY <1>10, <2>3, <3>5
    <3>7. e + 8 <= sent /\ Retrieve = SubSeq(T, (e + 8) + 1, sent)
      BY <3>3, <3>5, <3>6
    <3>8. buffer' = Retrieve /\ request' = request
      BY <3>6 DEF ParseBlank, GoOn, Finish
    <3>9. Rest(e + 8)'
      <4>1. e + 8 \in 0..n
        BY <1>1, <1>2, <2>4, <3>7
      <4>2. QED
        BY <1>1, <1>8, <3>7, <3>8, <4>1
    <3>10. CASE kind = "post"
      <4>1. state' = "kExpectBody" /\ parsing' = parsing
        BY <2>1, <3>6, <3>10 DEF ParseBlank, GoOn, Named
      <4>2. QED
        BY <1>1, <1>2, <1>4, <1>6, <2>1, <2>6, <3>8, <3>9, <3>10, <4>1 DEF Place, Named
    <3>11. CASE kind # "post"
      <4>1. parsing' = "complete"
        BY <2>1, <3>6, <3>11 DEF ParseBlank, Finish, Named
      <4>2. Ends(kinds, k) = e + 8
        BY <2>2, <3>11 DEF LengthOf
      <4>3. SeenAs(request, k, kind)'
        BY <2>1, <2>6, <3>8, <3>11 DEF SeenAs, Named
      <4>4. Rest(Ends(kinds, k))'
        BY <3>9, <4>2
      <4>5. QED
        BY <1>1, <1>2, <1>4, <2>1, <3>8, <4>1, <4>3, <4>4 DEF Place
    <3>12. QED
      BY <3>10, <3>11
  <2>7. QED
    BY <2>1, <2>5, <2>6
<1>11. CASE ParseIncomplete
  <2>1. parsing' = "no" /\ UNCHANGED <<state, request, buffer>>
          /\ state \in {"kExpectRequestLine", "kExpectHeaders"}
    BY <1>11 DEF ParseIncomplete, Finish
  <2>2. \A p : Rest(p) => Rest(p)'
    BY <1>7, <1>8, <2>1
  <2>3. Named(request, k, kind) => Named(request, k, kind)'
    BY <2>1 DEF Named
  <2>4. QED
    BY <1>2, <1>4, <1>6, <2>1, <2>2, <2>3 DEF Place
<1>12. CASE ParseRequestBody
  <2>1. /\ state = "kExpectBody" /\ q < N /\ Named(request, k, kind)
        /\ Rest(e + 8) /\ kind = "post" /\ request.length = BodyLen
    BY <1>1, <1>4, <1>6, <1>12 DEF ParseRequestBody, Place, LengthOf
  <2>2. /\ RequestAt(T, e, q, kind) /\ Ends(kinds, k) = (e + 8) + BodyLen
        /\ BodyLen \in Nat /\ e \in Nat /\ LengthOf(kind) = BodyLen
    BY <1>5, <2>1, BodyAssumption DEF RequestAt, LengthOf
  <2>3. CASE UNCHANGED <<state, request, buffer>> /\ parsing' \in {"no", "failed"}
    <3>1. Rest(e + 8)'
      BY <1>7, <1>8, <2>1, <2>3
    <3>2. Named(request, k, kind)'
      BY <2>1, <2>3 DEF Named
    <3>3. QED
      BY <1>1, <1>2, <1>4, <2>1, <2>2, <2>3, <3>1, <3>2 DEF Place
  <2>4. CASE /\ Len(buffer) = BodyLen /\ parsing' = "complete" /\ buffer' = <<>>
             /\ request' = [request EXCEPT !.body = buffer]
    <3>1. PICK p, b : p = e + 8 /\ b = buffer
      OBVIOUS
    <3>2. p \in 0..n /\ b = SubSeq(T, p + 1, n)
      BY <1>7, <2>1, <3>1
    <3>3. /\ b \in Seq(Tokens) /\ Len(b) = n - p
          /\ \A i \in 1..(n - p) : b[i] = T[p + i]
      BY <1>2, <3>2, CutAt
    <3>4. n = p + BodyLen /\ n - p = BodyLen
      <4>1. n - p = BodyLen
        BY <2>4, <3>1, <3>3
      <4>2. n \in Nat /\ p \in Nat /\ BodyLen \in Nat
        BY <1>2, <2>2, <3>2
      <4>3. QED
        BY <4>1, <4>2
    <3>5. \A i \in 1..BodyLen : b[i] = <<"body", k>>
      BY <1>4, <2>2, <3>1, <3>3, <3>4 DEF RequestAt
    <3>6. b = [i \in 1..BodyLen |-> <<"body", k>>]
      <4>1. Len(b) = BodyLen /\ b \in [1..Len(b) -> Tokens]
        BY <2>4, <3>1, <3>3, LenProperties
      <4>2. QED
        BY <3>5, <4>1
    <3>7. SeenAs(request, k, kind)' /\ request' \in Requests
      BY <1>2, <2>1, <2>2, <2>4, <3>1, <3>3, <3>6 DEF SeenAs, Named, Requests
    <3>8. Rest(Ends(kinds, k))'
      <4>1. SubSeq(T, n + 1, n) = <<>>
        BY <1>2, SubSeqEmpty
      <4>2. Ends(kinds, k) = n /\ n \in 0..n
        BY <1>2, <2>2, <3>1, <3>4
      <4>3. QED
        BY <1>8, <2>4, <4>1, <4>2
    <3>9. QED
      BY <1>1, <1>4, <2>1, <2>4, <3>7, <3>8 DEF Place
  <2>5. QED
    BY <1>12, <2>1, <2>3, <2>4 DEF ParseRequestBody, Finish
<1>13. QED
  BY <1>9, <1>10, <1>11, <1>12 DEF ParseStep

-----------------------------------------------------------------------------
(* The output path of the connection.                                       *)
ByteSet == Nat \X Nat
HttpFiles == (MaxRequests + 1)..(2 * MaxRequests)
Callbacks ==
    {NoCallback, CloseConnectionCallback}
      \cup {SendFileCallback(c, o, f) : c \in BOOLEAN, o \in BOOLEAN, f \in HttpFiles}

OutTypes ==
    /\ pipelining \in BOOLEAN /\ writeFailed \in BOOLEAN /\ wrShut \in BOOLEAN
    /\ connState \in {"kConnected", "kDisConnecting", "kDisConnected"}
    /\ events \in SUBSET {"r", "w"}
    /\ outputBuffer \in Seq(ByteSet) /\ wire \in Seq(ByteSet) /\ owed \in Seq(ByteSet)
    /\ inflight \in 0..SndBuf /\ overhead \in 0..SndBuf /\ depth \in Nat
    /\ callback \in Callbacks /\ running \in Callbacks /\ last \in Responses

\* What an operation of the connection may do to the socket.
OutStep ==
    /\ outputBuffer' \in Seq(ByteSet) /\ wire' \in Seq(ByteSet)
    /\ inflight' \in 0..SndBuf /\ depth' \in Nat /\ writeFailed' \in BOOLEAN
    /\ events' \in {events, events \cup {"w"}, events \ {"w"}}
    /\ writeFailed = TRUE => writeFailed' = TRUE

LEMMA Sizes ==
    /\ MsgLen \in Nat /\ FileLen \in Nat /\ SndBuf \in Nat /\ MaxRequests \in Nat
    /\ MsgLen # 0 /\ FileLen # 0
  BY HttpAssumption

LEMMA BytesOf ==
    /\ \A k \in 1..MaxRequests : TC!Bytes(k) \in Seq(ByteSet) /\ Len(TC!Bytes(k)) = MsgLen
    /\ \A f \in HttpFiles : TC!Bytes(f) \in Seq(ByteSet) /\ Len(TC!Bytes(f)) = FileLen
<1>1. ASSUME NEW x \in Nat, NEW n \in Nat
      PROVE  /\ [i \in 1..n |-> <<x, i>>] \in Seq(ByteSet)
             /\ Len([i \in 1..n |-> <<x, i>>]) = n
  <2>1. \A i \in 1..n : <<x, i>> \in ByteSet
    BY DEF ByteSet
  <2>2. QED
    BY <2>1
<1>2. ASSUME NEW k \in 1..MaxRequests
      PROVE  TC!Bytes(k) \in Seq(ByteSet) /\ Len(TC!Bytes(k)) = MsgLen
  <2>1. k \in Nat /\ k \notin HttpFiles
    BY Sizes DEF HttpFiles
  <2>2. TC!Bytes(k) = [i \in 1..MsgLen |-> <<k, i>>]
    BY <2>1 DEF TC!Bytes, HttpFiles
  <2>3. QED
    BY <1>1, <2>1, <2>2, Sizes
<1>3. ASSUME NEW f \in HttpFiles
      PROVE  TC!Bytes(f) \in Seq(ByteSet) /\ Len(TC!Bytes(f)) = FileLen
  <2>1. f \in Nat
    BY Sizes DEF HttpFiles
  <2>2. TC!Bytes(f) = [i \in 1..FileLen |-> <<f, i>>]
    BY DEF TC!Bytes, HttpFiles
  <2>3. QED
    BY <1>1, <2>1, <2>2, Sizes
<1>4. QED
  BY <1>2, <1>3

LEMMA Regroup ==
    ASSUME NEW u \in Seq(ByteSet), NEW v \in Seq(ByteSet), NEW w \in Seq(ByteSet)
    PROVE  (u \o v) \o w = u \o (v \o w)
  BY SMTT(30)

\* What write() takes from the front and what is left.
LEMMA Split ==
    ASSUME NEW s \in Seq(ByteSet), NEW n \in 0..Len(s)
    PROVE  \E a, b \in Seq(ByteSet) :
              /\ a = SubSeq(s, 1, n) /\ b = SubSeq(s, n + 1, Len(s))
              /\ Len(a) = n /\ a \o b = s
              /\ n = Len(s) => b = <<>> /\ a = s
              /\ n # Len(s) => b # <<>>
<1>0. PICK a, b : a = SubSeq(s, 1, n) /\ b = SubSeq(s, n + 1, Len(s))
  OBVIOUS
<1>1. /\ a \in Seq(ByteSet) /\ b \in Seq(ByteSet) /\ Len(a) = n /\ Len(b) = Len(s) - n
      /\ Len(s) \in Nat /\ n \in Nat /\ n <= Len(s)
      /\ \A i \in 1..n : a[i] = s[i]
      /\ \A i \in 1..(Len(s) - n) : b[i] = s[n + i]
  BY <1>0
<1>2. PICK c : c = a \o b
  OBVIOUS
<1>3. /\ c \in Seq(ByteSet) /\ Len(c) = Len(a) + Len(b)
      /\ \A i \in 1..Len(a) : c[i] = a[i]
      /\ \A i \in 1..Len(b) : c[Len(a) + i] = b[i]
  <2>1. a \in Seq(ByteSet) /\ b \in Seq(ByteSet)
    BY <1>1
  <2>2. QED
    BY <1>2, <2>1, Joined
<1>4. Len(c) = Len(s)
  BY <1>1, <1>3
<1>5. ASSUME NEW i \in 1..Len(c) PROVE c[i] = s[i]
  <2>1. CASE i <= n
    <3>1. i \in 1..n /\ i \in 1..Len(a)
      BY <1>1, <1>4, <2>1
    <3>2. QED
      BY <1>1, <1>3, <3>1
  <2>2. CASE ~(i <= n)
    <3>1. PICK j \in 1..(Len(s) - n) : n + j = i
      <4>1. i - n \in 1..(Len(s) - n) /\ n + (i - n) = i
        BY <1>1, <1>4, <2>2
      <4>2. QED
        BY <4>1
    <3>2. QED
      BY <1>1, <1>3, <3>1
  <2>3. QED
    BY <2>1, <2>2
<1>6. c = s
  BY <1>3, <1>4, <1>5, SeqEqual
<1>7. b = <<>> <=> Len(b) = 0
  BY <1>1, EmptySeq
<1>8. n = Len(s) <=> b = <<>>
  BY <1>1, <1>7
<1>9. b = <<>> => a = s
  BY <1>1, <1>2, <1>6, ConcatEmptySeq
<1>10. QED
  BY <1>0, <1>1, <1>2, <1>6, <1>8, <1>9

LEMMA WriteReturns ==
    ASSUME inflight \in 0..SndBuf, NEW len \in Nat
    PROVE  /\ TC!Accepted(len) \in Int
           /\ TC!Accepted(len) >= 0 => /\ TC!Accepted(len) \in 0..len
                                       /\ inflight + TC!Accepted(len) \in 0..SndBuf
  BY Sizes DEF TC!Accepted

\* sendInLoop of the head of response k.
LEMMA SendStep ==
    ASSUME OutTypes, NEW k \in 1..MaxRequests, TC!SendInLoop(k)
    PROVE  /\ UNCHANGED <<connState, file, wrShut, fault>> /\ OutStep
           /\ connState # "kConnected" =>
                UNCHANGED <<outputBuffer, events, wire, depth, writeFailed, inflight>>
           /\ /\ connState = "kConnected" /\ outputBuffer = <<>> /\ "w" \notin events
              /\ writeFailed' = FALSE
              => \/ /\ outputBuffer' = <<>> /\ wire' = wire \o TC!Bytes(k)
                    /\ depth' = depth + 1 /\ events' = events
                 \/ /\ outputBuffer' # <<>> /\ depth' = depth /\ "w" \in events'
                    /\ wire' \o outputBuffer' = wire \o TC!Bytes(k)
<1>1. CASE connState # "kConnected"
  BY <1>1 DEF TC!SendInLoop, TC!opVars, TC!connVars, OutStep, OutTypes
<1>2. CASE connState = "kConnected"
  <2>1. PICK x, n : x = TC!Bytes(k) /\ n = TC!Accepted(MsgLen)
    OBVIOUS
  <2>2. /\ x \in Seq(ByteSet) /\ Len(x) = MsgLen /\ MsgLen \in Nat
        /\ n \in Int /\ (n >= 0 => n \in 0..MsgLen /\ inflight + n \in 0..SndBuf)
    BY <2>1, BytesOf, Sizes, WriteReturns DEF OutTypes
  <2>3. UNCHANGED <<connState, file, wrShut, fault>>
    BY <1>2 DEF TC!SendInLoop
  <2>4. CASE /\ TC!DirectWriteAllowed /\ n >= 0
             /\ TC!Take(SubSeq(x, 1, n)) /\ TC!KeepRest(SubSeq(x, n + 1, MsgLen))
             /\ depth' = (IF n = MsgLen THEN depth + 1 ELSE depth) /\ UNCHANGED writeFailed
    <3>1. x \in Seq(ByteSet) /\ n \in 0..Len(x)
      BY <2>2, <2>4
    <3>2. PICK a, b \in Seq(ByteSet) :
             /\ a = SubSeq(x, 1, n) /\ b = SubSeq(x, n + 1, Len(x))
             /\ Len(a) = n /\ a \o b = x
             /\ n = Len(x) => b = <<>> /\ a = x
             /\ n # Len(x) => b # <<>>
      BY <3>1, Split
    <3>3. /\ wire' = wire \o a /\ inflight' = inflight + n
          /\ outputBuffer' = outputBuffer \o b
          /\ events' = IF b = <<>> THEN events ELSE events \cup {"w"}
      BY <2>2, <2>4, <3>1, <3>2 DEF TC!Take, TC!KeepRest
    <3>4. outputBuffer = <<>> /\ outputBuffer' = b
      BY <2>4, <3>2, <3>3, ConcatEmptySeq DEF TC!DirectWriteAllowed
    <3>5. wire \in Seq(ByteSet) /\ wire' \in Seq(ByteSet)
      BY <3>2, <3>3 DEF OutTypes
    <3>6. (wire \o a) \o b = wire \o (a \o b)
      <4>1. wire \in Seq(ByteSet) /\ a \in Seq(ByteSet) /\ b \in Seq(ByteSet)
        BY <3>2, <3>5
      <4>2. QED
        BY <4>1, Regroup, Zenon
    <3>7. OutStep
      BY <2>2, <2>4, <3>2, <3>3, <3>4, <3>5 DEF OutStep, OutTypes
    <3>8. CASE n = MsgLen
      BY <1>2, <2>1, <2>2, <2>3, <2>4, <3>2, <3>3, <3>4, <3>7, <3>8
    <3>9. CASE n # MsgLen
      <4>1. outputBuffer' # <<>> /\ depth' = depth /\ "w" \in events'
        BY <2>2, <2>4, <3>2, <3>3, <3>4, <3>9
      <4>2. wire' \o outputBuffer' = wire \o x
        BY <3>2, <3>3, <3>4, <3>6
      <4>3. QED
        BY <1>2, <2>1, <2>3, <3>7, <4>1, <4>2
    <3>10. QED
      BY <3>8, <3>9
  <2>5. CASE /\ TC!KeepRest(<<TC!Stray>> \o x) /\ writeFailed' = TRUE
             /\ UNCHANGED <<wire, inflight, depth>>
    <3>1. <<TC!Stray>> \in Seq(ByteSet)
      BY DEF TC!Stray, ByteSet
    <3>2. <<TC!Stray>> \o x \in Seq(ByteSet)
      BY <2>2, <3>1
    <3>3. outputBuffer' \in Seq(ByteSet) /\ events' \in {events, events \cup {"w"}}
      BY <2>5, <3>2 DEF TC!KeepRest, OutTypes
    <3>4. OutStep
      BY <2>5, <3>3 DEF OutStep, OutTypes
    <3>5. QED
      BY <1>2, <2>3, <2>5, <3>4
  <2>6. CASE /\ ~TC!DirectWriteAllowed /\ TC!KeepRest(x)
             /\ UNCHANGED <<wire, inflight, depth, writeFailed>>
    <3>1. outputBuffer' \in Seq(ByteSet) /\ events' \in {events, events \cup {"w"}}
      BY <2>2, <2>6 DEF TC!KeepRest, OutTypes
    <3>2. OutStep
      BY <2>6, <3>1 DEF OutStep, OutTypes
    <3>3. QED
      BY <1>2, <2>3, <2>6, <3>2 DEF TC!DirectWriteAllowed
  <2>7. QED
    BY <1>2, <2>1, <2>4, <2>5, <2>6 DEF TC!SendInLoop
<1>3. QED
  BY <1>1, <1>2

LEMMA PrefixOfConcat ==
    ASSUME NEW w \in Seq(ByteSet), NEW u \in Seq(ByteSet)
    PROVE  IsPrefix(w, w \o u)
<1>1. /\ Len(w) \in Nat /\ Len(u) \in Nat /\ Len(w \o u) = Len(w) + Len(u)
      /\ w \o u \in Seq(ByteSet)
      /\ \A i \in 1..Len(w) : (w \o u)[i] = w[i]
  OBVIOUS
<1>2. SubSeq(w, 1, Len(w)) = SubSeq(w \o u, 1, Len(w))
  BY <1>1
<1>3. QED
  BY <1>1, <1>2 DEF IsPrefix

LEMMA PrefixOfItself == ASSUME NEW w \in Seq(ByteSet) PROVE IsPrefix(w, w)
  BY DEF IsPrefix

\* sendFileInLoop of the file of a response.
LEMMA FileStep ==
    ASSUME OutTypes, NEW f \in HttpFiles, NEW opened \in BOOLEAN,
           TC!SendFileInLoop(f, opened)
    PROVE  /\ UNCHANGED <<connState, outputBuffer, wrShut>> /\ OutStep
           /\ fault' = fault \/ fault' = "sendFile"
           /\ file = {} /\ opened = FALSE =>
                UNCHANGED <<events, file, wire, depth, writeFailed, inflight, fault>>
           /\ /\ file = {} /\ opened = TRUE /\ outputBuffer = <<>> /\ "w" \notin events
              /\ writeFailed' = FALSE
              => \/ /\ wire' = wire \o TC!Bytes(f) /\ depth' = depth + 1
                    /\ UNCHANGED <<file, events>>
                 \/ /\ file' # {} /\ depth' = depth /\ wire' # wire \o TC!Bytes(f)
                    /\ IsPrefix(wire', wire \o TC!Bytes(f))
<1>1. CASE file # {} \/ opened = FALSE
  BY <1>1 DEF TC!SendFileInLoop, TC!opVars, TC!connVars, OutStep, OutTypes
<1>2. CASE file = {} /\ opened = TRUE
  <2>1. PICK x, n : x = TC!Bytes(f) /\ n = TC!Accepted(FileLen)
    OBVIOUS
  <2>2. /\ x \in Seq(ByteSet) /\ Len(x) = FileLen /\ FileLen \in Nat
        /\ n \in Int /\ (n >= 0 => n \in 0..FileLen /\ inflight + n \in 0..SndBuf)
    BY <2>1, BytesOf, Sizes, WriteReturns DEF OutTypes
  <2>3. UNCHANGED <<connState, outputBuffer, wrShut, fault>>
    BY <1>2 DEF TC!SendFileInLoop
  <2>4. IF TC!DirectWriteAllowed /\ n = FileLen
          THEN UNCHANGED <<file, events>>
          ELSE file' = {f} /\ events' = events \cup {"w"}
    BY <1>2, <2>1 DEF TC!SendFileInLoop
  <2>5. CASE /\ TC!DirectWriteAllowed /\ n >= 0 /\ TC!Take(SubSeq(x, 1, n))
             /\ depth' = (IF n = FileLen THEN depth + 1 ELSE depth) /\ UNCHANGED writeFailed
    <3>1. x \in Seq(ByteSet) /\ n \in 0..Len(x)
      BY <2>2, <2>5
    <3>2. PICK a, b \in Seq(ByteSet) :
             /\ a = SubSeq(x, 1, n) /\ b = SubSeq(x, n + 1, Len(x))
             /\ Len(a) = n /\ a \o b = x
             /\ n = Len(x) => b = <<>> /\ a = x
             /\ n # Len(x) => b # <<>>
      BY <3>1, Split
    <3>3. wire' = wire \o a /\ inflight' = inflight + n
      BY <2>5, <3>2 DEF TC!Take
    <3>4. wire \in Seq(ByteSet) /\ wire' \in Seq(ByteSet)
      BY <3>2, <3>3 DEF OutTypes
    <3>5. OutStep
      BY <2>2, <2>3, <2>4, <2>5, <3>3, <3>4 DEF OutStep, OutTypes
    <3>6. CASE n = FileLen
      BY <1>2, <2>1, <2>2, <2>3, <2>4, <2>5, <3>2, <3>3, <3>5, <3>6
    <3>7. CASE n # FileLen
      <4>1. file' # {} /\ depth' = depth /\ b # <<>>
        BY <2>2, <2>4, <2>5, <3>2, <3>7
      <4>2. (wire \o a) \o b = wire \o (a \o b)
        <5>1. wire \in Seq(ByteSet) /\ a \in Seq(ByteSet) /\ b \in Seq(ByteSet)
          BY <3>2, <3>4
        <5>2. QED
          BY <5>1, Regroup, Zenon
      <4>3. PICK w \in Seq(ByteSet) : w = wire'
        BY <3>4
      <4>4. w \o b = wire \o x
        BY <3>2, <3>3, <4>2, <4>3
      <4>5. IsPrefix(w, w \o b) /\ w # w \o b
        <5>1. w \in Seq(ByteSet) /\ b \in Seq(ByteSet)
          BY <4>3
        <5>2. IsPrefix(w, w \o b)
          BY <5>1, PrefixOfConcat
        <5>3. w # w \o b
          BY <4>1, <5>1, ConcatEqualIffEmpty
        <5>4. QED
          BY <5>2, <5>3
      <4>6. IsPrefix(wire', wire \o x) /\ wire' # wire \o x
        BY <4>3, <4>4, <4>5
      <4>7. QED
        BY <1>2, <2>1, <2>3, <3>5, <4>1, <4>6
    <3>8. QED
      BY <3>6, <3>7
  <2>6. CASE writeFailed' = TRUE /\ UNCHANGED <<wire, inflight, depth>>
    BY <1>2, <2>3, <2>4, <2>6 DEF OutStep, OutTypes
  <2>7. CASE ~TC!DirectWriteAllowed /\ UNCHANGED <<wire, inflight, depth, writeFailed>>
    BY <1>2, <2>3, <2>4, <2>7 DEF OutStep, OutTypes, TC!DirectWriteAllowed
  <2>8. QED
    BY <1>2, <2>1, <2>5, <2>6, <2>7 DEF TC!SendFileInLoop
<1>3. QED
  BY <1>1, <1>2

\* handleWrite, called for POLLOUT.
LEMMA WriteStep ==
    ASSUME OutTypes, "w" \in events, TC!HandleWrite
    PROVE  /\ UNCHANGED <<connState, file, wrShut, fault>> /\ OutStep
           /\ writeFailed' = FALSE =>
                /\ file = {} /\ wire' \o outputBuffer' = wire \o outputBuffer
                /\ \/ outputBuffer' = <<>> /\ events' = events \ {"w"} /\ depth' = depth + 1
                   \/ outputBuffer' # <<>> /\ UNCHANGED <<events, depth>>
<1>1. PICK x, n : x = outputBuffer /\ n = TC!Accepted(Len(outputBuffer))
  OBVIOUS
<1>2. /\ x \in Seq(ByteSet) /\ Len(x) \in Nat /\ n \in Int
      /\ n >= 0 => n \in 0..Len(x) /\ inflight + n \in 0..SndBuf
  <2>1. x \in Seq(ByteSet) /\ Len(x) \in Nat /\ inflight \in 0..SndBuf
    BY <1>1 DEF OutTypes
  <2>2. QED
    BY <1>1, <2>1, WriteReturns
<1>3. CASE /\ file = {} /\ n > 0 /\ TC!Take(SubSeq(x, 1, n))
           /\ outputBuffer' = SubSeq(x, n + 1, Len(x))
           /\ (IF outputBuffer' = <<>> THEN events' = events \ {"w"} /\ depth' = depth + 1
                                       ELSE UNCHANGED <<events, depth>>)
           /\ UNCHANGED <<connState, file, wrShut, stream, writeFailed, fault>>
  <2>1. x \in Seq(ByteSet) /\ n \in 0..Len(x)
    BY <1>2, <1>3
  <2>2. PICK a, b \in Seq(ByteSet) :
           /\ a = SubSeq(x, 1, n) /\ b = SubSeq(x, n + 1, Len(x))
           /\ Len(a) = n /\ a \o b = x
           /\ n = Len(x) => b = <<>> /\ a = x
           /\ n # Len(x) => b # <<>>
    BY <2>1, Split
  <2>3. wire' = wire \o a /\ inflight' = inflight + n /\ outputBuffer' = b
    BY <1>3, <2>2 DEF TC!Take
  <2>4. wire \in Seq(ByteSet) /\ wire' \in Seq(ByteSet) /\ a \in Seq(ByteSet)
           /\ b \in Seq(ByteSet)
    <3>1. wire \in Seq(ByteSet) /\ a \in Seq(ByteSet) /\ b \in Seq(ByteSet)
      BY <2>2 DEF OutTypes
    <3>2. QED
      BY <2>3, <3>1
  <2>5. (wire \o a) \o b = wire \o (a \o b)
    <3>1. wire \in Seq(ByteSet) /\ a \in Seq(ByteSet) /\ b \in Seq(ByteSet)
      BY <2>4
    <3>2. QED
      BY <3>1, Regroup, Zenon
  <2>6. wire' \o outputBuffer' = wire \o outputBuffer
    BY <1>1, <2>2, <2>3, <2>5
  <2>7. OutStep
    <3>1. inflight' \in 0..SndBuf
      BY <1>2, <1>3, <2>3
    <3>2. depth' \in Nat /\ events' \in {events, events \ {"w"}} /\ writeFailed' = writeFailed
      BY <1>3 DEF OutTypes
    <3>3. writeFailed \in BOOLEAN
      BY DEF OutTypes
    <3>4. QED
      BY <2>3, <2>4, <3>1, <3>2, <3>3 DEF OutStep
  <2>8. QED
    BY <1>3, <2>6, <2>7
<1>4. CASE /\ writeFailed' = TRUE
           /\ UNCHANGED <<TC!connVars, depth, inflight, wrShut, stream, wire, fault>>
  BY <1>4 DEF TC!connVars, OutStep, OutTypes
<1>5. QED
  BY <1>1, <1>3, <1>4 DEF TC!HandleWrite

\* shutdown() in the IO thread.
LEMMA ShutdownStep ==
    ASSUME OutTypes, TC!Shutdown
    PROVE  /\ UNCHANGED <<events, outputBuffer, file, depth, inflight, wire,
                          writeFailed, fault>>
           /\ connState # "kConnected" => UNCHANGED <<connState, wrShut>>
           /\ connState = "kConnected" => connState' = "kDisConnecting"
           /\ wrShut' \in BOOLEAN
<1>1. CASE connState # "kConnected"
  BY <1>1 DEF TC!Shutdown, TC!opVars, TC!connVars, OutTypes
<1>2. CASE connState = "kConnected"
  BY <1>2 DEF TC!Shutdown, OutTypes
<1>3. QED
  BY <1>1, <1>2

-----------------------------------------------------------------------------
(* Every step keeps the parser in its place.                                *)
LEMMA ParserKept ==
    ASSUME ParseInv, UNCHANGED <<parserVars, kinds, sent, called>>,
           "r" \in events' <=> "r" \in events
    PROVE  ParseInv'
<1>1. UNCHANGED <<buffer, state, request, parsing>>
  BY DEF parserVars, contextVars
<1>2. ParseTypes'
  BY <1>1 DEF ParseInv, ParseTypes
<1>3. Len(called') <= Len(kinds') /\ \A k \in 1..Len(called') : SeenAs(called[k], k, kinds[k])'
  BY DEF ParseInv, SeenAs, Named
<1>4. PICK q, e : q = Len(called) /\ e = Ends(kinds, q)
  OBVIOUS
<1>5. ASSUME NEW p, Rest(p) PROVE Rest(p)'
  BY <1>1, <1>5 DEF Rest
<1>6. Place(q, e) => Place(q, e)'
  BY <1>1, <1>5 DEF Place, Named, SeenAs
<1>7. QED
  BY <1>1, <1>2, <1>3, <1>4, <1>6 DEF ParseInv

LEMMA OnMessageParses ==
    ASSUME ParseInv, OnMessage
    PROVE  ParseInv'
<1>1. PICK T, p, n : T = Toks(kinds) /\ p = sent /\ n = sent'
  OBVIOUS
<1>2. /\ parsing = "no" /\ "r" \in events /\ parsing' = "loop"
      /\ UNCHANGED <<state, request, kinds, events, called>>
      /\ Stream = T
  BY <1>1 DEF OnMessage, Idle, contextVars, sockVars, historyVars, Stream, Toks
<1>3. n \in (p + 1)..Len(T) /\ buffer' = buffer \o SubSeq(T, p + 1, n)
  BY <1>1, <1>2 DEF OnMessage
<1>4. T \in Seq(Tokens) /\ Len(T) \in Nat /\ p \in 0..Len(T) /\ n \in 0..Len(T) /\ p <= n
  <2>1. T \in Seq(Tokens) /\ p \in 0..Len(T)
    BY <1>1, StreamOf DEF ParseInv, ParseTypes
  <2>2. Len(T) \in Nat
    BY <2>1
  <2>3. QED
    BY <1>3, <2>1, <2>2
<1>5. ASSUME NEW x, Rest(x) PROVE Rest(x)'
  <2>1. x \in 0..p /\ buffer = SubSeq(T, x + 1, p)
    BY <1>1, <1>5 DEF Rest
  <2>2. /\ x + 1 \in 1..(Len(T) + 1) /\ p \in ((x + 1) - 1)..Len(T)
        /\ n \in p..Len(T) /\ x \in 0..n
    BY <1>4, <2>1
  <2>3. SubSeq(T, x + 1, p) \o SubSeq(T, p + 1, n) = SubSeq(T, x + 1, n)
    BY <1>4, <2>2, ConcatAdjacentSubSeq
  <2>4. x \in 0..n /\ buffer' = SubSeq(T, x + 1, n)
    BY <1>3, <2>1, <2>2, <2>3
  <2>5. QED
    BY <1>1, <1>2, <2>4 DEF Rest
<1>6. PICK q, e : q = Len(called) /\ e = Ends(kinds, Len(called))
  OBVIOUS
<1>7. Place(q, e)
  BY <1>2, <1>6 DEF ParseInv
<1>8. Place(q, e)'
  <2>1. Named(request, q + 1, kinds[q + 1]) => Named(request, q + 1, kinds[q + 1])'
    BY <1>2 DEF Named
  <2>2. QED
    BY <1>2, <1>5, <1>7, <2>1 DEF Place
<1>9. sent' \in 0..Len(Toks(kinds))
  BY <1>1, <1>4
<1>10. QED
  BY <1>2, <1>6, <1>8, <1>9 DEF ParseInv, ParseTypes, SeenAs, Named

LEMMA HandleCloseParses ==
    ASSUME ParseInv, HandleClose
    PROVE  ParseInv'
<1>1. /\ events' = {} /\ parsing' = "no" /\ UNCHANGED <<kinds, sent, called>>
      /\ request' = NewRequest
  BY DEF HandleClose, Idle, clientVars, historyVars
<1>2. NewRequest \in Requests
  BY EmptySeq DEF NewRequest, Requests
<1>3. QED
  BY <1>1, <1>2 DEF ParseInv, ParseTypes, SeenAs, Named

LEMMA ParseRequestParses ==
    ASSUME ParseInv, ParseRequest
    PROVE  ParseInv' /\ parsing = "loop" /\ "r" \in events
<1>1. ParseStep /\ UNCHANGED <<kinds, sent, events, called>>
  BY DEF ParseRequest, clientVars, sockVars, historyVars
<1>2. parsing = "loop"
  BY <1>1 DEF ParseStep, ParseRequestLine, ParseHeader, ParseBlank, ParseIncomplete,
     ParseRequestBody
<1>3. "r" \in events
  BY <1>2 DEF ParseInv
<1>4. PICK q, e : q = Len(called) /\ e = Ends(kinds, q)
  OBVIOUS
<1>5. ParseTypes /\ q \in Nat /\ q <= Len(kinds) /\ Place(q, e)
  BY <1>3, <1>4 DEF ParseInv, ParseTypes
<1>6. Place(q, e)' /\ request' \in Requests
  BY <1>1, <1>4, <1>5, ParseStepKeeps
<1>7. QED
  BY <1>1, <1>2, <1>3, <1>4, <1>5, <1>6 DEF ParseInv, ParseTypes, SeenAs, Named

LEMMA OnParseErrorParses ==
    ASSUME ParseInv, OnParseError, events' = events
    PROVE  ParseInv'
<1>1. /\ parsing = "failed" /\ parsing' = "no"
      /\ UNCHANGED <<buffer, state, request, kinds, sent, called>>
  BY DEF OnParseError, contextVars, clientVars, historyVars
<1>2. QED
  BY <1>1 DEF ParseInv, ParseTypes, Place, Rest, Named, SeenAs

(* httpCallback_ is called: the request is whole, and it is one of those    *)
(* the client sent.                                                         *)
LEMMA OnRequestParses ==
    ASSUME ParseInv, OnRequest, "r" \in events' <=> "r" \in events
    PROVE  ParseInv' /\ Len(called) + 1 \in 1..MaxRequests
<1>1. /\ parsing = "complete" /\ parsing' = "answered" /\ called' = Append(called, request)
      /\ UNCHANGED <<buffer, state, request, kinds, sent>>
  BY DEF OnRequest, contextVars, clientVars
<1>2. "r" \in events
  BY <1>1 DEF ParseInv
<1>3. PICK q : q = Len(called)
  OBVIOUS
<1>4. /\ q \in Nat /\ q < Len(kinds) /\ Rest(Ends(kinds, q + 1))
      /\ SeenAs(request, q + 1, kinds[q + 1])
  BY <1>1, <1>2, <1>3 DEF ParseInv, ParseTypes, Place
<1>5. /\ called \in Seq(Requests) /\ request \in Requests /\ Len(kinds) \in 1..MaxRequests
      /\ \A k \in 1..Len(called) : SeenAs(called[k], k, kinds[k])
  BY DEF ParseInv, ParseTypes
<1>6. /\ called' \in Seq(Requests) /\ Len(called') = q + 1
      /\ called'[q + 1] = request
      /\ \A k \in 1..q : called'[k] = called[k]
  BY <1>1, <1>3, <1>5
<1>7. ASSUME NEW k \in 1..(q + 1) PROVE SeenAs(called[k], k, kinds[k])'
  <2>1. CASE k = q + 1
    BY <1>1, <1>4, <1>6, <2>1 DEF SeenAs, Named
  <2>2. CASE k # q + 1
    <3>1. k \in 1..q
      BY <1>4, <2>2
    <3>2. SeenAs(called[k], k, kinds[k]) /\ called'[k] = called[k]
      BY <1>3, <1>5, <1>6, <3>1
    <3>3. QED
      BY <1>1, <3>2 DEF SeenAs, Named
  <2>3. QED
    BY <2>1, <2>2
<1>8. Rest(Ends(kinds, q + 1))'
  BY <1>1, <1>4 DEF Rest
<1>9. q + 1 \in 1..MaxRequests /\ q + 1 <= Len(kinds)
  BY <1>4, <1>5, HttpAssumption
<1>10. ParseTypes'
  BY <1>1, <1>6 DEF ParseInv, ParseTypes
<1>11. Place(Len(called), Ends(kinds, Len(called)))'
  BY <1>1, <1>6, <1>8 DEF Place
<1>12. ParseInv'
  BY <1>1, <1>2, <1>6, <1>7, <1>9, <1>10, <1>11 DEF ParseInv
<1>13. QED
  BY <1>3, <1>9, <1>12

LEMMA ResetParses ==
    ASSUME ParseInv, Reset
    PROVE  ParseInv'
<1>1. /\ parsing = "answered" /\ parsing' = "no" /\ state' = "kExpectRequestLine"
      /\ request' = Fresh(request)
      /\ UNCHANGED <<buffer, kinds, sent, called, events>>
  BY DEF Reset, clientVars, sockVars, historyVars
<1>2. "r" \in events
  BY <1>1 DEF ParseInv
<1>3. request' \in Requests /\ request'.length = 0
  BY <1>1 DEF ParseInv, ParseTypes, Requests, Fresh, NewRequest
<1>4. Rest(Ends(kinds, Len(called))) /\ Rest(Ends(kinds, Len(called)))'
  BY <1>1, <1>2 DEF ParseInv, Place, Rest
<1>5. ParseTypes'
  BY <1>1, <1>3 DEF ParseInv, ParseTypes
<1>6. Len(called') <= Len(kinds') /\ \A k \in 1..Len(called') : SeenAs(called[k], k, kinds[k])'
  BY <1>1 DEF ParseInv, SeenAs, Named
<1>7. Place(Len(called), Ends(kinds, Len(called)))'
  BY <1>1, <1>3, <1>4 DEF Place
<1>8. QED
  BY <1>1, <1>2, <1>5, <1>6, <1>7 DEF ParseInv

-----------------------------------------------------------------------------
(* Where the bytes of the responses are, for a client that waits for each   *)
(* response.  FileBytes(cb) is what calling cb will still send.             *)
FileBytes(cb) ==
    IF cb.op = "sendFile" /\ cb.opened = TRUE THEN TC!Bytes(cb.file) ELSE <<>>

Clean == pipelining = FALSE /\ writeFailed = FALSE /\ fault = "none"
Calm == depth = 0 /\ running = NoCallback
Drained == outputBuffer = <<>> /\ file = {} /\ "w" \notin events
Quiet == Calm /\ Drained /\ wire = owed

\* Nothing is left of the last response but, when it closes, a callback.
Rested == Quiet /\ (callback = NoCallback \/ last.close = TRUE)

\* A part of the head waits for POLLOUT; its callback will send the file.
HeadLeft ==
    /\ Calm /\ file = {} /\ outputBuffer # <<>>
    /\ owed = wire \o (outputBuffer \o FileBytes(callback))

\* The head, or the file, was written, and the callback is due.
Written ==
    /\ depth = 1 /\ running = NoCallback /\ Drained
    /\ owed = wire \o FileBytes(callback)

\* The callback is being called.
Calling ==
    /\ depth = 0 /\ running = callback /\ callback # NoCallback /\ Drained
    /\ owed = wire \o FileBytes(callback)

\* A part of the file was not taken: handleWrite will fail with it.
FileLeft == Calm /\ file # {} /\ IsPrefix(wire, owed) /\ wire # owed

(* While the connection is open, a request is parsed only when the last     *)
(* response is complete, and the callback knows what its response announced. *)
OpenInv ==
    /\ wrShut = FALSE
    /\ Rested \/ HeadLeft \/ Written \/ Calling \/ FileLeft
    /\ callback.op = "sendFile" => callback.close = last.close
    /\ callback.op = "closeConnection" => last.close = TRUE
    /\ parsing \in {"loop", "failed", "complete"} => Quiet /\ callback = NoCallback

ClosedInv ==
    /\ Calm /\ events = {} /\ IsPrefix(wire, owed)
    /\ wrShut = TRUE => wire = owed

WholeInv ==
    Clean => /\ connState = "kConnected" => OpenInv
             /\ connState = "kDisConnecting" => Quiet
             /\ connState = "kDisConnected" => ClosedInv

HttpInv == ParseInv /\ OutTypes /\ WholeInv

LEMMA CallbackOf ==
    ASSUME NEW cb \in Callbacks
    PROVE  /\ cb.op \in {"none", "closeConnection", "sendFile"}
           /\ cb.op = "none" <=> cb = NoCallback
           /\ cb.op = "sendFile" =>
                /\ cb.file \in HttpFiles /\ cb.opened \in BOOLEAN /\ cb.close \in BOOLEAN
           /\ cb.op # "sendFile" \/ cb.opened = FALSE => FileBytes(cb) = <<>>
           /\ cb.op = "sendFile" /\ cb.opened = TRUE => FileBytes(cb) = TC!Bytes(cb.file)
           /\ FileBytes(cb) \in Seq(ByteSet)
<1>1. CASE cb \in {NoCallback, CloseConnectionCallback}
  <2>1. cb.op # "sendFile" /\ cb.op \in {"none", "closeConnection"}
           /\ (cb.op = "none" <=> cb = NoCallback)
    BY <1>1 DEF NoCallback, CloseConnectionCallback
  <2>2. FileBytes(cb) = <<>>
    BY <2>1 DEF FileBytes
  <2>3. QED
    BY <2>1, <2>2, EmptySeq
<1>2. ASSUME NEW c \in BOOLEAN, NEW o \in BOOLEAN, NEW f \in HttpFiles,
             cb = SendFileCallback(c, o, f)
      PROVE  /\ cb.op = "sendFile" /\ cb.file = f /\ cb.opened = o /\ cb.close = c
             /\ cb # NoCallback
  BY <1>2 DEF SendFileCallback, NoCallback
<1>3. CASE \E c \in BOOLEAN, o \in BOOLEAN, f \in HttpFiles : cb = SendFileCallback(c, o, f)
  <2>1. /\ cb.op = "sendFile" /\ cb.file \in HttpFiles /\ cb.opened \in BOOLEAN
        /\ cb.close \in BOOLEAN /\ cb # NoCallback
    BY <1>2, <1>3
  <2>2. TC!Bytes(cb.file) \in Seq(ByteSet)
    BY <2>1, BytesOf
  <2>3. QED
    BY <2>1, <2>2, EmptySeq DEF FileBytes
<1>4. \/ cb \in {NoCallback, CloseConnectionCallback}
      \/ \E c \in BOOLEAN, o \in BOOLEAN, f \in HttpFiles : cb = SendFileCallback(c, o, f)
  BY DEF Callbacks
<1>5. QED
  BY <1>1, <1>3, <1>4

\* In every phase, what is on the wire is the beginning of what is owed.
LEMMA OpenPrefix ==
    ASSUME OutTypes, OpenInv
    PROVE  IsPrefix(wire, owed)
<1>1. PICK F \in Seq(ByteSet) : F = FileBytes(callback)
  BY CallbackOf DEF OutTypes
<1>2. wire \in Seq(ByteSet) /\ outputBuffer \in Seq(ByteSet)
  BY DEF OutTypes
<1>3. outputBuffer \o F \in Seq(ByteSet)
  BY <1>2
<1>4. PICK w, u : w = wire /\ u = outputBuffer \o F
  OBVIOUS
<1>5. w \in Seq(ByteSet) /\ u \in Seq(ByteSet) /\ F \in Seq(ByteSet)
  BY <1>2, <1>3, <1>4
<1>6. IsPrefix(w, w) /\ IsPrefix(w, w \o F) /\ IsPrefix(w, w \o u)
  BY <1>5, PrefixOfConcat, PrefixOfItself
<1>7. QED
  BY <1>1, <1>4, <1>6 DEF OpenInv, Rested, Quiet, HeadLeft, Written, Calling, FileLeft

\* The properties follow from the invariant.
LEMMA InvImplies == HttpInv => RequestsAreFaithful /\ ResponsesAreWhole
<1> SUFFICES ASSUME HttpInv PROVE RequestsAreFaithful /\ ResponsesAreWhole
  OBVIOUS
<1>1. RequestsAreFaithful
  <2>1. called \in Seq(Requests) /\ \A k \in 1..Len(called) : SeenAs(called[k], k, kinds[k])
    BY DEF HttpInv, ParseInv, ParseTypes
  <2>2. ASSUME NEW i \in DOMAIN called PROVE Seen(called[i], i)
    <3>1. i \in 1..Len(called)
      BY <2>1
    <3>2. SeenAs(called[i], i, kinds[i])
      BY <2>1, <3>1
    <3>3. QED
      BY <3>2 DEF SeenAs, Seen, Named, LengthOf
  <2>3. QED
    BY <2>2 DEF RequestsAreFaithful
<1>2. ResponsesAreWhole
  <2>1. SUFFICES ASSUME Clean PROVE IsPrefix(wire, owed) /\ (wrShut = TRUE => wire = owed)
    BY DEF HttpInv, OutTypes, ResponsesAreWhole, Clean
  <2>2. OutTypes
    BY DEF HttpInv
  <2>3. CASE connState = "kConnected"
    <3>1. OpenInv
      BY <2>1, <2>3 DEF HttpInv, WholeInv
    <3>2. IsPrefix(wire, owed)
      BY <2>2, <3>1, OpenPrefix
    <3>3. QED
      BY <3>1, <3>2 DEF OpenInv
  <2>4. CASE connState = "kDisConnecting"
    <3>1. wire = owed /\ wire \in Seq(ByteSet)
      BY <2>1, <2>2, <2>4 DEF HttpInv, WholeInv, Quiet, OutTypes
    <3>2. QED
      BY <3>1, PrefixOfItself
  <2>5. CASE connState = "kDisConnected"
    BY <2>1, <2>5 DEF HttpInv, WholeInv, ClosedInv
  <2>6. QED
    BY <2>2, <2>3, <2>4, <2>5 DEF OutTypes
<1>3. QED
  BY <1>1, <1>2

LEMMA InitInv == Init => HttpInv
<1> SUFFICES ASSUME Init PROVE HttpInv
  OBVIOUS
<1>1. kinds \in Seq(AllKinds) /\ Len(kinds) \in 1..MaxRequests
  <2>1. PICK n \in 1..MaxRequests : kinds \in [1..n -> Kinds]
    BY DEF Init
  <2>2. n \in Nat /\ kinds \in [1..n -> AllKinds]
    <3>1. Kinds \subseteq AllKinds /\ n \in Nat
      BY Sizes, HttpAssumption DEF AllKinds
    <3>2. QED
      BY <2>1, <3>1
  <2>3. kinds \in Seq(AllKinds) /\ Len(kinds) = n
    BY <2>2
  <2>4. QED
    BY <2>3
<1>2. ParseInv
  <2>1. PICK T : T = Toks(kinds)
    OBVIOUS
  <2>2. T \in Seq(Tokens) /\ Ends(kinds, 0) = 0 /\ Len(T) \in Nat
    <3>1. T \in Seq(Tokens) /\ Ends(kinds, 0) = 0
      BY <1>1, <2>1, StreamOf
    <3>2. QED
      BY <3>1
  <2>3. called = <<>> /\ Len(called) = 0 /\ called \in Seq(Requests)
    BY EmptySeq DEF Init
  <2>4. request \in Requests /\ request.length = 0
    BY EmptySeq DEF Init, NewRequest, Requests
  <2>5. Rest(0)
    <3>1. SubSeq(T, 0 + 1, 0) = <<>>
      BY SubSeqEmpty
    <3>2. QED
      BY <2>1, <3>1 DEF Init, Rest
  <2>6. Place(0, 0)
    BY <2>4, <2>5 DEF Init, Place
  <2>7. ParseTypes
    BY <1>1, <2>1, <2>2, <2>3, <2>4 DEF Init, ParseTypes
  <2>8. QED
    BY <1>1, <2>2, <2>3, <2>6, <2>7 DEF Init, ParseInv
<1>3. OutTypes
  <2>1. NoCallback \in Callbacks /\ last \in Responses
    BY DEF Callbacks, Init, Responses
  <2>2. overhead \in 0..SndBuf /\ inflight \in 0..SndBuf
    BY HttpAssumption DEF Init
  <2>3. <<>> \in Seq(ByteSet)
    BY EmptySeq
  <2>4. QED
    BY <2>1, <2>2, <2>3 DEF Init, OutTypes
<1>4. WholeInv
  BY DEF Init, WholeInv, OpenInv, Rested, Quiet, Calm, Drained, NoCallback
<1>5. QED
  BY <1>2, <1>3, <1>4 DEF HttpInv

-----------------------------------------------------------------------------
(* Every step keeps the responses whole.                                    *)

\* A step that leaves the connection and its callback alone.
LEMMA OutKept ==
    ASSUME OutTypes, WholeInv, inflight' \in 0..SndBuf,
           UNCHANGED <<connState, events, outputBuffer, file, depth, wrShut, wire,
                       writeFailed, fault, pipelining, overhead, callback, running,
                       last, owed>>,
           Clean /\ connState = "kConnected" /\ parsing' \in {"loop", "failed", "complete"}
             => Quiet /\ callback = NoCallback
    PROVE  OutTypes' /\ WholeInv'
<1>1. OutTypes'
  BY DEF OutTypes
<1>2. (Clean' <=> Clean) /\ (Quiet' <=> Quiet)
  BY DEF Clean, Quiet, Calm, Drained
<1>3. FileBytes(callback)' = FileBytes(callback)
  BY DEF FileBytes, TC!Bytes
<1>4. Rested \/ HeadLeft \/ Written \/ Calling \/ FileLeft =>
        (Rested \/ HeadLeft \/ Written \/ Calling \/ FileLeft)'
  BY <1>2, <1>3 DEF Rested, HeadLeft, Written, Calling, FileLeft, Calm, Drained
<1>5. Clean /\ connState = "kConnected" => OpenInv'
  BY <1>2, <1>4 DEF WholeInv, OpenInv
<1>6. ClosedInv => ClosedInv'
  BY DEF ClosedInv, Calm
<1>7. QED
  BY <1>1, <1>2, <1>5, <1>6 DEF WholeInv

(* A client that waits sends only when the response is complete.            *)
LEMMA OnMessageWhole ==
    ASSUME HttpInv, OnMessage
    PROVE  OutTypes' /\ WholeInv'
<1>1. /\ UNCHANGED <<connState, events, outputBuffer, file, depth, wrShut, wire,
                     writeFailed, fault, pipelining, overhead, callback, running,
                     last, owed, inflight>>
      /\ Calm
      /\ \E n : MaySend(n)
  BY DEF OnMessage, Idle, Calm, sockVars, historyVars
<1>2. OutTypes /\ WholeInv /\ inflight \in 0..SndBuf
  BY DEF HttpInv, OutTypes
<1>3. ASSUME Clean, connState = "kConnected" PROVE Quiet /\ callback = NoCallback
  <2>1. wire = owed /\ last.close = FALSE
    BY <1>1, <1>2, <1>3 DEF MaySend, Clean, OutTypes, Responses
  <2>2. OpenInv
    BY <1>2, <1>3 DEF WholeInv
  <2>3. ~Written /\ ~Calling /\ ~FileLeft
    BY <1>1, <2>1 DEF Written, Calling, FileLeft, Calm
  <2>4. ~HeadLeft
    <3>1. SUFFICES ASSUME HeadLeft PROVE FALSE
      OBVIOUS
    <3>2. PICK F \in Seq(ByteSet) : F = FileBytes(callback)
      BY <1>2, CallbackOf DEF OutTypes
    <3>3. PICK w, b : w = wire /\ b = outputBuffer
      OBVIOUS
    <3>4. w \in Seq(ByteSet) /\ b \in Seq(ByteSet) /\ b # <<>>
      BY <1>2, <3>1, <3>3 DEF OutTypes, HeadLeft
    <3>5. PICK u : u = b \o F
      OBVIOUS
    <3>6. u \in Seq(ByteSet) /\ u # <<>>
      BY <3>4, <3>5, ConcatEqualIffEmpty
    <3>7. w \o u # w
      BY <3>4, <3>6, ConcatEqualIffEmpty
    <3>8. w \o u = w
      BY <2>1, <3>1, <3>2, <3>3, <3>5 DEF HeadLeft
    <3>9. QED
      BY <3>7, <3>8
  <2>5. Rested
    BY <2>2, <2>3, <2>4 DEF OpenInv
  <2>6. QED
    BY <2>1, <2>5 DEF Rested
<1>4. QED
  BY <1>1, <1>2, <1>3, OutKept

LEMMA HandleCloseWhole ==
    ASSUME HttpInv, HandleClose
    PROVE  OutTypes' /\ WholeInv'
<1>1. /\ connState' = "kDisConnected" /\ events' = {} /\ Calm
      /\ UNCHANGED <<outputBuffer, file, depth, inflight, wrShut, wire, writeFailed,
                     fault, pipelining, overhead, callback, running, last, owed>>
  BY DEF HandleClose, Idle, Calm, clientVars, historyVars
<1>2. OutTypes /\ WholeInv
  BY DEF HttpInv
<1>3. OutTypes'
  BY <1>1, <1>2 DEF OutTypes
<1>4. ASSUME Clean PROVE IsPrefix(wire, owed) /\ (wrShut = TRUE => wire = owed)
  <2>1. CASE connState = "kConnected"
    <3>1. OpenInv
      BY <1>2, <1>4, <2>1 DEF WholeInv
    <3>2. IsPrefix(wire, owed)
      BY <1>2, <3>1, OpenPrefix
    <3>3. QED
      BY <3>1, <3>2 DEF OpenInv
  <2>2. CASE connState = "kDisConnecting"
    <3>1. wire = owed /\ wire \in Seq(ByteSet)
      BY <1>2, <1>4, <2>2 DEF WholeInv, Quiet, OutTypes
    <3>2. QED
      BY <3>1, PrefixOfItself
  <2>3. CASE connState = "kDisConnected"
    BY <1>2, <1>4, <2>3 DEF WholeInv, ClosedInv
  <2>4. QED
    BY <1>2, <2>1, <2>2, <2>3 DEF OutTypes
<1>5. Clean' => Clean
  BY <1>1 DEF Clean
<1>6. Clean' => ClosedInv'
  BY <1>1, <1>4, <1>5 DEF ClosedInv, Calm
<1>7. QED
  BY <1>1, <1>3, <1>6 DEF WholeInv

LEMMA AcksWhole ==
    ASSUME HttpInv, ClientAcks
    PROVE  HttpInv'
<1>1. /\ UNCHANGED <<parserVars, kinds, sent, called>>
      /\ UNCHANGED <<connState, events, outputBuffer, file, depth, wrShut, wire,
                     writeFailed, fault, pipelining, overhead, callback, running,
                     last, owed>>
      /\ inflight > overhead /\ inflight' = inflight - 1
  BY DEF ClientAcks, clientVars, historyVars
<1>2. OutTypes /\ WholeInv /\ ParseInv
  BY DEF HttpInv
<1>3. inflight' \in 0..SndBuf
  BY <1>1, <1>2, Sizes DEF OutTypes
<1>4. parsing' = parsing
  BY <1>1 DEF parserVars
<1>5. Clean /\ connState = "kConnected" /\ parsing' \in {"loop", "failed", "complete"}
        => Quiet /\ callback = NoCallback
  BY <1>2, <1>4 DEF WholeInv, OpenInv
<1>6. OutTypes' /\ WholeInv'
  BY <1>1, <1>2, <1>3, <1>5, OutKept
<1>7. ParseInv'
  BY <1>1, <1>2, ParserKept
<1>8. QED
  BY <1>6, <1>7 DEF HttpInv

LEMMA ParseRequestWhole ==
    ASSUME HttpInv, ParseRequest, parsing = "loop"
    PROVE  OutTypes' /\ WholeInv'
<1>1. UNCHANGED <<connState, events, outputBuffer, file, depth, wrShut, wire,
                  writeFailed, fault, pipelining, overhead, callback, running,
                  last, owed, inflight>>
  BY DEF ParseRequest, clientVars, sockVars, historyVars
<1>2. OutTypes /\ WholeInv /\ inflight \in 0..SndBuf
  BY DEF HttpInv, OutTypes
<1>3. Clean /\ connState = "kConnected" => Quiet /\ callback = NoCallback
  BY <1>2 DEF WholeInv, OpenInv
<1>4. QED
  BY <1>1, <1>2, <1>3, OutKept

LEMMA ResetWhole ==
    ASSUME HttpInv, Reset
    PROVE  OutTypes' /\ WholeInv'
<1>1. /\ UNCHANGED <<connState, events, outputBuffer, file, depth, wrShut, wire,
                     writeFailed, fault, pipelining, overhead, callback, running,
                     last, owed, inflight>>
      /\ parsing' = "no"
  BY DEF Reset, clientVars, sockVars, historyVars
<1>2. OutTypes /\ WholeInv /\ inflight \in 0..SndBuf
  BY DEF HttpInv, OutTypes
<1>3. QED
  BY <1>1, <1>2, OutKept

\* shutdown() is called when nothing is left to write, so it half-closes.
LEMMA OnParseErrorStep ==
    ASSUME HttpInv, OnParseError
    PROVE  HttpInv'
<1>1. /\ TC!Shutdown /\ parsing = "failed" /\ parsing' = "no"
      /\ UNCHANGED <<pipelining, overhead, callback, running, last, owed>>
  BY DEF OnParseError, clientVars, historyVars
<1>2. OutTypes /\ WholeInv /\ ParseInv
  BY DEF HttpInv
<1>3. /\ UNCHANGED <<events, outputBuffer, file, depth, inflight, wire, writeFailed, fault>>
      /\ connState # "kConnected" => UNCHANGED <<connState, wrShut>>
      /\ connState = "kConnected" => connState' = "kDisConnecting"
      /\ wrShut' \in BOOLEAN
  BY <1>1, <1>2, ShutdownStep
<1>4. ParseInv'
  BY <1>2, <1>3, OnParseErrorParses
<1>5. CASE connState = "kConnected"
  <2>1. OutTypes'
    BY <1>1, <1>2, <1>3, <1>5 DEF OutTypes
  <2>2. Clean => Quiet
    BY <1>1, <1>2, <1>5 DEF WholeInv, OpenInv
  <2>3. Clean' => Quiet'
    BY <1>1, <1>3, <2>2 DEF Clean, Quiet, Calm, Drained
  <2>4. QED
    BY <1>3, <1>4, <1>5, <2>1, <2>3 DEF HttpInv, WholeInv
<1>6. CASE connState # "kConnected"
  <2>1. UNCHANGED <<connState, wrShut>> /\ inflight' \in 0..SndBuf
    BY <1>2, <1>3, <1>6 DEF OutTypes
  <2>2. OutTypes' /\ WholeInv'
    BY <1>1, <1>2, <1>3, <1>6, <2>1, OutKept
  <2>3. QED
    BY <1>4, <2>2 DEF HttpInv
<1>7. QED
  BY <1>5, <1>6

(* The callback is called; when there is none, the response was all bytes.  *)
LEMMA WriteCompleteStep ==
    ASSUME HttpInv, WriteComplete
    PROVE  HttpInv'
<1>1. /\ depth > 0 /\ depth' = depth - 1 /\ running' = callback
      /\ UNCHANGED <<parserVars, kinds, sent, called>>
      /\ UNCHANGED <<connState, events, outputBuffer, file, inflight, wrShut, wire,
                     writeFailed, fault, pipelining, overhead, callback, last, owed>>
  BY DEF WriteComplete, clientVars, historyVars
<1>2. OutTypes /\ WholeInv /\ ParseInv
  BY DEF HttpInv
<1>3. OutTypes'
  BY <1>1, <1>2 DEF OutTypes
<1>4. ParseInv'
  BY <1>1, <1>2, ParserKept
<1>5. parsing' = parsing
  BY <1>1 DEF parserVars
<1>6. ASSUME Clean PROVE connState = "kConnected" /\ OpenInv'
  <2>1. ~Calm
    BY <1>1, <1>2 DEF Calm, OutTypes
  <2>2. connState = "kConnected" /\ OpenInv
    BY <1>2, <1>6, <2>1 DEF WholeInv, Quiet, ClosedInv, OutTypes
  <2>3. Written
    BY <1>1, <2>1, <2>2 DEF OpenInv, Rested, Quiet, HeadLeft, FileLeft, Calling
  <2>4. depth' = 0 /\ Drained'
    BY <1>1, <2>3 DEF Written, Drained
  <2>5. PICK F \in Seq(ByteSet) : F = FileBytes(callback)
    BY <1>2, CallbackOf DEF OutTypes
  <2>6. owed = wire \o F
    BY <2>3, <2>5 DEF Written
  <2>7. CASE callback = NoCallback
    <3>1. F = <<>>
      BY <2>5, <2>7 DEF FileBytes, NoCallback
    <3>2. wire \in Seq(ByteSet)
      BY <1>2 DEF OutTypes
    <3>3. owed = wire
      BY <2>6, <3>1, <3>2
    <3>4. Rested'
      BY <1>1, <2>4, <2>7, <3>3 DEF Rested, Quiet, Calm, NoCallback
    <3>5. QED
      BY <1>1, <1>5, <2>1, <2>2, <3>4 DEF OpenInv, Quiet
  <2>8. CASE callback # NoCallback
    <3>1. FileBytes(callback)' = F
      BY <1>1, <2>5 DEF FileBytes, TC!Bytes
    <3>2. Calling'
      BY <1>1, <2>4, <2>6, <2>8, <3>1 DEF Calling, NoCallback
    <3>3. QED
      BY <1>1, <1>5, <2>1, <2>2, <3>2 DEF OpenInv, Quiet
  <2>9. QED
    BY <2>2, <2>7, <2>8
<1>7. Clean' => Clean
  BY <1>1 DEF Clean
<1>8. WholeInv'
  BY <1>1, <1>6, <1>7 DEF WholeInv
<1>9. QED
  BY <1>3, <1>4, <1>8 DEF HttpInv

(* closeConnection is called when the response is complete.                 *)
LEMMA CloseConnectionStep ==
    ASSUME HttpInv, CloseConnection
    PROVE  HttpInv'
<1>1. /\ TC!Shutdown /\ running.op = "closeConnection" /\ running' = NoCallback
      /\ UNCHANGED <<parserVars, kinds, sent, called>>
      /\ UNCHANGED <<pipelining, overhead, callback, last, owed>>
  BY DEF CloseConnection, clientVars, historyVars
<1>2. OutTypes /\ WholeInv /\ ParseInv
  BY DEF HttpInv
<1>3. /\ UNCHANGED <<events, outputBuffer, file, depth, inflight, wire, writeFailed, fault>>
      /\ connState # "kConnected" => UNCHANGED <<connState, wrShut>>
      /\ connState = "kConnected" => connState' = "kDisConnecting"
      /\ wrShut' \in BOOLEAN
  BY <1>1, <1>2, ShutdownStep
<1>4. ParseInv'
  BY <1>1, <1>2, <1>3, ParserKept
<1>5. OutTypes'
  <2>1. NoCallback \in Callbacks
    BY DEF Callbacks
  <2>2. QED
    BY <1>1, <1>2, <1>3, <2>1 DEF OutTypes
<1>6. Clean' => Clean
  BY <1>1, <1>3 DEF Clean
<1>7. ASSUME Clean PROVE connState = "kConnected" /\ Quiet'
  <2>1. ~Calm
    BY <1>1 DEF Calm, NoCallback
  <2>2. connState = "kConnected" /\ OpenInv
    BY <1>2, <1>7, <2>1 DEF WholeInv, Quiet, ClosedInv, OutTypes
  <2>3. running # NoCallback
    BY <1>1 DEF NoCallback
  <2>4. Calling
    BY <2>1, <2>2, <2>3 DEF OpenInv, Rested, Quiet, HeadLeft, FileLeft, Written
  <2>5. FileBytes(callback) = <<>>
    BY <1>1, <2>4 DEF Calling, FileBytes
  <2>6. wire \in Seq(ByteSet)
    BY <1>2 DEF OutTypes
  <2>7. owed = wire
    BY <2>4, <2>5, <2>6 DEF Calling
  <2>8. Calm' /\ Drained'
    BY <1>1, <1>3, <2>4 DEF Calling, Drained, Calm, NoCallback
  <2>9. QED
    BY <1>1, <1>3, <2>2, <2>7, <2>8 DEF Quiet
<1>8. WholeInv'
  BY <1>3, <1>6, <1>7 DEF WholeInv
<1>9. QED
  BY <1>4, <1>5, <1>8 DEF HttpInv

(* POLLOUT: a part of the head, or the rest of it, leaves.                   *)
LEMMA HandleWriteStep ==
    ASSUME HttpInv, HandleWrite
    PROVE  HttpInv'
<1>1. /\ TC!HandleWrite /\ "w" \in events /\ Calm
      /\ UNCHANGED <<parserVars, kinds, sent, called>>
      /\ UNCHANGED <<pipelining, overhead, callback, running, last, owed>>
  BY DEF HandleWrite, Idle, Calm, clientVars, historyVars
<1>2. OutTypes /\ WholeInv /\ ParseInv
  BY DEF HttpInv
<1>3. /\ UNCHANGED <<connState, file, wrShut, fault>> /\ OutStep
      /\ writeFailed' = FALSE =>
           /\ file = {} /\ wire' \o outputBuffer' = wire \o outputBuffer
           /\ \/ outputBuffer' = <<>> /\ events' = events \ {"w"} /\ depth' = depth + 1
              \/ outputBuffer' # <<>> /\ UNCHANGED <<events, depth>>
  BY <1>1, <1>2, WriteStep
<1>4. "r" \in events' <=> "r" \in events
  BY <1>3 DEF OutStep
<1>5. ParseInv'
  BY <1>1, <1>2, <1>4, ParserKept
<1>6. OutTypes'
  BY <1>1, <1>2, <1>3 DEF OutTypes, OutStep
<1>7. Clean' => Clean
  BY <1>1, <1>2, <1>3 DEF Clean, OutStep, OutTypes
<1>8. parsing' = parsing
  BY <1>1 DEF parserVars
<1>9. ASSUME Clean' PROVE connState = "kConnected" /\ OpenInv'
  <2>1. Clean /\ writeFailed' = FALSE
    BY <1>7, <1>9 DEF Clean
  <2>2. ~Quiet
    BY <1>1 DEF Quiet, Drained
  <2>3. connState = "kConnected" /\ OpenInv
    BY <1>1, <1>2, <2>1, <2>2 DEF WholeInv, ClosedInv, OutTypes
  <2>4. HeadLeft
    BY <1>1, <1>3, <2>1, <2>2, <2>3
       DEF OpenInv, Rested, Drained, Written, Calling, FileLeft
  <2>5. PICK F \in Seq(ByteSet) : F = FileBytes(callback)
    BY <1>2, CallbackOf DEF OutTypes
  <2>6. FileBytes(callback)' = F
    BY <1>1, <2>5 DEF FileBytes, TC!Bytes
  <2>7. PICK w, b, v, c : w = wire /\ b = outputBuffer /\ v = wire' /\ c = outputBuffer'
    OBVIOUS
  <2>8. w \in Seq(ByteSet) /\ b \in Seq(ByteSet) /\ v \in Seq(ByteSet) /\ c \in Seq(ByteSet)
    BY <1>2, <1>6, <2>7 DEF OutTypes
  <2>9. w \o b = v \o c
    BY <1>3, <2>1, <2>7
  <2>10. owed = v \o (c \o F)
    <3>1. w \o (b \o F) = (w \o b) \o F
      <4>1. w \in Seq(ByteSet) /\ b \in Seq(ByteSet) /\ F \in Seq(ByteSet)
        BY <2>5, <2>8
      <4>2. QED
        BY <4>1, Regroup, Zenon
    <3>2. v \o (c \o F) = (v \o c) \o F
      <4>1. v \in Seq(ByteSet) /\ c \in Seq(ByteSet) /\ F \in Seq(ByteSet)
        BY <2>5, <2>8
      <4>2. QED
        BY <4>1, Regroup, Zenon
    <3>3. owed = w \o (b \o F)
      BY <2>4, <2>5, <2>7 DEF HeadLeft
    <3>4. QED
      BY <2>9, <3>1, <3>2, <3>3
  <2>11. wrShut' = FALSE /\ file' = {} /\ depth = 0 /\ running' = NoCallback
    BY <1>1, <1>3, <2>3, <2>4 DEF OpenInv, HeadLeft, Calm, NoCallback
  <2>12. Written' \/ HeadLeft'
    <3>1. CASE outputBuffer' = <<>> /\ events' = events \ {"w"} /\ depth' = depth + 1
      <4>1. c = <<>> /\ c \o F = F
        BY <2>7, <3>1
      <4>2. owed' = wire' \o F
        BY <1>1, <2>7, <2>10, <4>1
      <4>3. Drained'
        BY <2>11, <3>1 DEF Drained
      <4>4. QED
        BY <2>6, <2>11, <3>1, <4>2, <4>3 DEF Written, NoCallback
    <3>2. CASE outputBuffer' # <<>> /\ UNCHANGED <<events, depth>>
      <4>1. owed' = wire' \o (outputBuffer' \o F)
        BY <1>1, <2>7, <2>10
      <4>2. QED
        BY <2>6, <2>11, <3>2, <4>1 DEF HeadLeft, Calm, NoCallback
    <3>3. QED
      BY <1>3, <2>1, <3>1, <3>2
  <2>13. parsing \notin {"loop", "failed", "complete"}
    BY <2>2, <2>3 DEF OpenInv
  <2>14. QED
    BY <1>1, <1>8, <2>3, <2>11, <2>12, <2>13 DEF OpenInv
<1>10. WholeInv'
  BY <1>3, <1>9 DEF WholeInv
<1>11. QED
  BY <1>5, <1>6, <1>10 DEF HttpInv

\* What sendFile leaves for the next write sends no byte.
LEMMA AfterFileOf ==
    ASSUME NEW close \in BOOLEAN
    PROVE  /\ AfterFile(close) \in Callbacks /\ FileBytes(AfterFile(close)) = <<>>
           /\ AfterFile(close).op # "sendFile"
           /\ close = TRUE => AfterFile(close).op = "closeConnection"
           /\ close = FALSE => AfterFile(close) = NoCallback
           /\ AfterFile(close).op = "closeConnection" => close = TRUE
<1>1. AfterFile(close) = CloseConnectionCallback \/ AfterFile(close) = NoCallback
  BY DEF AfterFile
<1>2. AfterFile(close) \in Callbacks
  BY <1>1 DEF Callbacks
<1>3. NoCallback.op = "none" /\ CloseConnectionCallback.op = "closeConnection"
  BY DEF NoCallback, CloseConnectionCallback
<1>4. AfterFile(close).op # "sendFile"
  BY <1>1, <1>3
<1>5. FileBytes(AfterFile(close)) = <<>>
  BY <1>4 DEF FileBytes
<1>6. QED
  BY <1>2, <1>3, <1>4, <1>5 DEF AfterFile

(* The file of a response is sent right behind its head, or not at all.     *)
LEMMA SendFileStep ==
    ASSUME HttpInv, SendFile
    PROVE  HttpInv'
<1>1. /\ running.op = "sendFile" /\ running' = NoCallback
      /\ callback' = AfterFile(running.close)
      /\ UNCHANGED <<parserVars, kinds, sent, called>>
      /\ UNCHANGED <<pipelining, overhead, last, owed>>
  BY DEF SendFile, clientVars, historyVars
<1>2. OutTypes /\ WholeInv /\ ParseInv
  BY DEF HttpInv
<1>3. PICK c, f, o : c = running.close /\ f = running.file /\ o = running.opened
  OBVIOUS
<1>4. c \in BOOLEAN /\ f \in HttpFiles /\ o \in BOOLEAN
  <2>1. running \in Callbacks
    BY <1>2 DEF OutTypes
  <2>2. QED
    BY <1>1, <1>3, <2>1, CallbackOf
<1>5. PICK cb : cb = AfterFile(c)
  OBVIOUS
<1>6. /\ cb \in Callbacks /\ FileBytes(cb) = <<>> /\ cb.op # "sendFile"
      /\ c = FALSE => cb = NoCallback
      /\ cb.op = "closeConnection" => c = TRUE
  BY <1>4, <1>5, AfterFileOf
<1>7. callback' = cb /\ running' \in Callbacks
  BY <1>1, <1>3, <1>5 DEF Callbacks
<1>8. parsing' = parsing
  BY <1>1 DEF parserVars
<1>9. ~Calm
  BY <1>1 DEF Calm, NoCallback
<1>10. CASE /\ fault' = "uaf"
            /\ UNCHANGED <<connState, events, outputBuffer, file, depth, inflight,
                           wrShut, stream, wire, writeFailed>>
  <2>1. /\ fault' = "uaf"
        /\ UNCHANGED <<connState, events, outputBuffer, file, depth, inflight,
                       wrShut, stream, wire, writeFailed>>
    BY <1>10
  <2>2. ParseInv'
    BY <1>1, <1>2, <2>1, ParserKept
  <2>3. OutTypes'
    BY <1>1, <1>2, <1>6, <1>7, <2>1 DEF OutTypes
  <2>4. WholeInv'
    BY <2>1 DEF WholeInv, Clean
  <2>5. QED
    BY <2>2, <2>3, <2>4 DEF HttpInv
<1>11. CASE connState # "kConnected"
  <2>1. UNCHANGED sockVars
    BY <1>11 DEF SendFile
  <2>2. UNCHANGED <<connState, events, outputBuffer, file, depth, inflight,
                    wrShut, wire, writeFailed, fault>>
    BY <2>1 DEF sockVars
  <2>3. ParseInv'
    BY <1>1, <1>2, <2>2, ParserKept
  <2>4. OutTypes'
    BY <1>1, <1>2, <1>6, <1>7, <2>2 DEF OutTypes
  <2>5. ~Clean
    BY <1>2, <1>9, <1>11 DEF WholeInv, Quiet, ClosedInv, OutTypes
  <2>6. WholeInv'
    BY <1>1, <2>2, <2>5 DEF WholeInv, Clean
  <2>7. QED
    BY <2>3, <2>4, <2>6 DEF HttpInv
<1>12. CASE connState = "kConnected" /\ parsing = "answered" /\ TC!SendFileInLoop(f, o)
  <2>1. TC!SendFileInLoop(f, o)
    BY <1>12
  <2>2. /\ UNCHANGED <<connState, outputBuffer, wrShut>> /\ OutStep
        /\ fault' = fault \/ fault' = "sendFile"
        /\ file = {} /\ o = FALSE =>
             UNCHANGED <<events, file, wire, depth, writeFailed, inflight, fault>>
        /\ /\ file = {} /\ o = TRUE /\ outputBuffer = <<>> /\ "w" \notin events
           /\ writeFailed' = FALSE
           => \/ /\ wire' = wire \o TC!Bytes(f) /\ depth' = depth + 1
                 /\ UNCHANGED <<file, events>>
              \/ /\ file' # {} /\ depth' = depth /\ wire' # wire \o TC!Bytes(f)
                 /\ IsPrefix(wire', wire \o TC!Bytes(f))
    <3>1. OutTypes /\ f \in HttpFiles /\ o \in BOOLEAN /\ TC!SendFileInLoop(f, o)
      BY <1>2, <1>4, <2>1
    <3>2. QED
      BY <3>1, FileStep
  <2>3. "r" \in events' <=> "r" \in events
    BY <2>2 DEF OutStep
  <2>4. ParseInv'
    BY <1>1, <1>2, <2>3, ParserKept
  <2>5. OutTypes'
    BY <1>1, <1>2, <1>6, <1>7, <2>2 DEF OutTypes, OutStep
  <2>6. ASSUME Clean' PROVE OpenInv'
    <3>1. Clean /\ writeFailed' = FALSE
      BY <1>1, <1>2, <2>2, <2>6 DEF Clean, OutStep, OutTypes
    <3>2. OpenInv
      BY <1>2, <1>12, <3>1 DEF WholeInv
    <3>3. running # NoCallback
      BY <1>1 DEF NoCallback
    <3>4. Calling
      BY <1>9, <3>2, <3>3 DEF OpenInv, Rested, Quiet, HeadLeft, FileLeft, Written
    <3>5. /\ depth = 0 /\ running = callback /\ outputBuffer = <<>> /\ file = {}
          /\ "w" \notin events /\ owed = wire \o FileBytes(callback)
      BY <3>4 DEF Calling, Drained
    <3>6. c = last.close
      BY <1>1, <1>3, <3>2, <3>5 DEF OpenInv
    <3>7. FileBytes(callback)' = <<>>
      <4>1. FileBytes(callback') = <<>>
        BY <1>6, <1>7
      <4>2. FileBytes(callback)' = FileBytes(callback')
        BY DEF FileBytes, TC!Bytes
      <4>3. QED
        BY <4>1, <4>2
    <3>8. Rested' \/ Written' \/ FileLeft'
      <4>1. CASE o = FALSE
        <5>1. FileBytes(callback) = <<>>
          BY <1>3, <3>5, <4>1 DEF FileBytes
        <5>2. wire \in Seq(ByteSet)
          BY <1>2 DEF OutTypes
        <5>3. owed = wire
          BY <3>5, <5>1, <5>2
        <5>4. UNCHANGED <<events, file, wire, depth>>
          BY <2>2, <3>5, <4>1
        <5>5. Quiet'
          BY <1>1, <2>2, <3>5, <5>3, <5>4 DEF Quiet, Calm, Drained, NoCallback
        <5>6. callback' = NoCallback \/ last'.close = TRUE
          BY <1>1, <1>4, <1>6, <1>7, <3>6
        <5>7. QED
          BY <5>5, <5>6 DEF Rested, NoCallback
      <4>2. CASE o = TRUE
        <5>1. owed = wire \o TC!Bytes(f)
          BY <1>1, <1>3, <3>5, <4>2 DEF FileBytes
        <5>2. CASE /\ wire' = wire \o TC!Bytes(f) /\ depth' = depth + 1
                   /\ UNCHANGED <<file, events>>
          <6>1. wire' \in Seq(ByteSet)
            BY <2>5 DEF OutTypes
          <6>2. wire' \o <<>> = wire'
            BY <6>1
          <6>3. owed' = wire' \o FileBytes(callback)'
            BY <1>1, <3>7, <5>1, <5>2, <6>2
          <6>4. Drained' /\ depth' = 1
            BY <2>2, <3>5, <5>2 DEF Drained
          <6>5. QED
            BY <1>1, <6>3, <6>4 DEF Written, NoCallback
        <5>3. CASE /\ file' # {} /\ depth' = depth /\ wire' # wire \o TC!Bytes(f)
                   /\ IsPrefix(wire', wire \o TC!Bytes(f))
          <6>1. IsPrefix(wire', owed') /\ wire' # owed'
            BY <1>1, <5>1, <5>3
          <6>2. QED
            BY <1>1, <3>5, <5>3, <6>1 DEF FileLeft, Calm, NoCallback
        <5>4. QED
          BY <2>2, <3>1, <3>5, <4>2, <5>2, <5>3
      <4>3. QED
        BY <1>4, <4>1, <4>2
    <3>9. wrShut' = FALSE
      BY <2>2, <3>2 DEF OpenInv
    <3>10. QED
      BY <1>1, <1>6, <1>7, <1>8, <1>12, <3>6, <3>8, <3>9 DEF OpenInv
  <2>7. WholeInv'
    BY <1>12, <2>2, <2>6 DEF WholeInv
  <2>8. QED
    BY <2>4, <2>5, <2>7 DEF HttpInv
<1>13. QED
  BY <1>3, <1>10, <1>11, <1>12 DEF SendFile

\* What a response owes is its head, and what its callback will send.
LEMMA ResponseOf ==
    ASSUME NEW r \in Responses, NEW k \in 1..MaxRequests, callback \in Callbacks
    PROVE  /\ NextCallback(r, k) \in Callbacks
           /\ Owed(r, k) \in Seq(ByteSet)
           /\ callback = NoCallback =>
                /\ Owed(r, k) = TC!Bytes(k) \o FileBytes(NextCallback(r, k))
                /\ NextCallback(r, k).op = "sendFile" => NextCallback(r, k).close = r.close
                /\ NextCallback(r, k).op = "closeConnection" => r.close = TRUE
<1>1. r.close \in BOOLEAN /\ r.file \in {"none", "opened", "missing"}
  BY DEF Responses
<1>2. FileOf(k) \in HttpFiles /\ (r.file = "opened") \in BOOLEAN
  BY Sizes DEF FileOf, HttpFiles
<1>3. /\ TC!Bytes(k) \in Seq(ByteSet) /\ TC!Bytes(FileOf(k)) \in Seq(ByteSet)
      /\ <<>> \in Seq(ByteSet)
  BY <1>2, BytesOf, EmptySeq
<1>4. Owed(r, k) \in Seq(ByteSet)
  BY <1>3 DEF Owed
<1>5. CASE r.file # "none"
  <2>1. NextCallback(r, k) = SendFileCallback(r.close, r.file = "opened", FileOf(k))
    BY <1>5 DEF NextCallback
  <2>2. NextCallback(r, k) \in Callbacks
    <3>1. \A c \in BOOLEAN, o \in BOOLEAN, f \in HttpFiles : SendFileCallback(c, o, f) \in Callbacks
      BY DEF Callbacks
    <3>2. SendFileCallback(r.close, r.file = "opened", FileOf(k)) \in Callbacks
      BY <1>1, <1>2, <3>1, Zenon
    <3>3. QED
      BY <2>1, <3>2
  <2>3. /\ NextCallback(r, k).op = "sendFile" /\ NextCallback(r, k).close = r.close
        /\ NextCallback(r, k).opened = (r.file = "opened")
        /\ NextCallback(r, k).file = FileOf(k)
    BY <2>1 DEF SendFileCallback
  <2>4. FileBytes(NextCallback(r, k)) =
          (IF r.file = "opened" THEN TC!Bytes(FileOf(k)) ELSE <<>>)
    BY <2>3 DEF FileBytes
  <2>5. QED
    BY <1>4, <2>2, <2>3, <2>4 DEF Owed
<1>6. CASE r.file = "none"
  <2>1. NextCallback(r, k) = (IF r.close THEN CloseConnectionCallback ELSE callback)
    BY <1>6 DEF NextCallback
  <2>2. NextCallback(r, k) \in Callbacks
    BY <2>1 DEF Callbacks
  <2>3. NoCallback.op = "none" /\ CloseConnectionCallback.op = "closeConnection"
    BY DEF NoCallback, CloseConnectionCallback
  <2>4. callback = NoCallback =>
          /\ NextCallback(r, k).op # "sendFile"
          /\ NextCallback(r, k).op = "closeConnection" => r.close = TRUE
    BY <1>1, <2>1, <2>3
  <2>5. callback = NoCallback => FileBytes(NextCallback(r, k)) = <<>>
    BY <2>4 DEF FileBytes
  <2>6. Owed(r, k) = TC!Bytes(k) \o <<>>
    BY <1>6 DEF Owed
  <2>7. QED
    BY <1>4, <2>2, <2>4, <2>5, <2>6
<1>7. QED
  BY <1>5, <1>6

(* A response is made only when nothing is left of the one before: its head *)
(* is written, or waits for POLLOUT, right behind it.                       *)
LEMMA OnRequestStep ==
    ASSUME HttpInv, OnRequest
    PROVE  HttpInv'
<1>1. /\ parsing = "complete" /\ parsing' = "answered"
      /\ UNCHANGED <<pipelining, overhead, running>>
  BY DEF OnRequest, clientVars
<1>2. OutTypes /\ WholeInv /\ ParseInv
  BY DEF HttpInv
<1>3. "r" \in events
  BY <1>1, <1>2 DEF ParseInv
<1>4. PICK k : k = Len(called) + 1
  OBVIOUS
<1>5. k \in 1..MaxRequests
  <2>1. PICK q \in Nat : q = Len(called)
    BY <1>2 DEF ParseInv, ParseTypes
  <2>2. PICK n \in 1..MaxRequests : n = Len(kinds)
    BY <1>2 DEF ParseInv, ParseTypes
  <2>3. q < n
    BY <1>1, <1>2, <1>3, <2>1, <2>2 DEF ParseInv, Place
  <2>4. QED
    BY <1>4, <2>1, <2>2, <2>3, Sizes
<1>6. PICK r \in Responses :
        /\ callback' = NextCallback(r, k) /\ TC!SendInLoop(k) /\ last' = r
        /\ owed' = IF connState = "kConnected" THEN owed \o Owed(r, k) ELSE owed
  BY <1>4 DEF OnRequest
<1>7. /\ UNCHANGED <<connState, file, wrShut, fault>> /\ OutStep
      /\ connState # "kConnected" =>
           UNCHANGED <<outputBuffer, events, wire, depth, writeFailed, inflight>>
      /\ /\ connState = "kConnected" /\ outputBuffer = <<>> /\ "w" \notin events
         /\ writeFailed' = FALSE
         => \/ /\ outputBuffer' = <<>> /\ wire' = wire \o TC!Bytes(k)
               /\ depth' = depth + 1 /\ events' = events
            \/ /\ outputBuffer' # <<>> /\ depth' = depth /\ "w" \in events'
               /\ wire' \o outputBuffer' = wire \o TC!Bytes(k)
  <2>1. OutTypes /\ k \in 1..MaxRequests /\ TC!SendInLoop(k)
    BY <1>2, <1>5, <1>6
  <2>2. QED
    BY <2>1, SendStep
<1>8. "r" \in events' <=> "r" \in events
  BY <1>7 DEF OutStep
<1>9. ParseInv'
  BY <1>2, <1>8, OnRequestParses
<1>10. PICK cb, x : cb = NextCallback(r, k) /\ x = Owed(r, k)
  OBVIOUS
<1>11. /\ cb \in Callbacks /\ x \in Seq(ByteSet)
       /\ callback = NoCallback =>
            /\ x = TC!Bytes(k) \o FileBytes(cb)
            /\ cb.op = "sendFile" => cb.close = r.close
            /\ cb.op = "closeConnection" => r.close = TRUE
  <2>1. callback \in Callbacks
    BY <1>2 DEF OutTypes
  <2>2. QED
    BY <1>5, <1>6, <1>10, <2>1, ResponseOf
<1>12. callback' = cb /\ owed' = IF connState = "kConnected" THEN owed \o x ELSE owed
  BY <1>6, <1>10
<1>13. OutTypes'
  <2>1. owed \in Seq(ByteSet) /\ owed \o x \in Seq(ByteSet)
    BY <1>2, <1>11 DEF OutTypes
  <2>2. owed' \in Seq(ByteSet)
    BY <1>12, <2>1
  <2>3. callback' \in Callbacks /\ last' \in Responses
    BY <1>6, <1>11, <1>12
  <2>4. QED
    BY <1>1, <1>2, <1>7, <2>2, <2>3 DEF OutTypes, OutStep
<1>14. Clean' => Clean /\ writeFailed' = FALSE
  BY <1>1, <1>2, <1>7 DEF Clean, OutStep, OutTypes
<1>15. ASSUME Clean', connState = "kConnected" PROVE OpenInv'
  <2>1. OpenInv /\ Clean /\ writeFailed' = FALSE
    BY <1>2, <1>14, <1>15 DEF WholeInv
  <2>2. Quiet /\ callback = NoCallback
    BY <1>1, <2>1 DEF OpenInv
  <2>3. /\ depth = 0 /\ running = NoCallback /\ outputBuffer = <<>> /\ file = {}
        /\ "w" \notin events /\ wire = owed
    BY <2>2 DEF Quiet, Calm, Drained
  <2>4. PICK F \in Seq(ByteSet) : F = FileBytes(cb)
    BY <1>11, CallbackOf
  <2>5. FileBytes(callback)' = F
    <3>1. FileBytes(callback)' = FileBytes(callback')
      BY DEF FileBytes, TC!Bytes
    <3>2. QED
      BY <1>12, <2>4, <3>1
  <2>6. PICK w, h, v, c : w = wire /\ h = TC!Bytes(k) /\ v = wire' /\ c = outputBuffer'
    OBVIOUS
  <2>7. /\ w \in Seq(ByteSet) /\ h \in Seq(ByteSet) /\ v \in Seq(ByteSet)
        /\ c \in Seq(ByteSet) /\ F \in Seq(ByteSet)
    <3>1. h \in Seq(ByteSet)
      BY <1>5, <2>6, BytesOf
    <3>2. QED
      BY <1>2, <1>13, <2>4, <2>6, <3>1 DEF OutTypes
  <2>8. owed' = (w \o h) \o F
    <3>1. w \in Seq(ByteSet) /\ h \in Seq(ByteSet) /\ F \in Seq(ByteSet)
      BY <2>7
    <3>2. w \o (h \o F) = (w \o h) \o F
      BY <3>1, Regroup, Zenon
    <3>3. owed' = w \o (h \o F)
      BY <1>11, <1>12, <1>15, <2>2, <2>3, <2>4, <2>6
    <3>4. QED
      BY <3>2, <3>3
  <2>9. Written' \/ HeadLeft'
    <3>1. CASE /\ outputBuffer' = <<>> /\ wire' = wire \o TC!Bytes(k)
               /\ depth' = depth + 1 /\ events' = events
      <4>1. owed' = wire' \o FileBytes(callback)'
        BY <2>5, <2>6, <2>8, <3>1
      <4>2. Drained' /\ depth' = 1 /\ running' = NoCallback
        BY <1>1, <1>7, <2>3, <3>1 DEF Drained
      <4>3. QED
        BY <4>1, <4>2 DEF Written, NoCallback
    <3>2. CASE /\ outputBuffer' # <<>> /\ depth' = depth /\ "w" \in events'
               /\ wire' \o outputBuffer' = wire \o TC!Bytes(k)
      <4>1. v \in Seq(ByteSet) /\ c \in Seq(ByteSet) /\ F \in Seq(ByteSet)
        BY <2>7
      <4>2. v \o (c \o F) = (v \o c) \o F
        BY <4>1, Regroup, Zenon
      <4>3. v \o c = w \o h
        BY <2>6, <3>2
      <4>4. owed' = wire' \o (outputBuffer' \o FileBytes(callback)')
        BY <2>5, <2>6, <2>8, <4>2, <4>3
      <4>5. file' = {} /\ depth' = 0 /\ running' = NoCallback
        BY <1>1, <1>7, <2>3, <3>2
      <4>6. QED
        BY <3>2, <4>4, <4>5 DEF HeadLeft, Calm, NoCallback
    <3>3. QED
      BY <1>7, <1>15, <2>1, <2>3, <3>1, <3>2
  <2>10. wrShut' = FALSE
    BY <1>7, <2>1 DEF OpenInv
  <2>11. /\ callback'.op = "sendFile" => callback'.close = last'.close
         /\ callback'.op = "closeConnection" => last'.close = TRUE
    BY <1>6, <1>11, <1>12, <2>2
  <2>12. QED
    BY <1>1, <2>9, <2>10, <2>11 DEF OpenInv
<1>16. ASSUME Clean', connState = "kDisConnecting" PROVE Quiet'
  <2>1. Quiet
    BY <1>2, <1>14, <1>16 DEF WholeInv
  <2>2. UNCHANGED <<outputBuffer, events, wire, depth, owed>>
    BY <1>7, <1>12, <1>16
  <2>3. QED
    BY <1>1, <1>7, <2>1, <2>2 DEF Quiet, Calm, Drained, NoCallback
<1>17. Clean' => connState # "kDisConnected"
  BY <1>2, <1>3, <1>14 DEF WholeInv, ClosedInv
<1>18. WholeInv'
  BY <1>7, <1>15, <1>16, <1>17 DEF WholeInv
<1>19. QED
  BY <1>9, <1>13, <1>18 DEF HttpInv

LEMMA StutterStep ==
    ASSUME HttpInv, UNCHANGED vars
    PROVE  HttpInv'
<1>1. /\ UNCHANGED <<parserVars, kinds, sent, called>> /\ parsing' = parsing
      /\ UNCHANGED <<connState, events, outputBuffer, file, depth, wrShut, wire,
                     writeFailed, fault, pipelining, overhead, callback, running,
                     last, owed, inflight>>
  BY DEF vars, parserVars, clientVars, sockVars, historyVars
<1>2. OutTypes /\ WholeInv /\ ParseInv /\ inflight' \in 0..SndBuf
  BY <1>1 DEF HttpInv, OutTypes
<1>3. Clean /\ connState = "kConnected" /\ parsing' \in {"loop", "failed", "complete"}
        => Quiet /\ callback = NoCallback
  BY <1>1, <1>2 DEF WholeInv, OpenInv
<1>4. OutTypes' /\ WholeInv'
  BY <1>1, <1>2, <1>3, OutKept
<1>5. ParseInv'
  BY <1>1, <1>2, ParserKept
<1>6. QED
  BY <1>4, <1>5 DEF HttpInv

LEMMA StepInv == HttpInv /\ [Next]_vars => HttpInv'
<1> SUFFICES ASSUME HttpInv, [Next]_vars PROVE HttpInv'
  OBVIOUS
<1>1. ParseInv
  BY DEF HttpInv
<1>2. CASE OnMessage
  BY <1>1, <1>2, OnMessageParses, OnMessageWhole DEF HttpInv
<1>3. CASE HandleClose
  BY <1>1, <1>3, HandleCloseParses, HandleCloseWhole DEF HttpInv
<1>4. CASE ClientAcks
  BY <1>4, AcksWhole
<1>5. CASE ParseRequest
  <2>1. ParseInv' /\ parsing = "loop"
    BY <1>1, <1>5, ParseRequestParses
  <2>2. OutTypes' /\ WholeInv'
    BY <1>5, <2>1, ParseRequestWhole
  <2>3. QED
    BY <2>1, <2>2 DEF HttpInv
<1>6. CASE OnParseError
  BY <1>6, OnParseErrorStep
<1>7. CASE OnRequest
  BY <1>7, OnRequestStep
<1>8. CASE Reset
  BY <1>1, <1>8, ResetParses, ResetWhole DEF HttpInv
<1>9. CASE WriteComplete
  BY <1>9, WriteCompleteStep
<1>10. CASE CloseConnection
  BY <1>10, CloseConnectionStep
<1>11. CASE SendFile
  BY <1>11, SendFileStep
<1>12. CASE HandleWrite
  BY <1>12, HandleWriteStep
<1>13. CASE UNCHANGED vars
  BY <1>13, StutterStep
<1>14. QED
  BY <1>2, <1>3, <1>4, <1>5, <1>6, <1>7, <1>8, <1>9, <1>10, <1>11, <1>12, <1>13
     DEF Next, IOThread

LEMMA HttpInvariant == Spec => []HttpInv
<1>1. HttpInv /\ [Next]_vars => HttpInv'
  BY StepInv
<1>2. QED
  BY <1>1, InitInv, PTL DEF Spec

-----------------------------------------------------------------------------
(* For every stream of requests and every way of cutting it into segments,  *)
(* httpCallback_ is called with the requests in the order sent, each with   *)
(* its own method, path, length and, when it is a POST, its own body, up to *)
(* the first malformed one (HttpContext.cc:56-143, HttpServer.cc:22-39).    *)
THEOREM CallbackSeesRequests == Spec => []RequestsAreFaithful
<1>1. HttpInv => RequestsAreFaithful
  BY InvImplies
<1>2. QED
  BY <1>1, HttpInvariant, PTL

(* For every number of requests, every size of heads, files and kernel      *)
(* buffer: while no write fails and no read of a destroyed FilePtr (every   *)
(* file is sent through one, HttpServer.cc:72-75) has gone wrong, a client  *)
(* that waits for each answer has received a prefix of the responses, each  *)
(* head before its file, and all of them when the server half-closes        *)
(* (HttpServer.cc:40-76, TcpConnection.cc:96-281).                          *)
THEOREM ResponsesLeaveWhole == Spec => []ResponsesAreWhole
<1>1. HttpInv => ResponsesAreWhole
  BY InvImplies
<1>2. QED
  BY <1>1, HttpInvariant, PTL
=============================================================================
