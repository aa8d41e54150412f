----------------------------- MODULE CodecProofs -----------------------------
(***************************************************************************)
(* What codec.c writes it reads back: a message, whatever follows it in    *)
(* the buffer; and of a buffer that ends before the message does, it can   *)
(* tell.  The size it computes before is the size of what it writes.       *)
(***************************************************************************)
EXTENDS Codec, TLAPS, SequenceTheorems, FiniteSetTheorems, WellFoundedInduction

Octet  == 0..255
Octets == Seq(Octet)

(* A set of numbers has a least one.                                       *)
LEMMA Least ==
  ASSUME NEW S, S \subseteq Nat, S # {}
  PROVE  \E m \in S : \A k \in S : m <= k
<1> DEFINE Below == OpToRel(<, Nat)
<1>1. PICK m \in S : \A k \in S : ~(<<k, m>> \in Below)
  <2>1. IsWellFoundedOn(Below, Nat)
    BY NatLessThanWellFounded
  <2> HIDE DEF Below
  <2> QED BY <2>1, WFMin
<1>2. ASSUME NEW k \in S, k < m PROVE FALSE
  <2>1. <<k, m>> \in Below
    BY <1>2 DEF OpToRel
  <2> HIDE DEF Below
  <2> QED BY <1>1, <2>1
<1> QED BY <1>2

(* A set of numbers with a bound has a largest one.                        *)
LEMMA Largest ==
  ASSUME NEW n \in Nat, NEW S, S \subseteq 0..n, S # {}
  PROVE  \E m \in S : \A k \in S : k <= m
<1> DEFINE T == {n - s : s \in S}
<1>0. \A s \in S : s \in Nat /\ n - s \in Nat
  OBVIOUS
<1>1. T \subseteq Nat /\ T # {}
  BY <1>0
<1>2. PICK x \in T : \A y \in T : x <= y
  <2> HIDE DEF T
  <2> QED BY <1>1, Least
<1>3. PICK m \in S : x = n - m
  OBVIOUS
<1>4. ASSUME NEW k \in S PROVE k <= m
  <2>1. x <= n - k
    BY <1>2
  <2> QED BY <1>3, <2>1
<1> QED BY <1>4

(* What holds of 0 and with a number of the next holds of all.             *)
LEMMA Upward ==
  ASSUME NEW n \in Nat, NEW G, 0 \in G, \A i \in 1..n : i - 1 \in G => i \in G
  PROVE  \A i \in 0..n : i \in G
<1> DEFINE S == {i \in 0..n : i \notin G}
<1> SUFFICES ASSUME S # {} PROVE FALSE
  OBVIOUS
<1>1. PICK m \in S : \A k \in S : m <= k
  <2>1. S \subseteq Nat
    OBVIOUS
  <2> HIDE DEF S
  <2> QED BY <2>1, Least
<1>2. m \in 1..n /\ m - 1 \in 0..n
  OBVIOUS
<1>3. m - 1 \notin S
  <2> HIDE DEF S
  <2> QED BY <1>1, <1>2
<1> QED BY <1>2, <1>3

(* The same downward.                                                      *)
LEMMA Downward ==
  ASSUME NEW n \in Nat, NEW G, n \in G, \A i \in 1..n : i \in G => i - 1 \in G
  PROVE  \A i \in 0..n : i \in G
<1> DEFINE S == {i \in 0..n : i \notin G}
<1> SUFFICES ASSUME S # {} PROVE FALSE
  OBVIOUS
<1>1. PICK m \in S : \A k \in S : k <= m
  <2>1. S \subseteq 0..n
    OBVIOUS
  <2> HIDE DEF S
  <2> QED BY <2>1, Largest
<1>2. m \in 0..(n - 1) /\ m + 1 \in 1..n
  OBVIOUS
<1>3. m + 1 \notin S
  <2> HIDE DEF S
  <2> QED BY <1>1, <1>2
<1>4. m + 1 \in G => m \in G
  <2>1. (m + 1) - 1 = m
    BY <1>2
  <2> HIDE DEF S
  <2> QED BY <1>2, <2>1
<1> QED BY <1>2, <1>3, <1>4

(* An element of a sequence is of the kind of the sequence.                *)
LEMMA SeqAt ==
  ASSUME NEW S, NEW s \in Seq(S), NEW n \in 1..Len(s)
  PROVE  s[n] \in S
OBVIOUS

(* What one sequence behind another holds.                                 *)
LEMMA ConcatAt ==
  ASSUME NEW S, NEW s \in Seq(S), NEW t \in Seq(S)
  PROVE  /\ s \o t \in Seq(S) /\ Len(s \o t) = Len(s) + Len(t)
         /\ \A k \in 1..Len(s) : (s \o t)[k] = s[k]
         /\ \A k \in 1..Len(t) : (s \o t)[Len(s) + k] = t[k]
<1>1. s \o t \in Seq(S) /\ Len(s \o t) = Len(s) + Len(t)
  BY ConcatProperties
<1>2. ASSUME NEW k \in 1..Len(s) PROVE (s \o t)[k] = s[k]
  OBVIOUS
<1>3. ASSUME NEW k \in 1..Len(t) PROVE (s \o t)[Len(s) + k] = t[k]
  OBVIOUS
<1> QED BY <1>1, <1>2, <1>3

(* Bytes behind bytes are bytes, as many as both.                          *)
LEMMA OctetsConcat ==
  ASSUME NEW s \in Octets, NEW t \in Octets
  PROVE  /\ s \o t \in Octets /\ Len(s \o t) = Len(s) + Len(t)
         /\ Len(s) \in Nat /\ Len(t) \in Nat
         /\ \A k \in 1..Len(s) : (s \o t)[k] = s[k]
         /\ \A k \in 1..Len(t) : (s \o t)[Len(s) + k] = t[k]
<1>1. s \in Seq(Octet) /\ t \in Seq(Octet)
  BY DEF Octets
<1>2. Len(s) \in Nat /\ Len(t) \in Nat
  BY <1>1
<1>3. /\ s \o t \in Seq(Octet) /\ Len(s \o t) = Len(s) + Len(t)
      /\ \A k \in 1..Len(s) : (s \o t)[k] = s[k]
      /\ \A k \in 1..Len(t) : (s \o t)[Len(s) + k] = t[k]
  BY <1>1, ConcatAt
<1>4. s \o t \in Octets
  BY <1>3, Zenon DEF Octets
<1> QED BY <1>2, <1>3, <1>4, Zenon
-----------------------------------------------------------------------------
(* Concatenation of many.  Parts(ws, F): F[i] is that of the first i.      *)
Parts(ws, F) ==
  /\ F[0] = << >>
  /\ \A i \in 1..Len(ws) : F[i] = F[i - 1] \o ws[i]

(* FlattenSeq is the last of the parts.                                    *)
LEMMA FlattenIs ==
  ASSUME NEW S, NEW ws \in Seq(Seq(S))
  PROVE  \E F \in [0..Len(ws) -> Seq(S)] : Parts(ws, F) /\ FlattenSeq(ws) = F[Len(ws)]
<1> DEFINE n == Len(ws)
           T == Seq(S)
           Good(F, m) == F[0] = << >> /\ \A i \in 1..m : F[i] = F[i - 1] \o ws[i]
           G == {m \in 0..n : \E F \in [0..n -> T] : Good(F, m)}
<1>1. n \in Nat /\ << >> \in T /\ \A i \in 1..n : ws[i] \in T
  OBVIOUS
<1> HIDE DEF n
<1>2. 0 \in G
  <2>1. [k \in 0..n |-> << >>] \in [0..n -> T] /\ Good([k \in 0..n |-> << >>], 0)
    BY <1>1
  <2> HIDE DEF T, Good
  <2> QED BY <1>1, <2>1
<1>3. ASSUME NEW m \in 1..n, m - 1 \in G PROVE m \in G
  <2>1. PICK F \in [0..n -> T] : Good(F, m - 1)
    BY <1>3
  <2> DEFINE w == F[m - 1] \o ws[m]
             H == [F EXCEPT ![m] = w]
  <2>2. F[m - 1] \in T /\ ws[m] \in T
    BY <1>1
  <2>3. w \in T
    BY <2>2, ConcatProperties
  <2> HIDE DEF w
  <2>4. H \in [0..n -> T] /\ H[m] = w /\ \A k \in 0..(m - 1) : H[k] = F[k]
    <3> HIDE DEF T
    <3> QED BY <1>1, <2>3
  <2> HIDE DEF H, T
  <2>5. Good(H, m)
    <3>1. H[0] = << >>
      BY <1>1, <2>1, <2>4
    <3>2. ASSUME NEW i \in 1..m PROVE H[i] = H[i - 1] \o ws[i]
      <4>1. CASE i = m
        <5>1. H[m] = w /\ H[m - 1] = F[m - 1]
          BY <2>4
        <5> QED BY <4>1, <5>1, Zenon DEF w
      <4>2. CASE i # m
        <5>1. i \in 1..(m - 1) /\ i \in 0..(m - 1) /\ i - 1 \in 0..(m - 1)
          BY <4>2
        <5>2. F[i] = F[i - 1] \o ws[i]
          BY <2>1, <5>1, Zenon
        <5>3. H[i] = F[i] /\ H[i - 1] = F[i - 1]
          BY <2>4, <5>1
        <5> QED BY <5>2, <5>3, Zenon
      <4> QED BY <4>1, <4>2
    <3> QED BY <3>1, <3>2
  <2> HIDE DEF Good
  <2> QED BY <2>4, <2>5
<1>4. n \in G
  <2>1. \A m \in 1..n : m - 1 \in G => m \in G
    BY <1>3, Zenon
  <2>2. n \in Nat
    BY <1>1
  <2> HIDE DEF G
  <2>3. \A m \in 0..n : m \in G
    BY <1>2, <2>1, <2>2, Upward
  <2> QED BY <2>2, <2>3
<1>5. PICK F \in [0..n -> T] : Good(F, n)
  BY <1>4
<1>6. FlattenSeq(ws) = F[n]
  <2>1. CASE n = 0
    <3>1. ws = << >> /\ FlattenSeq(ws) = ws
      BY <2>1 DEF FlattenSeq, n
    <3> QED BY <1>5, <2>1, <3>1
  <2>2. CASE n # 0
    <3> DEFINE Step(g, i) == IF i = 1 THEN ws[i] ELSE g[i - 1] \o ws[i]
               flat == CHOOSE g : g = [i \in 1..n |-> Step(g, i)]
               h == [i \in 1..n |-> F[i]]
    <3>1. FlattenSeq(ws) = flat[n]
      BY <2>2 DEF FlattenSeq, n
    <3>2. h = [i \in 1..n |-> Step(h, i)]
      <4>1. ASSUME NEW i \in 1..n PROVE F[i] = Step(h, i)
        <5>1. CASE i = 1
          <6>0. F[0] = << >> /\ F[1] = F[1 - 1] \o ws[1]
            BY <1>5, <5>1, Zenon
          <6>3. 1 - 1 = 0
            OBVIOUS
          <6>1. F[1] = << >> \o ws[1]
            BY <6>0, <6>3, Zenon
          <6>2. << >> \o ws[1] = ws[1]
            BY <1>1, <5>1, ConcatEmptySeq
          <6> QED BY <5>1, <6>1, <6>2
        <5>2. CASE i # 1
          <6>1. i - 1 \in 1..n
            BY <1>1, <5>2
          <6> QED BY <1>5, <5>2, <6>1
        <5> QED BY <5>1, <5>2
      <4> HIDE DEF Step
      <4> QED BY <4>1
    <3>3. flat = [i \in 1..n |-> Step(flat, i)]
      <4> HIDE DEF Step, h
      <4> QED BY <3>2
    <3>4. \A i \in 1..n : flat[i] = Step(flat, i)
      <4> HIDE DEF Step, flat
      <4> QED BY <3>3
    <3> HIDE DEF flat, h
    <3> DEFINE E == {i \in 0..n : i = 0 \/ flat[i] = F[i]}
    <3>5. ASSUME NEW i \in 1..n, i - 1 \in E PROVE i \in E
      <4>1. CASE i = 1
        <5>0. 1 - 1 = 0
          OBVIOUS
        <5>1. F[0] = << >> /\ F[1] = F[1 - 1] \o ws[1]
          BY <1>5, <4>1, Zenon
        <5>2. << >> \o ws[1] = ws[1]
          BY <1>1, <4>1, ConcatEmptySeq
        <5>3. F[1] = ws[1]
          BY <5>0, <5>1, <5>2, Zenon
        <5> QED BY <3>4, <4>1, <5>3
      <4>2. CASE i # 1
        <5>1. i - 1 # 0 /\ flat[i - 1] = F[i - 1]
          BY <3>5, <4>2
        <5>2. flat[i] = flat[i - 1] \o ws[i]
          BY <3>4, <4>2, Zenon
        <5>3. F[i] = F[i - 1] \o ws[i]
          BY <1>5, Zenon
        <5>4. flat[i] = F[i]
          BY <5>1, <5>2, <5>3, Zenon
        <5> QED BY <5>4
      <4> QED BY <4>1, <4>2
    <3>6. n \in E
      <4>1. 0 \in E
        BY <1>1
      <4>2. \A i \in 1..n : i - 1 \in E => i \in E
        BY <3>5, Zenon
      <4>3. n \in Nat
        BY <1>1
      <4> HIDE DEF E
      <4>4. \A m \in 0..n : m \in E
        BY <4>1, <4>2, <4>3, Upward
      <4> QED BY <4>3, <4>4
    <3> QED BY <2>2, <3>1, <3>6
  <2> QED BY <2>1, <2>2
<1> QED BY <1>5, <1>6 DEF Parts, n

(* Each part but the last is a beginning of the next.                      *)
LEMMA PartsLengths ==
  ASSUME NEW S, NEW ws \in Seq(Seq(S)), NEW F \in [0..Len(ws) -> Seq(S)], Parts(ws, F)
  PROVE  \A i \in 1..Len(ws) : Len(F[i]) = Len(F[i - 1]) + Len(ws[i])
<1> SUFFICES ASSUME NEW i \in 1..Len(ws) PROVE Len(F[i]) = Len(F[i - 1]) + Len(ws[i])
  OBVIOUS
<1>1. F[i - 1] \in Seq(S) /\ ws[i] \in Seq(S)
  <2> DEFINE T == Seq(S) N == Len(ws)
  <2>1. ws \in Seq(T) /\ F \in [0..N -> T] /\ i \in 1..N /\ N \in Nat
    OBVIOUS
  <2>2. ws[i] \in T
    <3> HIDE DEF T
    <3> QED BY <2>1, SeqAt
  <2> HIDE DEF T, N
  <2>3. F[i - 1] \in T
    BY <2>1
  <2> QED BY <2>2, <2>3 DEF T
<1>2. F[i] = F[i - 1] \o ws[i]
  BY Zenon DEF Parts
<1>3. Len(F[i - 1] \o ws[i]) = Len(F[i - 1]) + Len(ws[i])
  BY <1>1, ConcatProperties
<1> QED BY <1>2, <1>3, Zenon
-----------------------------------------------------------------------------
(* As far as the buffer b goes, w stands in it behind n bytes.             *)
Agree(b, n, w) == \A j \in 1..Len(w) : n + j <= Len(b) => b[n + j] = w[j]

(* A buffer that agrees with two pieces agrees with each in its place.     *)
LEMMA AgreeSplit ==
  ASSUME NEW b \in Octets, NEW n \in Nat, NEW u \in Octets, NEW v \in Octets,
         Agree(b, n, u \o v)
  PROVE  Agree(b, n, u) /\ Agree(b, n + Len(u), v)
<1> DEFINE w == u \o v
<1>1. /\ Len(w) = Len(u) + Len(v)
      /\ \A k \in 1..Len(u) : w[k] = u[k]
      /\ \A k \in 1..Len(v) : w[Len(u) + k] = v[k]
  BY ConcatAt DEF Octets
<1>2. Len(u) \in Nat /\ Len(v) \in Nat /\ Len(b) \in Nat
  BY DEF Octets
<1>3. \A j \in 1..Len(w) : n + j <= Len(b) => b[n + j] = w[j]
  BY Zenon DEF Agree
<1> HIDE DEF w
<1>4. ASSUME NEW j \in 1..Len(u), n + j <= Len(b) PROVE b[n + j] = u[j]
  <2>1. j \in 1..Len(w)
    BY <1>1, <1>2
  <2> QED BY <1>1, <1>3, <1>4, <2>1
<1>5. ASSUME NEW j \in 1..Len(v), n + Len(u) + j <= Len(b) PROVE b[n + Len(u) + j] = v[j]
  <2>1. Len(u) + j \in 1..Len(w) /\ n + (Len(u) + j) = n + Len(u) + j
    BY <1>1, <1>2
  <2>2. b[n + (Len(u) + j)] = w[Len(u) + j]
    BY <1>3, <1>5, <2>1
  <2> QED BY <1>1, <2>1, <2>2
<1> QED BY <1>4, <1>5 DEF Agree

(* Behind its end it agrees with everything.                               *)
LEMMA AgreePast ==
  ASSUME NEW b \in Octets, NEW n \in Nat, n >= Len(b), NEW w \in Octets
  PROVE  Agree(b, n, w)
<1>1. Len(b) \in Nat
  BY DEF Octets
<1>2. \A j \in 1..Len(w) : ~(n + j <= Len(b))
  BY <1>1
<1> QED BY <1>2 DEF Agree

(* What pop_int8 yields of bytes that stand in the buffer.                 *)
LEMMA ByteBack ==
  ASSUME NEW b \in Octets, NEW n \in Nat, NEW w \in Octets, Agree(b, n, w),
         NEW j \in 1..Len(w), n + j <= Len(b)
  PROVE  Byte(b, n + j - 1) = w[j]
<1>1. Len(b) \in Nat /\ n + j - 1 < Len(b) /\ (n + j - 1) + 1 = n + j
  BY DEF Octets
<1>2. b[n + j] = w[j]
  BY DEF Agree
<1> QED BY <1>1, <1>2 DEF Byte

(* A buffer that agrees with many pieces agrees with each in its place.    *)
LEMMA PieceAgrees ==
  ASSUME NEW b \in Octets, NEW n \in Nat,
         NEW ws \in Seq(Octets), NEW F \in [0..Len(ws) -> Octets], Parts(ws, F),
         Agree(b, n, F[Len(ws)])
  PROVE  /\ \A i \in 0..Len(ws) : Len(F[i]) \in Nat /\ Len(F[i]) <= Len(F[Len(ws)])
         /\ \A i \in 1..Len(ws) : /\ ws[i] \in Octets
                                  /\ Agree(b, n + Len(F[i - 1]), ws[i])
                                  /\ Len(F[i]) = Len(F[i - 1]) + Len(ws[i])
<1> DEFINE N == Len(ws) M == Len(F[N])
           G == {i \in 0..N : Agree(b, n, F[i]) /\ Len(F[i]) <= M}
<1>1. N \in Nat
  OBVIOUS
<1>0. \A w \in Octets : Len(w) \in Nat
  BY DEF Octets
<1>2. \A i \in 0..N : F[i] \in Octets /\ Len(F[i]) \in Nat
  <2> HIDE DEF N
  <2>1. F \in [0..N -> Octets]
    BY DEF N
  <2> QED BY <1>0, <2>1
<1>3. \A i \in 1..N : ws[i] \in Octets /\ i - 1 \in 0..N /\ i \in 0..N /\ Len(ws[i]) \in Nat
  BY DEF Octets
<1>4. \A i \in 1..N : F[i] = F[i - 1] \o ws[i]
  BY Zenon DEF Parts
<1>5. \A i \in 1..N : Len(F[i]) = Len(F[i - 1]) + Len(ws[i])
  <2>1. ws \in Seq(Seq(Octet)) /\ F \in [0..Len(ws) -> Seq(Octet)]
    BY DEF Octets
  <2> QED BY <2>1, PartsLengths
<1> HIDE DEF N
<1>6. N \in G
  BY <1>1, <1>2 DEF N
<1>7. ASSUME NEW i \in 1..N, i \in G PROVE i - 1 \in G /\ Agree(b, n + Len(F[i - 1]), ws[i])
  <2>1. Agree(b, n, F[i - 1] \o ws[i])
    BY <1>4, <1>7, Zenon
  <2>2. F[i - 1] \in Octets /\ ws[i] \in Octets /\ i - 1 \in 0..N
    BY <1>2, <1>3
  <2>3. Agree(b, n, F[i - 1]) /\ Agree(b, n + Len(F[i - 1]), ws[i])
    BY <2>1, <2>2, AgreeSplit
  <2>4. Len(F[i - 1]) <= M
    <3>1. Len(F[i]) <= M /\ M \in Nat /\ Len(F[i]) = Len(F[i - 1]) + Len(ws[i])
      BY <1>1, <1>2, <1>5, <1>7
    <3>2. Len(F[i - 1]) \in Nat /\ Len(ws[i]) \in Nat
      BY <1>2, <1>3
    <3> HIDE DEF M
    <3> QED BY <3>1, <3>2
  <2> QED BY <2>2, <2>3, <2>4
<1>8. \A i \in 0..N : i \in G
  <2>1. \A i \in 1..N : i \in G => i - 1 \in G
    BY <1>7, Zenon
  <2> HIDE DEF G
  <2> QED BY <1>1, <1>6, <2>1, Downward
<1>9. \A i \in 1..N : Agree(b, n + Len(F[i - 1]), ws[i])
  <2>1. \A i \in 1..N : i \in G
    BY <1>3, <1>8
  <2> HIDE DEF G
  <2> QED BY <1>7, <2>1
<1>10. \A i \in 0..N : Len(F[i]) <= M
  BY <1>8
<1> QED BY <1>2, <1>3, <1>5, <1>9, <1>10 DEF N
-----------------------------------------------------------------------------
(* Numbers.                                                                *)
LEMMA Bytes16Type ==
  ASSUME NEW v \in uint16
  PROVE  /\ Bytes16(v) \in Octets /\ Len(Bytes16(v)) = 2
         /\ Bytes16(v)[1] * 256 + Bytes16(v)[2] = v
<1> DEFINE x == v \div 256 y == v % 256
<1>1. x \in 0..255 /\ y \in 0..255 /\ v = x * 256 + y
  BY DEF uint16
<1>2. Bytes16(v) = <<x, y>>
  BY DEF Bytes16
<1> HIDE DEF x, y
<1>3. x \in Octet /\ y \in Octet
  BY <1>1 DEF Octet
<1>4. <<x, y>> \in Octets /\ Len(<<x, y>>) = 2 /\ <<x, y>>[1] = x /\ <<x, y>>[2] = y
  BY <1>3 DEF Octets
<1> QED BY <1>1, <1>2, <1>4

(* Sixteen bits that were written are read.                                *)
LEMMA Int16Back ==
  ASSUME NEW b \in Octets, NEW n \in Nat, NEW v \in uint16, Agree(b, n, Bytes16(v)), n + 2 <= Len(b)
  PROVE  Int16(b, n) = v
<1> DEFINE w == Bytes16(v)
<1>1. w \in Octets /\ Len(w) = 2 /\ w[1] * 256 + w[2] = v
  BY Bytes16Type
<1>2. Agree(b, n, w)
  OBVIOUS
<1> HIDE DEF w
<1>3. Len(b) \in Nat /\ n + 1 <= Len(b) /\ n + 1 - 1 = n /\ n + 2 - 1 = n + 1
  BY DEF Octets
<1>4. Byte(b, n + 1 - 1) = w[1] /\ Byte(b, n + 2 - 1) = w[2]
  BY <1>1, <1>2, <1>3, ByteBack
<1>5. Byte(b, n) = w[1] /\ Byte(b, n + 1) = w[2]
  BY <1>3, <1>4, Zenon
<1> QED BY <1>1, <1>5 DEF Int16

Fits32(v)  == v \in Nat /\ v \div 65536 \in uint16
Join(x, y) == x * 65536 + y

(* Thirty-two bits are written as two halves.                              *)
LEMMA Halves ==
  ASSUME NEW v, Fits32(v)
  PROVE  \E x, y \in uint16 : v = Join(x, y) /\ Bytes32(v) = Bytes16(x) \o Bytes16(y)
<1> DEFINE x == v \div 65536 y == v % 65536
<1>1. v \in Nat /\ x \in uint16
  BY SMT DEF Fits32
<1>2. y \in uint16
  <2>1. \A k \in Int : k % 65536 \in uint16
    BY SMT DEF uint16
  <2>2. v \in Int
    BY <1>1
  <2> QED BY <2>1, <2>2, SMT
<1>3. v = x * 65536 + y
  BY <1>1, SMT
<1>4. v = Join(x, y)
  BY <1>3, SMT DEF Join
<1>5. Bytes32(v) = Bytes16(x) \o Bytes16(y)
  BY SMT DEF Bytes32
<1> HIDE DEF x, y
<1> QED BY <1>1, <1>2, <1>4, <1>5, SMT

(* Thirty-two bits are written as four bytes.                              *)
LEMMA Bytes32Type ==
  ASSUME NEW v, Fits32(v)
  PROVE  Bytes32(v) \in Octets /\ Len(Bytes32(v)) = 4
<1>1. PICK x \in uint16, y \in uint16 : Bytes32(v) = Bytes16(x) \o Bytes16(y)
  BY Halves
<1> DEFINE s == Bytes16(x) t == Bytes16(y)
<1>2. s \in Seq(Octet) /\ t \in Seq(Octet) /\ Len(s) = 2 /\ Len(t) = 2
  BY Bytes16Type DEF Octets
<1> HIDE DEF s, t
<1>3. s \o t \in Seq(Octet) /\ Len(s \o t) = Len(s) + Len(t)
  BY <1>2, ConcatAt
<1>4. Bytes32(v) = s \o t
  BY <1>1, Zenon DEF s, t
<1>5. Bytes32(v) \in Octets /\ Len(Bytes32(v)) = Len(s) + Len(t)
  BY <1>3, <1>4, Zenon DEF Octets
<1> QED BY <1>2, <1>5

(* Thirty-two bits that were written are read.                             *)
LEMMA Int32Back ==
  ASSUME NEW b \in Octets, NEW n \in Nat, NEW v, Fits32(v),
         Agree(b, n, Bytes32(v)), n + 4 <= Len(b)
  PROVE  Int32(b, n) = v
<1>1. PICK x \in uint16, y \in uint16 : v = Join(x, y) /\ Bytes32(v) = Bytes16(x) \o Bytes16(y)
  BY Halves
<1> DEFINE s == Bytes16(x) t == Bytes16(y)
<1>2. s \in Octets /\ t \in Octets /\ Len(s) = 2
  BY Bytes16Type
<1>3. Agree(b, n, s \o t)
  BY <1>1, Zenon
<1> HIDE DEF s, t
<1>4. Agree(b, n, s) /\ Agree(b, n + Len(s), t)
  BY <1>2, <1>3, AgreeSplit
<1>5. Agree(b, n, Bytes16(x)) /\ Agree(b, n + 2, Bytes16(y))
  BY <1>2, <1>4, Zenon DEF s, t
<1>6. Len(b) \in Nat /\ n + 2 <= Len(b) /\ (n + 2) + 2 <= Len(b) /\ n + 2 \in Nat
  BY DEF Octets
<1>7. Int16(b, n) = x /\ Int16(b, n + 2) = y
  BY <1>1, <1>5, <1>6, Int16Back
<1>8. Int32(b, n) = Join(Int16(b, n), Int16(b, n + 2))
  BY SMT DEF Int32, Join
<1> QED BY <1>1, <1>7, <1>8

-----------------------------------------------------------------------------
(* Labels.  The recursive function of ReadLabels exists, since past the    *)
(* end of the buffer it reads a zero, which ends the labels.               *)
NameAt(b, k, size) == [j \in 1..size |-> Byte(b, k + j)]

LabelsStep(b, g, k) ==
  IF Byte(b, k) = 0 THEN [val |-> << >>, at |-> k + 1]
  ELSE [val |-> <<NameAt(b, k, Byte(b, k))>> \o g[k + 1 + Byte(b, k)].val,
        at  |-> g[k + 1 + Byte(b, k)].at]

(* pop_int8 gives a byte, zero past the end.                               *)
LEMMA ByteType ==
  ASSUME NEW b \in Octets, NEW n \in Nat
  PROVE  Byte(b, n) \in Octet /\ Byte(b, n) \in Nat /\ (n >= Len(b) => Byte(b, n) = 0)
<1>1. CASE n < Len(b)
  <2>1. n + 1 \in 1..Len(b) /\ b \in Seq(Octet) /\ Len(b) \in Nat
    BY <1>1 DEF Octets
  <2>2. b[n + 1] \in Octet
    BY <2>1, SeqAt
  <2>3. Byte(b, n) = b[n + 1]
    BY <1>1 DEF Byte
  <2>4. \A x \in Octet : x \in Nat
    BY DEF Octet
  <2>5. ~(n >= Len(b))
    BY <1>1, <2>1
  <2> QED BY <2>2, <2>3, <2>4, <2>5
<1>2. CASE ~(n < Len(b))
  BY <1>2 DEF Byte, Octet
<1> QED BY <1>1, <1>2

(* read_labels does what its loop says, wherever it starts: each turn      *)
(* takes a byte, and past the end of the buffer it stops, so that the      *)
(* recursive function exists.                                              *)
LEMMA ReadLabelsEquation ==
  ASSUME NEW b \in Octets, NEW n \in Nat
  PROVE  ReadLabels(b, n) =
           IF Byte(b, n) = 0 THEN [val |-> << >>, at |-> n + 1]
           ELSE [val |-> <<NameAt(b, n, Byte(b, n))>> \o ReadLabels(b, n + 1 + Byte(b, n)).val,
                 at  |-> ReadLabels(b, n + 1 + Byte(b, n)).at]
<1> DEFINE N == Len(b)
           Good(g, m) == g = [k \in Nat |-> IF k >= m THEN LabelsStep(b, g, k) ELSE 0]
           G == {m \in 0..N : \E g : Good(g, m)}
<1>1. N \in Nat /\ \A k \in Nat : Byte(b, k) \in Nat /\ (k >= N => Byte(b, k) = 0)
  BY ByteType DEF Octets
<1> HIDE DEF N
<1>2. N \in G
  <2> DEFINE z == [k \in Nat |-> 0]
             g == [k \in Nat |-> IF k >= N THEN LabelsStep(b, z, k) ELSE 0]
  <2>1. \A k \in Nat : k >= N => LabelsStep(b, g, k) = LabelsStep(b, z, k)
    BY <1>1 DEF LabelsStep
  <2>2. Good(g, N)
    <3> HIDE DEF z
    <3> QED BY <2>1
  <2> HIDE DEF Good, g
  <2> QED BY <1>1, <2>2
<1>3. ASSUME NEW m \in 1..N, m \in G PROVE m - 1 \in G
  <2>1. PICK g : Good(g, m)
    BY <1>3
  <2> DEFINE h == [k \in Nat |-> IF k >= m - 1 THEN LabelsStep(b, g, k) ELSE 0]
  <2>2. ASSUME NEW k \in Nat, k >= m - 1 PROVE LabelsStep(b, h, k) = LabelsStep(b, g, k)
    <3> DEFINE j == k + 1 + Byte(b, k)
    <3>1. j \in Nat /\ j >= m /\ j >= m - 1
      BY <1>1, <1>3, <2>2
    <3> HIDE DEF j
    <3>2. h[j] = LabelsStep(b, g, j) /\ g[j] = LabelsStep(b, g, j)
      BY <2>1, <3>1
    <3> HIDE DEF h
    <3>3. h[j] = g[j]
      BY <3>2
    <3> QED BY <3>3, Zenon DEF LabelsStep, j
  <2>3. Good(h, m - 1)
    BY <2>2
  <2>4. m - 1 \in 0..N
    BY <1>1, <1>3
  <2> HIDE DEF Good, h
  <2> QED BY <2>3, <2>4
<1>4. 0 \in G
  <2>1. \A m \in 1..N : m \in G => m - 1 \in G
    BY <1>3, Zenon
  <2>2. N \in Nat
    BY <1>1
  <2> HIDE DEF G
  <2>3. \A m \in 0..N : m \in G
    BY <1>2, <2>1, <2>2, Downward
  <2> QED BY <2>2, <2>3
<1>5. \E g : g = [k \in Nat |-> LabelsStep(b, g, k)]
  <2>1. PICK g : Good(g, 0)
    BY <1>4
  <2>2. g = [k \in Nat |-> LabelsStep(b, g, k)]
    BY <2>1
  <2> QED BY <2>2
<1> DEFINE from == CHOOSE g : g = [k \in Nat |-> LabelsStep(b, g, k)]
<1>6. \A k : ReadLabels(b, k) = from[k]
  BY Zenon DEF ReadLabels, LabelsStep, NameAt
<1>7. from = [k \in Nat |-> LabelsStep(b, from, k)]
  BY <1>5
<1> HIDE DEF from
<1>8. from[n] = LabelsStep(b, from, n)
  BY <1>7
<1>9. n + 1 + Byte(b, n) \in Nat
  BY <1>1
<1> QED BY <1>6, <1>8, Zenon DEF LabelsStep

(* A label as it is written.                                               *)
Word(l) == <<Len(l)>> \o l

(* A label and the byte before it.                                         *)
LEMMA WordIs ==
  ASSUME NEW l \in dnsmsg_label
  PROVE  /\ Word(l) \in Octets /\ l \in Octets /\ Len(l) \in 1..255
         /\ Len(Word(l)) = 1 + Len(l)
         /\ Word(l)[1] = Len(l) /\ \A j \in 1..Len(l) : Word(l)[1 + j] = l[j]
<1>1. l \in Seq(Octet) /\ Len(l) \in 1..255
  BY DEF dnsmsg_label, Octet
<1>2. Len(l) \in Octet
  BY <1>1 DEF Octet
<1> DEFINE s == <<Len(l)>>
<1>3. s \in Seq(Octet) /\ Len(s) = 1 /\ s[1] = Len(l)
  BY <1>2
<1> HIDE DEF s
<1>4. /\ s \o l \in Seq(Octet) /\ Len(s \o l) = Len(s) + Len(l)
      /\ \A k \in 1..Len(s) : (s \o l)[k] = s[k]
      /\ \A k \in 1..Len(l) : (s \o l)[Len(s) + k] = l[k]
  <2>1. s \in Octets /\ l \in Octets
    BY <1>1, <1>3 DEF Octets
  <2> QED BY <2>1, OctetsConcat, Zenon DEF Octets
<1> DEFINE w == s \o l
<1>5. Word(l) = w
  BY Zenon DEF Word, s
<1>6. /\ w \in Seq(Octet) /\ Len(w) = 1 + Len(l) /\ w[1] = Len(l)
      /\ \A k \in 1..Len(l) : w[1 + k] = l[k]
  <2>1. 1 \in 1..Len(s)
    BY <1>3
  <2>2. w \in Seq(Octet) /\ Len(w) = Len(s) + Len(l)
        /\ (\A k \in 1..Len(s) : w[k] = s[k]) /\ \A k \in 1..Len(l) : w[Len(s) + k] = l[k]
    BY <1>4
  <2> HIDE DEF w
  <2> QED BY <1>3, <2>1, <2>2
<1> HIDE DEF w
<1> QED BY <1>1, <1>5, <1>6 DEF Octets

(* No label has the length that ends a name.                               *)
LEMMA LabelLength ==
  ASSUME NEW l \in dnsmsg_label
  PROVE  Len(l) \in Nat /\ Len(l) # 0
<1>1. Len(l) \in 1..255
  BY DEF dnsmsg_label
<1>2. \A x \in 1..255 : x \in Nat /\ x # 0
  OBVIOUS
<1> QED BY <1>1, <1>2, Zenon

(* A label that was written is read.                                       *)
LEMMA NameBack ==
  ASSUME NEW b \in Octets, NEW k \in Nat, NEW l \in dnsmsg_label, Agree(b, k, Word(l)), k < Len(b)
  PROVE  /\ Byte(b, k) = Len(l)
         /\ k + 1 + Len(l) <= Len(b) => NameAt(b, k, Len(l)) = l
<1> DEFINE w == Word(l)
<1>1. /\ w \in Octets /\ Len(l) \in Nat /\ Len(w) = 1 + Len(l) /\ Len(b) \in Nat
      /\ w[1] = Len(l) /\ \A j \in 1..Len(l) : w[1 + j] = l[j]
  BY WordIs DEF Octets
<1>2. Agree(b, k, w)
  OBVIOUS
<1> HIDE DEF w
<1>3. Byte(b, k) = Len(l)
  <2>1. 1 \in 1..Len(w) /\ k + 1 <= Len(b) /\ k + 1 - 1 = k
    BY <1>1
  <2>2. Byte(b, k + 1 - 1) = w[1]
    BY <1>1, <1>2, <2>1, ByteBack
  <2> QED BY <1>1, <2>1, <2>2
<1>4. ASSUME k + 1 + Len(l) <= Len(b) PROVE NameAt(b, k, Len(l)) = l
  <2>1. ASSUME NEW j \in 1..Len(l) PROVE Byte(b, k + j) = l[j]
    <3>1. 1 + j \in 1..Len(w) /\ k + (1 + j) <= Len(b) /\ k + (1 + j) - 1 = k + j
      BY <1>1, <1>4
    <3>2. Byte(b, k + (1 + j) - 1) = w[1 + j]
      BY <1>1, <1>2, <3>1, ByteBack
    <3> QED BY <1>1, <3>1, <3>2
  <2>2. l = [j \in 1..Len(l) |-> l[j]]
    BY DEF dnsmsg_label
  <2>3. NameAt(b, k, Len(l)) = [j \in 1..Len(l) |-> l[j]]
    BY <2>1 DEF NameAt
  <2> QED BY <2>2, <2>3
<1> QED BY <1>3, <1>4

(* What reading gives of an element e written as w, that stands behind n   *)
(* bytes of b: the element, if it is all there, and otherwise a position   *)
(* past the end.                                                           *)
ReadsAs(r, b, n, w, e) ==
  IF n + Len(w) <= Len(b) THEN r.val = e /\ r.at = n + Len(w)
                          ELSE r.at \in Nat /\ r.at > Len(b)

(* What a name is written as, label by label.                              *)
LEMMA LabelBytesIs ==
  ASSUME NEW ls \in Seq(dnsmsg_label)
  PROVE  \E F \in [0..Len(ls) -> Octets] :
           /\ F[0] = << >>
           /\ \A i \in 1..Len(ls) : F[i] = F[i - 1] \o Word(ls[i]) /\ Len(F[i]) = Len(F[i - 1]) + (1 + Len(ls[i]))
           /\ LabelBytes(ls) = F[Len(ls)] \o <<0>>
           /\ LabelBytes(ls) \in Octets /\ Len(LabelBytes(ls)) = Len(F[Len(ls)]) + 1
           /\ \A b \in Octets, n \in Nat : Agree(b, n, LabelBytes(ls)) =>
                /\ \A i \in 0..Len(ls) : Len(F[i]) \in Nat /\ Len(F[i]) <= Len(F[Len(ls)])
                /\ \A i \in 1..Len(ls) : Agree(b, n + Len(F[i - 1]), Word(ls[i]))
                /\ Agree(b, n + Len(F[Len(ls)]), <<0>>)
<1> DEFINE N == Len(ls)
           ws == [i \in DOMAIN ls |-> <<Len(ls[i])>> \o ls[i]]
<1>1. N \in Nat /\ DOMAIN ls = 1..N /\ \A i \in 1..N : ls[i] \in dnsmsg_label
  OBVIOUS
<1>2. ws = [i \in 1..N |-> Word(ls[i])]
  BY <1>1, Zenon DEF Word
<1>3. FlattenSeq(ws) \o <<0>> = LabelBytes(ls)
  BY Zenon DEF LabelBytes
<1> HIDE DEF ws, N
<1>4. \A i \in 1..N : Word(ls[i]) \in Octets /\ Len(Word(ls[i])) = 1 + Len(ls[i])
  BY <1>1, WordIs
<1>5. ws \in Seq(Octets) /\ Len(ws) = N /\ \A i \in 1..N : ws[i] = Word(ls[i])
  BY <1>1, <1>2, <1>4
<1>6. PICK F \in [0..N -> Octets] : Parts(ws, F) /\ FlattenSeq(ws) = F[N]
  BY <1>5, FlattenIs DEF Octets
<1>7. F[0] = << >> /\ \A i \in 1..N : F[i] = F[i - 1] \o Word(ls[i])
  BY <1>5, <1>6, Zenon DEF Parts
<1>8. \A i \in 1..N : Len(F[i]) = Len(F[i - 1]) + (1 + Len(ls[i]))
  <2>1. ws \in Seq(Seq(Octet)) /\ F \in [0..Len(ws) -> Seq(Octet)] /\ Parts(ws, F)
    BY <1>5, <1>6 DEF Octets
  <2>2. \A i \in 1..Len(ws) : Len(F[i]) = Len(F[i - 1]) + Len(ws[i])
    BY <2>1, PartsLengths
  <2> QED BY <1>4, <1>5, <2>2, Zenon
<1> DEFINE f == F[N] z == <<0>>
<1>9. f \in Seq(Octet) /\ z \in Seq(Octet) /\ Len(z) = 1
  BY <1>1 DEF Octets, Octet
<1>10. LabelBytes(ls) = f \o z
  BY <1>3, <1>6, Zenon
<1> HIDE DEF f, z
<1>11. LabelBytes(ls) \in Octets /\ Len(LabelBytes(ls)) = Len(f) + 1
  <2>1. f \in Octets /\ z \in Octets
    BY <1>9 DEF Octets
  <2>2. f \o z \in Octets /\ Len(f \o z) = Len(f) + Len(z)
    BY <2>1, OctetsConcat, Zenon
  <2> QED BY <1>9, <1>10, <2>2, Zenon
<1>12. ASSUME NEW b \in Octets, NEW n \in Nat, Agree(b, n, LabelBytes(ls))
       PROVE  /\ \A i \in 0..N : Len(F[i]) \in Nat /\ Len(F[i]) <= Len(F[N])
              /\ \A i \in 1..N : Agree(b, n + Len(F[i - 1]), Word(ls[i]))
              /\ Agree(b, n + Len(F[N]), z)
  <2>1. Agree(b, n, f) /\ Agree(b, n + Len(f), z)
    BY <1>9, <1>10, <1>12, AgreeSplit DEF Octets
  <2>2. Agree(b, n, F[Len(ws)])
    BY <1>5, <2>1 DEF f
  <2>3. /\ \A i \in 0..Len(ws) : Len(F[i]) \in Nat /\ Len(F[i]) <= Len(F[Len(ws)])
        /\ \A i \in 1..Len(ws) : Agree(b, n + Len(F[i - 1]), ws[i])
    BY <1>5, <1>6, <2>2, PieceAgrees
  <2> QED BY <1>5, <2>1, <2>3, Zenon DEF f
<1> QED BY <1>6, <1>7, <1>8, <1>10, <1>11, <1>12, Zenon DEF N, f, z

(* A name that was written is read, or the end of the buffer is passed.    *)
LEMMA LabelsBack ==
  ASSUME NEW b \in Octets, NEW n \in Nat, NEW ls \in Seq(dnsmsg_label), Agree(b, n, LabelBytes(ls))
  PROVE  ReadsAs(ReadLabels(b, n), b, n, LabelBytes(ls), ls)
<1> DEFINE N == Len(ls)
<1>1. N \in Nat /\ Len(b) \in Nat
  BY DEF Octets
<1>2. PICK F \in [0..N -> Octets] :
        /\ F[0] = << >>
        /\ \A i \in 1..N : F[i] = F[i - 1] \o Word(ls[i]) /\ Len(F[i]) = Len(F[i - 1]) + (1 + Len(ls[i]))
        /\ LabelBytes(ls) = F[N] \o <<0>>
        /\ LabelBytes(ls) \in Octets /\ Len(LabelBytes(ls)) = Len(F[N]) + 1
        /\ \A c \in Octets, m \in Nat : Agree(c, m, LabelBytes(ls)) =>
             /\ \A i \in 0..N : Len(F[i]) \in Nat /\ Len(F[i]) <= Len(F[N])
             /\ \A i \in 1..N : Agree(c, m + Len(F[i - 1]), Word(ls[i]))
             /\ Agree(c, m + Len(F[N]), <<0>>)
  BY LabelBytesIs
<1>3. /\ \A i \in 0..N : Len(F[i]) \in Nat /\ Len(F[i]) <= Len(F[N])
      /\ \A i \in 1..N : Agree(b, n + Len(F[i - 1]), Word(ls[i]))
      /\ Agree(b, n + Len(F[N]), <<0>>)
  BY <1>2, Zenon
<1> DEFINE M == n + Len(F[N]) + 1
           Fit == M <= Len(b)
           P(r, i) == IF Fit THEN r.val = SubSeq(ls, i + 1, N) /\ r.at = M
                             ELSE r.at \in Nat /\ r.at > Len(b)
           G == {i \in 0..N : P(ReadLabels(b, n + Len(F[i])), i)}
<1>4. \A i \in 1..N : ls[i] \in dnsmsg_label
  BY SeqAt
<1>5. \A i \in 1..N : <<ls[i]>> \o SubSeq(ls, i + 1, N) = SubSeq(ls, (i - 1) + 1, N)
  <2> SUFFICES ASSUME NEW i \in 1..N PROVE <<ls[i]>> \o SubSeq(ls, i + 1, N) = SubSeq(ls, (i - 1) + 1, N)
    OBVIOUS
  <2>1. N \in i..N /\ (i - 1) + 1 = i
    BY <1>1
  <2>2. SubSeq(ls, i, N) = <<ls[i]>> \o SubSeq(ls, i + 1, N)
    BY <2>1, SubSeqRecursiveFirst
  <2> QED BY <2>1, <2>2, Zenon
<1>6. SubSeq(ls, N + 1, N) = << >> /\ SubSeq(ls, 0 + 1, N) = ls
  <2>1. SubSeq(ls, N + 1, N) = << >>
    BY <1>1, SubSeqEmpty
  <2>2. SubSeq(ls, 1, N) = ls
    BY SubSeqFull
  <2> QED BY <2>1, <2>2
<1> HIDE DEF N
<1>7. N \in G
  <2> DEFINE k == n + Len(F[N])
  <2>1. k \in Nat /\ M = k + 1
    BY <1>1, <1>3
  <2>2. Agree(b, k, <<0>>)
    BY <1>3
  <2> HIDE DEF k
  <2>3. Byte(b, k) = 0
    <3>1. CASE k < Len(b)
      <4>1. <<0>> \in Octets /\ Len(<<0>>) = 1 /\ <<0>>[1] = 0
        BY DEF Octets, Octet
      <4>2. 1 \in 1..Len(<<0>>) /\ k + 1 <= Len(b) /\ k + 1 - 1 = k
        BY <1>1, <2>1, <3>1
      <4>3. Byte(b, k + 1 - 1) = <<0>>[1]
        BY <2>1, <2>2, <4>1, <4>2, ByteBack
      <4> QED BY <4>1, <4>2, <4>3
    <3>2. CASE ~(k < Len(b))
      BY <1>1, <2>1, <3>2, ByteType
    <3> QED BY <3>1, <3>2
  <2>4. ReadLabels(b, k) = [val |-> << >>, at |-> k + 1]
    BY <2>1, <2>3, ReadLabelsEquation
  <2>5. P(ReadLabels(b, k), N)
    <3>1. ReadLabels(b, k).val = << >> /\ ReadLabels(b, k).at = k + 1
      BY <2>4
    <3> HIDE DEF M
    <3> QED BY <1>1, <1>6, <2>1, <3>1
  <2> HIDE DEF P
  <2> QED BY <1>1, <2>5 DEF k
<1>8. ASSUME NEW i \in 1..N, i \in G PROVE i - 1 \in G
  <2> DEFINE k == n + Len(F[i - 1]) l == ls[i] R == ReadLabels(b, n + Len(F[i]))
  <2>1. /\ l \in dnsmsg_label /\ Len(l) \in 1..255 /\ Agree(b, k, Word(l)) /\ i - 1 \in 0..N
        /\ <<l>> \o SubSeq(ls, i + 1, N) = SubSeq(ls, (i - 1) + 1, N)
    <3>1. i - 1 \in 0..N /\ l \in dnsmsg_label
      BY <1>1, <1>4
    <3>2. Agree(b, k, Word(l)) /\ <<l>> \o SubSeq(ls, i + 1, N) = SubSeq(ls, (i - 1) + 1, N)
      BY <1>3, <1>5, Zenon
    <3>3. Len(l) \in 1..255
      BY <3>1, WordIs, Zenon
    <3> QED BY <3>1, <3>2, <3>3, Zenon
  <2>0. Len(l) \in Nat /\ Len(l) # 0
    BY <2>1, LabelLength, Zenon
  <2>2. /\ k \in Nat /\ k + 1 + Len(l) = n + Len(F[i]) /\ n + Len(F[i]) < M /\ M \in Nat
        /\ Len(l) \in Nat
    <3>1. Len(F[i]) \in Nat /\ Len(F[i - 1]) \in Nat /\ Len(F[N]) \in Nat /\ Len(F[i]) <= Len(F[N])
          /\ Len(F[i]) = Len(F[i - 1]) + (1 + Len(l))
      <4>1. i \in 0..N /\ i - 1 \in 0..N /\ N \in 0..N
        BY <1>1
      <4>2. Len(F[i]) = Len(F[i - 1]) + (1 + Len(l))
        BY <1>2, Zenon
      <4> QED BY <1>3, <4>1, <4>2, Zenon
    <3> DEFINE x == Len(F[i - 1]) y == Len(F[i]) z == Len(l) m == Len(F[N])
    <3>2. x \in Nat /\ y \in Nat /\ z \in Nat /\ m \in Nat /\ y <= m /\ y = x + (1 + z)
      BY <2>0, <3>1, Zenon
    <3> HIDE DEF x, y, z, m
    <3>3. /\ n + x \in Nat /\ (n + x) + 1 + z = n + y /\ n + y < n + m + 1 /\ n + m + 1 \in Nat
      BY <3>2
    <3> QED BY <3>2, <3>3, Zenon DEF x, y, z, m
  <2>3. P(R, i)
    BY <1>8
  <2> HIDE DEF M, l
  <2>4. CASE k < Len(b)
    <3>1. Byte(b, k) = Len(l) /\ (k + 1 + Len(l) <= Len(b) => NameAt(b, k, Len(l)) = l)
      BY <2>1, <2>2, <2>4, NameBack
    <3>2. Byte(b, k) # 0
      BY <2>0, <3>1, Zenon
    <3>3. /\ ReadLabels(b, k).val = <<NameAt(b, k, Len(l))>> \o ReadLabels(b, k + 1 + Len(l)).val
          /\ ReadLabels(b, k).at = ReadLabels(b, k + 1 + Len(l)).at
      <4> DEFINE x == <<NameAt(b, k, Byte(b, k))>> \o ReadLabels(b, k + 1 + Byte(b, k)).val
                 y == ReadLabels(b, k + 1 + Byte(b, k)).at
      <4>1. ReadLabels(b, k) = [val |-> x, at |-> y]
        BY <2>2, <3>2, ReadLabelsEquation, Zenon
      <4> HIDE DEF x, y, k
      <4>2. ReadLabels(b, k).val = x /\ ReadLabels(b, k).at = y
        BY <4>1
      <4> QED BY <3>1, <4>2, Zenon DEF x, y
    <3>4. ReadLabels(b, k).val = <<NameAt(b, k, Len(l))>> \o R.val /\ ReadLabels(b, k).at = R.at
      BY <2>2, <3>3, Zenon
    <3>5. CASE Fit
      <4>1. NameAt(b, k, Len(l)) = l
        <5> HIDE DEF k
        <5> QED BY <1>1, <2>2, <3>1, <3>5
      <4>2. R.val = SubSeq(ls, i + 1, N) /\ R.at = M
        BY <2>3, <3>5
      <4>3. ReadLabels(b, k).val = SubSeq(ls, (i - 1) + 1, N) /\ ReadLabels(b, k).at = M
        BY <2>1, <3>4, <4>1, <4>2, Zenon
      <4> QED BY <2>1, <3>5, <4>3
    <3>6. CASE ~Fit
      <4>1. R.at \in Nat /\ R.at > Len(b)
        BY <2>3, <3>6
      <4>2. P(ReadLabels(b, k), i - 1)
        BY <3>4, <3>6, <4>1
      <4> HIDE DEF P
      <4> QED BY <2>1, <4>2
    <3> QED BY <3>5, <3>6
  <2>5. CASE ~(k < Len(b))
    <3>1. Byte(b, k) = 0
      BY <1>1, <2>2, <2>5, ByteType
    <3>2. ReadLabels(b, k).at = k + 1
      <4> HIDE DEF k
      <4>1. ReadLabels(b, k) = [val |-> << >>, at |-> k + 1]
        BY <2>2, <3>1, ReadLabelsEquation, Zenon
      <4> QED BY <4>1
    <3>3. ~Fit /\ ReadLabels(b, k).at \in Nat /\ ReadLabels(b, k).at > Len(b)
      <4> HIDE DEF k
      <4> QED BY <1>1, <2>2, <2>5, <3>2
    <3>4. P(ReadLabels(b, k), i - 1)
      BY <3>3
    <3> HIDE DEF P
    <3> QED BY <2>1, <3>4
  <2> QED BY <2>4, <2>5
<1>9. 0 \in G
  <2>1. \A i \in 1..N : i \in G => i - 1 \in G
    BY <1>8, Zenon
  <2> HIDE DEF G
  <2>2. \A i \in 0..N : i \in G
    BY <1>1, <1>7, <2>1, Downward
  <2> QED BY <1>1, <2>2
<1>10. n + Len(F[0]) = n
  <2>1. Len(<< >>) = 0
    OBVIOUS
  <2> QED BY <1>2, <2>1
<1>11. P(ReadLabels(b, n), 0)
  BY <1>9, <1>10
<1>12. n + Len(LabelBytes(ls)) = M
  BY <1>1, <1>2, <1>3
<1> HIDE DEF M
<1> QED BY <1>6, <1>11, <1>12 DEF ReadsAs

-----------------------------------------------------------------------------
(* Questions and records.                                                  *)
LEMMA IntType ==
  ASSUME NEW b \in Octets, NEW n \in Nat
  PROVE  Int16(b, n) \in Nat
<1>1. Byte(b, n) \in Nat /\ Byte(b, n + 1) \in Nat
  BY ByteType
<1>2. \A x, y \in Nat : x * 256 + y \in Nat
  OBVIOUS
<1> QED BY <1>1, <1>2 DEF Int16

(* A name, a type and a class that were written are read.                  *)
LEMMA FieldsBack ==
  ASSUME NEW ls \in Seq(dnsmsg_label), NEW t \in uint16, NEW c \in uint16
  PROVE  LET w == LabelBytes(ls) \o Bytes16(t) \o Bytes16(c) IN
         /\ w \in Octets /\ Len(w) = Len(LabelBytes(ls)) + 4 /\ Len(w) \in Nat
         /\ \A b \in Octets, n \in Nat : Agree(b, n, w) =>
              LET l == ReadLabels(b, n) IN
              /\ l.at \in Nat
              /\ IF n + Len(w) <= Len(b)
                 THEN l.val = ls /\ l.at + 4 = n + Len(w) /\ Int16(b, l.at) = t /\ Int16(b, l.at + 2) = c
                 ELSE l.at + 4 > Len(b) /\ (l.at + 4 = n + Len(w) \/ l.at > Len(b))
<1> DEFINE u == LabelBytes(ls) x == Bytes16(t) y == Bytes16(c) w == u \o x \o y
<1>1. u \in Octets /\ x \in Octets /\ Len(x) = 2 /\ y \in Octets /\ Len(y) = 2
  <2>1. u \in Octets
    BY LabelBytesIs, Zenon
  <2> QED BY <2>1, Bytes16Type, Zenon
<1> HIDE DEF u, x, y
<1> DEFINE v == u \o x
<1>2. v \in Octets /\ Len(v) = Len(u) + 2 /\ Len(u) \in Nat
  <2>1. v \in Octets /\ Len(v) = Len(u) + Len(x) /\ Len(u) \in Nat
    BY <1>1, OctetsConcat, Zenon
  <2> QED BY <1>1, <2>1, Zenon
<1>3. w = v \o y
  OBVIOUS
<1> HIDE DEF v, w
<1>4. w \in Octets /\ Len(w) = Len(v) + 2
  <2>1. v \o y \in Octets /\ Len(v \o y) = Len(v) + Len(y)
    BY <1>1, <1>2, OctetsConcat, Zenon
  <2> QED BY <1>1, <1>3, <2>1, Zenon
<1>5. Len(w) = Len(u) + 4 /\ Len(w) \in Nat
  BY <1>2, <1>4
<1>6. ASSUME NEW b \in Octets, NEW n \in Nat, Agree(b, n, w)
      PROVE  LET l == ReadLabels(b, n) IN
              /\ l.at \in Nat
              /\ IF n + Len(w) <= Len(b)
                 THEN l.val = ls /\ l.at + 4 = n + Len(w) /\ Int16(b, l.at) = t /\ Int16(b, l.at + 2) = c
                 ELSE l.at + 4 > Len(b) /\ (l.at + 4 = n + Len(w) \/ l.at > Len(b))
  <2> DEFINE l == ReadLabels(b, n) a == l.at B == Len(b) k == n + Len(u)
  <2>1. Agree(b, n, v) /\ Agree(b, n + Len(v), y)
    BY <1>1, <1>2, <1>3, <1>6, AgreeSplit, Zenon
  <2>2. Agree(b, n, u) /\ Agree(b, k, x)
    BY <1>1, <2>1, AgreeSplit, Zenon DEF v
  <2>3. ReadsAs(l, b, n, u, ls)
    BY <2>2, LabelsBack, Zenon DEF u
  <2>4. B \in Nat /\ k \in Nat /\ n + Len(v) = k + 2 /\ n + Len(w) = k + 4
    BY <1>2, <1>5 DEF Octets
  <2>5. IF k <= B THEN l.val = ls /\ a = k ELSE a \in Nat /\ a > B
    BY <2>3, Zenon DEF ReadsAs
  <2>6. Agree(b, k, Bytes16(t)) /\ Agree(b, k + 2, Bytes16(c))
    BY <2>1, <2>2, <2>4, Zenon DEF x, y
  <2> HIDE DEF l, a, B, k
  <2>7. ASSUME k + 4 <= B PROVE Int16(b, k) = t /\ Int16(b, k + 2) = c /\ k <= B
    <3>1. k + 2 <= B /\ k + 2 \in Nat /\ (k + 2) + 2 <= B /\ k <= B
      BY <2>4, <2>7
    <3> QED BY <2>4, <2>6, <3>1, Int16Back DEF B
  <2>8. a \in Nat
    BY <2>4, <2>5
  <2>9. CASE k + 4 <= B
    <3>1. l.val = ls /\ a = k
      BY <2>5, <2>7, <2>9
    <3> QED BY <2>4, <2>7, <2>8, <2>9, <3>1, Zenon DEF B, a, l
  <2>10. CASE ~(k + 4 <= B)
    <3>1. a + 4 > B /\ (a + 4 = k + 4 \/ a > B)
      BY <2>4, <2>5, <2>10
    <3> QED BY <2>4, <2>8, <2>10, <3>1, Zenon DEF B, a, l
  <2> QED BY <2>9, <2>10
<1> QED BY <1>4, <1>5, <1>6, Zenon DEF w, u, x, y

(* A question that was written is read, or the end of the buffer is        *)
(* passed.                                                                 *)
LEMMA QuestionBack ==
  ASSUME NEW q \in dnsmsg_question
  PROVE  /\ QuestionBytes(q) \in Octets /\ Len(QuestionBytes(q)) = Len(LabelBytes(q.labels)) + 4
         /\ \A b \in Octets, n \in Nat : Agree(b, n, QuestionBytes(q)) =>
              ReadsAs(ReadQuestion(b, n), b, n, QuestionBytes(q), q)
<1> DEFINE w == LabelBytes(q.labels) \o Bytes16(q.type) \o Bytes16(q.class)
<1>1. /\ q = [labels |-> q.labels, type |-> q.type, class |-> q.class]
      /\ q.labels \in Seq(dnsmsg_label) /\ q.type \in uint16 /\ q.class \in uint16
  BY DEF dnsmsg_question, Labels
<1>2. QuestionBytes(q) = w
  BY Zenon DEF QuestionBytes
<1>3. /\ w \in Octets /\ Len(w) = Len(LabelBytes(q.labels)) + 4 /\ Len(w) \in Nat
      /\ \A b \in Octets, n \in Nat : Agree(b, n, w) =>
              LET l == ReadLabels(b, n) IN
              /\ l.at \in Nat
              /\ IF n + Len(w) <= Len(b)
                 THEN l.val = q.labels /\ l.at + 4 = n + Len(w) /\ Int16(b, l.at) = q.type /\ Int16(b, l.at + 2) = q.class
                 ELSE l.at + 4 > Len(b) /\ (l.at + 4 = n + Len(w) \/ l.at > Len(b))
  BY <1>1, FieldsBack, Zenon
<1> HIDE DEF w
<1>4. ASSUME NEW b \in Octets, NEW n \in Nat, Agree(b, n, w)
      PROVE  ReadsAs(ReadQuestion(b, n), b, n, w, q)
  <2> DEFINE l == ReadLabels(b, n) r == ReadQuestion(b, n)
  <2>1. /\ l.at \in Nat
        /\ IF n + Len(w) <= Len(b)
           THEN l.val = q.labels /\ l.at + 4 = n + Len(w) /\ Int16(b, l.at) = q.type /\ Int16(b, l.at + 2) = q.class
           ELSE l.at + 4 > Len(b)
    BY <1>3, <1>4, Zenon
  <2>2. r.val = [labels |-> l.val, type |-> Int16(b, l.at), class |-> Int16(b, l.at + 2)] /\ r.at = l.at + 4
    BY DEF ReadQuestion
  <2> HIDE DEF l, r
  <2>3. CASE n + Len(w) <= Len(b)
    <3>1. r.val = q /\ r.at = n + Len(w)
      BY <1>1, <2>1, <2>2, <2>3, Zenon
    <3> QED BY <2>3, <3>1, Zenon DEF ReadsAs, r
  <2>4. CASE ~(n + Len(w) <= Len(b))
    <3>1. r.at \in Nat /\ r.at > Len(b)
      <4>1. l.at + 4 > Len(b) /\ l.at \in Nat
        BY <2>1, <2>4, Zenon
      <4>2. l.at + 4 \in Nat
        BY <4>1
      <4> QED BY <2>2, <4>1, <4>2, Zenon
    <3> QED BY <2>4, <3>1, Zenon DEF ReadsAs, r
  <2> QED BY <2>3, <2>4
<1> QED BY <1>2, <1>3, <1>4, Zenon

(* The data of a record, as it is read.                                    *)
DataAt(b, n, size) == [j \in 1..size |-> Byte(b, n + 9 + j)]

(* The data of a record that was written is read.                          *)
LEMMA DataBack ==
  ASSUME NEW b \in Octets, NEW a \in Nat, NEW d \in Octets, Agree(b, a + 10, d),
         a + 10 + Len(d) <= Len(b)
  PROVE  DataAt(b, a, Len(d)) = d
<1>1. Len(d) \in Nat /\ Len(b) \in Nat /\ d = [j \in 1..Len(d) |-> d[j]]
  BY DEF Octets
<1>2. ASSUME NEW j \in 1..Len(d) PROVE Byte(b, a + 9 + j) = d[j]
  <2>1. a + 10 \in Nat /\ (a + 10) + j <= Len(b) /\ (a + 10) + j - 1 = a + 9 + j
    BY <1>1
  <2>2. Byte(b, (a + 10) + j - 1) = d[j]
    BY <2>1, ByteBack
  <2> QED BY <2>1, <2>2, Zenon
<1>3. DataAt(b, a, Len(d)) = [j \in 1..Len(d) |-> d[j]]
  BY <1>2 DEF DataAt
<1> QED BY <1>1, <1>3, Zenon

(* The fields of a record, and what they hold.                             *)
LEMMA RecordFields ==
  ASSUME NEW r \in dnsmsg_rr
  PROVE  /\ r = [labels |-> r.labels, type |-> r.type, class |-> r.class, ttl |-> r.ttl,
                 size |-> r.size, data |-> r.data]
         /\ r.labels \in Seq(dnsmsg_label) /\ r.type \in uint16 /\ r.class \in uint16
         /\ Fits32(r.ttl) /\ r.size \in uint16 /\ r.data \in Octets /\ Len(r.data) = r.size
         /\ r.size \in Nat
<1>1. r \in [labels : Labels, type : uint16, class : uint16, ttl : Nat, size : uint16, data : Seq(0..255)]
      /\ r.ttl \div 65536 \in uint16 /\ Len(r.data) = r.size
  BY SMT DEF dnsmsg_rr
<1>2. Fits32(r.ttl)
  BY <1>1, SMT DEF Fits32
<1>4. r.labels \in Seq(dnsmsg_label) /\ r.data \in Octets
  BY <1>1, SMT DEF Labels, Octets, Octet
<1>5. /\ r = [labels |-> r.labels, type |-> r.type, class |-> r.class, ttl |-> r.ttl,
              size |-> r.size, data |-> r.data]
      /\ r.type \in uint16 /\ r.class \in uint16 /\ r.size \in uint16
  BY <1>1, SMT
<1>3. r.size \in Nat
  <2>1. \A x \in uint16 : x \in Nat
    BY SMT DEF uint16
  <2> QED BY <1>5, <2>1, Zenon
<1> QED BY <1>1, <1>2, <1>3, <1>4, <1>5, SMT

(* A record that was written is read, or the end of the buffer is passed.  *)
LEMMA RecordBack ==
  ASSUME NEW r \in dnsmsg_rr
  PROVE  /\ RecordBytes(r) \in Octets
         /\ Len(RecordBytes(r)) = Len(LabelBytes(r.labels)) + 10 + r.size
         /\ \A b \in Octets, n \in Nat : Agree(b, n, RecordBytes(r)) =>
              ReadsAs(ReadRecord(b, n), b, n, RecordBytes(r), r)
<1> DEFINE u == LabelBytes(r.labels) \o Bytes16(r.type) \o Bytes16(r.class)
           x == Bytes32(r.ttl) y == Bytes16(r.size) d == r.data
           v == u \o x
           h == v \o y
           w == h \o d
<1>1. /\ r = [labels |-> r.labels, type |-> r.type, class |-> r.class, ttl |-> r.ttl,
                 size |-> r.size, data |-> r.data]
      /\ r.labels \in Seq(dnsmsg_label) /\ r.type \in uint16 /\ r.class \in uint16
      /\ Fits32(r.ttl) /\ r.size \in uint16 /\ r.data \in Octets /\ Len(r.data) = r.size
      /\ r.size \in Nat
  BY RecordFields, Zenon
<1>2. RecordBytes(r) = w
  BY Zenon DEF RecordBytes, QuestionBytes
<1>3. /\ u \in Octets /\ Len(u) = Len(LabelBytes(r.labels)) + 4 /\ Len(u) \in Nat
      /\ \A b \in Octets, n \in Nat : Agree(b, n, u) =>
              LET l == ReadLabels(b, n) IN
              /\ l.at \in Nat
              /\ IF n + Len(u) <= Len(b)
                 THEN l.val = r.labels /\ l.at + 4 = n + Len(u) /\ Int16(b, l.at) = r.type /\ Int16(b, l.at + 2) = r.class
                 ELSE l.at + 4 > Len(b) /\ (l.at + 4 = n + Len(u) \/ l.at > Len(b))
  BY <1>1, FieldsBack, Zenon
<1>4. x \in Octets /\ Len(x) = 4 /\ y \in Octets /\ Len(y) = 2
  BY <1>1, Bytes16Type, Bytes32Type, Zenon
<1>5. d \in Octets /\ Len(d) = r.size
  BY <1>1, Zenon
<1> HIDE DEF u, x, y, d
<1>6. v \in Octets /\ Len(v) = Len(u) + 4
  <2>1. v \in Octets /\ Len(v) = Len(u) + Len(x)
    BY <1>3, <1>4, OctetsConcat, Zenon
  <2> QED BY <1>4, <2>1, Zenon
<1> HIDE DEF v
<1>7. h \in Octets /\ Len(h) = Len(v) + 2
  <2>1. h \in Octets /\ Len(h) = Len(v) + Len(y)
    BY <1>4, <1>6, OctetsConcat, Zenon
  <2> QED BY <1>4, <2>1, Zenon
<1> HIDE DEF h
<1>8. w \in Octets /\ Len(w) = Len(h) + r.size
  <2>1. w \in Octets /\ Len(w) = Len(h) + Len(d)
    BY <1>5, <1>7, OctetsConcat, Zenon
  <2> QED BY <1>5, <2>1, Zenon
<1> DEFINE L == Len(LabelBytes(r.labels))
<1>9. L \in Nat
  <2>1. LabelBytes(r.labels) \in Octets
    BY <1>1, LabelBytesIs, Zenon
  <2> QED BY <2>1 DEF Octets
<1> DEFINE U == Len(u) W == Len(w) z == r.size
<1>10. U = L + 4 /\ W = U + 6 + z /\ W = L + 10 + z /\ U \in Nat /\ z \in Nat /\ W \in Nat
  <2> DEFINE V == Len(v) H == Len(h)
  <2>1. U = L + 4 /\ V = U + 4 /\ H = V + 2 /\ W = H + z /\ z \in Nat
    BY <1>1, <1>3, <1>6, <1>7, <1>8, Zenon
  <2> HIDE DEF U, V, H, W, L, z
  <2> QED BY <1>9, <2>1
<1>11. ASSUME NEW b \in Octets, NEW n \in Nat, Agree(b, n, w)
       PROVE  ReadsAs(ReadRecord(b, n), b, n, w, r)
  <2> DEFINE l == ReadLabels(b, n) a == l.at B == Len(b) s == Int16(b, a + 8) R == ReadRecord(b, n)
  <2>1. Agree(b, n, h) /\ Agree(b, n + Len(h), d)
    BY <1>5, <1>7, <1>11, AgreeSplit, Zenon
  <2>2. Agree(b, n, v) /\ Agree(b, n + Len(v), y)
    BY <1>4, <1>6, <2>1, AgreeSplit, Zenon DEF h
  <2>3. Agree(b, n, u) /\ Agree(b, n + Len(u), x)
    BY <1>3, <1>4, <2>2, AgreeSplit, Zenon DEF v
  <2>4. /\ a \in Nat
        /\ IF n + U <= B
           THEN l.val = r.labels /\ a + 4 = n + U /\ Int16(b, a) = r.type /\ Int16(b, a + 2) = r.class
           ELSE a + 4 > B
    BY <1>3, <2>3, Zenon
  <2>5. R.val = [labels |-> l.val, type |-> Int16(b, a), class |-> Int16(b, a + 2),
                 ttl |-> Int32(b, a + 4), size |-> s, data |-> DataAt(b, a, s)]
        /\ R.at = a + 10 + s
    BY DEF ReadRecord, DataAt
  <2>6. B \in Nat
    BY DEF Octets
  <2>7. s \in Nat
    <3>1. a + 8 \in Nat
      BY <2>4
    <3> QED BY <3>1, IntType, Zenon
  <2> HIDE DEF l, a, B, R, U, W, z
  <2>8. CASE ~(n + U <= B)
    <3>1. R.at \in Nat /\ R.at > B /\ ~(n + W <= B)
      <4>1. a + 4 > B /\ a \in Nat /\ R.at = a + 10 + s
        BY <2>4, <2>5, <2>8, Zenon
      <4> HIDE DEF s
      <4> QED BY <1>10, <2>6, <2>7, <2>8, <4>1
    <3> QED BY <3>1, Zenon DEF ReadsAs, R, W, B
  <2>9. CASE n + U <= B
    <3>1. a + 4 = n + U /\ a \in Nat
      BY <2>4, <2>9, Zenon
    <3>2. Agree(b, a + 4, Bytes32(r.ttl)) /\ Agree(b, a + 8, Bytes16(r.size)) /\ Agree(b, a + 10, d)
      <4>1. n + Len(u) = a + 4 /\ n + Len(v) = a + 8 /\ n + Len(h) = a + 10
        <5> DEFINE V == Len(v) H == Len(h)
        <5>1. V = U + 4 /\ H = V + 2
          BY <1>6, <1>7, Zenon DEF U
        <5> HIDE DEF V, H
        <5>2. n + U = a + 4 /\ n + V = a + 8 /\ n + H = a + 10
          BY <1>10, <3>1, <5>1
        <5> QED BY <5>2, Zenon DEF U, V, H
      <4> QED BY <2>1, <2>2, <2>3, <4>1, Zenon DEF x, y
    <3>3. CASE n + U + 6 <= B
      <4>1. a + 8 \in Nat /\ (a + 8) + 2 <= B /\ a + 4 \in Nat /\ (a + 4) + 4 <= B
        BY <1>10, <2>6, <3>1, <3>3
      <4>2. s = r.size /\ Int32(b, a + 4) = r.ttl
        BY <1>1, <3>2, <4>1, Int16Back, Int32Back, Zenon DEF B
      <4>3. R.at = n + W /\ n + W \in Nat
        <5>1. R.at = a + 10 + z
          BY <2>5, <4>2, Zenon DEF z
        <5> QED BY <1>10, <3>1, <5>1
      <4>4. CASE n + W <= B
        <5>1. a + 10 + Len(d) <= B
          <6>1. a + 10 + z <= B
            BY <1>10, <3>1, <4>4
          <6> QED BY <1>5, <6>1, Zenon DEF z
        <5>2. DataAt(b, a, Len(d)) = d
          BY <1>5, <3>1, <3>2, <5>1, DataBack, Zenon DEF B
        <5>3. DataAt(b, a, s) = r.data
          BY <1>5, <4>2, <5>2, Zenon DEF d
        <5>4. R.val = r
          BY <1>1, <2>4, <2>5, <2>9, <4>2, <5>3, Zenon
        <5> QED BY <4>3, <4>4, <5>4, Zenon DEF ReadsAs, R, W, B
      <4>5. CASE ~(n + W <= B)
        <5>1. R.at \in Nat /\ R.at > B
          BY <2>6, <4>3, <4>5
        <5> QED BY <4>5, <5>1, Zenon DEF ReadsAs, R, W, B
      <4> QED BY <4>4, <4>5
    <3>4. CASE ~(n + U + 6 <= B)
      <4>0. R.at = a + 10 + s
        BY <2>5, Zenon
      <4>1. R.at \in Nat /\ R.at > B /\ ~(n + W <= B)
        <5> HIDE DEF s
        <5> QED BY <1>10, <2>6, <2>7, <3>1, <3>4, <4>0
      <4> QED BY <4>1, Zenon DEF ReadsAs, R, W, B
    <3> QED BY <3>3, <3>4
  <2> QED BY <2>8, <2>9
<1>12. Len(w) = L + 10 + r.size
  BY <1>10, Zenon
<1> QED BY <1>2, <1>8, <1>11, <1>12, Zenon

-----------------------------------------------------------------------------
(* Sections.                                                               *)
Element(s)         == IF s = 1 THEN dnsmsg_question ELSE dnsmsg_rr
ElementBytes(s, e) == IF s = 1 THEN QuestionBytes(e) ELSE RecordBytes(e)
ReadOne(s, b, n)   == IF s = 1 THEN ReadQuestion(b, n) ELSE ReadRecord(b, n)
Listed(s, es)     == [i \in 1..Len(es) |-> ElementBytes(s, es[i])]

(* An element of any section that was written is read, or the end of the   *)
(* buffer is passed.                                                       *)
LEMMA ElementBack ==
  ASSUME NEW s, NEW e \in Element(s)
  PROVE  /\ ElementBytes(s, e) \in Octets
         /\ \A b \in Octets, n \in Nat : Agree(b, n, ElementBytes(s, e)) =>
              ReadsAs(ReadOne(s, b, n), b, n, ElementBytes(s, e), e)
<1>1. CASE s = 1
  <2>1. e \in dnsmsg_question /\ ElementBytes(s, e) = QuestionBytes(e)
        /\ \A b, n : ReadOne(s, b, n) = ReadQuestion(b, n)
    BY <1>1, Zenon DEF Element, ElementBytes, ReadOne
  <2> QED BY <2>1, QuestionBack, Zenon
<1>2. CASE s # 1
  <2>1. e \in dnsmsg_rr /\ ElementBytes(s, e) = RecordBytes(e)
        /\ \A b, n : ReadOne(s, b, n) = ReadRecord(b, n)
    BY <1>2, Zenon DEF Element, ElementBytes, ReadOne
  <2> QED BY <2>1, RecordBack, Zenon
<1> QED BY <1>1, <1>2

(* The elements of a section, each in bytes.                               *)
LEMMA ListedIs ==
  ASSUME NEW s, NEW es \in Seq(Element(s))
  PROVE  /\ Listed(s, es) \in Seq(Octets) /\ Len(Listed(s, es)) = Len(es)
         /\ \A i \in 1..Len(es) : /\ es[i] \in Element(s)
                                  /\ Listed(s, es)[i] = ElementBytes(s, es[i])
         /\ FlattenSeq(Listed(s, es)) \in Octets
<1> DEFINE N == Len(es) ws == Listed(s, es)
<1>1. N \in Nat /\ \A i \in 1..N : es[i] \in Element(s)
  BY SeqAt
<1>2. \A i \in 1..N : ElementBytes(s, es[i]) \in Octets
  BY <1>1, ElementBack, Zenon
<1>3. ws = [i \in 1..N |-> ElementBytes(s, es[i])]
  BY DEF Listed
<1> HIDE DEF N, ws
<1>4. ws \in Seq(Octets) /\ Len(ws) = N /\ \A i \in 1..N : ws[i] = ElementBytes(s, es[i])
  BY <1>1, <1>2, <1>3
<1>5. FlattenSeq(ws) \in Octets
  <2>1. PICK F \in [0..Len(ws) -> Octets] : FlattenSeq(ws) = F[Len(ws)]
    BY <1>4, FlattenIs DEF Octets
  <2>2. Len(ws) \in 0..Len(ws)
    BY <1>1, <1>4
  <2> QED BY <2>1, <2>2
<1> QED BY <1>1, <1>4, <1>5, Zenon DEF N, ws

(* The recursive function of ReadAll.                                      *)
AllStep(s, b, n, g, i) ==
  IF i = 0 THEN [val |-> << >>, at |-> n]
  ELSE [val |-> Append(g[i - 1].val, ReadOne(s, b, g[i - 1].at).val),
        at  |-> ReadOne(s, b, g[i - 1].at).at]

AllSteps(s, b, n, count, g) == g = [i \in 0..count |-> AllStep(s, b, n, g, i)]

(* The loop over a section has a result after every turn.                  *)
LEMMA AllExists ==
  ASSUME NEW s, NEW b, NEW n, NEW count \in Nat
  PROVE  \E g : AllSteps(s, b, n, count, g)
<1> DEFINE Good(g, m) == g = [i \in 0..count |-> IF i <= m THEN AllStep(s, b, n, g, i) ELSE 0]
           G == {m \in 0..count : \E g : Good(g, m)}
<1>1. 0 \in G
  <2> DEFINE z == [i \in 0..count |-> 0]
             g == [i \in 0..count |-> IF i <= 0 THEN AllStep(s, b, n, z, i) ELSE 0]
  <2>1. \A i \in 0..count : i <= 0 => AllStep(s, b, n, g, i) = AllStep(s, b, n, z, i)
    <3>1. \A i \in 0..count : i <= 0 => i = 0
      OBVIOUS
    <3> HIDE DEF g, z
    <3> QED BY <3>1, Zenon DEF AllStep
  <2>2. Good(g, 0)
    <3> HIDE DEF z
    <3> QED BY <2>1
  <2> HIDE DEF Good, g
  <2> QED BY <2>2
<1>2. ASSUME NEW m \in 1..count, m - 1 \in G PROVE m \in G
  <2>1. PICK g : Good(g, m - 1)
    BY <1>2
  <2> DEFINE h == [i \in 0..count |-> IF i <= m THEN AllStep(s, b, n, g, i) ELSE 0]
  <2>2. ASSUME NEW i \in 0..count, i <= m PROVE AllStep(s, b, n, h, i) = AllStep(s, b, n, g, i)
    <3>1. CASE i = 0
      <4> HIDE DEF h
      <4> QED BY <3>1, Zenon DEF AllStep
    <3>2. CASE i # 0
      <4>1. i - 1 \in 0..count /\ i - 1 <= m - 1 /\ i - 1 <= m
        BY <1>2, <2>2, <3>2
      <4>2. h[i - 1] = AllStep(s, b, n, g, i - 1)
        BY <4>1
      <4>3. g[i - 1] = AllStep(s, b, n, g, i - 1)
        BY <2>1, <4>1
      <4> HIDE DEF h
      <4>4. h[i - 1] = g[i - 1]
        BY <4>2, <4>3, Zenon
      <4> QED BY <3>2, <4>4, Zenon DEF AllStep
    <3> QED BY <3>1, <3>2
  <2>3. Good(h, m)
    BY <2>2
  <2> HIDE DEF Good, h
  <2> QED BY <2>3
<1>3. count \in G
  <2>1. \A m \in 1..count : m - 1 \in G => m \in G
    BY <1>2, Zenon
  <2> HIDE DEF G
  <2>2. \A m \in 0..count : m \in G
    BY <1>1, <2>1, Upward
  <2> QED BY <2>2
<1>4. PICK g : Good(g, count)
  BY <1>3
<1>5. g = [i \in 0..count |-> AllStep(s, b, n, g, i)]
  <2>1. \A i \in 0..count : i <= count
    OBVIOUS
  <2> QED BY <1>4, <2>1
<1> QED BY <1>5, Zenon DEF AllSteps

(* A section whose elements stand one after another in the buffer is read  *)
(* element by element, or past the end.                                    *)
LEMMA AllBack ==
  ASSUME NEW s, NEW es \in Seq(Element(s)), NEW b \in Octets, NEW n \in Nat,
         Agree(b, n, FlattenSeq(Listed(s, es))),
         NEW g, g = [i \in 0..Len(es) |-> AllStep(s, b, n, g, i)]
  PROVE  ReadsAs(g[Len(es)], b, n, FlattenSeq(Listed(s, es)), es)
<1> DEFINE N == Len(es) ws == Listed(s, es) B == Len(b)
<1>1. /\ N \in Nat /\ B \in Nat /\ ws \in Seq(Octets) /\ Len(ws) = N
      /\ \A i \in 1..N : es[i] \in Element(s) /\ ws[i] = ElementBytes(s, es[i]) /\ ws[i] \in Octets
  <2>1. N \in Nat /\ B \in Nat
    BY DEF Octets
  <2>2. /\ ws \in Seq(Octets) /\ Len(ws) = N
        /\ \A i \in 1..N : es[i] \in Element(s) /\ ws[i] = ElementBytes(s, es[i])
    BY ListedIs, Zenon
  <2>3. ASSUME NEW i \in 1..N PROVE ws[i] \in Octets
    BY <2>2, ElementBack, Zenon
  <2> HIDE DEF N, B, ws
  <2> QED BY <2>1, <2>2, <2>3, Zenon
<1>2. /\ \A i \in 0..N : g[i] = AllStep(s, b, n, g, i)
  BY Zenon
<1>3. /\ SubSeq(es, 1, 0) = << >> /\ SubSeq(es, 1, N) = es
      /\ \A i \in 1..N : Append(SubSeq(es, 1, i - 1), es[i]) = SubSeq(es, 1, i)
  <2>1. SubSeq(es, 1, 0) = << >>
    BY SubSeqEmpty
  <2>2. SubSeq(es, 1, N) = es
    BY SubSeqFull
  <2>3. ASSUME NEW i \in 1..N PROVE Append(SubSeq(es, 1, i - 1), es[i]) = SubSeq(es, 1, i)
    <3> DEFINE T == Element(s) u == SubSeq(es, 1, i - 1)
    <3>1. es \in Seq(T) /\ es[i] \in T /\ N \in Nat
      BY <1>1
    <3> HIDE DEF T
    <3>2. u \in Seq(T)
      <4>1. \A j \in 1..(i - 1) : es[j] \in T
        BY <3>1
      <4> QED BY <4>1, SubSeqProperties
    <3>3. SubSeq(es, 1, i) = u \o <<es[i]>>
      <4>1. 1 \in 1..Len(es) /\ i \in 1..Len(es)
        BY <3>1
      <4> QED BY <3>1, <4>1, SubSeqRecursiveSecond
    <3> HIDE DEF u
    <3>4. Append(u, es[i]) = u \o <<es[i]>>
      BY <3>1, <3>2, AppendIsConcat
    <3> QED BY <3>3, <3>4, Zenon DEF u
  <2> QED BY <2>1, <2>2, <2>3
<1>4. PICK F \in [0..N -> Octets] : Parts(ws, F) /\ FlattenSeq(ws) = F[N]
  <2>1. ws \in Seq(Seq(Octet))
    BY <1>1, Zenon DEF Octets
  <2> HIDE DEF ws, N
  <2> QED BY <1>1, <2>1, FlattenIs, Zenon DEF Octets
<1> HIDE DEF ws, N, B
<1>5. /\ F[0] = << >>
      /\ \A i \in 0..N : Len(F[i]) \in Nat
      /\ \A i \in 1..N : Agree(b, n + Len(F[i - 1]), ws[i]) /\ Len(F[i]) = Len(F[i - 1]) + Len(ws[i])
  <2>1. Agree(b, n, F[Len(ws)])
    BY <1>1, <1>4, Zenon DEF ws
  <2>2. F \in [0..Len(ws) -> Octets]
    BY <1>1
  <2>3. F[0] = << >>
    BY <1>4, Zenon DEF Parts
  <2>4. /\ \A i \in 0..Len(ws) : Len(F[i]) \in Nat
        /\ \A i \in 1..Len(ws) : /\ Agree(b, n + Len(F[i - 1]), ws[i])
                                 /\ Len(F[i]) = Len(F[i - 1]) + Len(ws[i])
    <3>1. ws \in Seq(Octets) /\ Parts(ws, F)
      BY <1>1, <1>4, Zenon
    <3> QED BY <2>1, <2>2, <3>1, PieceAgrees
  <2> QED BY <1>1, <2>3, <2>4
<1> DEFINE E(i) == n + Len(F[i])
           P(r, i) == IF E(i) <= B THEN r.val = SubSeq(es, 1, i) /\ r.at = E(i)
                                   ELSE r.at \in Nat /\ r.at > B
           G == {i \in 0..N : P(g[i], i)}
<1>6. 0 \in G
  <2>1. g[0].val = << >> /\ g[0].at = n
    <3>1. g[0] = [val |-> << >>, at |-> n]
      <4>1. 0 \in 0..N
        BY <1>1
      <4> QED BY <1>2, <4>1, Zenon DEF AllStep
    <3> QED BY <3>1
  <2>2. E(0) = n
    <3>1. Len(<< >>) = 0
      OBVIOUS
    <3> QED BY <1>5, <3>1
  <2>3. P(g[0], 0)
    <3> HIDE DEF E
    <3>1. CASE E(0) <= B
      BY <1>3, <2>1, <2>2, <3>1, Zenon
    <3>2. CASE ~(E(0) <= B)
      <4>1. n > B /\ n \in Nat
        BY <1>1, <2>2, <3>2
      <4> QED BY <2>1, <3>2, <4>1, Zenon
    <3> QED BY <3>1, <3>2
  <2> HIDE DEF P
  <2> QED BY <1>1, <2>3
<1>7. ASSUME NEW i \in 1..N, i - 1 \in G PROVE i \in G
  <2> DEFINE a == g[i - 1].at r == ReadOne(s, b, g[i - 1].at) k == E(i - 1) L == Len(ws[i])
  <2>0. L \in Nat /\ k \in Nat /\ E(i) = k + L /\ i \in 0..N /\ i - 1 \in 0..N
    <3>1. i \in 0..N /\ i - 1 \in 0..N
      BY <1>1
    <3>2. \A w \in Octets : Len(w) \in Nat
      BY DEF Octets
    <3>3. L \in Nat /\ Len(F[i - 1]) \in Nat /\ Len(F[i]) = Len(F[i - 1]) + L
      BY <1>1, <1>5, <3>1, <3>2, Zenon
    <3> HIDE DEF L
    <3> QED BY <3>1, <3>3
  <2>1. P(g[i - 1], i - 1)
    BY <1>7
  <2>2. g[i].val = Append(g[i - 1].val, r.val) /\ g[i].at = r.at
    <3>1. g[i] = [val |-> Append(g[i - 1].val, r.val), at |-> r.at]
      <4>1. i # 0
        BY <1>1
      <4>2. g[i] = AllStep(s, b, n, g, i)
        BY <1>2, <2>0, Zenon
      <4> QED BY <4>1, <4>2, Zenon DEF AllStep
    <3> DEFINE u == Append(g[i - 1].val, r.val) v == r.at
    <3>2. g[i] = [val |-> u, at |-> v]
      BY <3>1
    <3> HIDE DEF r, u, v
    <3>3. g[i].val = u /\ g[i].at = v
      BY <3>2
    <3> QED BY <3>3, Zenon DEF u, v
  <2>3. a \in Nat /\ Agree(b, a, ws[i])
    <3>1. CASE k <= B
      <4>1. a = k
        <5> HIDE DEF E
        <5> QED BY <2>1, <3>1
      <4> QED BY <1>5, <2>0, <4>1, Zenon
    <3>2. CASE ~(k <= B)
      <4>1. a \in Nat /\ a > B
        <5> HIDE DEF E
        <5> QED BY <2>1, <3>2
      <4>2. a >= Len(b)
        BY <1>1, <4>1 DEF B
      <4> QED BY <1>1, <4>1, <4>2, AgreePast
    <3> QED BY <3>1, <3>2
  <2>4. ReadsAs(r, b, a, ws[i], es[i])
    BY <1>1, <2>3, ElementBack, Zenon
  <2>5. IF a + L <= B THEN r.val = es[i] /\ r.at = a + L ELSE r.at \in Nat /\ r.at > B
    BY <2>4, Zenon DEF ReadsAs, B
  <2> HIDE DEF a, r, k, L, E
  <2>6. P(g[i], i)
    <3>1. CASE E(i) <= B
      <4>1. k <= B /\ g[i - 1].val = SubSeq(es, 1, i - 1) /\ a = k
        <5>1. k <= B
          BY <1>1, <2>0, <3>1
        <5>2. E(i - 1) <= B
          BY <5>1, Zenon DEF k
        <5> QED BY <2>1, <5>1, <5>2, Zenon DEF k, a
      <4>2. r.val = es[i] /\ r.at = E(i)
        BY <2>0, <2>5, <3>1, <4>1
      <4>3. g[i].val = SubSeq(es, 1, i)
        BY <1>3, <2>2, <4>1, <4>2, Zenon
      <4> QED BY <2>2, <3>1, <4>2, <4>3, Zenon
    <3>2. CASE ~(E(i) <= B)
      <4>1. ~(a + L <= B)
        <5>1. CASE k <= B
          <6>1. E(i - 1) <= B
            BY <5>1, Zenon DEF k
          <6>2. a = k
            BY <2>1, <6>1, Zenon DEF k, a
          <6> QED BY <2>0, <3>2, <6>2
        <5>2. CASE ~(k <= B)
          <6>1. ~(E(i - 1) <= B)
            BY <5>2, Zenon DEF k
          <6>2. a > B
            BY <2>1, <6>1, Zenon DEF a
          <6> QED BY <1>1, <2>0, <2>3, <6>2
        <5> QED BY <5>1, <5>2
      <4>2. r.at \in Nat /\ r.at > B
        BY <2>5, <4>1, Zenon
      <4> QED BY <2>2, <3>2, <4>2, Zenon
    <3> QED BY <3>1, <3>2
  <2> HIDE DEF P
  <2> QED BY <2>0, <2>6
<1>8. N \in G
  <2>1. \A i \in 1..N : i - 1 \in G => i \in G
    BY <1>7, Zenon
  <2> HIDE DEF G
  <2>2. \A i \in 0..N : i \in G
    BY <1>1, <1>6, <2>1, Upward
  <2> QED BY <1>1, <2>2
<1>9. P(g[N], N)
  BY <1>8
<1> QED BY <1>3, <1>4, <1>9, Zenon DEF ReadsAs, N, B, ws

-----------------------------------------------------------------------------
(* Messages.                                                               *)

(* Four parts.                                                             *)
LEMMA FlattenFour ==
  ASSUME NEW e \in [Sections -> Octets]
  PROVE  FlattenSeq(e) = e[1] \o e[2] \o e[3] \o e[4]
<1>1. e \in Seq(Octets) /\ Len(e) = 4
  <2>1. e = [i \in 1..4 |-> e[i]] /\ \A i \in 1..4 : e[i] \in Octets
    BY DEF Sections
  <2>2. \A i \in 1..4 : e[i] \in Octets
    BY <2>1
  <2> QED BY <2>1, <2>2
<1>2. PICK F \in [0..4 -> Octets] : Parts(e, F) /\ FlattenSeq(e) = F[4]
  BY <1>1, FlattenIs DEF Octets
<1>3. /\ F[0] = << >> /\ F[1] = F[1 - 1] \o e[1] /\ F[2] = F[2 - 1] \o e[2]
      /\ F[3] = F[3 - 1] \o e[3] /\ F[4] = F[4 - 1] \o e[4]
  <2>1. 1 \in 1..Len(e) /\ 2 \in 1..Len(e) /\ 3 \in 1..Len(e) /\ 4 \in 1..Len(e)
    BY <1>1
  <2> QED BY <1>2, <2>1, Zenon DEF Parts
<1>4. 1 - 1 = 0 /\ 2 - 1 = 1 /\ 3 - 1 = 2 /\ 4 - 1 = 3
  OBVIOUS
<1>5. << >> \o e[1] = e[1]
  <2>1. e[1] \in Seq(Octet)
    BY DEF Sections, Octets
  <2> QED BY <2>1, ConcatEmptySeq
<1> QED BY <1>2, <1>3, <1>4, <1>5, Zenon

(* The bytes of the header and of the sections.                            *)
CountBytes(m)   == FlattenSeq([s \in Sections |-> Bytes16(m.count[s])])
SectionBytes(m) == [s \in Sections |-> FlattenSeq(Listed(s, m.section[s]))]

(* The fields of a message, and what they hold.                            *)
LEMMA FieldsOf ==
  ASSUME NEW m, WellFormed(m)
  PROVE  /\ m = [id |-> m.id, flags |-> m.flags, count |-> m.count, section |-> m.section]
         /\ m.id \in uint16 /\ m.flags \in uint16 /\ m.count \in [Sections -> uint16]
         /\ DOMAIN m.section = Sections
         /\ m.section = <<m.section[1], m.section[2], m.section[3], m.section[4]>>
         /\ \A s \in Sections : /\ m.section[s] \in Seq(Element(s))
                                /\ Len(m.section[s]) = m.count[s] /\ m.count[s] \in uint16
<1> DEFINE T == Seq(dnsmsg_question) \cup Seq(dnsmsg_rr)
<1>1. /\ m \in [id : uint16, flags : uint16, count : [Sections -> uint16], section : [Sections -> T]]
      /\ \A s \in Sections : /\ Len(m.section[s]) = m.count[s]
                             /\ m.section[s] \in Seq(IF s = 1 THEN dnsmsg_question ELSE dnsmsg_rr)
  BY Zenon DEF WellFormed
<1> HIDE DEF T
<1>2. /\ m = [id |-> m.id, flags |-> m.flags, count |-> m.count, section |-> m.section]
      /\ m.id \in uint16 /\ m.flags \in uint16 /\ m.count \in [Sections -> uint16]
      /\ m.section \in [Sections -> T]
  BY <1>1
<1>3. \A c \in [Sections -> T] : DOMAIN c = Sections /\ c = <<c[1], c[2], c[3], c[4]>>
  BY DEF Sections
<1>4. \A s \in Sections : m.count[s] \in uint16
  BY <1>2
<1>5. \A s \in Sections : m.section[s] \in Seq(Element(s))
  BY <1>1, Zenon DEF Element
<1> QED BY <1>1, <1>2, <1>3, <1>4, <1>5, Zenon

(* The four counts of the header as they are written.                      *)
LEMMA CountBytesIs ==
  ASSUME NEW c \in [Sections -> uint16]
  PROVE  LET w == FlattenSeq([s \in Sections |-> Bytes16(c[s])]) IN
         /\ w \in Octets /\ Len(w) = 8
         /\ \A b \in Octets : Agree(b, 4, w) /\ 12 <= Len(b) =>
              \A s \in Sections : Int16(b, 2 + 2 * s) = c[s]
<1> DEFINE e == [s \in Sections |-> Bytes16(c[s])] w == FlattenSeq(e)
<1>1. \A s \in Sections : c[s] \in uint16
  OBVIOUS
<1>2. \A s \in Sections : Bytes16(c[s]) \in Octets /\ Len(Bytes16(c[s])) = 2
  BY <1>1, Bytes16Type
<1>3. e \in [Sections -> Octets] /\ \A s \in Sections : e[s] = Bytes16(c[s])
  BY <1>2
<1> HIDE DEF e
<1>4. w = e[1] \o e[2] \o e[3] \o e[4]
  BY <1>3, FlattenFour, Zenon
<1>5. \A s \in {1, 2, 3, 4} : s \in Sections
  BY DEF Sections
<1>6. \A s \in {1, 2, 3, 4} : e[s] \in Octets /\ Len(e[s]) = 2 /\ e[s] = Bytes16(c[s]) /\ c[s] \in uint16
  BY <1>1, <1>2, <1>3, <1>5, Zenon
<1> DEFINE p == e[1] q == e[2] r == e[3] t == e[4]
           u == p \o q
           v == u \o r
<1>7. p \in Octets /\ q \in Octets /\ r \in Octets /\ t \in Octets
      /\ Len(p) = 2 /\ Len(q) = 2 /\ Len(r) = 2 /\ Len(t) = 2
  BY <1>6
<1>8. w = v \o t
  BY <1>4
<1> HIDE DEF p, q, r, t, u, v, w
<1>9. u \in Octets /\ Len(u) = 4
  <2>1. u \in Octets /\ Len(u) = Len(p) + Len(q)
    BY <1>7, OctetsConcat, Zenon DEF u
  <2> QED BY <1>7, <2>1
<1>10. v \in Octets /\ Len(v) = 6
  <2>1. v \in Octets /\ Len(v) = Len(u) + Len(r)
    BY <1>7, <1>9, OctetsConcat, Zenon DEF v
  <2> QED BY <1>7, <1>9, <2>1
<1>11. w \in Octets /\ Len(w) = 8
  <2>1. w \in Octets /\ Len(w) = Len(v) + Len(t)
    BY <1>7, <1>8, <1>10, OctetsConcat, Zenon
  <2> QED BY <1>7, <1>10, <2>1
<1>12. ASSUME NEW b \in Octets, Agree(b, 4, w), 12 <= Len(b), NEW s \in Sections
       PROVE  Int16(b, 2 + 2 * s) = c[s]
  <2>0. 4 \in Nat
    OBVIOUS
  <2>1. Agree(b, 4, v) /\ Agree(b, 4 + 6, t)
    BY <1>7, <1>8, <1>10, <1>12, <2>0, AgreeSplit, Zenon
  <2>2. Agree(b, 4, u) /\ Agree(b, 4 + 4, r)
    BY <1>7, <1>9, <2>0, <2>1, AgreeSplit, Zenon DEF v
  <2>3. Agree(b, 4, p) /\ Agree(b, 4 + 2, q)
    BY <1>7, <2>0, <2>2, AgreeSplit, Zenon DEF u
  <2>4. /\ Agree(b, 4, Bytes16(c[1])) /\ Agree(b, 4 + 2, Bytes16(c[2]))
        /\ Agree(b, 4 + 4, Bytes16(c[3])) /\ Agree(b, 4 + 6, Bytes16(c[4]))
    BY <1>6, <2>1, <2>2, <2>3 DEF p, q, r, t
  <2>5. /\ 4 + 2 \in Nat /\ 4 + 4 \in Nat /\ 4 + 6 \in Nat /\ Len(b) \in Nat
        /\ 4 + 2 <= Len(b) /\ (4 + 2) + 2 <= Len(b) /\ (4 + 4) + 2 <= Len(b) /\ (4 + 6) + 2 <= Len(b)
    BY <1>12 DEF Octets
  <2>6. /\ Int16(b, 4) = c[1] /\ Int16(b, 4 + 2) = c[2]
        /\ Int16(b, 4 + 4) = c[3] /\ Int16(b, 4 + 6) = c[4]
    BY <1>6, <2>0, <2>4, <2>5, Int16Back
  <2>7. s \in {1, 2, 3, 4} /\ 2 + 2 * 1 = 4 /\ 2 + 2 * 2 = 4 + 2 /\ 2 + 2 * 3 = 4 + 4 /\ 2 + 2 * 4 = 4 + 6
    BY DEF Sections
  <2> QED BY <2>6, <2>7
<1> QED BY <1>11, <1>12, Zenon DEF w, e

(* The header of twelve bytes, and what stands behind it.                  *)
LEMMA SerializeIs ==
  ASSUME NEW m, WellFormed(m)
  PROVE  LET h == Bytes16(m.id) \o Bytes16(m.flags) \o CountBytes(m)
             e == SectionBytes(m) IN
         /\ h \in Octets /\ Len(h) = 12 /\ e \in [Sections -> Octets]
         /\ Serialize(m) = h \o FlattenSeq(e) /\ Serialize(m) \in Octets
         /\ FlattenSeq(e) \in Octets
         /\ \A b \in Octets : Agree(b, 0, h) /\ 12 <= Len(b) =>
              /\ Int16(b, 0) = m.id /\ Int16(b, 2) = m.flags
              /\ \A s \in Sections : Int16(b, 2 + 2 * s) = m.count[s]
<1> DEFINE i == Bytes16(m.id) f == Bytes16(m.flags) c == CountBytes(m)
           e == SectionBytes(m)
           u == i \o f
           h == u \o c
           g == FlattenSeq(e)
<1>1. i \in Octets /\ Len(i) = 2 /\ f \in Octets /\ Len(f) = 2
  BY FieldsOf, Bytes16Type
<1>2. /\ c \in Octets /\ Len(c) = 8
      /\ \A b \in Octets : Agree(b, 4, c) /\ 12 <= Len(b) =>
              \A s \in Sections : Int16(b, 2 + 2 * s) = m.count[s]
  BY FieldsOf, CountBytesIs, Zenon DEF CountBytes
<1>3. e \in [Sections -> Octets]
  <2>1. \A s \in Sections : FlattenSeq(Listed(s, m.section[s])) \in Octets
    BY FieldsOf, ListedIs, Zenon
  <2> QED BY <2>1 DEF SectionBytes
<1>4. g \in Octets
  <2>1. e \in Seq(Octets) /\ Len(e) = 4
    <3>1. e = [s \in 1..4 |-> e[s]]
      BY <1>3 DEF Sections
    <3>2. \A s \in 1..4 : e[s] \in Octets
      BY <1>3 DEF Sections
    <3> HIDE DEF e
    <3> QED BY <3>1, <3>2
  <2> HIDE DEF e
  <2>2. PICK F \in [0..4 -> Octets] : FlattenSeq(e) = F[4]
    BY <2>1, FlattenIs DEF Octets
  <2> QED BY <2>2
<1>5. Serialize(m) = h \o g
  <2> DEFINE Sec(s) == FlattenSeq([j \in 1..m.count[s] |->
                      IF s = 1 THEN QuestionBytes(m.section[s][j])
                               ELSE RecordBytes(m.section[s][j])])
  <2>1. e = [s \in Sections |-> Sec(s)]
    <3>1. \A s \in Sections : m.count[s] = Len(m.section[s])
      BY FieldsOf
    <3>2. \A s \in Sections : Sec(s) = FlattenSeq(Listed(s, m.section[s]))
      BY <3>1, Zenon DEF Listed, ElementBytes
    <3> HIDE DEF Sec
    <3> QED BY <3>2, Zenon DEF SectionBytes
  <2>2. Serialize(m) = u \o c \o FlattenSeq([s \in Sections |-> Sec(s)])
    BY Zenon DEF Serialize, CountBytes
  <2> HIDE DEF u, c, Sec, e
  <2> QED BY <2>1, <2>2, Zenon
<1> HIDE DEF i, f, c, e, g
<1>6. u \in Octets /\ Len(u) = 4
  <2>1. u \in Octets /\ Len(u) = Len(i) + Len(f)
    BY <1>1, OctetsConcat, Zenon
  <2> QED BY <1>1, <2>1
<1> HIDE DEF u
<1>7. h \in Octets /\ Len(h) = 12
  <2>1. h \in Octets /\ Len(h) = Len(u) + Len(c)
    BY <1>2, <1>6, OctetsConcat, Zenon
  <2> QED BY <1>2, <1>6, <2>1
<1> HIDE DEF h
<1>8. Serialize(m) \in Octets
  BY <1>4, <1>5, <1>7, OctetsConcat, Zenon
<1>9. ASSUME NEW b \in Octets, Agree(b, 0, h), 12 <= Len(b)
      PROVE  /\ Int16(b, 0) = m.id /\ Int16(b, 2) = m.flags
             /\ \A s \in Sections : Int16(b, 2 + 2 * s) = m.count[s]
  <2>0. 0 \in Nat /\ 0 + 4 = 4 /\ 0 + 2 = 2 /\ 2 \in Nat
    OBVIOUS
  <2>1. Agree(b, 0, u) /\ Agree(b, 0 + 4, c)
    BY <1>2, <1>6, <1>9, <2>0, AgreeSplit, Zenon DEF h
  <2>2. Agree(b, 0, i) /\ Agree(b, 0 + 2, f)
    BY <1>1, <2>0, <2>1, AgreeSplit, Zenon DEF u
  <2>3. 0 + 2 <= Len(b) /\ 2 + 2 <= Len(b)
    BY <1>9 DEF Octets
  <2>4. Int16(b, 0) = m.id /\ Int16(b, 2) = m.flags
    BY FieldsOf, <2>0, <2>2, <2>3, Int16Back, Zenon DEF i, f
  <2>5. Agree(b, 4, c)
    BY <2>0, <2>1, Zenon
  <2> QED BY <1>2, <1>9, <2>4, <2>5, Zenon
<1> QED BY <1>3, <1>4, <1>5, <1>7, <1>8, <1>9, Zenon DEF h, u, i, f, c, e, g

(* What ReadAll gives of a section.                                        *)
LEMMA QuestionsRead ==
  ASSUME NEW es \in Seq(dnsmsg_question), NEW b \in Octets, NEW n \in Nat,
         Agree(b, n, FlattenSeq(Listed(1, es)))
  PROVE  ReadsAs(ReadAll(ReadQuestion, b, n, Len(es)), b, n, FlattenSeq(Listed(1, es)), es)
<1> DEFINE N == Len(es)
           Step(g, i) == IF i = 0 THEN [val |-> << >>, at |-> n]
             ELSE [val |-> Append(g[i - 1].val, ReadQuestion(b, g[i - 1].at).val),
                   at  |-> ReadQuestion(b, g[i - 1].at).at]
           upto == CHOOSE g : g = [i \in 0..N |-> Step(g, i)]
<1>1. ReadAll(ReadQuestion, b, n, N) = upto[N]
  BY Zenon DEF ReadAll
<1>2. N \in Nat
  OBVIOUS
<1>3. \A g, i : Step(g, i) = AllStep(1, b, n, g, i)
  BY Zenon DEF AllStep, ReadOne
<1> HIDE DEF N, Step
<1>4. \E g : g = [i \in 0..N |-> Step(g, i)]
  <2>1. PICK g : AllSteps(1, b, n, N, g)
    BY <1>2, AllExists, Zenon
  <2>2. g = [i \in 0..N |-> Step(g, i)]
    BY <1>3, <2>1, Zenon DEF AllSteps
  <2> QED BY <2>2
<1>5. upto = [i \in 0..N |-> Step(upto, i)]
  BY <1>4
<1> HIDE DEF upto
<1>6. upto = [i \in 0..N |-> AllStep(1, b, n, upto, i)]
  BY <1>3, <1>5
<1>7. es \in Seq(Element(1))
  BY DEF Element
<1> QED BY <1>1, <1>6, <1>7, AllBack, Zenon DEF N

(* A section of records that was written is read as it was, or the end of  *)
(* the buffer is passed.                                                   *)
LEMMA RecordsRead ==
  ASSUME NEW s, s # 1, NEW es \in Seq(dnsmsg_rr), NEW b \in Octets, NEW n \in Nat,
         Agree(b, n, FlattenSeq(Listed(s, es)))
  PROVE  ReadsAs(ReadAll(ReadRecord, b, n, Len(es)), b, n, FlattenSeq(Listed(s, es)), es)
<1> DEFINE N == Len(es)
           Step(g, i) == IF i = 0 THEN [val |-> << >>, at |-> n]
             ELSE [val |-> Append(g[i - 1].val, ReadRecord(b, g[i - 1].at).val),
                   at  |-> ReadRecord(b, g[i - 1].at).at]
           upto == CHOOSE g : g = [i \in 0..N |-> Step(g, i)]
<1>1. ReadAll(ReadRecord, b, n, N) = upto[N]
  BY Zenon DEF ReadAll
<1>2. N \in Nat
  OBVIOUS
<1>3. \A g, i : Step(g, i) = AllStep(s, b, n, g, i)
  BY Zenon DEF AllStep, ReadOne
<1> HIDE DEF N, Step
<1>4. \E g : g = [i \in 0..N |-> Step(g, i)]
  <2>1. PICK g : AllSteps(s, b, n, N, g)
    BY <1>2, AllExists, Zenon
  <2>2. g = [i \in 0..N |-> Step(g, i)]
    BY <1>3, <2>1, Zenon DEF AllSteps
  <2> QED BY <2>2
<1>5. upto = [i \in 0..N |-> Step(upto, i)]
  BY <1>4
<1> HIDE DEF upto
<1>6. upto = [i \in 0..N |-> AllStep(s, b, n, upto, i)]
  BY <1>3, <1>5
<1>7. es \in Seq(Element(s))
  BY DEF Element
<1> QED BY <1>1, <1>6, <1>7, AllBack, Zenon DEF N

(* Past the end whatever is counted is read without coming back.           *)
LEMMA PastStaysPast ==
  ASSUME NEW b \in Octets, NEW n \in Nat, n > Len(b), NEW count \in Nat
  PROVE  /\ LET r == ReadAll(ReadQuestion, b, n, count) IN r.at \in Nat /\ r.at > Len(b)
         /\ LET r == ReadAll(ReadRecord, b, n, count) IN r.at \in Nat /\ r.at > Len(b)
<1> DEFINE q == [labels |-> << >>, type |-> 0, class |-> 0]
           r == [labels |-> << >>, type |-> 0, class |-> 0, ttl |-> 0, size |-> 0, data |-> << >>]
           qs == [i \in 1..count |-> q]
           rs == [i \in 1..count |-> r]
<1>1. << >> \in Labels /\ 0 \in uint16
  <2>1. 0 \in uint16
    BY SMT DEF uint16
  <2>2. << >> \in Seq(dnsmsg_label) /\ Len(<< >>) = 0
    OBVIOUS
  <2> QED BY <2>1, <2>2, Zenon DEF Labels
<1>2. q \in dnsmsg_question
  BY <1>1 DEF dnsmsg_question
<1>3. r \in dnsmsg_rr
  <2>1. (0 \div 65536) \in uint16
    BY SMT DEF uint16
  <2>2. << >> \in Seq(0..255) /\ Len(<< >>) = 0 /\ 0 \in Nat
    OBVIOUS
  <2> QED BY <1>1, <2>1, <2>2, SMT DEF dnsmsg_rr
<1> HIDE DEF q, r
<1>4. qs \in Seq(dnsmsg_question) /\ Len(qs) = count
  BY <1>2
<1>5. rs \in Seq(dnsmsg_rr) /\ Len(rs) = count
  BY <1>3
<1> HIDE DEF qs, rs
<1>6. Len(b) \in Nat /\ n >= Len(b)
  BY DEF Octets
<1>7. ASSUME NEW w \in Octets PROVE Agree(b, n, w) /\ ~(n + Len(w) <= Len(b))
  <2>1. Agree(b, n, w)
    BY <1>6, AgreePast
  <2>2. Len(w) \in Nat
    BY DEF Octets
  <2> QED BY <1>6, <2>1, <2>2
<1>8. FlattenSeq(Listed(1, qs)) \in Octets /\ FlattenSeq(Listed(2, rs)) \in Octets
  <2>1. qs \in Seq(Element(1)) /\ rs \in Seq(Element(2))
    BY <1>4, <1>5 DEF Element
  <2> QED BY <2>1, ListedIs, Zenon
<1>9. ReadsAs(ReadAll(ReadQuestion, b, n, count), b, n, FlattenSeq(Listed(1, qs)), qs)
  BY <1>4, <1>7, <1>8, QuestionsRead
<1>10. ReadsAs(ReadAll(ReadRecord, b, n, count), b, n, FlattenSeq(Listed(2, rs)), rs)
  <2>1. 2 # 1
    OBVIOUS
  <2> QED BY <1>5, <1>7, <1>8, <2>1, RecordsRead
<1> QED BY <1>7, <1>8, <1>9, <1>10, Zenon DEF ReadsAs

(* The position after what ends at p, as far as the buffer goes.           *)
At(b, x, p) == IF p <= Len(b) THEN x = p ELSE x \in Nat /\ x > Len(b)

(* At the position that was reached the buffer agrees with what comes      *)
(* next.                                                                   *)
LEMMA AtAgrees ==
  ASSUME NEW b \in Octets, NEW p \in Nat, NEW x, At(b, x, p), NEW w \in Octets, Agree(b, p, w)
  PROVE  x \in Nat /\ Agree(b, x, w)
<1>1. Len(b) \in Nat
  BY DEF Octets
<1>2. CASE p <= Len(b)
  BY <1>2 DEF At
<1>3. CASE ~(p <= Len(b))
  <2>1. x \in Nat /\ x >= Len(b)
    BY <1>1, <1>3 DEF At
  <2> QED BY <2>1, AgreePast
<1> QED BY <1>2, <1>3

(* Reading that brings the position over what was written there.           *)
LEMMA AtNext ==
  ASSUME NEW b \in Octets, NEW p \in Nat, NEW x, At(b, x, p), NEW w \in Octets, NEW es, NEW r,
         ReadsAs(r, b, x, w, es)
  PROVE  At(b, r.at, p + Len(w)) /\ (p + Len(w) <= Len(b) => r.val = es) /\ p + Len(w) \in Nat
<1> DEFINE B == Len(b) L == Len(w)
<1>1. B \in Nat /\ L \in Nat
  BY DEF Octets
<1>2. IF p <= B THEN x = p ELSE x \in Nat /\ x > B
  BY Zenon DEF At
<1>3. IF x + L <= B THEN r.val = es /\ r.at = x + L ELSE r.at \in Nat /\ r.at > B
  BY Zenon DEF ReadsAs
<1> HIDE DEF B, L
<1>4. CASE p <= B
  <2>1. x = p
    BY <1>2, <1>4
  <2>2. IF p + L <= B THEN r.val = es /\ r.at = p + L ELSE r.at \in Nat /\ r.at > B
    BY <1>3, <2>1, Zenon
  <2>3. p + L \in Nat
    BY <1>1
  <2> QED BY <2>2, <2>3, Zenon DEF At, B, L
<1>5. CASE ~(p <= B)
  <2>1. x \in Nat /\ x > B /\ ~(x + L <= B) /\ ~(p + L <= B) /\ p + L \in Nat
    BY <1>1, <1>2, <1>5
  <2>2. r.at \in Nat /\ r.at > B
    BY <1>3, <2>1, Zenon
  <2> QED BY <2>1, <2>2, Zenon DEF At, B, L
<1> QED BY <1>4, <1>5

(* What codec.c makes of a buffer that agrees with a message, however far  *)
(* it goes: the message, or the knowledge that it is not all there.        *)
LEMMA InterpretBack ==
  ASSUME NEW m, WellFormed(m), NEW b \in Octets, Agree(b, 0, Serialize(m))
  PROVE  IF Len(Serialize(m)) <= Len(b)
         THEN ~Interpret(b).error /\ Interpret(b).msg = m
         ELSE Interpret(b).error
<1> DEFINE h == Bytes16(m.id) \o Bytes16(m.flags) \o CountBytes(m)
           e == SectionBytes(m)
           S == Serialize(m)
           B == Len(b)
           count == [s \in Sections |-> Int16(b, 2 + 2 * s)]
           q == ReadAll(ReadQuestion, b, 12, count[1])
           a == ReadAll(ReadRecord, b, q.at, count[2])
           u == ReadAll(ReadRecord, b, a.at, count[3])
           x == ReadAll(ReadRecord, b, u.at, count[4])
           msg == [id |-> Int16(b, 0), flags |-> Int16(b, 2), count |-> count,
                   section |-> <<q.val, a.val, u.val, x.val>>]
<1>1. /\ h \in Octets /\ Len(h) = 12 /\ e \in [Sections -> Octets]
      /\ S = h \o FlattenSeq(e) /\ S \in Octets /\ FlattenSeq(e) \in Octets
      /\ Agree(b, 0, h) /\ 12 <= B =>
              /\ Int16(b, 0) = m.id /\ Int16(b, 2) = m.flags
              /\ \A s \in Sections : Int16(b, 2 + 2 * s) = m.count[s]
  BY SerializeIs, Zenon
<1>2. Interpret(b) = [msg |-> msg, error |-> x.at > B]
  BY Zenon DEF Interpret
<1>3. Interpret(b).msg = msg /\ Interpret(b).error = (x.at > B)
  <2> DEFINE y == x.at > B
  <2> HIDE DEF msg, y
  <2>1. Interpret(b) = [msg |-> msg, error |-> y]
    BY <1>2, Zenon DEF y
  <2>2. Interpret(b).msg = msg /\ Interpret(b).error = y
    BY <2>1
  <2> QED BY <2>2, Zenon DEF y
<1>4. B \in Nat /\ Len(S) \in Nat
  BY <1>1 DEF Octets
<1>5. 1 \in Sections /\ 2 \in Sections /\ 3 \in Sections /\ 4 \in Sections
  BY DEF Sections
<1> DEFINE e1 == e[1] e2 == e[2] e3 == e[3] e4 == e[4]
           d2 == e1 \o e2
           d3 == d2 \o e3
           g == d3 \o e4
<1>6. FlattenSeq(e) = g
  BY <1>1, FlattenFour, Zenon
<1>7. e1 \in Octets /\ e2 \in Octets /\ e3 \in Octets /\ e4 \in Octets
  BY <1>1, <1>5
<1>8. /\ e1 = FlattenSeq(Listed(1, m.section[1])) /\ e2 = FlattenSeq(Listed(2, m.section[2]))
      /\ e3 = FlattenSeq(Listed(3, m.section[3])) /\ e4 = FlattenSeq(Listed(4, m.section[4]))
  BY <1>5 DEF SectionBytes
<1> HIDE DEF h, e, S, B, e1, e2, e3, e4
<1>9. /\ d2 \in Octets /\ Len(d2) = Len(e1) + Len(e2)
      /\ Len(e1) \in Nat /\ Len(e2) \in Nat /\ Len(e3) \in Nat /\ Len(e4) \in Nat
  <2>1. d2 \in Octets /\ Len(d2) = Len(e1) + Len(e2)
    BY <1>7, OctetsConcat, Zenon
  <2> QED BY <1>7, <2>1 DEF Octets
<1> HIDE DEF d2
<1>10. d3 \in Octets /\ Len(d3) = Len(d2) + Len(e3)
  BY <1>7, <1>9, OctetsConcat, Zenon
<1> HIDE DEF d3
<1>11. g \in Octets /\ Len(g) = Len(d3) + Len(e4)
  BY <1>7, <1>10, OctetsConcat, Zenon
<1> HIDE DEF g
<1>12. Len(S) = 12 + Len(g)
  <2>1. Len(h \o g) = Len(h) + Len(g)
    BY <1>1, <1>11, OctetsConcat, Zenon
  <2>2. S = h \o g
    BY <1>1, <1>6, Zenon
  <2> QED BY <1>1, <2>1, <2>2, Zenon
<1> DEFINE p2 == 12 + Len(e1) p3 == p2 + Len(e2) p4 == p3 + Len(e3) p5 == p4 + Len(e4)
<1>13. /\ p2 \in Nat /\ p3 \in Nat /\ p4 \in Nat /\ p5 \in Nat
       /\ 12 <= p2 /\ p2 <= p3 /\ p3 <= p4 /\ p4 <= p5 /\ Len(S) = p5
       /\ 12 + Len(d2) = p3 /\ 12 + Len(d3) = p4
  BY <1>9, <1>10, <1>11, <1>12
<1>14. Agree(b, 0, h) /\ Agree(b, 12, g)
  <2>0. 0 \in Nat /\ 0 + Len(h) = 12
    BY <1>1
  <2>1. Agree(b, 0, h \o g)
    BY <1>1, <1>6, Zenon DEF S
  <2>2. Agree(b, 0, h) /\ Agree(b, 0 + Len(h), g)
    BY <1>1, <1>11, <2>0, <2>1, AgreeSplit, Zenon
  <2> QED BY <2>0, <2>2, Zenon
<1>15. Agree(b, 12, e1) /\ Agree(b, p2, e2) /\ Agree(b, p3, e3) /\ Agree(b, p4, e4)
  <2>0. 12 \in Nat
    OBVIOUS
  <2>1. Agree(b, 12, d3) /\ Agree(b, 12 + Len(d3), e4)
    BY <1>7, <1>10, <1>14, <2>0, AgreeSplit, Zenon DEF g
  <2>2. Agree(b, 12, d2) /\ Agree(b, 12 + Len(d2), e3)
    BY <1>7, <1>9, <2>0, <2>1, AgreeSplit, Zenon DEF d3
  <2>3. Agree(b, 12, e1) /\ Agree(b, 12 + Len(e1), e2)
    BY <1>7, <2>0, <2>2, AgreeSplit, Zenon DEF d2
  <2> HIDE DEF p2, p3, p4, p5
  <2>4. Agree(b, p2, e2)
    BY <2>3, Zenon DEF p2
  <2> QED BY <1>13, <2>1, <2>2, <2>3, <2>4, Zenon
<1> HIDE DEF p2, p3, p4, p5, count
<1>16. CASE 12 <= B
  <2>1. /\ Int16(b, 0) = m.id /\ Int16(b, 2) = m.flags /\ count = m.count
    <3>1. \A s \in Sections : Int16(b, 2 + 2 * s) = m.count[s]
      BY <1>1, <1>14, <1>16, Zenon
    <3>2. m.count = [s \in Sections |-> m.count[s]]
      BY FieldsOf
    <3>3. count = [s \in Sections |-> m.count[s]]
      BY <3>1 DEF count
    <3> QED BY <1>1, <1>14, <1>16, <3>2, <3>3, Zenon
  <2>2. /\ m.section[1] \in Seq(dnsmsg_question) /\ Len(m.section[1]) = count[1]
        /\ m.section[2] \in Seq(dnsmsg_rr) /\ Len(m.section[2]) = count[2]
        /\ m.section[3] \in Seq(dnsmsg_rr) /\ Len(m.section[3]) = count[3]
        /\ m.section[4] \in Seq(dnsmsg_rr) /\ Len(m.section[4]) = count[4]
    <3>1. \A s \in Sections : m.section[s] \in Seq(Element(s)) /\ Len(m.section[s]) = m.count[s]
      BY FieldsOf, Zenon
    <3>2. Element(1) = dnsmsg_question /\ Element(2) = dnsmsg_rr /\ Element(3) = dnsmsg_rr
          /\ Element(4) = dnsmsg_rr
      BY DEF Element
    <3> QED BY <1>5, <2>1, <3>1, <3>2, Zenon
  <2> HIDE DEF count
  <2>3. 12 \in Nat /\ At(b, 12, 12)
    BY <1>16 DEF At, B
  <2>4. At(b, q.at, p2) /\ (p2 <= Len(b) => q.val = m.section[1])
    <3>1. ReadsAs(q, b, 12, e1, m.section[1])
      BY <1>8, <1>15, <2>2, <2>3, QuestionsRead, Zenon
    <3> HIDE DEF q
    <3> QED BY <1>7, <2>3, <3>1, AtNext DEF p2
  <2> HIDE DEF q
  <2>5. At(b, a.at, p3) /\ (p3 <= Len(b) => a.val = m.section[2])
    <3>1. q.at \in Nat /\ Agree(b, q.at, e2)
      BY <1>7, <1>13, <1>15, <2>4, AtAgrees, Zenon
    <3>2. 2 # 1
      OBVIOUS
    <3>3. ReadsAs(a, b, q.at, e2, m.section[2])
      BY <1>8, <2>2, <3>1, <3>2, RecordsRead, Zenon
    <3> HIDE DEF a
    <3> QED BY <1>7, <1>13, <2>4, <3>3, AtNext DEF p3
  <2> HIDE DEF a
  <2>6. At(b, u.at, p4) /\ (p4 <= Len(b) => u.val = m.section[3])
    <3>1. a.at \in Nat /\ Agree(b, a.at, e3)
      BY <1>7, <1>13, <1>15, <2>5, AtAgrees, Zenon
    <3>2. 3 # 1
      OBVIOUS
    <3>3. ReadsAs(u, b, a.at, e3, m.section[3])
      BY <1>8, <2>2, <3>1, <3>2, RecordsRead, Zenon
    <3> HIDE DEF u
    <3> QED BY <1>7, <1>13, <2>5, <3>3, AtNext DEF p4
  <2> HIDE DEF u
  <2>7. At(b, x.at, p5) /\ (p5 <= Len(b) => x.val = m.section[4])
    <3>1. u.at \in Nat /\ Agree(b, u.at, e4)
      BY <1>7, <1>13, <1>15, <2>6, AtAgrees, Zenon
    <3>2. 4 # 1
      OBVIOUS
    <3>3. ReadsAs(x, b, u.at, e4, m.section[4])
      BY <1>8, <2>2, <3>1, <3>2, RecordsRead, Zenon
    <3> HIDE DEF x
    <3> QED BY <1>7, <1>13, <2>6, <3>3, AtNext DEF p5
  <2> HIDE DEF x
  <2>8. CASE Len(S) <= B
    <3>1. p2 <= Len(b) /\ p3 <= Len(b) /\ p4 <= Len(b) /\ p5 <= Len(b)
      BY <1>4, <1>13, <2>8 DEF B
    <3>2. x.at = p5 /\ ~(x.at > B)
      <4>1. x.at = p5
        BY <2>7, <3>1, Zenon DEF At
      <4> QED BY <1>4, <1>13, <2>8, <4>1
    <3>3. msg = m
      <4>1. msg = [id |-> m.id, flags |-> m.flags, count |-> m.count,
                   section |-> <<m.section[1], m.section[2], m.section[3], m.section[4]>>]
        BY <2>1, <2>4, <2>5, <2>6, <2>7, <3>1, Zenon
      <4> HIDE DEF msg
      <4> QED BY <4>1, FieldsOf, Zenon
    <3> QED BY <1>3, <2>8, <3>2, <3>3, Zenon DEF S, B
  <2>9. CASE ~(Len(S) <= B)
    <3>1. x.at > B
      BY <1>13, <2>7, <2>9, Zenon DEF At, B
    <3> QED BY <1>3, <2>9, <3>1, Zenon DEF S, B
  <2> QED BY <2>8, <2>9
<1>17. CASE ~(12 <= B)
  <2>1. count[1] \in Nat /\ count[2] \in Nat /\ count[3] \in Nat /\ count[4] \in Nat
    <3>1. \A s \in Sections : count[s] = Int16(b, 2 + 2 * s) /\ 2 + 2 * s \in Nat
      BY DEF count, Sections
    <3>2. \A s \in Sections : count[s] \in Nat
      BY <3>1, IntType, Zenon
    <3> QED BY <1>5, <3>2, Zenon
  <2> HIDE DEF count
  <2>2. 12 \in Nat /\ 12 > Len(b)
    BY <1>4, <1>17 DEF B
  <2>3. q.at \in Nat /\ q.at > Len(b)
    BY <2>1, <2>2, PastStaysPast, Zenon
  <2> HIDE DEF q
  <2>4. a.at \in Nat /\ a.at > Len(b)
    BY <2>1, <2>3, PastStaysPast, Zenon
  <2> HIDE DEF a
  <2>5. u.at \in Nat /\ u.at > Len(b)
    BY <2>1, <2>4, PastStaysPast, Zenon
  <2> HIDE DEF u
  <2>6. x.at \in Nat /\ x.at > Len(b)
    BY <2>1, <2>5, PastStaysPast, Zenon
  <2> HIDE DEF x
  <2>7. ~(Len(S) <= B)
    BY <1>4, <1>13, <1>17
  <2> QED BY <1>3, <2>6, <2>7, Zenon DEF S, B
<1> QED BY <1>16, <1>17

(* interpret_question reads what serialize_message has written, whatever   *)
(* stands behind it.                                                       *)
THEOREM WholeBack ==
  ASSUME NEW m, WellFormed(m), NEW after \in Octets
  PROVE  ~Interpret(Serialize(m) \o after).error /\ Interpret(Serialize(m) \o after).msg = m
<1> DEFINE S == Serialize(m) b == S \o after
<1>1. S \in Octets
  BY SerializeIs, Zenon
<1> HIDE DEF S
<1>2. /\ b \in Octets /\ Len(b) = Len(S) + Len(after) /\ Len(S) \in Nat /\ Len(after) \in Nat
      /\ \A k \in 1..Len(S) : b[k] = S[k]
  BY <1>1, OctetsConcat, Zenon
<1> HIDE DEF b
<1>3. Len(S) <= Len(b)
  BY <1>2
<1>4. Agree(b, 0, S)
  <2>1. \A k \in 1..Len(S) : 0 + k = k
    BY <1>2
  <2> QED BY <1>2, <2>1, Zenon DEF Agree
<1>5. ~Interpret(b).error /\ Interpret(b).msg = m
  BY <1>2, <1>3, <1>4, InterpretBack, Zenon DEF S
<1> QED BY <1>5, Zenon DEF b, S

(* Of a message cut anywhere the reader can tell: it asks for bytes that   *)
(* are not there, and buffer_size ends below zero.                         *)
THEOREM PartKnown ==
  ASSUME NEW m, WellFormed(m), NEW n \in 0..(Len(Serialize(m)) - 1)
  PROVE  Interpret(SubSeq(Serialize(m), 1, n)).error
<1> DEFINE S == Serialize(m) b == SubSeq(S, 1, n)
<1>1. S \in Octets
  BY SerializeIs, Zenon
<1>2. n \in 0..(Len(S) - 1)
  OBVIOUS
<1> HIDE DEF S
<1>3. Len(S) \in Nat /\ S \in Seq(Octet)
  BY <1>1 DEF Octets
<1>4. /\ b \in Seq(Octet) /\ Len(b) = n
      /\ \A k \in 1..n : b[k] = S[k]
  BY <1>2, <1>3
<1> HIDE DEF b
<1>5. b \in Octets
  BY <1>4 DEF Octets
<1>6. Agree(b, 0, S)
  <2>1. ASSUME NEW k \in 1..Len(S), 0 + k <= Len(b) PROVE b[0 + k] = S[k]
    <3>1. k \in 1..n /\ 0 + k = k
      BY <1>2, <1>3, <1>4, <2>1
    <3> QED BY <1>4, <3>1, Zenon
  <2> QED BY <2>1, Zenon DEF Agree
<1>7. ~(Len(S) <= Len(b))
  BY <1>2, <1>3, <1>4
<1>8. Interpret(b).error
  BY <1>5, <1>6, <1>7, InterpretBack, Zenon DEF S
<1> QED BY <1>8, Zenon DEF b, S

-----------------------------------------------------------------------------
(* Sizes.  Total goes from the set of all indices downward; what it adds   *)
(* up from below is the same.                                              *)
TotalStep(w, g, s) == IF s = {} THEN 0 ELSE g[s \ {Max(s)}] + w[Max(s)]

(* The largest of some indices, the last of all.                           *)
LEMMA MaxIs ==
  ASSUME NEW n \in Nat
  PROVE  /\ \A s \in SUBSET (1..n) : s # {} => Max(s) \in s /\ \A y \in s : y <= Max(s)
         /\ n # 0 => Max(1..n) = n
<1>1. ASSUME NEW s \in SUBSET (1..n), s # {} PROVE Max(s) \in s /\ \A y \in s : y <= Max(s)
  <2>1. s \subseteq 0..n
    OBVIOUS
  <2>2. PICK x \in s : \A y \in s : y <= x
    BY <1>1, <2>1, Largest
  <2>3. \A y \in s : x >= y
    BY <2>2
  <2>4. Max(s) \in s /\ \A y \in s : Max(s) >= y
    BY <2>3, Zenon DEF Max
  <2> QED BY <2>4
<1>2. ASSUME n # 0 PROVE Max(1..n) = n
  <2>1. n \in 1..n /\ 1..n \in SUBSET (1..n) /\ 1..n # {}
    BY <1>2
  <2>2. Max(1..n) \in 1..n /\ n <= Max(1..n)
    BY <1>1, <2>1
  <2> QED BY <2>2
<1> QED BY <1>1, <1>2

(* A sum over the first of some sizes has a value for each number of them. *)
LEMMA TotalExists ==
  ASSUME NEW n \in Nat, NEW w
  PROVE  \E g : g = [s \in SUBSET (1..n) |-> TotalStep(w, g, s)]
<1> DEFINE D == SUBSET (1..n)
           Good(g, m) == g = [s \in D |-> IF s \subseteq 1..m THEN TotalStep(w, g, s) ELSE 0]
           G == {m \in 0..n : \E g : Good(g, m)}
<1>1. 0 \in G
  <2> DEFINE z == [s \in D |-> 0]
             g == [s \in D |-> IF s \subseteq 1..0 THEN TotalStep(w, z, s) ELSE 0]
  <2>1. \A s \in D : s \subseteq 1..0 => TotalStep(w, g, s) = TotalStep(w, z, s)
    <3>1. \A s \in D : s \subseteq 1..0 => s = {}
      OBVIOUS
    <3> HIDE DEF g, z, D
    <3> QED BY <3>1, Zenon DEF TotalStep
  <2>2. Good(g, 0)
    <3> HIDE DEF z, D
    <3> QED BY <2>1
  <2> HIDE DEF Good, g
  <2> QED BY <2>2
<1>2. ASSUME NEW m \in 1..n, m - 1 \in G PROVE m \in G
  <2>1. PICK g : Good(g, m - 1)
    BY <1>2
  <2> DEFINE h == [s \in D |-> IF s \subseteq 1..m THEN TotalStep(w, g, s) ELSE 0]
  <2>2. ASSUME NEW s \in D, s \subseteq 1..m PROVE TotalStep(w, h, s) = TotalStep(w, g, s)
    <3>1. CASE s = {}
      <4> HIDE DEF h
      <4> QED BY <3>1, Zenon DEF TotalStep
    <3>2. CASE s # {}
      <4> DEFINE t == s \ {Max(s)}
      <4>1. t \in D /\ t \subseteq 1..(m - 1) /\ t \subseteq 1..m
        <5>1. Max(s) \in s /\ \A y \in s : y <= Max(s)
          BY <3>2, MaxIs
        <5> DEFINE x == Max(s)
        <5> HIDE DEF x
        <5>2. x \in s /\ \A y \in s : y <= x
          BY <5>1, Zenon DEF x
        <5>3. \A y \in s \ {x} : y \in 1..(m - 1)
          BY <2>2, <5>2
        <5> QED BY <2>2, <5>3 DEF x
      <4> HIDE DEF t
      <4>2. h[t] = TotalStep(w, g, t)
        <5> HIDE DEF D
        <5> QED BY <4>1
      <4>3. g[t] = TotalStep(w, g, t)
        <5> HIDE DEF D
        <5> QED BY <2>1, <4>1
      <4> HIDE DEF h
      <4>4. h[t] = g[t]
        BY <4>2, <4>3, Zenon
      <4> QED BY <3>2, <4>4, Zenon DEF TotalStep, t
    <3> QED BY <3>1, <3>2
  <2>3. Good(h, m)
    <3> HIDE DEF D
    <3> QED BY <2>2
  <2> HIDE DEF Good, h
  <2> QED BY <2>3
<1>3. n \in G
  <2>1. \A m \in 1..n : m - 1 \in G => m \in G
    BY <1>2, Zenon
  <2> HIDE DEF G
  <2>2. \A m \in 0..n : m \in G
    BY <1>1, <2>1, Upward
  <2> QED BY <2>2
<1>4. PICK g : Good(g, n)
  BY <1>3
<1>5. g = [s \in D |-> TotalStep(w, g, s)]
  <2>1. \A s \in D : s \subseteq 1..n
    OBVIOUS
  <2> HIDE DEF D
  <2> QED BY <1>4, <2>1
<1> QED BY <1>5

(* Total adds one size after the other.                                    *)
LEMMA TotalIs ==
  ASSUME NEW w \in Seq(Nat), NEW T \in [0..Len(w) -> Nat], T[0] = 0,
         \A i \in 1..Len(w) : T[i] = T[i - 1] + w[i]
  PROVE  Total(w) = T[Len(w)]
<1> DEFINE n == Len(w)
           iter == CHOOSE g : g = [s \in SUBSET DOMAIN w |-> TotalStep(w, g, s)]
<1>1. n \in Nat /\ DOMAIN w = 1..n
  OBVIOUS
<1>2. Total(w) = iter[DOMAIN w]
  BY Zenon DEF Total, FoldLeft, MapThenFoldSet, TotalStep
<1>3. \E g : g = [s \in SUBSET DOMAIN w |-> TotalStep(w, g, s)]
  BY <1>1, TotalExists
<1>4. iter = [s \in SUBSET DOMAIN w |-> TotalStep(w, iter, s)]
  BY <1>3
<1> HIDE DEF n, iter
<1>5. \A s \in SUBSET (1..n) : iter[s] = TotalStep(w, iter, s)
  BY <1>1, <1>4
<1> DEFINE G == {i \in 0..n : iter[1..i] = T[i]}
<1>6. 0 \in G
  <2>1. 1..0 = {}
    OBVIOUS
  <2>2. iter[1..0] = 0
    BY <1>5, <2>1, Zenon DEF TotalStep
  <2> QED BY <1>1, <2>2
<1>7. ASSUME NEW i \in 1..n, i - 1 \in G PROVE i \in G
  <2>1. i \in Nat /\ i # 0 /\ 1..i # {} /\ 1..i \in SUBSET (1..n) /\ (1..i) \ {i} = 1..(i - 1)
    <3>1. i \in Nat /\ i # 0 /\ i \in 1..i
      BY <1>1
    <3>2. \A k \in 1..i : k \in 1..n
      BY <1>1
    <3>3. \A k : k \in (1..i) \ {i} <=> k \in 1..(i - 1)
      BY <3>1
    <3>4. (1..i) \ {i} = 1..(i - 1)
      BY <3>3, Zenon
    <3> QED BY <3>1, <3>2, <3>4, Zenon
  <2>2. Max(1..i) = i
    BY <2>1, MaxIs
  <2>3. iter[1..i] = iter[1..(i - 1)] + w[i]
    BY <1>5, <2>1, <2>2, Zenon DEF TotalStep
  <2>4. iter[1..(i - 1)] = T[i - 1]
    BY <1>7
  <2>5. iter[1..i] = T[i]
    <3>1. T[i] = T[i - 1] + w[i]
      BY Zenon DEF n
    <3> QED BY <2>3, <2>4, <3>1, Zenon
  <2> QED BY <1>1, <2>5
<1>8. n \in G
  <2>1. \A i \in 1..n : i - 1 \in G => i \in G
    BY <1>7, Zenon
  <2> HIDE DEF G
  <2>2. \A i \in 0..n : i \in G
    BY <1>1, <1>6, <2>1, Upward
  <2> QED BY <1>1, <2>2
<1> QED BY <1>1, <1>2, <1>8 DEF n

(* The length of a concatenation is the total of the lengths.              *)
LEMMA FlattenLength ==
  ASSUME NEW ws \in Seq(Octets), NEW w, w = [i \in 1..Len(ws) |-> Len(ws[i])]
  PROVE  Len(FlattenSeq(ws)) = Total(w)
<1> DEFINE N == Len(ws)
<1>1. N \in Nat /\ \A i \in 1..N : ws[i] \in Octets
  OBVIOUS
<1>2. \A x \in Octets : Len(x) \in Nat
  BY DEF Octets
<1>3. PICK F \in [0..N -> Octets] : Parts(ws, F) /\ FlattenSeq(ws) = F[N]
  BY FlattenIs DEF Octets
<1>4. \A i \in 1..N : Len(F[i]) = Len(F[i - 1]) + Len(ws[i])
  <2>1. ws \in Seq(Seq(Octet)) /\ F \in [0..Len(ws) -> Seq(Octet)]
    BY DEF Octets
  <2> QED BY <1>3, <2>1, PartsLengths
<1> HIDE DEF N
<1>5. w \in Seq(Nat) /\ Len(w) = N /\ \A i \in 1..N : w[i] = Len(ws[i])
  <2>1. w = [i \in 1..N |-> Len(ws[i])]
    BY DEF N
  <2>2. \A i \in 1..N : Len(ws[i]) \in Nat
    BY <1>1, <1>2
  <2> QED BY <1>1, <2>1, <2>2
<1> DEFINE T == [i \in 0..N |-> Len(F[i])]
<1>6. T \in [0..N -> Nat] /\ \A i \in 0..N : T[i] = Len(F[i])
  BY <1>2
<1> HIDE DEF T
<1>7. T[0] = 0 /\ \A i \in 1..N : T[i] = T[i - 1] + w[i]
  <2>1. \A i \in 1..N : i - 1 \in 0..N /\ i \in 0..N
    BY <1>1
  <2>2. F[0] = << >> /\ Len(<< >>) = 0 /\ 0 \in 0..N
    BY <1>1, <1>3 DEF Parts
  <2> QED BY <1>4, <1>5, <1>6, <2>1, <2>2, Zenon
<1>8. Total(w) = T[N]
  BY <1>5, <1>6, <1>7, TotalIs
<1>9. N \in 0..N
  BY <1>1
<1> QED BY <1>3, <1>6, <1>8, <1>9, Zenon

(* calc_labels_size is the number of bytes a name is written as.           *)
LEMMA LabelsSizeIs ==
  ASSUME NEW ls \in Seq(dnsmsg_label)
  PROVE  Len(LabelBytes(ls)) = LabelsSize(ls)
<1> DEFINE ws == [i \in DOMAIN ls |-> <<Len(ls[i])>> \o ls[i]]
           w == [i \in DOMAIN ls |-> 1 + Len(ls[i])]
           f == FlattenSeq(ws)
<1>1. /\ \A i \in DOMAIN ls : ls[i] \in dnsmsg_label
      /\ DOMAIN ls = 1..Len(ls) /\ Len(ls) \in Nat
  OBVIOUS
<1>2. \A i \in DOMAIN ls : Word(ls[i]) \in Octets /\ Len(Word(ls[i])) = 1 + Len(ls[i])
  BY <1>1, WordIs, Zenon
<1>3. ws = [i \in DOMAIN ls |-> Word(ls[i])]
  BY Zenon DEF Word
<1>4. LabelBytes(ls) = f \o <<0>>
  BY Zenon DEF LabelBytes
<1>5. LabelsSize(ls) = 1 + Total(w)
  BY Zenon DEF LabelsSize
<1> HIDE DEF ws
<1>6. ws \in Seq(Octets) /\ Len(ws) = Len(ls) /\ w = [i \in 1..Len(ws) |-> Len(ws[i])]
  BY <1>1, <1>2, <1>3
<1> HIDE DEF w
<1>7. Len(f) = Total(w)
  BY <1>6, FlattenLength
<1>8. f \in Octets
  <2>1. PICK F \in [0..Len(ws) -> Octets] : f = F[Len(ws)]
    BY <1>6, FlattenIs DEF Octets
  <2>2. Len(ws) \in 0..Len(ws)
    BY <1>1, <1>6
  <2> QED BY <2>1, <2>2
<1> DEFINE z == <<0>>
<1>9. z \in Octets /\ Len(z) = 1
  BY DEF Octets, Octet
<1> HIDE DEF f, z
<1>10. Len(f \o z) = Len(f) + Len(z) /\ Len(f) \in Nat
  BY <1>8, <1>9, OctetsConcat, Zenon
<1>11. LabelBytes(ls) = f \o z
  BY <1>4, Zenon DEF z
<1>12. Len(LabelBytes(ls)) = Len(f) + 1
  BY <1>9, <1>10, <1>11, Zenon
<1>13. Len(f) + 1 = 1 + Len(f)
  BY <1>10
<1> QED BY <1>5, <1>7, <1>12, <1>13, Zenon

(* calc_message_size says how long serialize_message's message is.         *)
THEOREM SizeIs ==
  ASSUME NEW m, WellFormed(m)
  PROVE  Len(Serialize(m)) = MessageSize(m)
<1> DEFINE h == Bytes16(m.id) \o Bytes16(m.flags) \o CountBytes(m)
           e == SectionBytes(m)
           e1 == e[1] e2 == e[2] e3 == e[3] e4 == e[4]
           d2 == e1 \o e2
           d3 == d2 \o e3
           g == d3 \o e4
           t1 == Total([i \in 1..m.count[1] |-> QuestionSize(m.section[1][i])])
           t2 == RecordsSize(m, 2) t3 == RecordsSize(m, 3) t4 == RecordsSize(m, 4)
<1>1. /\ h \in Octets /\ Len(h) = 12 /\ e \in [Sections -> Octets]
      /\ Serialize(m) = h \o FlattenSeq(e)
  BY SerializeIs, Zenon
<1>2. 1 \in Sections /\ 2 \in Sections /\ 3 \in Sections /\ 4 \in Sections
  BY DEF Sections
<1>3. /\ e[1] = FlattenSeq(Listed(1, m.section[1])) /\ e[2] = FlattenSeq(Listed(2, m.section[2]))
      /\ e[3] = FlattenSeq(Listed(3, m.section[3])) /\ e[4] = FlattenSeq(Listed(4, m.section[4]))
  BY <1>2 DEF SectionBytes
<1>4. \A s \in Sections : m.section[s] \in Seq(Element(s)) /\ Len(m.section[s]) = m.count[s]
  BY FieldsOf, Zenon
<1>5. ASSUME NEW s \in Sections, NEW w,
             w = [i \in 1..m.count[s] |-> Len(ElementBytes(s, m.section[s][i]))]
      PROVE  Len(FlattenSeq(Listed(s, m.section[s]))) = Total(w)
  <2> DEFINE ws == Listed(s, m.section[s])
  <2>1. /\ ws \in Seq(Octets) /\ Len(ws) = m.count[s]
        /\ \A i \in 1..m.count[s] : ws[i] = ElementBytes(s, m.section[s][i])
    <3> DEFINE es == m.section[s]
    <3>1. es \in Seq(Element(s)) /\ Len(es) = m.count[s]
      BY <1>4, Zenon
    <3> HIDE DEF es
    <3>2. /\ Listed(s, es) \in Seq(Octets) /\ Len(Listed(s, es)) = Len(es)
          /\ \A i \in 1..Len(es) : Listed(s, es)[i] = ElementBytes(s, es[i])
      BY <3>1, ListedIs, Zenon
    <3> QED BY <3>1, <3>2, Zenon DEF es
  <2> HIDE DEF ws
  <2>2. w = [i \in 1..Len(ws) |-> Len(ws[i])]
    BY <1>5, <2>1
  <2> QED BY <2>1, <2>2, FlattenLength, Zenon DEF ws
<1>6. \A q \in dnsmsg_question : Len(QuestionBytes(q)) = QuestionSize(q)
  <2> SUFFICES ASSUME NEW q \in dnsmsg_question PROVE Len(QuestionBytes(q)) = QuestionSize(q)
    OBVIOUS
  <2>1. Len(QuestionBytes(q)) = Len(LabelBytes(q.labels)) + 4
    BY QuestionBack, Zenon
  <2>2. q.labels \in Seq(dnsmsg_label)
    BY DEF dnsmsg_question, Labels
  <2> QED BY <2>1, <2>2, LabelsSizeIs, Zenon DEF QuestionSize
<1>7. \A r \in dnsmsg_rr : Len(RecordBytes(r)) = RecordSize(r)
  <2> SUFFICES ASSUME NEW r \in dnsmsg_rr PROVE Len(RecordBytes(r)) = RecordSize(r)
    OBVIOUS
  <2>1. Len(RecordBytes(r)) = Len(LabelBytes(r.labels)) + 10 + r.size
    BY RecordBack, Zenon
  <2>2. r.labels \in Seq(dnsmsg_label)
    BY RecordFields, Zenon
  <2> QED BY <2>1, <2>2, LabelsSizeIs, Zenon DEF RecordSize
<1>8. Len(e1) = t1
  <2> DEFINE w == [i \in 1..m.count[1] |-> QuestionSize(m.section[1][i])]
  <2>1. \A i \in 1..m.count[1] : m.section[1][i] \in dnsmsg_question
    <3>1. m.section[1] \in Seq(dnsmsg_question) /\ Len(m.section[1]) = m.count[1]
      BY <1>2, <1>4 DEF Element
    <3> QED BY <3>1, SeqAt
  <2>2. \A i \in 1..m.count[1] : Len(ElementBytes(1, m.section[1][i])) = QuestionSize(m.section[1][i])
    BY <1>6, <2>1, Zenon DEF ElementBytes
  <2>3. w = [i \in 1..m.count[1] |-> Len(ElementBytes(1, m.section[1][i]))]
    BY <2>2, Zenon
  <2> HIDE DEF w
  <2>4. Len(FlattenSeq(Listed(1, m.section[1]))) = Total(w)
    BY <1>2, <1>5, <2>3, Zenon
  <2> QED BY <1>3, <2>4, Zenon DEF w
<1>9. ASSUME NEW s \in Sections, s # 1 PROVE Len(FlattenSeq(Listed(s, m.section[s]))) = RecordsSize(m, s)
  <2> DEFINE w == [i \in 1..m.count[s] |-> RecordSize(m.section[s][i])]
  <2>1. \A i \in 1..m.count[s] : m.section[s][i] \in dnsmsg_rr
    <3>1. m.section[s] \in Seq(dnsmsg_rr) /\ Len(m.section[s]) = m.count[s]
      BY <1>4, <1>9 DEF Element
    <3> QED BY <3>1, SeqAt
  <2>2. \A i \in 1..m.count[s] : Len(ElementBytes(s, m.section[s][i])) = RecordSize(m.section[s][i])
    BY <1>7, <1>9, <2>1, Zenon DEF ElementBytes
  <2>3. w = [i \in 1..m.count[s] |-> Len(ElementBytes(s, m.section[s][i]))]
    BY <2>2, Zenon
  <2>4. RecordsSize(m, s) = Total(w)
    BY Zenon DEF RecordsSize
  <2> HIDE DEF w
  <2> QED BY <1>5, <2>3, <2>4, Zenon
<1>10. Len(e2) = t2 /\ Len(e3) = t3 /\ Len(e4) = t4
  <2>1. 2 # 1 /\ 3 # 1 /\ 4 # 1
    OBVIOUS
  <2> QED BY <1>2, <1>3, <1>9, <2>1, Zenon
<1>11. FlattenSeq(e) = g
  BY <1>1, FlattenFour, Zenon
<1>12. e1 \in Octets /\ e2 \in Octets /\ e3 \in Octets /\ e4 \in Octets
  BY <1>1, <1>2
<1>13. MessageSize(m) = 12 + t1 + t2 + t3 + t4
  BY Zenon DEF MessageSize
<1> HIDE DEF h, e, e1, e2, e3, e4, t1, t2, t3, t4
<1>14. d2 \in Octets /\ Len(d2) = Len(e1) + Len(e2)
  BY <1>12, OctetsConcat, Zenon
<1> HIDE DEF d2
<1>15. d3 \in Octets /\ Len(d3) = Len(d2) + Len(e3)
  BY <1>12, <1>14, OctetsConcat, Zenon
<1> HIDE DEF d3
<1>16. g \in Octets /\ Len(g) = Len(d3) + Len(e4)
  BY <1>12, <1>15, OctetsConcat, Zenon
<1> HIDE DEF g
<1>17. Len(Serialize(m)) = 12 + Len(g)
  <2>1. Len(h \o g) = Len(h) + Len(g)
    BY <1>1, <1>16, OctetsConcat, Zenon
  <2>2. Serialize(m) = h \o g
    BY <1>1, <1>11, Zenon
  <2> QED BY <1>1, <2>1, <2>2, Zenon
<1>18. Len(e1) \in Nat /\ Len(e2) \in Nat /\ Len(e3) \in Nat /\ Len(e4) \in Nat
  BY <1>12 DEF Octets
<1>19. Len(Serialize(m)) = 12 + Len(e1) + Len(e2) + Len(e3) + Len(e4)
  BY <1>14, <1>15, <1>16, <1>17, <1>18
<1> QED BY <1>8, <1>10, <1>13, <1>19, Zenon
==============================================================================
