--------------------------- MODULE RegistryProofs ----------------------------
(***************************************************************************)
(* Safety of the registrations for every set of lines, buffer and token    *)
(* size, number of lines, ends and restarts: the bytes of the file         *)
(* implement Journal, and what is linked was asked for.                    *)
(*                                                                         *)
(* The invariants come one after the other, each inductive given those     *)
(* before: Types, Records (what the file and the buffer, read to the end,  *)
(* give), Distinct, Reading (what is left to read of a line), Heard.       *)
(*                                                                         *)
(* Lemmas about the operators of Console and Store come first: what is     *)
(* read back of the bytes that were written, and what the words of a line  *)
(* are.  None of them is about a behaviour.                                *)
(***************************************************************************)
EXTENDS Registry, TLAPS, SequenceTheorems, FiniteSetTheorems, WellFoundedInduction

(* What the lengths of the code can count, and strings of such a length.   *)
Limit  == 256 * 256 * 256 * 128
String == {s \in Seq(Byte) : Len(s) < Limit}
Record == String \X String

(* A set of numbers has a least one.                                       *)
LEMMA Least ==
  ASSUME NEW S, S \subseteq Nat, S # {}
  PROVE  \E m \in S : \A k \in S : m <= k
<1> DEFINE Below == OpToRel(<, Nat)
<1>1. PICK m \in S : \A k \in S : ~(<<k, m>> \in Below)
  <2>1. IsWellFoundedOn(Below, Nat)
    BY NatLessThanWellFounded
  <2> HIDE DEF Below
  <2> QED BY <2>1, WFMin
<1>2. ASSUME NEW k \in S, k < m PROVE FALSE
  <2>1. <<k, m>> \in Below
    BY <1>2 DEF OpToRel
  <2> HIDE DEF Below
  <2> QED BY <1>1, <2>1
<1> QED BY <1>2

(* A length written is the length read.                                    *)
LEMMA IntegerBack ==
  ASSUME NEW n \in Nat, n < Limit
  PROVE  /\ Int32(n) \in Seq(Byte) /\ Len(Int32(n)) = 4
         /\ Int32(n)[1] + 256 * (Int32(n)[2] + 256 * (Int32(n)[3] + 256 * Int32(n)[4])) = n
         /\ Int32(n)[4] < 128
<1> DEFINE a == n \div 256
           b == a \div 256
           c == b \div 256
<1>1. a \in Nat /\ b \in Nat /\ c \in Nat /\ c < 128
  BY DEF Limit
<1>2. n = 256 * a + (n % 256) /\ n % 256 \in Byte
  BY DEF Byte
<1>3. a = 256 * b + (a % 256) /\ a % 256 \in Byte
  BY DEF Byte
<1>4. b = 256 * c + (b % 256) /\ b % 256 \in Byte
  BY DEF Byte
<1>5. c % 256 = c /\ c % 256 \in Byte
  BY <1>1 DEF Byte
<1>6. Int32(n) = <<n % 256, a % 256, b % 256, c % 256>>
  BY DEF Int32
<1> HIDE DEF a, b, c
<1>7. Int32(n) \in Seq(Byte) /\ Len(Int32(n)) = 4
  BY <1>2, <1>3, <1>4, <1>5, <1>6
<1>8. /\ Int32(n)[1] = n % 256 /\ Int32(n)[2] = a % 256
      /\ Int32(n)[3] = b % 256 /\ Int32(n)[4] = c % 256
  BY <1>6
<1> QED BY <1>1, <1>2, <1>3, <1>4, <1>5, <1>7, <1>8 DEF Byte

(* Four bytes are a number below Limit, unless they are a negative one.    *)
LEMMA NumberType ==
  ASSUME NEW w \in Byte, NEW x \in Byte, NEW y \in Byte, NEW z \in Byte, z < 128
  PROVE  /\ w + 256 * (x + 256 * (y + 256 * z)) \in Nat
         /\ w + 256 * (x + 256 * (y + 256 * z)) < Limit
<1> DEFINE a == y + 256 * z
           b == x + 256 * a
<1>1. a \in Nat /\ a < 256 * 128
  BY DEF Byte
<1> HIDE DEF a
<1>2. b \in Nat /\ b < 256 * 256 * 128
  BY <1>1 DEF Byte
<1> HIDE DEF b
<1>3. w + 256 * b \in Nat /\ w + 256 * b < 256 * 256 * 256 * 128
  BY <1>2 DEF Byte
<1> QED BY <1>3 DEF a, b, Limit

(* A part of a sequence is that part of any longer one.                    *)
LEMMA SubSeqOfPrefix ==
  ASSUME NEW S, NEW f \in Seq(S), NEW b \in Seq(S), NEW m \in Nat \ {0}, NEW n \in Nat,
         n <= Len(f)
  PROVE  SubSeq(f \o b, m, n) = SubSeq(f, m, n)
<1>1. CASE n < m
  BY <1>1, SubSeqEmpty
<1>2. CASE m <= n
  <2>1. m \in 1..Len(f) /\ n \in 1..Len(f)
    BY <1>2
  <2> QED BY <2>1, SubSeqOfConcat1
<1> QED BY <1>1, <1>2

(* The number at a place of the file.                                      *)
LEMMA LengthType ==
  ASSUME NEW f \in Seq(Byte), NEW at \in Nat, at + 4 <= Len(f), ~Negative(f, at)
  PROVE  Int32At(f, at) \in Nat /\ Int32At(f, at) < Limit
<1> DEFINE w == f[at+1] x == f[at+2] y == f[at+3] z == f[at+4]
<1>1. w \in Byte /\ x \in Byte /\ y \in Byte /\ z \in Byte
  OBVIOUS
<1>1a. z < 128
  <2>1. ~(z >= 128)
    BY DEF Negative
  <2> HIDE DEF z
  <2> QED BY <1>1, <2>1 DEF Byte
<1>2. Int32At(f, at) = w + 256 * (x + 256 * (y + 256 * z))
  BY DEF Int32At
<1> HIDE DEF w, x, y, z
<1> QED BY <1>1, <1>1a, <1>2, NumberType

(* Limit, for steps that do not need its value.                            *)
LEMMA LimitType == Limit \in Nat
BY DEF Limit

(* A string that is all there is bytes of the file, and where it ends.     *)
LEMMA StringRead ==
  ASSUME NEW f \in Seq(Byte), NEW at \in 0..Len(f), ReadString(f, at).ok
  PROVE  /\ ReadString(f, at).str \in String
         /\ ReadString(f, at).at \in (at + 4)..Len(f)
         /\ at + 4 <= Len(f) /\ ~Negative(f, at)
         /\ ReadString(f, at).at = at + 4 + Int32At(f, at)
         /\ ReadString(f, at).str = SubSeq(f, at + 5, at + 4 + Int32At(f, at))
<1>1. at + 4 <= Len(f) /\ ~Negative(f, at)
  BY DEF ReadString
<1> DEFINE n == Int32At(f, at)
<1>2. n \in Nat /\ n < Limit
  BY <1>1, LengthType
<1> HIDE DEF n
<1>3. at + 4 + n <= Len(f)
  BY <1>1, <1>2 DEF ReadString, AllOfIt, n
<1>4. /\ ReadString(f, at).at = at + 4 + n
      /\ ReadString(f, at).str = SubSeq(f, at + 5, at + 4 + n)
  BY <1>1, <1>2, <1>3 DEF ReadString, AllOfIt, n
<1>5. \A k \in at + 5..at + 4 + n : f[k] \in Byte
  BY <1>2, <1>3
<1>6. SubSeq(f, at + 5, at + 4 + n) \in Seq(Byte) /\ Len(SubSeq(f, at + 5, at + 4 + n)) = n
  BY <1>2, <1>5, LimitType, SubSeqProperties
<1>7. SubSeq(f, at + 5, at + 4 + n) \in String
  BY <1>2, <1>6, LimitType DEF String
<1>8. at + 4 + n \in (at + 4)..Len(f)
  BY <1>2, <1>3, LimitType
<1> QED BY <1>1, <1>4, <1>7, <1>8 DEF n

(* More bytes behind do not change a string that is all there.             *)
LEMMA SameString ==
  ASSUME NEW f \in Seq(Byte), NEW b \in Seq(Byte), NEW at \in 0..Len(f),
         ReadString(f, at).ok
  PROVE  ReadString(f \o b, at) = ReadString(f, at)
<1> DEFINE g == f \o b
           n == Int32At(f, at)
<1>1. g \in Seq(Byte) /\ Len(g) = Len(f) + Len(b) /\ \A k \in 1..Len(f) : g[k] = f[k]
  BY ConcatProperties
<1>2. at + 4 <= Len(f) /\ n \in Nat /\ n < Limit /\ at + 4 + n <= Len(f)
  BY LengthType, StringRead
<1> HIDE DEF g, n
<1>3. Int32At(g, at) = n
  <2>0. {at+1, at+2, at+3, at+4} \subseteq 1..Len(f)
    BY <1>2, LimitType
  <2>1. g[at+1] = f[at+1] /\ g[at+2] = f[at+2] /\ g[at+3] = f[at+3] /\ g[at+4] = f[at+4]
    BY <1>1, <2>0
  <2> QED BY <2>1 DEF Int32At, n
<1>3a. ~Negative(g, at) /\ ~Negative(f, at)
  <2>1. at + 4 \in 1..Len(f)
    BY <1>2, LimitType
  <2> QED BY <1>1, <2>1, StringRead DEF Negative
<1>4. SubSeq(g, at + 5, at + 4 + n) = SubSeq(f, at + 5, at + 4 + n)
  <2>1. at + 5 \in Nat \ {0} /\ at + 4 + n \in Nat
    BY <1>2, LimitType
  <2> QED BY <1>2, <2>1, SubSeqOfPrefix DEF g
<1> USE LimitType
<1>5a. ~(at + 4 > Len(g)) /\ at + 4 + n <= Len(g) /\ at + 4 + n \in Nat
  BY <1>1, <1>2
<1>5. ReadString(g, at) = [ok |-> TRUE, str |-> SubSeq(g, at + 5, at + 4 + n), at |-> at + 4 + n]
  BY <1>3, <1>3a, <1>5a DEF ReadString, AllOfIt
<1>6. ReadString(f, at) = [ok |-> TRUE, str |-> SubSeq(f, at + 5, at + 4 + n), at |-> at + 4 + n]
  BY <1>2, <1>3a, LimitType DEF ReadString, AllOfIt, n
<1> QED BY <1>4, <1>5, <1>6 DEF g

(* An entry that is all there is two strings in a row.                     *)
LEMMA EntryRead ==
  ASSUME NEW f \in Seq(Byte), NEW at \in 0..Len(f), ReadEntry(f, at).ok
  PROVE  /\ ReadEntry(f, at).entry \in Record
         /\ ReadEntry(f, at).at \in (at + 8)..Len(f)
         /\ ReadString(f, at).ok /\ ReadString(f, ReadString(f, at).at).ok
         /\ ReadEntry(f, at) = [ok |-> TRUE, 
              entry |-> <<ReadString(f, at).str, ReadString(f, ReadString(f, at).at).str>>,
              at |-> ReadString(f, ReadString(f, at).at).at]
<1> DEFINE d == ReadString(f, at)
           t == ReadString(f, d.at)
<1>1. d.ok
  BY DEF ReadEntry
<1>2. t.ok /\ ReadEntry(f, at) = [ok |-> TRUE, entry |-> <<d.str, t.str>>, at |-> t.at]
  BY <1>1 DEF ReadEntry
<1>3. d.str \in String /\ d.at \in (at + 4)..Len(f)
  BY <1>1, StringRead
<1>4. t.str \in String /\ t.at \in (d.at + 4)..Len(f)
  BY <1>2, <1>3, StringRead
<1> HIDE DEF d, t
<1>5. ReadEntry(f, at).entry \in Record /\ ReadEntry(f, at).at \in (at + 8)..Len(f)
  BY <1>2, <1>3, <1>4 DEF Record
<1> QED BY <1>1, <1>2, <1>5 DEF d, t

(* More bytes behind do not change an entry that is all there.             *)
LEMMA SameEntry ==
  ASSUME NEW f \in Seq(Byte), NEW b \in Seq(Byte), NEW at \in 0..Len(f),
         ReadEntry(f, at).ok
  PROVE  ReadEntry(f \o b, at) = ReadEntry(f, at)
<1> DEFINE d == ReadString(f, at)
<1>1. /\ d.ok /\ ReadString(f, d.at).ok
      /\ ReadEntry(f, at) = [ok |-> TRUE, entry |-> <<d.str, ReadString(f, d.at).str>>,
                             at |-> ReadString(f, d.at).at]
  BY EntryRead
<1>2. d.at \in 0..Len(f)
  BY <1>1, StringRead
<1>3. ReadString(f \o b, at) = d
  BY <1>1, SameString
<1>4. ReadString(f \o b, d.at) = ReadString(f, d.at)
  BY <1>1, <1>2, SameString
<1> HIDE DEF d
<1>5. ReadEntry(f \o b, at) = [ok |-> TRUE, entry |-> <<d.str, ReadString(f, d.at).str>>,
                             at |-> ReadString(f, d.at).at]
  BY <1>1, <1>3, <1>4 DEF ReadEntry
<1> QED BY <1>1, <1>5

(* The recursive function exists, since each entry takes bytes.            *)
LEMMA ReadFromEquation ==
  ASSUME NEW f \in Seq(Byte), NEW at \in 0..Len(f)
  PROVE  ReadFrom(f)[at] =
           IF ReadEntry(f, at).ok
           THEN [entries |-> <<ReadEntry(f, at).entry>>
                               \o ReadFrom(f)[ReadEntry(f, at).at].entries,
                 at |-> ReadFrom(f)[ReadEntry(f, at).at].at]
           ELSE [entries |-> << >>, at |-> at]
<1> DEFINE N == Len(f)
           Step(g, k) == IF ReadEntry(f, k).ok
                         THEN [entries |-> <<ReadEntry(f, k).entry>>
                                             \o g[ReadEntry(f, k).at].entries,
                               at |-> g[ReadEntry(f, k).at].at]
                         ELSE [entries |-> << >>, at |-> k]
           Good(g, m) == g = [k \in 0..N |-> IF k >= m THEN Step(g, k) ELSE 0]
           S == {m \in 0..(N + 1) : \E g : Good(g, m)}
<1>1. N \in Nat
  OBVIOUS
<1>2. \A k \in 0..N : ReadEntry(f, k).ok => ReadEntry(f, k).at \in (k + 8)..N
  BY EntryRead
<1> HIDE DEF N
<1>3. N + 1 \in S
  <2>1. Good([k \in 0..N |-> 0], N + 1)
    BY <1>1
  <2> HIDE DEF Good
  <2> QED BY <1>1, <2>1
<1>4. PICK m \in S : \A k \in S : m <= k
  <2>1. S \subseteq Nat /\ S # {}
    BY <1>1, <1>3
  <2> HIDE DEF S
  <2> QED BY <2>1, Least
<1>5. m = 0
  <2> SUFFICES ASSUME m # 0 PROVE FALSE
    OBVIOUS
  <2>1. PICK g : Good(g, m)
    OBVIOUS
  <2>2. m \in 1..(N + 1)
    BY <1>1
  <2> DEFINE h == [k \in 0..N |-> IF k >= m - 1 THEN Step(g, k) ELSE 0]
  <2>3. ASSUME NEW k \in 0..N, k >= m - 1 PROVE Step(h, k) = Step(g, k)
    <3>1. CASE ReadEntry(f, k).ok
      <4> DEFINE j == ReadEntry(f, k).at
      <4>1. j \in 0..N /\ j >= m
        BY <1>1, <1>2, <2>2, <2>3, <3>1
      <4>2. h[j] = Step(g, j) /\ g[j] = Step(g, j)
        <5> HIDE DEF Step, j
        <5> QED BY <1>1, <2>1, <2>2, <4>1
      <4> HIDE DEF h
      <4> QED BY <3>1, <4>2
    <3>2. CASE ~ReadEntry(f, k).ok
      BY <3>2
    <3> QED BY <3>1, <3>2
  <2>4. Good(h, m - 1)
    <3> HIDE DEF Step
    <3> QED BY <2>3
  <2>5. m - 1 \in S
    <3> HIDE DEF Good, h
    <3> QED BY <1>1, <2>2, <2>4
  <2> HIDE DEF S
  <2> QED BY <1>1, <1>4, <2>2, <2>5
<1>6. \E g : g = [k \in 0..N |-> Step(g, k)]
  <2>1. PICK g : Good(g, 0)
    BY <1>5
  <2>2. \A k \in 0..N : k >= 0
    BY <1>1
  <2> HIDE DEF Step
  <2>3. g = [k \in 0..N |-> Step(g, k)]
    BY <2>1, <2>2
  <2> QED BY <2>3
<1>7. ReadFrom(f) = CHOOSE g : g = [k \in 0..N |-> Step(g, k)]
  BY DEF ReadFrom, N
<1>8. ReadFrom(f) = [k \in 0..N |-> Step(ReadFrom(f), k)]
  <2> HIDE DEF Step
  <2> QED BY <1>6, <1>7
<1> QED BY <1>8 DEF N

(* A bounded set of numbers has a largest one.                             *)
LEMMA Largest ==
  ASSUME NEW n \in Nat, NEW S, S \subseteq 0..n, S # {}
  PROVE  \E m \in S : \A k \in S : k <= m
<1> DEFINE T == {n - s : s \in S}
<1>0. \A s \in S : s \in Nat /\ n - s \in Nat
  OBVIOUS
<1>1. T \subseteq Nat /\ T # {}
  BY <1>0
<1>2. PICK x \in T : \A y \in T : x <= y
  <2> HIDE DEF T
  <2> QED BY <1>1, Least
<1>3. PICK m \in S : x = n - m
  OBVIOUS
<1>4. ASSUME NEW k \in S PROVE k <= m
  <2>1. x <= n - k
    BY <1>2
  <2> QED BY <1>3, <2>1
<1> QED BY <1>4

(* Concatenation, associated to the right.                                 *)
LEMMA Assoc ==
  ASSUME NEW S, NEW x \in Seq(S), NEW y \in Seq(S), NEW z \in Seq(S)
  PROVE  (x \o y) \o z = x \o (y \o z)
BY ConcatAssociative

(* The fields of what reading returns.                                     *)
LEMMA Fields ==
  ASSUME NEW r, NEW x, NEW y, r = [entries |-> x, at |-> y]
  PROVE  r.entries = x /\ r.at = y
OBVIOUS

(* Reading gives records, and stops where no more is there.                *)
LEMMA FromType ==
  ASSUME NEW f \in Seq(Byte)
  PROVE  \A at \in 0..Len(f) :
           /\ ReadFrom(f)[at].entries \in Seq(Record)
           /\ ReadFrom(f)[at].at \in at..Len(f)
           /\ ~ReadEntry(f, ReadFrom(f)[at].at).ok
<1> DEFINE P(at) == /\ ReadFrom(f)[at].entries \in Seq(Record)
                    /\ ReadFrom(f)[at].at \in at..Len(f)
                    /\ ~ReadEntry(f, ReadFrom(f)[at].at).ok
           S == {at \in 0..Len(f) : ~P(at)}
<1> SUFFICES ASSUME S # {} PROVE FALSE
  OBVIOUS
<1>1. Len(f) \in Nat
  OBVIOUS
<1>2. PICK m \in S : \A k \in S : k <= m
  <2>1. S \subseteq 0..Len(f)
    OBVIOUS
  <2> HIDE DEF S
  <2> QED BY <1>1, <2>1, Largest
<1>3. m \in 0..Len(f)
  OBVIOUS
<1>4. CASE ReadEntry(f, m).ok
  <2> DEFINE e == ReadEntry(f, m)
  <2>1. e.entry \in Record /\ e.at \in (m + 8)..Len(f)
    BY <1>3, <1>4, EntryRead
  <2> HIDE DEF e
  <2>2. P(e.at)
    <3>1. e.at \in 0..Len(f) /\ ~(e.at <= m)
      BY <1>1, <1>3, <2>1
    <3> HIDE DEF P
    <3> QED BY <1>2, <3>1
  <2>3. ReadFrom(f)[m] = [entries |-> <<e.entry>> \o ReadFrom(f)[e.at].entries,
                          at |-> ReadFrom(f)[e.at].at]
    BY <1>3, <1>4, ReadFromEquation DEF e
  <2>4. <<e.entry>> \in Seq(Record)
    BY <2>1
  <2>5. ReadFrom(f)[m].entries \in Seq(Record)
    BY <2>2, <2>3, <2>4, ConcatProperties
  <2>6. ReadFrom(f)[m].at \in m..Len(f)
    BY <1>1, <1>3, <2>1, <2>2, <2>3
  <2>7. P(m)
    BY <2>2, <2>3, <2>5, <2>6
  <2> QED BY <2>7
<1>5. CASE ~ReadEntry(f, m).ok
  <2>1. ReadFrom(f)[m] = [entries |-> << >>, at |-> m]
    BY <1>3, <1>5, ReadFromEquation
  <2>2. << >> \in Seq(Record)
    OBVIOUS
  <2>3. P(m)
    BY <1>1, <1>3, <1>5, <2>1, <2>2
  <2> QED BY <2>3
<1> QED BY <1>4, <1>5

(* With more bytes behind, reading goes on where it stopped.               *)
LEMMA Resume ==
  ASSUME NEW f \in Seq(Byte), NEW b \in Seq(Byte)
  PROVE  \A at \in 0..Len(f) :
           LET stop == ReadFrom(f)[at].at IN
           /\ ReadFrom(f \o b)[at].entries
                = ReadFrom(f)[at].entries \o ReadFrom(f \o b)[stop].entries
           /\ ReadFrom(f \o b)[at].at = ReadFrom(f \o b)[stop].at
<1> DEFINE g == f \o b
           P(at) == /\ ReadFrom(g)[at].entries
                         = ReadFrom(f)[at].entries
                           \o ReadFrom(g)[ReadFrom(f)[at].at].entries
                    /\ ReadFrom(g)[at].at = ReadFrom(g)[ReadFrom(f)[at].at].at
           S == {at \in 0..Len(f) : ~P(at)}
<1> SUFFICES ASSUME S # {} PROVE FALSE
  OBVIOUS
<1>1. Len(f) \in Nat
  OBVIOUS
<1>2. PICK m \in S : \A k \in S : k <= m
  <2>1. S \subseteq 0..Len(f)
    OBVIOUS
  <2> HIDE DEF S
  <2> QED BY <1>1, <2>1, Largest
<1>3. m \in 0..Len(f)
  OBVIOUS
<1>4. g \in Seq(Byte) /\ m \in 0..Len(g) /\ Len(f) <= Len(g)
  BY <1>3, ConcatProperties
<1>5. CASE ReadEntry(f, m).ok
  <2> DEFINE e == ReadEntry(f, m)
  <2>1. e.entry \in Record /\ e.at \in (m + 8)..Len(f)
    BY <1>3, <1>5, EntryRead
  <2>2. ReadEntry(g, m) = e
    BY <1>3, <1>5, SameEntry
  <2> DEFINE x == <<e.entry>>
  <2>3. ReadFrom(f)[m] = [entries |-> x \o ReadFrom(f)[e.at].entries,
                          at |-> ReadFrom(f)[e.at].at]
    BY <1>3, <1>5, ReadFromEquation
  <2>4. ReadFrom(g)[m] = [entries |-> x \o ReadFrom(g)[e.at].entries,
                          at |-> ReadFrom(g)[e.at].at]
    <3> HIDE DEF g
    <3> QED BY <1>4, <1>5, <2>2, ReadFromEquation
  <2>8. x \in Seq(Record)
    BY <2>1
  <2> HIDE DEF e, g, x
  <2>5. P(e.at)
    <3>1. e.at \in 0..Len(f) /\ ~(e.at <= m)
      BY <1>1, <1>3, <2>1
    <3> HIDE DEF P
    <3> QED BY <1>2, <3>1
  <2> DEFINE h == ReadFrom(f)[e.at]
  <2>6. h.entries \in Seq(Record) /\ h.at \in 0..Len(f)
    <3>1. e.at \in 0..Len(f)
      BY <1>1, <1>3, <2>1
    <3> QED BY <1>1, <3>1, FromType
  <2>7. ReadFrom(g)[h.at].entries \in Seq(Record)
    <3>1. h.at \in 0..Len(g)
      BY <1>1, <1>4, <2>6
    <3> QED BY <1>4, <3>1, FromType
  <2> HIDE DEF h
  <2> DEFINE y == h.entries
             z == ReadFrom(g)[h.at].entries
  <2>9. (x \o y) \o z = x \o (y \o z)
    <3>1. x \in Seq(Record) /\ y \in Seq(Record) /\ z \in Seq(Record)
      BY <2>6, <2>7, <2>8
    <3> HIDE DEF x, y, z, S, P
    <3> QED BY <3>1, Assoc
  <2>10. ReadFrom(g)[e.at].entries = y \o z /\ ReadFrom(g)[e.at].at = ReadFrom(g)[h.at].at
    BY <2>5 DEF h
  <2>11. ReadFrom(f)[m].entries = x \o y /\ ReadFrom(f)[m].at = h.at
    <3> HIDE DEF S, P
    <3> QED BY <2>3, Fields DEF h
  <2>12. ReadFrom(g)[m].entries = x \o ReadFrom(g)[e.at].entries
         /\ ReadFrom(g)[m].at = ReadFrom(g)[e.at].at
    <3> HIDE DEF S, P
    <3> QED BY <2>4, Fields
  <2>13. P(m)
    BY <2>9, <2>10, <2>11, <2>12
  <2> QED BY <2>13
<1>6. CASE ~ReadEntry(f, m).ok
  <2>1. ReadFrom(f)[m] = [entries |-> << >>, at |-> m]
    BY <1>3, <1>6, ReadFromEquation
  <2>2. ReadFrom(g)[m].entries \in Seq(Record)
    BY <1>4, FromType
  <2>3. << >> \o ReadFrom(g)[m].entries = ReadFrom(g)[m].entries
    BY <2>2, ConcatEmptySeq
  <2>4. ReadFrom(f)[m].entries = << >> /\ ReadFrom(f)[m].at = m
    BY <2>1
  <2> HIDE DEF g
  <2>5. P(m)
    BY <2>3, <2>4
  <2> QED BY <2>5
<1> QED BY <1>5, <1>6

(* The entries of a file are records.                                      *)
LEMMA EntriesType ==
  ASSUME NEW f \in Seq(Byte)
  PROVE  Entries(f) \in Seq(Record)
BY FromType DEF Entries, ReadFile

(* Appending to a file takes none of its entries away.                     *)
LEMMA EntriesGrow ==
  ASSUME NEW f \in Seq(Byte), NEW b \in Seq(Byte)
  PROVE  /\ Len(Entries(f)) <= Len(Entries(f \o b))
         /\ \A n \in 1..Len(Entries(f)) : Entries(f \o b)[n] = Entries(f)[n]
<1> DEFINE stop == ReadFrom(f)[0].at
           more == ReadFrom(f \o b)[stop].entries
<1>1. stop \in 0..Len(f)
  BY FromType
<1>2. f \o b \in Seq(Byte) /\ stop \in 0..Len(f \o b)
  BY <1>1, ConcatProperties
<1>3. more \in Seq(Record) /\ Entries(f) \in Seq(Record)
  BY <1>2, FromType, EntriesType
<1>4. Entries(f \o b) = Entries(f) \o more
  <2>1. 0 \in 0..Len(f)
    OBVIOUS
  <2>2. ReadFrom(f \o b)[0].entries = ReadFrom(f)[0].entries \o more
    BY <2>1, Resume
  <2> QED BY <2>2 DEF Entries, ReadFile
<1> HIDE DEF more
<1>5. Len(more) \in Nat /\ Len(Entries(f)) \in Nat
  BY <1>3
<1> QED BY <1>3, <1>4, <1>5, ConcatProperties

(* Where the members of a concatenation come from.                         *)
LEMMA ConcatAt ==
  ASSUME NEW S, NEW s \in Seq(S), NEW t \in Seq(S)
  PROVE  /\ s \o t \in Seq(S) /\ Len(s \o t) = Len(s) + Len(t)
         /\ \A k \in 1..Len(s) : (s \o t)[k] = s[k]
         /\ \A k \in 1..Len(t) : (s \o t)[Len(s) + k] = t[k]
<1>1. s \o t \in Seq(S) /\ Len(s \o t) = Len(s) + Len(t)
  BY ConcatProperties
<1>2. ASSUME NEW k \in 1..Len(s) PROVE (s \o t)[k] = s[k]
  OBVIOUS
<1>3. ASSUME NEW k \in 1..Len(t) PROVE (s \o t)[Len(s) + k] = t[k]
  OBVIOUS
<1> QED BY <1>1, <1>2, <1>3

(* A string written is the string read.                                    *)
LEMMA StringBack ==
  ASSUME NEW f \in Seq(Byte), NEW s \in String, NEW b \in Seq(Byte)
  PROVE  LET g == f \o (Int32(Len(s)) \o (s \o b)) IN
         /\ g \in Seq(Byte) /\ Len(g) = Len(f) + 4 + Len(s) + Len(b)
         /\ ReadString(g, Len(f)) = [ok |-> TRUE, str |-> s, at |-> Len(f) + 4 + Len(s)]
<1> DEFINE w == Int32(Len(s))
           g == f \o (w \o (s \o b))
           n == Len(f)
<1>1. s \in Seq(Byte) /\ Len(s) \in Nat /\ Len(s) < Limit
  BY DEF String
<1>2. /\ w \in Seq(Byte) /\ Len(w) = 4
      /\ w[1] + 256 * (w[2] + 256 * (w[3] + 256 * w[4])) = Len(s) /\ w[4] < 128
  BY <1>1, IntegerBack
<1> HIDE DEF w
<1> DEFINE x == s \o b
           y == w \o x
<1>3. /\ x \in Seq(Byte) /\ Len(x) = Len(s) + Len(b)
      /\ \A k \in 1..Len(s) : x[k] = s[k]
  BY <1>1, ConcatAt
<1> HIDE DEF x
<1>4. /\ y \in Seq(Byte) /\ Len(y) = 4 + Len(x)
      /\ \A k \in 1..4 : y[k] = w[k]
      /\ \A k \in 1..Len(x) : y[4 + k] = x[k]
  <2>1. /\ w \o x \in Seq(Byte) /\ Len(w \o x) = Len(w) + Len(x)
        /\ \A k \in 1..Len(w) : (w \o x)[k] = w[k]
        /\ \A k \in 1..Len(x) : (w \o x)[Len(w) + k] = x[k]
    <3>1. w \in Seq(Byte) /\ x \in Seq(Byte)
      BY <1>2, <1>3
    <3> HIDE DEF y
    <3> QED BY <3>1, ConcatAt
  <2> QED BY <1>2, <2>1
<1> HIDE DEF y
<1>5. /\ g \in Seq(Byte) /\ Len(g) = n + 4 + Len(s) + Len(b)
      /\ \A k \in 1..4 : g[n + k] = w[k]
      /\ \A k \in 1..Len(s) : g[n + 4 + k] = s[k]
  <2>1. /\ g \in Seq(Byte) /\ Len(g) = n + Len(y)
        /\ \A k \in 1..Len(y) : g[n + k] = y[k]
    <3>1. g = f \o y
      BY DEF y, x
    <3>2. /\ f \o y \in Seq(Byte) /\ Len(f \o y) = Len(f) + Len(y)
          /\ \A k \in 1..Len(y) : (f \o y)[Len(f) + k] = y[k]
      <4>1. y \in Seq(Byte)
        BY <1>4
      <4> HIDE DEF g
      <4> QED BY <4>1, ConcatAt
    <3> HIDE DEF g
    <3> QED BY <3>1, <3>2
  <2> HIDE DEF g, n
  <2>2. n \in Nat /\ Len(s) \in Nat /\ Len(b) \in Nat
    BY DEF n, String
  <2>3. \A k \in 1..4 : g[n + k] = w[k]
    <3>1. \A k \in 1..4 : k \in 1..Len(y)
      BY <1>3, <1>4, <2>2
    <3> QED BY <1>4, <2>1, <3>1
  <2>4. ASSUME NEW k \in 1..Len(s) PROVE g[n + 4 + k] = s[k]
    <3>1. 4 + k \in 1..Len(y) /\ k \in 1..Len(x) /\ n + 4 + k = n + (4 + k)
      BY <1>3, <1>4, <2>2
    <3> QED BY <1>3, <1>4, <2>1, <3>1
  <2>5. Len(g) = n + 4 + Len(s) + Len(b)
    BY <1>3, <1>4, <2>1, <2>2
  <2> QED BY <2>1, <2>3, <2>4, <2>5
<1>6. n \in Nat /\ Len(b) \in Nat
  OBVIOUS
<1> HIDE DEF g, n
<1>7. Int32At(g, n) = Len(s) /\ ~Negative(g, n)
  <2>1. g[n+1] = w[1] /\ g[n+2] = w[2] /\ g[n+3] = w[3] /\ g[n+4] = w[4]
    BY <1>5
  <2>2. Int32At(g, n) = Len(s)
    BY <1>2, <2>1 DEF Int32At
  <2>3. w[4] \in Byte
    <3>1. w \in Seq(Byte) /\ 4 \in 1..Len(w)
      BY <1>2
    <3> QED BY <3>1
  <2>4. ~(w[4] >= 128)
    <3>1. w[4] < 128
      BY <1>2
    <3>2. \A i \in Byte : i < 128 => ~(i >= 128)
      BY DEF Byte
    <3> QED BY <2>3, <3>1, <3>2
  <2>5. ~Negative(g, n)
    BY <2>1, <2>4 DEF Negative
  <2> QED BY <2>2, <2>5
<1>8. SubSeq(g, n + 5, n + 4 + Len(s)) = s
  <2> DEFINE z == SubSeq(g, n + 5, n + 4 + Len(s))
  <2>1. \A k \in (n + 5)..(n + 4 + Len(s)) : g[k] \in Byte
    BY <1>1, <1>5, <1>6
  <2>2. z \in Seq(Byte) /\ Len(z) = Len(s) /\ \A k \in 1..Len(s) : z[k] = g[n + 5 + k - 1]
    <3> DEFINE i == n + 5 j == n + 4 + Len(s)
    <3>1. i \in Int /\ j \in Int
      BY <1>1, <1>6
    <3>2. \A k \in i..j : g[k] \in Byte
      BY <2>1
    <3>3. (IF i <= j THEN j - i + 1 ELSE 0) = Len(s) /\ j - i + 1 = Len(s)
      BY <1>1, <1>6
    <3> HIDE DEF i, j, z
    <3>4. /\ SubSeq(g, i, j) \in Seq(Byte)
          /\ Len(SubSeq(g, i, j)) = IF i <= j THEN j - i + 1 ELSE 0
          /\ \A k \in 1..(j - i + 1) : SubSeq(g, i, j)[k] = g[i + k - 1]
      BY <3>1, <3>2, SubSeqProperties
    <3> QED BY <3>3, <3>4 DEF i, j, z
  <2> HIDE DEF z
  <2>3. ASSUME NEW k \in 1..Len(s) PROVE z[k] = s[k]
    <3>1. n + 5 + k - 1 = n + 4 + k
      BY <1>1, <1>6
    <3> QED BY <1>5, <2>2, <3>1
  <2>4. z = s
    BY <1>1, <2>2, <2>3, SeqEqual
  <2> QED BY <2>4 DEF z
<1>9. ~(n + 4 > Len(g)) /\ n + 4 + Len(s) <= Len(g)
  BY <1>1, <1>5, <1>6
<1>10. ReadString(g, n) = [ok |-> TRUE, str |-> s, at |-> n + 4 + Len(s)]
  BY <1>7, <1>8, <1>9 DEF ReadString, AllOfIt
<1> QED BY <1>5, <1>10 DEF g, n, w, x, y

(* Nothing is read at the end of the file.                                 *)
LEMMA EndRead ==
  ASSUME NEW g \in Seq(Byte)
  PROVE  ReadFrom(g)[Len(g)] = [entries |-> << >>, at |-> Len(g)]
<1>1. Len(g) \in 0..Len(g) /\ Len(g) + 4 > Len(g)
  OBVIOUS
<1>2. ~ReadString(g, Len(g)).ok
  BY <1>1 DEF ReadString
<1>3. ~ReadEntry(g, Len(g)).ok
  BY <1>2 DEF ReadEntry
<1> QED BY <1>1, <1>3, ReadFromEquation

(* The two strings of a record, written behind a file.                     *)
LEMMA RecordBack ==
  ASSUME NEW f \in Seq(Byte), NEW d \in String, NEW t \in String
  PROVE  LET g == f \o (Int32(Len(d)) \o (d \o (Int32(Len(t)) \o t))) IN
         /\ g \in Seq(Byte) /\ Len(g) = Len(f) + 8 + Len(d) + Len(t)
         /\ ReadEntry(g, Len(f)) = [ok |-> TRUE, entry |-> <<d, t>>, at |-> Len(g)]
<1> DEFINE v == Int32(Len(d))
           w == Int32(Len(t))
           b == w \o t
           g == f \o (v \o (d \o b))
           n == Len(f)
           e == n + 4 + Len(d)
<1>1. /\ d \in Seq(Byte) /\ Len(d) \in Nat /\ Len(d) < Limit
      /\ t \in Seq(Byte) /\ Len(t) \in Nat /\ Len(t) < Limit
  BY DEF String
<1>2. v \in Seq(Byte) /\ Len(v) = 4 /\ w \in Seq(Byte) /\ Len(w) = 4
  BY <1>1, IntegerBack
<1>a. /\ d \in Seq(Byte) /\ t \in Seq(Byte)
      /\ v \in Seq(Byte) /\ w \in Seq(Byte)
  BY <1>1, <1>2
<1>b. Len(v) = 4 /\ Len(w) = 4
  BY <1>2
<1>3. b \in Seq(Byte) /\ Len(b) = 4 + Len(t)
  <2> HIDE DEF w
  <2>1. w \o t \in Seq(Byte) /\ Len(w \o t) = Len(w) + Len(t)
    BY <1>a, ConcatProperties
  <2> QED BY <1>b, <2>1
<1>4. /\ g \in Seq(Byte) /\ Len(g) = n + 4 + Len(d) + Len(b)
      /\ ReadString(g, n) = [ok |-> TRUE, str |-> d, at |-> e]
  <2> HIDE DEF b
  <2> QED BY <1>3, StringBack
<1> DEFINE h == f \o (v \o d)
<1>5. h \in Seq(Byte) /\ Len(h) = e
  <2> HIDE DEF v
  <2>1. v \o d \in Seq(Byte) /\ Len(v \o d) = Len(v) + Len(d)
    BY <1>a, ConcatProperties
  <2> DEFINE x == v \o d
  <2>2. x \in Seq(Byte) /\ Len(x) = 4 + Len(d)
    BY <1>b, <2>1
  <2> HIDE DEF x
  <2>3. f \o x \in Seq(Byte) /\ Len(f \o x) = Len(f) + Len(x)
    BY <2>2, ConcatProperties
  <2>4. f \o x \in Seq(Byte) /\ Len(f \o x) = e
    BY <1>1, <2>2, <2>3
  <2> QED BY <2>4 DEF x
<1>6. h \o b = g
  <2> HIDE DEF v, b
  <2>1. (v \o d) \o b = v \o (d \o b)
    <3>1. b \in Seq(Byte)
      BY <1>3
    <3> QED BY <1>a, <3>1, Assoc
  <2>2. v \o d \in Seq(Byte)
    BY <1>a, ConcatProperties
  <2> DEFINE x == v \o d
  <2>3. (f \o x) \o b = f \o (x \o b)
    <3>1. x \in Seq(Byte)
      BY <2>2
    <3> HIDE DEF x
    <3> QED BY <1>3, <3>1, Assoc
  <2> QED BY <2>1, <2>3
<1>7. t \o << >> = t /\ << >> \in Seq(Byte)
  BY <1>1, ConcatEmptySeq
<1>8. ReadString(g, e) = [ok |-> TRUE, str |-> t, at |-> e + 4 + Len(t)]
  <2>1. ReadString(h \o (w \o (t \o << >>)), Len(h))
          = [ok |-> TRUE, str |-> t, at |-> Len(h) + 4 + Len(t)]
    <3> HIDE DEF h
    <3> QED BY <1>5, <1>7, StringBack
  <2>2. h \o (w \o (t \o << >>)) = g
    <3> HIDE DEF h, g, w
    <3> QED BY <1>6, <1>7
  <2> HIDE DEF g, h, e, w
  <2> QED BY <1>5, <2>1, <2>2
<1> HIDE DEF b, v, w, h
<1>9. e + 4 + Len(t) = Len(g) /\ Len(g) = n + 8 + Len(d) + Len(t)
  <2>1. n \in Nat
    OBVIOUS
  <2> HIDE DEF n, g
  <2> QED BY <1>1, <1>3, <1>4, <2>1
<1> HIDE DEF g, n, e
<1>10. ReadEntry(g, n) = [ok |-> TRUE, entry |-> <<d, t>>, at |-> Len(g)]
  <2>1. ReadString(g, n).ok /\ ReadString(g, n).str = d /\ ReadString(g, n).at = e
    BY <1>4
  <2>2. ReadString(g, e).ok /\ ReadString(g, e).str = t /\ ReadString(g, e).at = Len(g)
    BY <1>8, <1>9
  <2> QED BY <2>1, <2>2 DEF ReadEntry
<1> QED BY <1>4, <1>9, <1>10 DEF g, n, b, v, w

(* A record written behind whole ones is the last that is read.            *)
LEMMA AppendRecord ==
  ASSUME NEW f \in Seq(Byte), NEW r \in Record, Whole(f)
  PROVE  LET g == f \o (Int32(Len(r[1])) \o (r[1] \o (Int32(Len(r[2])) \o r[2]))) IN
         /\ g \in Seq(Byte)
         /\ Entries(g) = Append(Entries(f), r)
         /\ Whole(g)
<1> DEFINE b == Int32(Len(r[1])) \o (r[1] \o (Int32(Len(r[2])) \o r[2]))
           g == f \o b
<1>1. r[1] \in String /\ r[2] \in String /\ r = <<r[1], r[2]>>
  BY DEF Record
<1>2. /\ g \in Seq(Byte) /\ Len(g) = Len(f) + 8 + Len(r[1]) + Len(r[2])
      /\ ReadEntry(g, Len(f)) = [ok |-> TRUE, entry |-> r, at |-> Len(g)]
  <2>1. /\ g \in Seq(Byte) /\ Len(g) = Len(f) + 8 + Len(r[1]) + Len(r[2])
        /\ ReadEntry(g, Len(f)) = [ok |-> TRUE, entry |-> <<r[1], r[2]>>, at |-> Len(g)]
    <3>1. \A d, t \in String : LET k == f \o (Int32(Len(d)) \o (d \o (Int32(Len(t)) \o t))) IN
           /\ k \in Seq(Byte) /\ Len(k) = Len(f) + 8 + Len(d) + Len(t)
           /\ ReadEntry(k, Len(f)) = [ok |-> TRUE, entry |-> <<d, t>>, at |-> Len(k)]
      BY RecordBack
    <3> QED BY <1>1, <3>1, Zenon
  <2> HIDE DEF g
  <2> QED BY <1>1, <2>1
<1>3. b \in Seq(Byte)
  <2>1. /\ r[1] \in Seq(Byte) /\ Len(r[1]) \in Nat /\ Len(r[1]) < Limit
        /\ r[2] \in Seq(Byte) /\ Len(r[2]) \in Nat /\ Len(r[2]) < Limit
    BY <1>1 DEF String
  <2>2. Int32(Len(r[1])) \in Seq(Byte) /\ Int32(Len(r[2])) \in Seq(Byte)
    BY <2>1, IntegerBack
  <2>3. Int32(Len(r[2])) \o r[2] \in Seq(Byte)
    BY <2>1, <2>2, ConcatProperties
  <2>4. r[1] \o (Int32(Len(r[2])) \o r[2]) \in Seq(Byte)
    BY <2>1, <2>3, ConcatProperties
  <2> QED BY <2>2, <2>4, ConcatProperties
<1> HIDE DEF b
<1>4. Len(f) \in 0..Len(g) /\ 0 \in 0..Len(f)
  <2> DEFINE k == Len(f) m == Len(g) p == Len(r[1]) q == Len(r[2])
  <2>1. k \in Nat /\ p \in Nat /\ q \in Nat
    BY <1>1 DEF String
  <2>2. m = k + 8 + p + q
    BY <1>2
  <2> HIDE DEF k, m, p, q
  <2>3. m \in Nat /\ k \in 0..m /\ 0 \in 0..k
    BY <2>1, <2>2
  <2> QED BY <2>3 DEF k, m
<1>5. ReadFrom(f)[0].at = Len(f)
  BY DEF Whole, ReadFile
<1>6. /\ ReadFrom(g)[0].entries = ReadFrom(f)[0].entries \o ReadFrom(g)[Len(f)].entries
      /\ ReadFrom(g)[0].at = ReadFrom(g)[Len(f)].at
  <2>1. \A at \in 0..Len(f) : LET stop == ReadFrom(f)[at].at IN
          /\ ReadFrom(g)[at].entries
               = ReadFrom(f)[at].entries \o ReadFrom(g)[stop].entries
          /\ ReadFrom(g)[at].at = ReadFrom(g)[stop].at
    BY <1>3, Resume
  <2> HIDE DEF g
  <2> QED BY <1>4, <1>5, <2>1
<1> HIDE DEF g
<1>7. ReadFrom(g)[Len(g)] = [entries |-> << >>, at |-> Len(g)]
  BY <1>2, EndRead
<1>8. ReadFrom(g)[Len(f)] = [entries |-> <<r>> \o << >>, at |-> Len(g)]
  <2>1. ReadFrom(g)[Len(g)].entries = << >> /\ ReadFrom(g)[Len(g)].at = Len(g)
    BY <1>7
  <2>2. ReadEntry(g, Len(f)).ok /\ ReadEntry(g, Len(f)).entry = r
        /\ ReadEntry(g, Len(f)).at = Len(g)
    BY <1>2
  <2>3. g \in Seq(Byte)
    BY <1>2
  <2>4. ReadFrom(g)[Len(f)] =
           IF ReadEntry(g, Len(f)).ok
           THEN [entries |-> <<ReadEntry(g, Len(f)).entry>>
                               \o ReadFrom(g)[ReadEntry(g, Len(f)).at].entries,
                 at |-> ReadFrom(g)[ReadEntry(g, Len(f)).at].at]
           ELSE [entries |-> << >>, at |-> Len(f)]
    BY <1>4, <2>3, ReadFromEquation
  <2> QED BY <2>1, <2>2, <2>4
<1>9. ReadFrom(g)[Len(f)].entries = <<r>>
  BY <1>8
<1>10. Entries(g) = Entries(f) \o <<r>>
  BY <1>6, <1>9 DEF Entries, ReadFile
<1>11. Entries(g) = Append(Entries(f), r)
  BY <1>10, EntriesType, AppendIsConcat
<1>12. Whole(g)
  BY <1>6, <1>8 DEF Whole, ReadFile
<1> QED BY <1>2, <1>11, <1>12 DEF g, b

-----------------------------------------------------------------------------
(* A word fits the buffer of the console.                                  *)
Word == {s \in Seq(Byte) : Len(s) < BufferSize}

(* Min, of the community modules, is the least member.                     *)
LEMMA MinIs ==
  ASSUME NEW S, S \subseteq Nat, S # {}
  PROVE  Min(S) \in S /\ \A k \in S : Min(S) <= k
BY Least DEF Min

(* The n-th member of a set of numbers exists: the least one that has n    *)
(* members up to it.                                                       *)
LEMMA NthIs ==
  ASSUME NEW m \in Nat, NEW S, S \subseteq 1..m, NEW n \in 1..Cardinality(S)
  PROVE  /\ NthOf(S, n) \in S
         /\ Cardinality({j \in S : j < NthOf(S, n)}) = n - 1
<1> DEFINE B(k) == {j \in S : j < k}
           f(k) == Cardinality(B(k))
           K == {k \in Nat : f(k) >= n}
<1>0. \A j \in S : j \in 1..m
  OBVIOUS
<1>1. IsFiniteSet(S) /\ Cardinality(S) \in Nat
  <2>1. IsFiniteSet(1..m)
    BY FS_Interval
  <2>2. IsFiniteSet(S)
    BY <2>1, FS_Subset
  <2> QED BY <2>2, FS_CardinalityType
<1>2. \A k \in Nat : IsFiniteSet(B(k)) /\ f(k) \in Nat
  <2> TAKE k \in Nat
  <2>1. B(k) \subseteq S
    OBVIOUS
  <2> HIDE DEF B
  <2> QED BY <1>1, <2>1, FS_Subset, FS_CardinalityType
<1>3. B(m + 1) = S /\ B(0) = {}
  <2>1. \A j \in S : j < m + 1 /\ ~(j < 0)
    BY <1>0
  <2> QED BY <2>1
<1>4. f(0) = 0 /\ m + 1 \in K
  <2>1. f(0) = 0
    BY <1>3, FS_EmptySet
  <2>2. f(m + 1) = Cardinality(S) /\ m + 1 \in Nat
    BY <1>3
  <2> HIDE DEF B, f
  <2> QED BY <1>1, <2>1, <2>2
<1>5. PICK k \in K : \A j \in K : k <= j
  <2>1. K \subseteq Nat /\ K # {}
    BY <1>4
  <2> HIDE DEF K
  <2> QED BY <2>1, Least
<1> DEFINE p == k - 1
<1>6. k \in Nat /\ f(k) >= n /\ p \in Nat /\ ~(f(p) >= n)
  <2>1. k \in Nat /\ f(k) >= n
    BY <1>5
  <2> HIDE DEF f
  <2>2. k # 0
    BY <1>1, <1>4, <2>1
  <2>3. p \in Nat /\ p < k
    BY <2>1, <2>2
  <2>4. p \notin K
    <3> HIDE DEF K
    <3> QED BY <1>5, <2>1, <2>3
  <2> QED BY <2>1, <2>3, <2>4
<1>7. p \in S /\ f(k) = f(p) + 1
  <2>1. CASE p \notin S
    <3>1. B(k) = B(p)
      <4>1. \A j \in S : j < k <=> j < p
        <5> HIDE DEF K, f
        <5> QED BY <1>0, <1>6, <2>1
      <4> HIDE DEF p, K
      <4> QED BY <4>1
    <3> HIDE DEF B
    <3> QED BY <1>1, <1>6, <3>1
  <2>2. CASE p \in S
    <3>1. B(k) = B(p) \cup {p} /\ p \notin B(p)
      <4>1. (\A j \in S : j < k <=> j < p \/ j = p) /\ ~(p < p)
        <5> HIDE DEF K, f
        <5> QED BY <1>0, <1>6, <2>2
      <4> HIDE DEF p, K
      <4> QED BY <2>2, <4>1
    <3> HIDE DEF B
    <3> QED BY <1>2, <1>6, <2>2, <3>1, FS_AddElement
  <2> QED BY <2>1, <2>2
<1>8. f(p) = n - 1
  <2>1. f(p) \in Nat /\ n \in Nat
    BY <1>1, <1>2, <1>6
  <2> HIDE DEF f
  <2> QED BY <1>6, <1>7, <2>1
<1> HIDE DEF p
<1>9. \E j \in S : Cardinality({i \in S : i < j}) = n - 1
  BY <1>7, <1>8
<1> QED BY <1>9 DEF NthOf

(* A word is a part of the text.                                           *)
LEMMA WordAtType ==
  ASSUME NEW s \in Seq(Byte), NEW k \in 1..Len(s)
  PROVE  WordAt(s, k) \in Seq(Byte) /\ Len(WordAt(s, k)) <= Len(s)
<1> DEFINE E == {j \in k..Len(s) : j = Len(s) \/ s[j+1] = Space}
           m == Min(E)
<1>1. Len(s) \in E /\ E \subseteq Nat
  OBVIOUS
<1>2. m \in E
  <2> HIDE DEF E
  <2> QED BY <1>1, MinIs
<1>3. m \in k..Len(s)
  BY <1>2
<1> HIDE DEF m
<1>4. \A j \in k..m : s[j] \in Byte
  BY <1>3
<1>5. SubSeq(s, k, m) \in Seq(Byte) /\ Len(SubSeq(s, k, m)) = m - k + 1
  BY <1>3, <1>4, SubSeqProperties
<1>6. m - k + 1 <= Len(s)
  BY <1>3
<1> QED BY <1>5, <1>6 DEF WordAt, m

(* The text is a part of what was read.                                    *)
LEMMA TextType ==
  ASSUME NEW s \in Seq(Byte)
  PROVE  Text(s) \in Seq(Byte) /\ Len(Text(s)) <= Len(s)
<1> DEFINE z == SelectInSeq(s, LAMBDA b : b = Nul)
           t == IF z = 0 THEN s ELSE SubSeq(s, 1, z - 1)
<1>1. z \in 0..Len(s)
  <2> DEFINE I == {k \in 1..Len(s) : s[k] = Nul}
  <2>1. I # {} => Min(I) \in I
    <3>1. I \subseteq Nat
      OBVIOUS
    <3> HIDE DEF I
    <3> QED BY <3>1, MinIs
  <2>2. z = IF I # {} THEN Min(I) ELSE 0
    BY DEF SelectInSeq
  <2>3. \A k \in I : k \in 0..Len(s)
    OBVIOUS
  <2>4. 0 \in 0..Len(s)
    OBVIOUS
  <2> HIDE DEF I, z
  <2> QED BY <2>1, <2>2, <2>3, <2>4
<1> HIDE DEF z
<1>2. t \in Seq(Byte) /\ Len(t) <= Len(s)
  <2>1. CASE z = 0
    BY <2>1
  <2>2. CASE z # 0
    <3>1. \A k \in 1..(z - 1) : s[k] \in Byte
      BY <1>1
    <3>2. 1 \in Nat /\ z - 1 \in Nat /\ z - 1 <= Len(s)
      BY <1>1, <2>2
    <3>3. SubSeq(s, 1, z - 1) \in Seq(Byte) /\ Len(SubSeq(s, 1, z - 1)) = z - 1
      <4> DEFINE y == z - 1
      <4>1. y \in Nat /\ \A k \in 1..y : s[k] \in Byte
        BY <3>1, <3>2
      <4> HIDE DEF y
      <4>2. SubSeq(s, 1, y) \in Seq(Byte) /\ Len(SubSeq(s, 1, y)) = y
        BY <4>1, SubSeqProperties
      <4> QED BY <4>2 DEF y
    <3> QED BY <2>2, <3>2, <3>3
  <2> QED BY <2>1, <2>2
<1>3. Text(s) = IF t # << >> /\ Last(t) = Newline THEN Front(t) ELSE t
  BY DEF Text, z
<1> HIDE DEF t
<1>4. ASSUME t # << >> PROVE Front(t) \in Seq(Byte) /\ Len(Front(t)) <= Len(t)
  <2> DEFINE y == Len(t) - 1
  <2>1. y \in Nat /\ \A k \in 1..y : t[k] \in Byte
    BY <1>2, <1>4
  <2>2. y <= Len(t)
    BY <1>2
  <2> HIDE DEF y
  <2>3. SubSeq(t, 1, y) \in Seq(Byte) /\ Len(SubSeq(t, 1, y)) = y
    BY <2>1, SubSeqProperties
  <2> QED BY <2>2, <2>3 DEF y, Front
<1>5. Len(t) \in Nat /\ Len(s) \in Nat /\ (t # << >> => Len(Front(t)) \in Nat)
  BY <1>2, <1>4
<1> QED BY <1>2, <1>3, <1>4, <1>5

(* All the words are.                                                      *)
LEMMA WordsType ==
  ASSUME NEW s \in Seq(Byte), Len(s) < BufferSize
  PROVE  Words(s) \in Seq(Word)
<1> DEFINE S == Starts(s)
           c == Cardinality(S)
<1>1. S \subseteq 1..Len(s) /\ Len(s) \in Nat
  BY DEF Starts
<1>2. c \in Nat
  <2>1. IsFiniteSet(1..Len(s))
    BY <1>1, FS_Interval
  <2>2. IsFiniteSet(S)
    <3> HIDE DEF S
    <3> QED BY <1>1, <2>1, FS_Subset
  <2> HIDE DEF S
  <2> QED BY <2>2, FS_CardinalityType
<1>3. ASSUME NEW n \in 1..c PROVE WordAt(s, NthOf(S, n)) \in Word
  <2>1. NthOf(S, n) \in 1..Len(s)
    <3> HIDE DEF S
    <3> QED BY <1>1, NthIs
  <2>2. WordAt(s, NthOf(S, n)) \in Seq(Byte) /\ Len(WordAt(s, NthOf(S, n))) <= Len(s)
    BY <2>1, WordAtType
  <2> DEFINE w == WordAt(s, NthOf(S, n))
  <2>3. w \in Seq(Byte) /\ Len(w) <= Len(s)
    BY <2>2
  <2> HIDE DEF w
  <2>4. w \in Word
    BY <2>3, ConsoleAssumption DEF Word
  <2> QED BY <2>4 DEF w
<1>4. Words(s) = [n \in 1..c |-> WordAt(s, NthOf(S, n))]
  BY DEF Words
<1> HIDE DEF c, S
<1> QED BY <1>2, <1>3, <1>4

(* A word is short enough for its length to fit four bytes.                *)
LEMMA WordIsString ==
  ASSUME NEW w \in Word
  PROVE  w \in String
<1>1. w \in Seq(Byte) /\ Len(w) \in Nat /\ Len(w) < BufferSize
  BY DEF Word
<1>2. BufferSize \in Nat /\ BufferSize < Limit
  BY ConsoleAssumption DEF Limit
<1>3. Len(w) < Limit
  BY <1>1, <1>2, LimitType
<1> QED BY <1>1, <1>3 DEF String

(* So is a token.                                                          *)
LEMMA CutType ==
  ASSUME NEW w \in Word
  PROVE  Cut(w) \in Word
<1> DEFINE S == {TokenSize, Len(w)}
           m == Min(S)
<1>1. w \in Seq(Byte) /\ Len(w) \in Nat /\ Len(w) < BufferSize
  BY DEF Word
<1>2. m \in Nat /\ m <= Len(w)
  <2>1. S \subseteq Nat /\ S # {}
    BY <1>1, ConsoleAssumption
  <2>2. Len(w) \in S
    OBVIOUS
  <2> HIDE DEF S
  <2>3. m \in S /\ \A k \in S : m <= k
    BY <2>1, MinIs
  <2> QED BY <2>1, <2>2, <2>3
<1>3. Cut(w) = SubSeq(w, 1, m)
  BY DEF Cut
<1> HIDE DEF m
<1>4. \A k \in 1..m : w[k] \in Byte
  BY <1>1, <1>2
<1>5. SubSeq(w, 1, m) \in Seq(Byte) /\ Len(SubSeq(w, 1, m)) = m
  BY <1>2, <1>4, SubSeqProperties
<1> QED BY <1>1, <1>2, <1>3, <1>5, ConsoleAssumption DEF Word

(* The start of a word is preceded by nothing but spaces, back to the end  *)
(* of the word before.                                                     *)
LEMMA Gap ==
  ASSUME NEW s \in Seq(Byte), NEW m \in 1..(Len(s) + 1), NEW n \in 0..Len(s),
         m = 1 \/ s[m] = Space,
         \A k \in m..n : k \notin Starts(s)
  PROVE  Blank(s, m, n)
<1> DEFINE E == {k \in m..n : s[k] # Space}
<1> SUFFICES ASSUME E # {} PROVE FALSE
  BY DEF Blank
<1>1. E \subseteq Nat
  OBVIOUS
<1>2. PICK x \in E : \A k \in E : x <= k
  <2> HIDE DEF E
  <2> QED BY <1>1, Least
<1>3. x \in m..n /\ s[x] # Space /\ x \in 1..Len(s)
  BY <1>2
<1>4. x = 1 \/ s[x - 1] = Space
  <2> SUFFICES ASSUME x # 1 PROVE s[x - 1] = Space
    OBVIOUS
  <2>1. x # m
    BY <1>3
  <2>2. x - 1 \in m..n /\ ~(x <= x - 1)
    BY <1>3, <2>1
  <2>3. x - 1 \notin E
    <3> HIDE DEF E
    <3> QED BY <1>2, <2>2
  <2> QED BY <2>2, <2>3
<1>5. x \in Starts(s)
  BY <1>3, <1>4 DEF Starts
<1> QED BY <1>3, <1>5

(* Where a word ends.                                                      *)
LEMMA WordEnds ==
  ASSUME NEW s \in Seq(Byte), NEW i \in Starts(s)
  PROVE  \E e \in i..Len(s) :
           /\ WordAt(s, i) = SubSeq(s, i, e)
           /\ e = Len(s) \/ s[e + 1] = Space
           /\ \A k \in i..e : s[k] # Space
<1> DEFINE E == {j \in i..Len(s) : j = Len(s) \/ s[j + 1] = Space}
           e == Min(E)
<1>1. i \in 1..Len(s) /\ s[i] # Space
  BY DEF Starts
<1>2. Len(s) \in E /\ E \subseteq Nat
  BY <1>1
<1>3. e \in E /\ \A k \in E : e <= k
  <2> HIDE DEF E
  <2> QED BY <1>2, MinIs
<1>4. e \in i..Len(s) /\ (e = Len(s) \/ s[e + 1] = Space)
  BY <1>3
<1>5. WordAt(s, i) = SubSeq(s, i, e)
  BY DEF WordAt
<1> HIDE DEF e
<1>6. ASSUME NEW k \in i..e PROVE s[k] # Space
  <2>1. CASE k = i
    BY <1>1, <2>1
  <2>2. CASE k # i
    <3>1. k - 1 \in i..Len(s) /\ ~(e <= k - 1) /\ k - 1 + 1 = k
      BY <1>1, <1>4, <2>2
    <3>2. k - 1 \notin E
      <4> HIDE DEF E
      <4> QED BY <1>3, <3>1
    <3> QED BY <3>1, <3>2
  <2> QED BY <2>1, <2>2
<1> QED BY <1>4, <1>5, <1>6

(* Sets of places of a sequence are finite.                                *)
LEMMA FinitePart ==
  ASSUME NEW m \in Nat, NEW S, S \subseteq 1..m, NEW T, T \subseteq S
  PROVE  IsFiniteSet(T) /\ Cardinality(T) \in Nat
<1>1. IsFiniteSet(1..m) /\ T \subseteq 1..m
  BY FS_Interval
<1>2. IsFiniteSet(T)
  BY <1>1, FS_Subset
<1> QED BY <1>2, FS_CardinalityType

(* The three first words, and nothing between them.                        *)
LEMMA Thrice ==
  ASSUME NEW m \in Nat, NEW S, S \subseteq 1..m, Cardinality(S) = 3
  PROVE  LET i == NthOf(S, 1) j == NthOf(S, 2) k == NthOf(S, 3) IN
         /\ i \in S /\ j \in S /\ k \in S /\ i < j /\ j < k
         /\ \A x \in S : ~(x < i) /\ ~(i < x /\ x < j) /\ ~(j < x /\ x < k)
<1> DEFINE i == NthOf(S, 1) j == NthOf(S, 2) k == NthOf(S, 3)
           B(y) == {x \in S : x < y}
<1>1. /\ i \in S /\ j \in S /\ k \in S
      /\ Cardinality(B(i)) = 0 /\ Cardinality(B(j)) = 1 /\ Cardinality(B(k)) = 2
  <2>1. 1 \in 1..Cardinality(S) /\ 2 \in 1..Cardinality(S) /\ 3 \in 1..Cardinality(S)
        /\ 1 - 1 = 0 /\ 2 - 1 = 1 /\ 3 - 1 = 2
    OBVIOUS
  <2> QED BY <2>1, NthIs
<1>2. \A y : B(y) \subseteq S
  OBVIOUS
<1>3. \A y : IsFiniteSet(B(y)) /\ Cardinality(B(y)) \in Nat
  <2> HIDE DEF B
  <2> QED BY <1>2, FinitePart
<1>4. \A x \in S : x \in Nat
  OBVIOUS
<1>5. \A x \in S : ~(x < i)
  <2>1. B(i) = {}
    <3> HIDE DEF B
    <3> QED BY <1>1, <1>3, FS_EmptySet
  <2> QED BY <2>1
<1> HIDE DEF i, j, k
<1>6. i < j
  <2> SUFFICES ASSUME j <= i PROVE FALSE
    BY <1>1, <1>4
  <2>1. B(j) = {}
    BY <1>1, <1>4, <1>5
  <2> HIDE DEF B
  <2> QED BY <1>1, <2>1, FS_EmptySet
<1>7. B(j) = {i}
  <2>1. i \in B(j)
    BY <1>1, <1>6
  <2> HIDE DEF B
  <2>2. PICK x : B(j) = {x}
    BY <1>1, <1>3, FS_Singleton
  <2> QED BY <2>1, <2>2
<1>8. j < k
  <2> SUFFICES ASSUME k <= j PROVE FALSE
    BY <1>1, <1>4
  <2>1. \A x \in S : x < k => x < j
    BY <1>1, <1>4
  <2>2. B(k) \subseteq B(j)
    BY <2>1
  <2> HIDE DEF B
  <2>3. Cardinality(B(k)) <= Cardinality(B(j))
    BY <1>3, <2>2, FS_Subset
  <2> QED BY <1>1, <2>3
<1>9. B(k) = {i, j}
  <2>1. i \in B(k) /\ j \in B(k) /\ i # j
    BY <1>1, <1>4, <1>6, <1>8
  <2>2. {i, j} \subseteq B(k)
    BY <2>1
  <2> HIDE DEF B
  <2>3. Cardinality({i, j}) = 2
    <3>1. Cardinality({i}) = 1 /\ IsFiniteSet({i}) /\ j \notin {i}
      BY <2>1, FS_Singleton
    <3>2. {i} \cup {j} = {i, j}
      OBVIOUS
    <3>3. Cardinality({i} \cup {j}) = 2
      BY <3>1, FS_AddElement
    <3> QED BY <3>2, <3>3
  <2> QED BY <1>1, <1>3, <2>2, <2>3, FS_Subset
<1>10. ASSUME NEW x \in S PROVE ~(i < x /\ x < j)
  <2> SUFFICES ASSUME i < x, x < j PROVE FALSE
    OBVIOUS
  <2>1. x \in B(j)
    OBVIOUS
  <2> HIDE DEF B
  <2> QED BY <1>1, <1>4, <1>7, <2>1
<1>11. ASSUME NEW x \in S PROVE ~(j < x /\ x < k)
  <2> SUFFICES ASSUME j < x, x < k PROVE FALSE
    OBVIOUS
  <2>1. x \in B(k)
    OBVIOUS
  <2> HIDE DEF B
  <2> QED BY <1>1, <1>4, <1>6, <1>9, <2>1
<1> QED BY <1>1, <1>5, <1>6, <1>8, <1>10, <1>11 DEF i, j, k

-----------------------------------------------------------------------------
(* The text is the beginning of what was read, up to a NUL or the newline. *)
LEMMA TextPrefix ==
  ASSUME NEW p \in Seq(Byte)
  PROVE  \E m \in 0..Len(p) :
           /\ Text(p) = SubSeq(p, 1, m)
           /\ m = Len(p) \/ p[m + 1] \in {Nul, Newline}
<1> DEFINE z == SelectInSeq(p, LAMBDA b : b = Nul)
           s == IF z = 0 THEN p ELSE SubSeq(p, 1, z - 1)
           y == IF z = 0 THEN Len(p) ELSE z - 1
<1>1. z \in 0..Len(p) /\ (z # 0 => p[z] = Nul)
  <2> DEFINE I == {k \in 1..Len(p) : p[k] = Nul}
  <2>1. I # {} => Min(I) \in I
    <3>1. I \subseteq Nat
      OBVIOUS
    <3> HIDE DEF I
    <3> QED BY <3>1, MinIs
  <2>2. z = IF I # {} THEN Min(I) ELSE 0
    BY DEF SelectInSeq
  <2>3. \A k \in I : k \in 0..Len(p) /\ p[k] = Nul
    OBVIOUS
  <2>4. 0 \in 0..Len(p)
    OBVIOUS
  <2> HIDE DEF I, z
  <2> QED BY <2>1, <2>2, <2>3, <2>4
<1>2. Text(p) = IF s # << >> /\ Last(s) = Newline THEN Front(s) ELSE s
  BY DEF Text
<1> HIDE DEF z
<1>3. y \in 0..Len(p) /\ (y = Len(p) \/ p[y + 1] = Nul)
  BY <1>1
<1>4. s = SubSeq(p, 1, y)
  BY SubSeqFull
<1> HIDE DEF s, y
<1>5. \A k \in 1..y : p[k] \in Byte
  BY <1>3
<1>6. Len(s) = y /\ s \in Seq(Byte) /\ \A k \in 1..y : s[k] = p[k]
  BY <1>3, <1>4, <1>5, SubSeqProperties
<1>7. CASE s # << >> /\ Last(s) = Newline
  <2>1. y \in 1..Len(p) /\ p[y] = Newline
    BY <1>3, <1>6, <1>7 DEF Last
  <2>2. Text(p) = SubSeq(SubSeq(p, 1, y), 1, y - 1)
    BY <1>2, <1>4, <1>6, <1>7 DEF Front
  <2>3. SubSeq(SubSeq(p, 1, y), 1, y - 1) = SubSeq(p, 1, y - 1)
    <3>1. CASE y = 1
      <4>1. SubSeq(SubSeq(p, 1, y), 1, y - 1) = << >>
        BY <2>1, <3>1, SubSeqEmpty
      <4>2. SubSeq(p, 1, y - 1) = << >>
        BY <2>1, <3>1, SubSeqEmpty
      <4> QED BY <4>1, <4>2
    <3>2. CASE y # 1
      <4> DEFINE x == y - 1
      <4>1. \A t \in Seq(Byte) : \A a, b \in 1..Len(t) : \A u, v \in 1..(b - a + 1) :
              SubSeq(SubSeq(t, a, b), u, v) = SubSeq(t, a + u - 1, a + v - 1)
        BY SubSeqOfSubSeq
      <4>2. 1 \in 1..Len(p) /\ y \in 1..Len(p) /\ 1 \in 1..(y - 1 + 1) /\ x \in 1..(y - 1 + 1)
        BY <2>1, <3>2
      <4>3. 1 + 1 - 1 = 1 /\ 1 + x - 1 = x
        BY <4>2
      <4> HIDE DEF x
      <4>4. SubSeq(SubSeq(p, 1, y), 1, x) = SubSeq(p, 1 + 1 - 1, 1 + x - 1)
        BY <4>1, <4>2, Zenon
      <4>5. SubSeq(SubSeq(p, 1, y), 1, x) = SubSeq(p, 1, x)
        BY <4>3, <4>4
      <4> QED BY <4>5 DEF x
    <3> QED BY <3>1, <3>2
  <2>4. y - 1 \in 0..Len(p) /\ p[y - 1 + 1] = Newline
    BY <2>1
  <2> QED BY <2>2, <2>3, <2>4
<1>8. CASE ~(s # << >> /\ Last(s) = Newline)
  <2>1. Text(p) = SubSeq(p, 1, y)
    BY <1>2, <1>4, <1>8
  <2> QED BY <1>3, <2>1
<1> QED BY <1>7, <1>8

(* The k-th byte of a word is one of the text.                             *)
LEMMA PieceAt ==
  ASSUME NEW s \in Seq(Byte), NEW i \in 1..Len(s), NEW e \in i..Len(s)
  PROVE  /\ SubSeq(s, i, e) \in Seq(Byte) /\ Len(SubSeq(s, i, e)) = e - i + 1
         /\ \A k \in 1..(e - i + 1) : SubSeq(s, i, e)[k] = s[i + k - 1]
<1>1. \A k \in i..e : s[k] \in Byte
  OBVIOUS
<1>2. i \in Int /\ e \in Int
  OBVIOUS
<1>3. /\ SubSeq(s, i, e) \in Seq(Byte)
      /\ Len(SubSeq(s, i, e)) = IF i <= e THEN e - i + 1 ELSE 0
  BY <1>1, SubSeqProperties
<1>4. \A k \in 1..(e - i + 1) : SubSeq(s, i, e)[k] = s[i + k - 1]
  BY <1>1, SubSeqProperties
<1>5. i <= e
  OBVIOUS
<1> QED BY <1>3, <1>4, <1>5

(* A "register" that is called asks for its second word and what is taken  *)
(* of the third.                                                           *)
LEMMA WordsAsk ==
  ASSUME NEW p \in Seq(Byte), Len(p) < BufferSize, Registers(Words(Text(p)))
  PROVE  AsksFor(p, Words(Text(p))[2], Cut(Words(Text(p))[3]))
<1> DEFINE s == Text(p) S == Starts(s) i == NthOf(S, 1) j == NthOf(S, 2) k == NthOf(S, 3)
           w == Words(s)
<1>1. PICK m \in 0..Len(p) : /\ s = SubSeq(p, 1, m)
                             /\ m = Len(p) \/ p[m + 1] \in {Nul, Newline}
  BY TextPrefix
<1> HIDE DEF s
<1>2. \A x \in 1..m : p[x] \in Byte
  BY <1>1
<1>3. s \in Seq(Byte) /\ Len(s) = m /\ \A x \in 1..m : s[x] = p[x]
  BY <1>1, <1>2, SubSeqProperties
<1>4. Cardinality(S) = 3 /\ Len(w) = 3 /\ w[1] = RegisterWord
  <2>1. Len(w) = 3 /\ w[1] = RegisterWord
    BY DEF Registers, s
  <2>2. w = [n \in 1..Cardinality(S) |-> WordAt(s, NthOf(S, n))]
    BY DEF Words
  <2>3. Cardinality(S) \in Nat
    <3>1. S \subseteq 1..Len(s) /\ Len(s) \in Nat
      BY <1>3 DEF Starts
    <3> HIDE DEF S
    <3> QED BY <3>1, FinitePart
  <2>4. w \in Seq(Word)
    <3>1. Len(s) \in Nat /\ Len(p) \in Nat /\ m <= Len(p) /\ BufferSize \in Nat
      BY <1>1, <1>3, ConsoleAssumption
    <3>2. Len(s) < BufferSize
      BY <1>3, <3>1
    <3> QED BY <1>3, <3>2, WordsType
  <2> HIDE DEF S
  <2> DEFINE c == Cardinality(S)
  <2>5. DOMAIN w = 1..c
    BY <2>2
  <2>6. c \in Nat
    BY <2>3
  <2> HIDE DEF S, w, c
  <2>7. DOMAIN w = 1..3
    <3>1. DOMAIN w = 1..Len(w)
      BY <2>4
    <3> QED BY <2>1, <3>1
  <2>8. c = 3
    <3>1. \A n \in Nat : n \in 1..c <=> n \in 1..3
      BY <2>5, <2>7
    <3>2. c \in 1..3 \/ c = 0
      BY <2>6, <3>1
    <3>3. 3 \in 1..c
      BY <3>1
    <3> QED BY <2>6, <3>2, <3>3
  <2> QED BY <2>1, <2>8 DEF c
<1>5. w[1] = WordAt(s, i) /\ w[2] = WordAt(s, j) /\ w[3] = WordAt(s, k)
  BY <1>4 DEF Words
<1>6. /\ i \in S /\ j \in S /\ k \in S /\ i < j /\ j < k
      /\ \A x \in S : ~(x < i) /\ ~(i < x /\ x < j) /\ ~(j < x /\ x < k)
  <2>1. S \subseteq 1..Len(s) /\ Len(s) \in Nat
    BY <1>3 DEF Starts
  <2> HIDE DEF S
  <2> QED BY <1>4, <2>1, Thrice
<1> HIDE DEF w, i, j, k
<1>7. /\ \A x \in S : x \in 1..m /\ s[x] # Space /\ (x = 1 \/ s[x - 1] = Space)
      /\ m \in Nat /\ Len(p) \in Nat /\ m <= Len(p)
  BY <1>1, <1>3 DEF Starts
<1>8. PICK e \in i..Len(s) : /\ w[1] = SubSeq(s, i, e)
                             /\ e = Len(s) \/ s[e + 1] = Space
                             /\ \A x \in i..e : s[x] # Space
  BY <1>3, <1>5, <1>6, WordEnds
<1>9. PICK f \in j..Len(s) : /\ w[2] = SubSeq(s, j, f)
                             /\ f = Len(s) \/ s[f + 1] = Space
                             /\ \A x \in j..f : s[x] # Space
  BY <1>3, <1>5, <1>6, WordEnds
<1>10. PICK g \in k..Len(s) : /\ w[3] = SubSeq(s, k, g)
                              /\ g = Len(s) \/ s[g + 1] = Space
                              /\ \A x \in k..g : s[x] # Space
  BY <1>3, <1>5, <1>6, WordEnds
<1>11. /\ i \in 1..m /\ j \in 1..m /\ k \in 1..m
       /\ e \in i..m /\ f \in j..m /\ g \in k..m
  BY <1>3, <1>6, <1>7, <1>8, <1>9, <1>10
<1>12. e < j /\ f < k
  <2>1. ~(j <= e)
    <3> SUFFICES ASSUME j <= e PROVE FALSE
      OBVIOUS
    <3>1. s[j - 1] = Space /\ j - 1 \in i..e
      BY <1>6, <1>7, <1>11
    <3> QED BY <1>8, <3>1
  <2>2. ~(k <= f)
    <3> SUFFICES ASSUME k <= f PROVE FALSE
      OBVIOUS
    <3>1. s[k - 1] = Space /\ k - 1 \in j..f
      BY <1>6, <1>7, <1>11
    <3> QED BY <1>9, <3>1
  <2> QED BY <1>11, <2>1, <2>2
<1>13. s[e + 1] = Space /\ s[f + 1] = Space /\ e + 1 # j /\ f + 1 # k
  <2>1. e # Len(s) /\ f # Len(s)
    BY <1>3, <1>11, <1>12
  <2>2. s[e + 1] = Space /\ s[f + 1] = Space
    BY <1>8, <1>9, <2>1
  <2> QED BY <1>6, <1>7, <2>2
<1>14. Blank(s, 1, i - 1) /\ Blank(s, e + 1, j - 1) /\ Blank(s, f + 1, k - 1)
  <2>1. /\ 1 \in 1..(Len(s) + 1) /\ i - 1 \in 0..Len(s)
        /\ \A x \in 1..(i - 1) : x < i
    BY <1>3, <1>11
  <2>2. /\ e + 1 \in 1..(Len(s) + 1) /\ j - 1 \in 0..Len(s)
        /\ \A x \in (e + 1)..(j - 1) : i < x /\ x < j
    BY <1>3, <1>11
  <2>3. /\ f + 1 \in 1..(Len(s) + 1) /\ k - 1 \in 0..Len(s)
        /\ \A x \in (f + 1)..(k - 1) : j < x /\ x < k
    BY <1>3, <1>11
  <2>4. Blank(s, 1, i - 1)
    BY <1>3, <1>6, <2>1, Gap
  <2>5. Blank(s, e + 1, j - 1)
    BY <1>3, <1>6, <1>13, <2>2, Gap
  <2>6. Blank(s, f + 1, k - 1)
    BY <1>3, <1>6, <1>13, <2>3, Gap
  <2> QED BY <2>4, <2>5, <2>6
<1>15. Blank(p, 1, i - 1) /\ Blank(p, e + 1, j - 1) /\ Blank(p, f + 1, k - 1)
  <2>1. /\ \A x \in 1..(i - 1) : x \in 1..m
        /\ \A x \in (e + 1)..(j - 1) : x \in 1..m
        /\ \A x \in (f + 1)..(k - 1) : x \in 1..m
    BY <1>11
  <2> QED BY <1>3, <1>14, <2>1 DEF Blank
<1>16. ASSUME NEW a \in 1..m, NEW b \in a..m
       PROVE  /\ SubSeq(s, a, b) \in Seq(Byte) /\ Len(SubSeq(s, a, b)) = b - a + 1
              /\ StandsAt(p, a, SubSeq(s, a, b))
  <2>1. /\ SubSeq(s, a, b) \in Seq(Byte) /\ Len(SubSeq(s, a, b)) = b - a + 1
        /\ \A x \in 1..(b - a + 1) : SubSeq(s, a, b)[x] = s[a + x - 1]
    BY <1>3, <1>16, PieceAt
  <2>2. \A x \in 1..(b - a + 1) : a + x - 1 \in 1..m
    OBVIOUS
  <2>3. a + (b - a + 1) <= Len(p) + 1
    BY <1>7
  <2> QED BY <1>3, <2>1, <2>2, <2>3 DEF StandsAt
<1>17. /\ StandsAt(p, i, RegisterWord) /\ Len(RegisterWord) = e - i + 1
       /\ StandsAt(p, j, w[2]) /\ Len(w[2]) = f - j + 1
       /\ w[3] \in Seq(Byte) /\ Len(w[3]) = g - k + 1
       /\ \A x \in 1..(g - k + 1) : w[3][x] = s[k + x - 1]
  BY <1>3, <1>4, <1>8, <1>9, <1>10, <1>11, <1>16, PieceAt
<1> DEFINE t == Cut(w[3])
<1>18. /\ StandsAt(p, k, t) /\ Len(t) <= TokenSize
       /\ Len(t) = TokenSize \/ Len(t) = g - k + 1
  <2> DEFINE E == {TokenSize, Len(w[3])} q == Min(E)
  <2>1. TokenSize \in Nat /\ Len(w[3]) \in Nat
    BY <1>17, ConsoleAssumption
  <2>2. q \in E /\ \A x \in E : q <= x
    <3>1. E \subseteq Nat /\ E # {}
      BY <2>1
    <3> HIDE DEF E
    <3> QED BY <3>1, MinIs
  <2>3. t = SubSeq(w[3], 1, q)
    BY DEF Cut
  <2> HIDE DEF q, t
  <2>4. q \in Nat /\ q <= TokenSize /\ q <= Len(w[3]) /\ (q = TokenSize \/ q = Len(w[3]))
    BY <2>1, <2>2
  <2>5. \A x \in 1..q : w[3][x] \in Byte
    BY <1>17, <2>4
  <2>6. Len(t) = q /\ \A x \in 1..q : t[x] = w[3][x]
    BY <2>3, <2>4, <2>5, SubSeqProperties
  <2>7. ASSUME NEW x \in 1..q PROVE p[k + x - 1] = t[x]
    <3>1. x \in 1..(g - k + 1) /\ k + x - 1 \in 1..m
      BY <1>11, <1>17, <2>4
    <3> QED BY <1>3, <1>17, <2>6, <3>1
  <2>8. k + q <= Len(p) + 1
    BY <1>7, <1>11, <1>17, <2>4
  <2> QED BY <1>17, <2>4, <2>6, <2>7, <2>8 DEF StandsAt
<1>19. k + (g - k + 1) > Len(p) \/ p[k + (g - k + 1)] \in {Space, Newline, Nul}
  <2>1. k + (g - k + 1) = g + 1
    BY <1>11
  <2>2. CASE g = m
    <3>1. m = Len(p) \/ p[g + 1] \in {Nul, Newline}
      BY <1>1, <2>2
    <3> QED BY <1>7, <2>1, <2>2, <3>1
  <2>3. CASE g # m
    <3>1. s[g + 1] = Space /\ g + 1 \in 1..m
      BY <1>3, <1>10, <1>11, <2>3
    <3> QED BY <1>3, <2>1, <3>1
  <2> QED BY <2>2, <2>3
<1> HIDE DEF t
<1>20. /\ i \in DOMAIN p
       /\ i + Len(RegisterWord) = e + 1 /\ j + Len(w[2]) = f + 1
       /\ j \in (e + 1 + 1)..Len(p) /\ k \in (f + 1 + 1)..Len(p)
  BY <1>7, <1>11, <1>12, <1>13, <1>17
<1>21. Len(t) = TokenSize \/ k + Len(t) > Len(p) \/ p[k + Len(t)] \in {Space, Newline, Nul}
  BY <1>18, <1>19
<1>22. AsksFor(p, w[2], t)
  BY <1>15, <1>17, <1>18, <1>20, <1>21 DEF AsksFor
<1> QED BY <1>22 DEF t, w, s
-----------------------------------------------------------------------------
(* Inductive, first part: what the variables hold, step by step of the     *)
(* console thread; and the map holds exactly what the log says.            *)
WritingSteps == {"write1", "write2", "write3", "write4", "token"}

Bytes == disk \in Seq(Byte) /\ buf \in Seq(Byte) /\ stdin \in Seq(Byte)

Control ==
  /\ argv \in Seq(Word)
  /\ (argv # << >>) <=> (pc = "call")
  /\ pc \in {"check", "read", "call", "done"} \cup WritingSteps
  /\ pc \in WritingSteps => reg \in Record
  /\ pc \notin WritingSteps => reg = Idle

Logged ==
  /\ state \in {"open", "closed", "lost"}
  /\ tail \in {"whole", "torn", "mixed"}
  /\ log \in Seq(Record) /\ sure \in Nat
  /\ DOMAIN links = {log[n][1] : n \in DOMAIN log}
  /\ \A d \in DOMAIN links : \E n \in DOMAIN log : log[n] = <<d, links[d]>>

Types == Bytes /\ Control /\ Logged

(* What is read is no more than the buffer takes, and not nothing.         *)
LEMMA ReadLength ==
  ASSUME stdin \in Seq(Byte), stdin # << >>
  PROVE  LET n == Min({Len(stdin), Room} \cup {k \in DOMAIN stdin : stdin[k] = Newline}) IN
         /\ n \in 1..Len(stdin) /\ n <= BufferSize - 1
         /\ n = Len(stdin) \/ n = BufferSize - 1 \/ stdin[n] = Newline
<1> DEFINE E == {Len(stdin), Room} \cup {k \in DOMAIN stdin : stdin[k] = Newline}
           n == Min(E)
<1>1. /\ Len(stdin) \in Nat /\ Len(stdin) >= 1 /\ Room \in Nat /\ Room >= 1
      /\ Room = BufferSize - 1
  BY ConsoleAssumption DEF Room
<1>2. \A k \in E : k \in Nat /\ k >= 1
  <2>1. \A k \in DOMAIN stdin : k \in Nat /\ k >= 1
    OBVIOUS
  <2> QED BY <1>1, <2>1
<1>3. Len(stdin) \in E /\ Room \in E
  OBVIOUS
<1>4. \A k \in E : k = Len(stdin) \/ k = Room \/ stdin[k] = Newline
  OBVIOUS
<1> HIDE DEF E
<1>5. n \in E /\ \A k \in E : n <= k
  <2>1. E \subseteq Nat /\ E # {}
    BY <1>2, <1>3
  <2> QED BY <2>1, MinIs
<1>6. n \in Nat /\ 1 <= n /\ n <= Len(stdin) /\ n <= Room
  BY <1>2, <1>3, <1>5
<1> QED BY <1>1, <1>4, <1>5, <1>6 DEF E

(* Any part of the buffer that lands is a beginning of it.                 *)
LEMMA PartType ==
  ASSUME NEW b \in Seq(Byte), NEW p \in Parts(b)
  PROVE  /\ p \in Seq(Byte)
         /\ \E c \in Seq(Byte) : b = p \o c
<1>1. PICK n \in 0..Len(b) : p = SubSeq(b, 1, n)
  BY DEF Parts
<1>2. \A k \in 1..n : b[k] \in Byte
  BY <1>1
<1>3. p \in Seq(Byte)
  BY <1>1, <1>2, SubSeqProperties
<1>4. \A k \in (n + 1)..Len(b) : b[k] \in Byte
  BY <1>1
<1>5. SubSeq(b, n + 1, Len(b)) \in Seq(Byte)
  BY <1>1, <1>4, SubSeqProperties
<1>6. b = p \o SubSeq(b, n + 1, Len(b))
  <2>1. 1 \in 1..(Len(b) + 1) /\ n \in (1 - 1)..Len(b) /\ Len(b) \in n..Len(b)
    BY <1>1
  <2>2. SubSeq(b, 1, n) \o SubSeq(b, n + 1, Len(b)) = SubSeq(b, 1, Len(b))
    BY <2>1, ConcatAdjacentSubSeq
  <2>3. SubSeq(b, 1, Len(b)) = b
    BY SubSeqFull
  <2> QED BY <1>1, <2>2, <2>3
<1> QED BY <1>3, <1>5, <1>6

(* What the four fwrites add.                                              *)
LEMMA WritesType ==
  ASSUME NEW r \in Record, NEW n \in 1..4
  PROVE  Writes(r)[n] \in Seq(Byte)
<1>1. r[1] \in String /\ r[2] \in String
  BY DEF Record
<1>2. /\ r[1] \in Seq(Byte) /\ Len(r[1]) \in Nat /\ Len(r[1]) < Limit
      /\ r[2] \in Seq(Byte) /\ Len(r[2]) \in Nat /\ Len(r[2]) < Limit
  BY <1>1 DEF String
<1>3. Int32(Len(r[1])) \in Seq(Byte) /\ Int32(Len(r[2])) \in Seq(Byte)
  BY <1>2, IntegerBack
<1>4. Writes(r) = <<Int32(Len(r[1])), r[1], Int32(Len(r[2])), r[2]>>
  BY DEF Writes
<1> QED BY <1>2, <1>3, <1>4

(* An empty file has no entries, and all of it is whole.                   *)
LEMMA EmptyFile == Entries(<< >>) = << >> /\ Whole(<< >>)
<1>1. << >> \in Seq(Byte) /\ Len(<< >>) = 0
  OBVIOUS
<1>2. ReadFrom(<< >>)[0] = [entries |-> << >>, at |-> 0]
  BY <1>1, EndRead
<1> QED BY <1>1, <1>2 DEF Entries, Whole, ReadFile

(* The first part holds at the start.                                      *)
LEMMA TypesInit == Init => Types
<1> SUFFICES ASSUME Init PROVE Types
  OBVIOUS
<1> USE DEF Init, CInit, SInit, Idle
<1>1. Bytes
  BY DEF Bytes
<1>2. Control
  BY DEF Control, WritingSteps
<1>3. Logged
  BY DEF Logged, Linked
<1> QED BY <1>1, <1>2, <1>3 DEF Types

(* A member of a sequence.                                                 *)
LEMMA SeqAt ==
  ASSUME NEW S, NEW s \in Seq(S), NEW n \in 1..Len(s)
  PROVE  s[n] \in S
OBVIOUS

(* Bytes that land leave bytes.                                            *)
LEMMA LandTypes ==
  ASSUME Types, NEW b \in Seq(Byte), Land(b)
  PROVE  disk' \in Seq(Byte) /\ buf' = << >> /\ sure' \in Nat
<1>1. disk' \in Seq(Byte)
  BY ConcatProperties DEF Types, Bytes, Land
<1>2. Len(Entries(disk')) \in Nat
  BY <1>1, EntriesType
<1> QED BY <1>1, <1>2 DEF Types, Logged, Land

(* LastOf is a place of r where d is registered.                           *)
LEMMA LinkedIs ==
  ASSUME NEW r \in Seq(Record)
  PROVE  /\ DOMAIN Linked(r) = {r[n][1] : n \in DOMAIN r}
         /\ \A d \in DOMAIN Linked(r) :
              \E n \in DOMAIN r : r[n] = <<d, Linked(r)[d]>>
<1>1. DOMAIN Linked(r) = {r[n][1] : n \in DOMAIN r}
  BY DEF Linked
<1>2. ASSUME NEW d \in DOMAIN Linked(r)
      PROVE  \E n \in DOMAIN r : r[n] = <<d, Linked(r)[d]>>
  <2> DEFINE S == {n \in DOMAIN r : r[n][1] = d}
  <2>1. S # {} /\ S \subseteq 0..Len(r) /\ Len(r) \in Nat
    BY <1>1
  <2>2. \E m \in S : \A k \in S : k <= m
    <3> HIDE DEF S
    <3> QED BY <2>1, Largest
  <2>3. \E n \in DOMAIN r : r[n][1] = d /\ \A m \in DOMAIN r : r[m][1] = d => m <= n
    BY <2>2
  <2> DEFINE n == LastOf(r, d)
  <2>4. n \in DOMAIN r /\ r[n][1] = d
    BY <2>3 DEF LastOf
  <2>5. Linked(r)[d] = r[n][2]
    BY <1>1 DEF Linked
  <2>6. r[n] \in Record
    BY <2>4
  <2> HIDE DEF n
  <2>7. r[n] = <<r[n][1], r[n][2]>>
    BY <2>6 DEF Record
  <2> QED BY <2>4, <2>5, <2>7
<1> QED BY <1>1, <1>2

(* Steps that leave the log and the map alone.                             *)
LEMMA LoggedKept ==
  ASSUME Logged, UNCHANGED <<log, links>>, sure' \in Nat,
         state' \in {"open", "closed", "lost"}, tail' \in {"whole", "torn", "mixed"}
  PROVE  Logged'
BY DEF Logged

(* The console thread, outside "register".                                 *)
LEMMA ConsoleTypes ==
  ASSUME Types, ConsoleStep
  PROVE  Types'
<1> USE DEF Types, ConsoleStep, svars, Done
<1>1. UNCHANGED <<state, links, tokens, disk, buf, log, sure, tail, reg>>
  OBVIOUS
<1>2. Logged'
  BY <1>1, LoggedKept DEF Logged
<1>3. CASE CheckFinished
  <2>1. Bytes' /\ Control'
    BY <1>1, <1>3 DEF CheckFinished, Bytes, Control, WritingSteps
  <2> QED BY <1>2, <2>1
<1>4. CASE ReadLine
  <2> DEFINE n == Min({Len(stdin), Room} \cup {k \in DOMAIN stdin : stdin[k] = Newline})
             p == SubSeq(stdin, 1, n)
  <2>1. stdin \in Seq(Byte) /\ stdin # << >> /\ pc = "read"
    BY <1>4 DEF ReadLine, Bytes
  <2>2. n \in 1..Len(stdin) /\ n <= BufferSize - 1
    BY <2>1, ReadLength
  <2>3. argv' = Words(Text(p)) /\ stdin' = SubSeq(stdin, n + 1, Len(stdin))
        /\ pc' = IF argv' = << >> THEN "check" ELSE "call"
    BY <1>4 DEF ReadLine
  <2> HIDE DEF n
  <2>4. \A k \in 1..n : stdin[k] \in Byte
    BY <2>1, <2>2
  <2>5. p \in Seq(Byte) /\ Len(p) = n
    BY <2>2, <2>4, SubSeqProperties
  <2>6. \A k \in (n + 1)..Len(stdin) : stdin[k] \in Byte
    BY <2>1, <2>2
  <2>7. stdin' \in Seq(Byte)
    BY <2>1, <2>2, <2>3, <2>6, SubSeqProperties
  <2> HIDE DEF p
  <2>8. Text(p) \in Seq(Byte) /\ Len(Text(p)) < BufferSize
    <3>1. Text(p) \in Seq(Byte) /\ Len(Text(p)) <= Len(p)
      BY <2>5, TextType
    <3>2. Len(Text(p)) \in Nat /\ n \in Nat /\ BufferSize \in Nat
      BY <2>2, <3>1, ConsoleAssumption
    <3> QED BY <2>2, <2>5, <3>1, <3>2
  <2>9. argv' \in Seq(Word)
    BY <2>3, <2>8, WordsType
  <2>10. Bytes' /\ Control'
    BY <1>1, <2>1, <2>3, <2>7, <2>9 DEF Bytes, Control, WritingSteps
  <2> QED BY <1>2, <2>10
<1>5. CASE ReadNothing
  <2>1. Bytes' /\ Control'
    BY <1>1, <1>5 DEF ReadNothing, Bytes, Control, WritingSteps
  <2> QED BY <1>2, <2>1
<1>6. CASE CallStop \/ CallOther
  <2>1. << >> \in Seq(Word)
    OBVIOUS
  <2>2. Bytes' /\ Control'
    BY <1>1, <1>6, <2>1 DEF CallStop, CallOther, Bytes, Control, WritingSteps
  <2> QED BY <1>2, <2>2
<1> QED BY <1>3, <1>4, <1>5, <1>6

(* The entry "register" makes of three words, and the log with it.         *)
LEMMA AcceptMakes ==
  ASSUME Types, Accept, state' = state
  PROVE  /\ reg' \in Record /\ reg' = <<argv[2], Cut(argv[3])>>
         /\ reg'[1] \notin DOMAIN links
         /\ log' = Append(log, reg')
         /\ Logged'
<1> USE DEF Types
<1>1. argv \in Seq(Word) /\ Len(argv) = 3
  BY DEF Control, Accept, Registers
<1>2. argv[2] \in Word /\ argv[3] \in Word
  <2> HIDE DEF Types
  <2>1. 2 \in 1..Len(argv) /\ 3 \in 1..Len(argv)
    BY <1>1
  <2> QED BY <1>1, <2>1, SeqAt
<1>3. reg' = <<argv[2], Cut(argv[3])>> /\ argv[2] \notin DOMAIN links
  BY DEF Accept, Taken
<1>4. reg' \in Record
  BY <1>2, <1>3, CutType, WordIsString DEF Record
<1>5. /\ links' = [d \in DOMAIN links \cup {reg'[1]} |->
                    IF d = reg'[1] THEN reg'[2] ELSE links[d]]
      /\ log' = Append(log, reg')
      /\ UNCHANGED <<sure, tail>>
  BY DEF Accept, PutLink
<1> DEFINE r == reg'
<1>6. r \in Record /\ r = <<r[1], r[2]>>
  BY <1>3, <1>4
<1>7. reg'[1] \notin DOMAIN links
  BY <1>3
<1> HIDE DEF r
<1>8. /\ log \in Seq(Record) /\ log' \in Seq(Record) /\ Len(log') = Len(log) + 1
      /\ \A n \in 1..Len(log) : log'[n] = log[n]
      /\ log'[Len(log) + 1] = r /\ Len(log) \in Nat
  BY <1>5, <1>6, AppendProperties DEF Logged, r
<1>9. /\ DOMAIN log = 1..Len(log) /\ DOMAIN log' = 1..(Len(log) + 1)
      /\ DOMAIN log' = DOMAIN log \cup {Len(log) + 1}
  BY <1>8
<1>10. DOMAIN links' = {log'[n][1] : n \in DOMAIN log'}
  <2>1. DOMAIN links' = DOMAIN links \cup {r[1]}
    BY <1>5 DEF r
  <2>2. DOMAIN links = {log[n][1] : n \in DOMAIN log}
    BY DEF Logged
  <2> QED BY <1>8, <1>9, <2>1, <2>2
<1>11. ASSUME NEW d \in DOMAIN links'
       PROVE  \E n \in DOMAIN log' : log'[n] = <<d, links'[d]>>
  <2>1. CASE d = r[1]
    BY <1>5, <1>6, <1>8, <1>9, <2>1 DEF r
  <2>2. CASE d # r[1]
    <3>1. d \in DOMAIN links /\ links'[d] = links[d]
      BY <1>5, <2>2 DEF r
    <3>2. PICK n \in DOMAIN log : log[n] = <<d, links[d]>>
      BY <3>1 DEF Logged
    <3> QED BY <1>8, <1>9, <3>1, <3>2
  <2> QED BY <2>1, <2>2
<1>12. Logged'
  BY <1>5, <1>8, <1>10, <1>11 DEF Logged
<1> QED BY <1>3, <1>4, <1>5, <1>7, <1>12

(* One of the four fwrites, succeeding or not.                             *)
LEMMA WritePartTypes ==
  ASSUME Types, NEW n \in 1..4, WritePart(n),
         UNCHANGED <<state, nlines, restarts, typed>>
  PROVE  Types'
<1> USE DEF Types
<1>1. pc = Writing[n] /\ pc \in WritingSteps
  BY DEF WritePart, Writing, WritingSteps
<1>2. reg \in Record /\ reg' = reg
  BY <1>1 DEF Control, WritePart
<1>3. Writes(reg)[n] \in Seq(Byte)
  BY <1>2, WritesType
<1>4. UNCHANGED <<stdin, argv>>
  BY DEF WritePart
<1> DEFINE bytes == Writes(reg)[n]
<1>5. CASE Write(bytes) /\ pc' = After[n]
  <2>1. buf' \in Seq(Byte)
    <3> HIDE DEF bytes
    <3>1. bytes \in Seq(Byte)
      BY <1>3 DEF bytes
    <3> QED BY <1>5, <3>1, ConcatProperties DEF Write, Bytes
  <2>2. pc' \in WritingSteps
    BY <1>5 DEF After, WritingSteps
  <2>3. Bytes' /\ Control'
    BY <1>1, <1>2, <1>4, <1>5, <2>1, <2>2 DEF Bytes, Control, Write, WritingSteps
  <2>4. Logged'
    BY <1>5, LoggedKept DEF Write, Logged
  <2> QED BY <2>3, <2>4
<1>6. CASE WriteFails(bytes) /\ pc' = "token"
  <2>1. buf \o bytes \in Seq(Byte)
    <3> HIDE DEF bytes
    <3>1. bytes \in Seq(Byte)
      BY <1>3 DEF bytes
    <3> QED BY <3>1, ConcatProperties DEF Bytes
  <2>2. PICK b \in Parts(buf \o bytes) : Land(b)
    BY <1>6 DEF WriteFails
  <2>3. b \in Seq(Byte)
    <3> HIDE DEF bytes
    <3> QED BY <2>1, PartType
  <2>4. disk' \in Seq(Byte) /\ buf' = << >> /\ sure' \in Nat
    BY <2>2, <2>3, LandTypes
  <2>5. UNCHANGED <<links, log>> /\ tail' = "mixed"
    BY <1>6, <2>2 DEF Land, WriteFails
  <2>6. Bytes' /\ Control'
    BY <1>1, <1>2, <1>4, <1>6, <2>4 DEF Bytes, Control, WritingSteps
  <2>7. Logged'
    BY <2>4, <2>5, LoggedKept DEF Logged
  <2> QED BY <2>6, <2>7
<1> QED BY <1>5, <1>6 DEF WritePart

(* The steps of "register".                                                *)
LEMMA RegisterTypes ==
  ASSUME Types, RegisterStep
  PROVE  Types'
<1> USE DEF Types
<1>0. UNCHANGED <<state, nlines, restarts, typed>>
  BY DEF RegisterStep
<1>1. CASE Refuse
  <2>1. UNCHANGED <<stdin, links, tokens, disk, buf, log, sure, tail, reg>>
        /\ pc = "call" /\ pc' = "check" /\ argv' = << >>
    BY <1>1 DEF Refuse, svars, Done
  <2>2. << >> \in Seq(Word)
    OBVIOUS
  <2>3. Bytes' /\ Control'
    BY <2>1, <2>2 DEF Bytes, Control, WritingSteps
  <2>4. Logged'
    BY <1>0, <2>1, LoggedKept DEF Logged
  <2> QED BY <2>3, <2>4
<1>2. CASE Accept
  <2>1. reg' \in Record /\ Logged'
    BY <1>0, <1>2, AcceptMakes
  <2>2. UNCHANGED <<stdin, disk, buf>> /\ pc' = "write1" /\ argv' = << >>
    BY <1>2 DEF Accept, PutLink
  <2>3. << >> \in Seq(Word)
    OBVIOUS
  <2>4. Bytes' /\ Control'
    BY <2>1, <2>2, <2>3 DEF Bytes, Control, WritingSteps
  <2> QED BY <2>1, <2>4
<1>3. ASSUME NEW n \in 1..4, WritePart(n) PROVE Types'
  BY <1>0, <1>3, WritePartTypes
<1>4. CASE Report
  <2>1. UNCHANGED <<stdin, links, disk, buf, log, sure, tail, argv>>
        /\ pc = "token" /\ pc' = "check" /\ reg' = Idle
    BY <1>4 DEF Report, PutToken
  <2>2. Bytes' /\ Control'
    BY <2>1 DEF Bytes, Control, WritingSteps
  <2>3. Logged'
    BY <1>0, <2>1, LoggedKept DEF Logged
  <2> QED BY <2>2, <2>3
<1> QED BY <1>1, <1>2, <1>3, <1>4 DEF RegisterStep

(* A line is typed.                                                        *)
LEMMA TypedTypes ==
  ASSUME Types, Typed
  PROVE  Types' /\ \E l \in Line : stdin' = l \/ stdin' = Front(l)
<1> USE DEF Types
<1>1. PICK l \in Line : Type(l)
  BY DEF Typed
<1>2. UNCHANGED <<links, tokens, disk, buf, log, sure, tail, state, reg, argv, pc>>
  BY <1>1 DEF Typed, Type, svars
<1>3. l \in Seq(Byte) /\ l # << >>
  BY ConsoleAssumption
<1>4. Front(l) \in Seq(Byte)
  <2>1. Len(l) - 1 \in Nat /\ \A k \in 1..(Len(l) - 1) : l[k] \in Byte
    BY <1>3
  <2> DEFINE y == Len(l) - 1
  <2>2. y \in Nat /\ \A k \in 1..y : l[k] \in Byte
    BY <2>1
  <2> HIDE DEF y
  <2>3. SubSeq(l, 1, y) \in Seq(Byte)
    BY <2>2, SubSeqProperties
  <2> QED BY <2>3 DEF Front, y
<1>5. stdin' = l \/ stdin' = Front(l)
  BY <1>1 DEF Type
<1>6. Bytes' /\ Control'
  BY <1>2, <1>3, <1>4, <1>5 DEF Bytes, Control
<1>7. Logged'
  BY <1>2, LoggedKept DEF Logged
<1> QED BY <1>5, <1>6, <1>7

(* What an end of the process, in order or not, does to the file.          *)
LEMMA LandPart ==
  ASSUME Types, End
  PROVE  \E b \in Parts(buf) : /\ b \in Seq(Byte) /\ Land(b) /\ tail' = TailAfter(b)
                               /\ \/ pc = "done" /\ state' = "closed" /\ b = buf
                                  \/ state' = "lost"
<1>1. buf \in Seq(Byte)
  BY DEF Types, Bytes
<1>2. buf \in Parts(buf)
  <2>1. Len(buf) \in 0..Len(buf) /\ SubSeq(buf, 1, Len(buf)) = buf
    BY <1>1, SubSeqFull
  <2> QED BY <2>1 DEF Parts
<1>3. CASE pc = "done" /\ CloseFile /\ state' = "closed"
  BY <1>1, <1>2, <1>3 DEF CloseFile
<1>4. CASE LoseBuffer /\ state' = "lost"
  <2>1. PICK b \in Parts(buf) : Land(b) /\ tail' = TailAfter(b)
    BY <1>4 DEF LoseBuffer
  <2> QED BY <1>1, <1>4, <2>1, PartType
<1> QED BY <1>3, <1>4 DEF End

(* The process ends.                                                       *)
LEMMA EndTypes ==
  ASSUME Types, End
  PROVE  Types'
<1>1. PICK b \in Seq(Byte) : Land(b) /\ tail' = TailAfter(b) /\ state' \in {"closed", "lost"}
  BY LandPart
<1>2. disk' \in Seq(Byte) /\ buf' = << >> /\ sure' \in Nat
  BY <1>1, LandTypes
<1>3. UNCHANGED <<links, log, stdin, argv, pc, reg>>
  BY <1>1 DEF Land, End, cvars
<1>4. tail' \in {"whole", "torn", "mixed"}
  BY <1>1 DEF TailAfter, Types, Logged
<1>5. Bytes' /\ Control'
  BY <1>2, <1>3 DEF Bytes, Control, Types
<1>6. Logged'
  BY <1>1, <1>2, <1>3, <1>4, LoggedKept DEF Types
<1> QED BY <1>5, <1>6 DEF Types

(* Another one reads the file.                                             *)
LEMMA RestartTypes ==
  ASSUME Types, Restart
  PROVE  Types'
<1>1. /\ disk' = disk /\ buf' = buf /\ stdin' = << >> /\ argv' = << >> /\ pc' = "check"
      /\ reg' = Idle /\ state' = "open" /\ sure' = sure /\ tail' = tail
      /\ log' = Entries(disk') /\ links' = Linked(Entries(disk'))
  BY DEF Restart, Load, OpenToAppend
<1>2. << >> \in Seq(Byte) /\ << >> \in Seq(Word)
  OBVIOUS
<1>3. Bytes' /\ Control'
  BY <1>1, <1>2 DEF Types, Bytes, Control, WritingSteps
<1>4. log' \in Seq(Record)
  BY <1>3, <1>1, EntriesType DEF Bytes
<1>5. Logged'
  <2>1. links' = Linked(log')
    BY <1>1
  <2>2. /\ DOMAIN links' = {log'[n][1] : n \in DOMAIN log'}
        /\ \A d \in DOMAIN links' : \E n \in DOMAIN log' : log'[n] = <<d, links'[d]>>
    BY <1>4, <2>1, LinkedIs
  <2> QED BY <1>1, <1>4, <2>2 DEF Types, Logged
<1> QED BY <1>3, <1>5 DEF Types

(* The first part is inductive.                                            *)
LEMMA TypesNext == Types /\ [Next]_rvars => Types'
<1> SUFFICES ASSUME Types, [Next]_rvars PROVE Types'
  OBVIOUS
<1>1. CASE UNCHANGED rvars
  BY <1>1 DEF rvars, cvars, svars, Types, Bytes, Control, Logged
<1>2. CASE StartFails
  BY <1>2 DEF StartFails, cvars, svars, Types, Bytes, Control, Logged
<1> QED BY <1>1, <1>2, TypedTypes, ConsoleTypes, RegisterTypes, EndTypes, RestartTypes DEF Next

-----------------------------------------------------------------------------
(* The bytes of the entry in the making that are not in the buffer yet.    *)
Owed ==
  CASE pc = "write1" -> Int32(Len(reg[1])) \o (reg[1] \o (Int32(Len(reg[2])) \o reg[2]))
    [] pc = "write2" -> reg[1] \o (Int32(Len(reg[2])) \o reg[2])
    [] pc = "write3" -> Int32(Len(reg[2])) \o reg[2]
    [] pc = "write4" -> reg[2]
    [] OTHER -> << >>
Planned == (disk \o buf) \o Owed

(* Inductive, second part: what the file, read to its end, gives; as long  *)
(* as it holds whole entries, the file with the buffer and what is owed    *)
(* to it reads as the log.                                                 *)
Settled ==
  /\ sure <= Len(Entries(disk)) /\ sure <= Len(log)
  /\ \A n \in 1..sure : Entries(disk)[n] = log[n]

Records ==
  /\ Settled
  /\ tail # "mixed" => sure = Len(Entries(disk))
  /\ tail = "whole" => Whole(disk)
  /\ state # "open" => buf = << >>
  /\ tail = "whole" /\ state = "open" => Entries(Planned) = log /\ Whole(Planned)

(* The parts of a record.                                                  *)
LEMMA RecordParts ==
  ASSUME NEW r \in Record
  PROVE  /\ r[1] \in Seq(Byte) /\ r[2] \in Seq(Byte)
         /\ Int32(Len(r[1])) \in Seq(Byte) /\ Int32(Len(r[2])) \in Seq(Byte)
<1>1. r[1] \in String /\ r[2] \in String
  BY DEF Record
<1>2. /\ r[1] \in Seq(Byte) /\ Len(r[1]) \in Nat /\ Len(r[1]) < Limit
      /\ r[2] \in Seq(Byte) /\ Len(r[2]) \in Nat /\ Len(r[2]) < Limit
  BY <1>1 DEF String
<1> QED BY <1>2, IntegerBack

(* Bytes behind bytes.                                                     *)
LEMMA Together ==
  ASSUME NEW v \in Seq(Byte), NEW w \in Seq(Byte)
  PROVE  v \o w \in Seq(Byte)
BY ConcatProperties

(* What is owed is bytes.                                                  *)
LEMMA OwedType ==
  ASSUME Types
  PROVE  Owed \in Seq(Byte)
<1>1. CASE pc \notin WritingSteps \/ pc = "token"
  <2>1. Owed = << >>
    BY <1>1 DEF Owed, WritingSteps
  <2> QED BY <2>1
<1>2. CASE pc \in WritingSteps
  <2> DEFINE d == reg[1] t == reg[2] v == Int32(Len(reg[1])) w == Int32(Len(reg[2]))
  <2>1. d \in Seq(Byte) /\ t \in Seq(Byte) /\ v \in Seq(Byte) /\ w \in Seq(Byte)
    BY <1>2, RecordParts DEF Types, Control
  <2>2. Owed \in {v \o (d \o (w \o t)), d \o (w \o t), w \o t, t, << >>}
    BY DEF Owed
  <2> HIDE DEF d, t, v, w
  <2>3. w \o t \in Seq(Byte)
    BY <2>1, Together
  <2>4. d \o (w \o t) \in Seq(Byte)
    BY <2>1, <2>3, Together
  <2>5. v \o (d \o (w \o t)) \in Seq(Byte)
    BY <2>1, <2>4, Together
  <2>6. << >> \in Seq(Byte)
    OBVIOUS
  <2> QED BY <2>1, <2>2, <2>3, <2>4, <2>5, <2>6
<1> QED BY <1>1, <1>2

(* Each write takes the first of what is owed.                             *)
LEMMA OwedSplit ==
  ASSUME Types, NEW n \in 1..4, pc = Writing[n]
  PROVE  \E rest \in Seq(Byte) :
           /\ Owed = Writes(reg)[n] \o rest
           /\ pc' = After[n] /\ reg' = reg => Owed' = rest
<1> DEFINE d == reg[1] t == reg[2] v == Int32(Len(reg[1])) w == Int32(Len(reg[2]))
<1>1. reg \in Record
  BY DEF Types, Control, Writing, WritingSteps
<1>2. d \in Seq(Byte) /\ t \in Seq(Byte) /\ v \in Seq(Byte) /\ w \in Seq(Byte)
  BY <1>1, RecordParts
<1>3. Writes(reg) = <<v, d, w, t>>
  BY DEF Writes
<1>4. w \o t \in Seq(Byte)
  BY <1>2, Together
<1>5. d \o (w \o t) \in Seq(Byte)
  BY <1>2, <1>4, Together
<1>6. t \o << >> = t /\ << >> \in Seq(Byte)
  BY <1>2, ConcatEmptySeq
<1>7. CASE n = 1
  <2>1. pc = "write1" /\ After[n] = "write2"
    BY <1>7 DEF Writing, After
  <2>2. Owed = v \o (d \o (w \o t))
    BY <2>1 DEF Owed
  <2>3. Writes(reg)[n] = v
    BY <1>3, <1>7
  <2>4. ASSUME pc' = After[n], reg' = reg PROVE Owed' = d \o (w \o t)
    <3>1. pc' = "write2"
      BY <2>1, <2>4
    <3> QED BY <2>4, <3>1 DEF Owed
  <2> HIDE DEF d, t, v, w
  <2> QED BY <1>5, <2>2, <2>3, <2>4
<1>8. CASE n = 2
  <2>1. pc = "write2" /\ After[n] = "write3"
    BY <1>8 DEF Writing, After
  <2>2. Owed = d \o (w \o t)
    BY <2>1 DEF Owed
  <2>3. Writes(reg)[n] = d
    BY <1>3, <1>8
  <2>4. ASSUME pc' = After[n], reg' = reg PROVE Owed' = w \o t
    <3>1. pc' = "write3"
      BY <2>1, <2>4
    <3> QED BY <2>4, <3>1 DEF Owed
  <2> HIDE DEF d, t, v, w
  <2> QED BY <1>4, <2>2, <2>3, <2>4
<1>9. CASE n = 3
  <2>1. pc = "write3" /\ After[n] = "write4"
    BY <1>9 DEF Writing, After
  <2>2. Owed = w \o t
    BY <2>1 DEF Owed
  <2>3. Writes(reg)[n] = w
    BY <1>3, <1>9
  <2>4. ASSUME pc' = After[n], reg' = reg PROVE Owed' = t
    <3>1. pc' = "write4"
      BY <2>1, <2>4
    <3> QED BY <2>4, <3>1 DEF Owed
  <2> HIDE DEF d, t, v, w
  <2> QED BY <1>2, <2>2, <2>3, <2>4
<1>10. CASE n = 4
  <2>1. pc = "write4" /\ After[n] = "token"
    BY <1>10 DEF Writing, After
  <2>2. Owed = t
    BY <2>1 DEF Owed
  <2>3. Writes(reg)[n] = t
    BY <1>3, <1>10
  <2>4. ASSUME pc' = After[n], reg' = reg PROVE Owed' = << >>
    <3>1. pc' = "token"
      BY <2>1, <2>4
    <3> QED BY <2>4, <3>1 DEF Owed
  <2> HIDE DEF d, t, v, w
  <2> QED BY <1>6, <2>2, <2>3, <2>4
<1> QED BY <1>7, <1>8, <1>9, <1>10

(* What reaches the file of what was planned is read as the log.           *)
LEMMA Landing ==
  ASSUME Types, Records, state = "open",
         NEW b \in Seq(Byte), Land(b),
         tail = "whole" => \E c \in Seq(Byte) : Planned = (disk \o b) \o c
  PROVE  /\ Settled' /\ sure <= sure' /\ disk' \in Seq(Byte)
         /\ tail = "whole" => sure' = Len(Entries(disk'))
<1>1. disk \in Seq(Byte) /\ disk' = disk \o b /\ disk' \in Seq(Byte)
  BY ConcatProperties DEF Types, Bytes, Land
<1>2. /\ log' = log /\ log \in Seq(Record) /\ sure \in Nat
      /\ sure' = IF tail = "whole" THEN Len(Entries(disk')) ELSE sure
  BY DEF Land, Types, Logged
<1>3. Entries(disk') \in Seq(Record) /\ Entries(disk) \in Seq(Record)
  BY <1>1, EntriesType
<1>4. /\ Len(Entries(disk)) <= Len(Entries(disk'))
      /\ \A n \in 1..Len(Entries(disk)) : Entries(disk')[n] = Entries(disk)[n]
  BY <1>1, EntriesGrow
<1>5. Settled
  BY DEF Records
<1>6. CASE tail = "whole"
  <2>1. PICK c \in Seq(Byte) : Planned = (disk \o b) \o c
    BY <1>6
  <2>2. Entries(Planned) = log
    BY <1>6 DEF Records
  <2>3. log = Entries(disk' \o c)
    BY <1>1, <2>1, <2>2
  <2>4. /\ Len(Entries(disk')) <= Len(log)
        /\ \A n \in 1..Len(Entries(disk')) : log[n] = Entries(disk')[n]
    BY <1>1, <2>3, EntriesGrow
  <2>5. sure' = Len(Entries(disk'))
    BY <1>2, <1>6
  <2>6. Len(Entries(disk')) \in Nat /\ Len(Entries(disk)) \in Nat
    BY <1>3
  <2>7. sure' <= Len(Entries(disk')) /\ sure' <= Len(log') /\ sure <= sure'
    BY <1>2, <1>4, <1>5, <2>4, <2>5, <2>6 DEF Settled
  <2>8. Settled'
    BY <1>2, <2>4, <2>5, <2>7 DEF Settled
  <2> QED BY <1>1, <2>5, <2>7, <2>8
<1>7. CASE tail # "whole"
  <2>1. sure' = sure
    BY <1>2, <1>7
  <2>2. Len(Entries(disk)) \in Nat /\ Len(Entries(disk')) \in Nat
    BY <1>3
  <2>3. sure <= Len(Entries(disk')) /\ sure <= Len(log)
    BY <1>2, <1>4, <1>5, <2>2 DEF Settled
  <2>4. \A n \in 1..sure : n \in 1..Len(Entries(disk))
    BY <1>2, <1>5, <2>2 DEF Settled
  <2>5. \A n \in 1..sure : Entries(disk')[n] = log[n]
    BY <1>4, <1>5, <2>4 DEF Settled
  <2> QED BY <1>1, <1>2, <1>7, <2>1, <2>3, <2>5 DEF Settled
<1> QED BY <1>6, <1>7

(* The second part holds at the start.                                     *)
LEMMA RecordsInit == Init => Records
<1> SUFFICES ASSUME Init PROVE Records
  OBVIOUS
<1>1. disk = << >> /\ buf = << >> /\ log = << >> /\ sure = 0 /\ Owed = << >>
  BY DEF Init, SInit, CInit, Owed
<1>2. Planned = << >>
  BY <1>1 DEF Planned
<1>3. Entries(disk) = << >> /\ Entries(Planned) = << >> /\ Whole(disk) /\ Whole(Planned)
  BY <1>1, <1>2, EmptyFile
<1> QED BY <1>1, <1>3 DEF Records, Settled

(* Steps that leave bytes, log and what is owed alone.                     *)
LEMMA RecordsKept ==
  ASSUME Records, UNCHANGED <<disk, buf, log, sure, tail, state>>, Owed' = Owed
  PROVE  Records'
<1>1. Planned' = Planned
  BY DEF Planned
<1>2. Settled'
  BY DEF Records, Settled
<1> QED BY <1>1, <1>2 DEF Records

-----------------------------------------------------------------------------
(* Concatenation without its definition, which the provers would expand.   *)
Cat(v, w) == v \o w

(* Cat is associative.                                                     *)
LEMMA AssocCat ==
  ASSUME NEW v \in Seq(Byte), NEW w \in Seq(Byte), NEW z \in Seq(Byte)
  PROVE  Cat(Cat(v, w), z) = Cat(v, Cat(w, z))
<1>1. (v \o w) \o z = v \o (w \o z)
  BY Assoc
<1> QED BY <1>1, Zenon DEF Cat

(* Bytes that move from what is owed to the buffer.                        *)
LEMMA Shift ==
  ASSUME NEW d \in Seq(Byte), NEW v \in Seq(Byte), NEW w \in Seq(Byte), NEW z \in Seq(Byte)
  PROVE  Cat(Cat(d, Cat(v, w)), z) = Cat(Cat(d, v), Cat(w, z))
<1>1. Cat(d, Cat(v, w)) = Cat(Cat(d, v), w)
  BY AssocCat
<1>2. Cat(d, v) \in Seq(Byte)
  BY Together DEF Cat
<1>3. Cat(Cat(Cat(d, v), w), z) = Cat(Cat(d, v), Cat(w, z))
  BY <1>2, AssocCat
<1> QED BY <1>1, <1>3

(* Sequences that agree up to a place begin alike.                         *)
LEMMA SamePrefix ==
  ASSUME NEW S, NEW s \in Seq(S), NEW t \in Seq(S), NEW n \in Nat,
         n <= Len(s), n <= Len(t), \A k \in 1..n : s[k] = t[k]
  PROVE  SubSeq(s, 1, n) = SubSeq(t, 1, n)
<1>1. (\A k \in 1..n : s[k] \in S) /\ (\A k \in 1..n : t[k] \in S)
  OBVIOUS
<1>2. /\ SubSeq(s, 1, n) \in Seq(S) /\ Len(SubSeq(s, 1, n)) = n
      /\ \A k \in 1..n : SubSeq(s, 1, n)[k] = s[k]
  BY <1>1, SubSeqProperties
<1>3. /\ SubSeq(t, 1, n) \in Seq(S) /\ Len(SubSeq(t, 1, n)) = n
      /\ \A k \in 1..n : SubSeq(t, 1, n)[k] = t[k]
  BY <1>1, SubSeqProperties
<1> DEFINE x == SubSeq(s, 1, n)
           y == SubSeq(t, 1, n)
<1> HIDE DEF x, y
<1>4. \A k \in 1..n : x[k] = y[k]
  BY <1>2, <1>3 DEF x, y
<1>5. x \in Seq(S) /\ y \in Seq(S) /\ Len(x) = n /\ Len(y) = n
  BY <1>2, <1>3 DEF x, y
<1>6. x = y
  BY <1>4, <1>5, SeqEqual
<1> QED BY <1>6 DEF x, y

(* Steps that leave bytes, log and what is owed alone, seen by Journal.    *)
LEMMA QuietStep ==
  ASSUME Records, UNCHANGED <<disk, buf, log, sure, tail, state>>, Owed' = Owed
  PROVE  Records' /\ [J!Next]_(J!jvars)
BY RecordsKept DEF J!jvars

(* The console thread, outside "register".                                 *)
LEMMA ConsoleRecords ==
  ASSUME Types, Records, ConsoleStep
  PROVE  Records' /\ [J!Next]_(J!jvars)
<1>1. UNCHANGED <<disk, buf, log, sure, tail, state>>
  BY DEF ConsoleStep, svars
<1>2. pc \notin WritingSteps /\ pc' \notin WritingSteps
  BY DEF ConsoleStep, CheckFinished, ReadLine, ReadNothing, CallStop, CallOther, Done,
         WritingSteps
<1>3. Owed = << >> /\ Owed' = << >>
  BY <1>2 DEF Owed, WritingSteps
<1> QED BY <1>1, <1>3, QuietStep

(* A line is typed.                                                        *)
LEMMA TypedRecords ==
  ASSUME Types, Records, Typed
  PROVE  Records' /\ [J!Next]_(J!jvars)
<1>1. UNCHANGED <<disk, buf, log, sure, tail, state, pc, reg>>
  BY DEF Typed, Type, svars
<1>2. Owed' = Owed
  BY <1>1 DEF Owed
<1> QED BY <1>1, <1>2, QuietStep

(* A registration enters the log, and is owed to the file.                 *)
LEMMA AcceptRecords ==
  ASSUME Types, Records, Accept, state = "open", state' = state
  PROVE  Records' /\ J!Register
<1>1. reg' \in Record /\ log' = Append(log, reg')
  BY AcceptMakes
<1>2. UNCHANGED <<disk, buf, sure, tail>> /\ pc = "call" /\ pc' = "write1"
  BY DEF Accept, PutLink
<1>3. log \in Seq(Record) /\ sure \in Nat /\ disk \in Seq(Byte) /\ buf \in Seq(Byte)
  BY DEF Types, Bytes, Logged
<1>4. /\ log' \in Seq(Record) /\ Len(log') = Len(log) + 1 /\ Len(log) \in Nat
      /\ \A n \in 1..Len(log) : log'[n] = log[n]
  BY <1>1, <1>3, AppendProperties
<1>5. SubSeq(log', 1, Len(log)) = log
  <2>1. SubSeq(log', 1, Len(log)) = SubSeq(log, 1, Len(log))
    BY <1>3, <1>4, SamePrefix
  <2> QED BY <1>3, <2>1, SubSeqFull
<1>6. Settled'
  <2>1. Settled /\ Len(Entries(disk)) \in Nat
    BY <1>3, EntriesType DEF Records
  <2>2. sure <= Len(log') /\ \A n \in 1..sure : n \in 1..Len(log)
    BY <1>3, <1>4, <2>1 DEF Settled
  <2> QED BY <1>2, <1>4, <2>1, <2>2 DEF Settled
<1>7. ASSUME tail' = "whole" PROVE Entries(Planned') = log' /\ Whole(Planned')
  <2>1. Entries(Planned) = log /\ Whole(Planned)
    BY <1>2, <1>7 DEF Records
  <2> DEFINE f == disk \o buf
             r == reg'
  <2>2. f \in Seq(Byte)
    BY <1>3, Together
  <2>3. Planned = f
    <3>1. Owed = << >>
      BY <1>2 DEF Owed
    <3> HIDE DEF f
    <3>2. f \o << >> = f
      BY <2>2, ConcatEmptySeq
    <3> QED BY <3>1, <3>2 DEF Planned, f
  <2>4. Planned' = f \o (Int32(Len(r[1])) \o (r[1] \o (Int32(Len(r[2])) \o r[2])))
    BY <1>2 DEF Planned, Owed
  <2>5. r \in Record
    BY <1>1
  <2> HIDE DEF f, r
  <2>6. Entries(Planned') = Append(Entries(f), r) /\ Whole(Planned')
    BY <2>1, <2>2, <2>3, <2>4, <2>5, AppendRecord
  <2> QED BY <1>1, <2>1, <2>3, <2>6 DEF r
<1>8. Records'
  BY <1>2, <1>6, <1>7 DEF Records
<1>9. J!Register
  BY <1>2, <1>4, <1>5 DEF J!Register
<1> QED BY <1>8, <1>9

(* One of the four fwrites: what is owed moves to the buffer, or the file  *)
(* is spoilt.                                                              *)
LEMMA WritePartRecords ==
  ASSUME Types, Records, NEW n \in 1..4, WritePart(n), state = "open", state' = state
  PROVE  Records' /\ [J!Next]_(J!jvars)
<1>1. pc = Writing[n] /\ reg' = reg /\ pc \in WritingSteps
  BY DEF WritePart, Writing, WritingSteps
<1>2. PICK rest \in Seq(Byte) :
        /\ Owed = Writes(reg)[n] \o rest
        /\ pc' = After[n] /\ reg' = reg => Owed' = rest
  BY <1>1, OwedSplit
<1> DEFINE w == Writes(reg)[n]
<1>3. w \in Seq(Byte)
  BY <1>1, WritesType DEF Types, Control
<1>4. disk \in Seq(Byte) /\ buf \in Seq(Byte)
  BY DEF Types, Bytes
<1>5. Owed = w \o rest
  BY <1>2
<1>6. CASE Write(w) /\ pc' = After[n]
  <2>1. buf' = buf \o w /\ UNCHANGED <<disk, log, sure, tail>>
    BY <1>6 DEF Write
  <2>2. Owed' = rest
    BY <1>1, <1>2, <1>6
  <2> HIDE DEF w
  <2>3. Planned' = Planned
    <3>1. Cat(Cat(disk, Cat(buf, w)), rest) = Cat(Cat(disk, buf), Cat(w, rest))
      BY <1>3, <1>4, Shift
    <3>2. Owed = Cat(w, rest) /\ buf' = Cat(buf, w)
      BY <1>5, <2>1 DEF Cat
    <3>3. Planned = Cat(Cat(disk, buf), Owed) /\ Planned' = Cat(Cat(disk', buf'), Owed')
      BY DEF Cat, Planned
    <3> QED BY <2>1, <2>2, <3>1, <3>2, <3>3
  <2>4. Settled'
    BY <2>1 DEF Records, Settled
  <2>5. Records'
    BY <2>1, <2>3, <2>4 DEF Records
  <2>6. UNCHANGED J!jvars
    BY <2>1 DEF J!jvars
  <2> QED BY <2>5, <2>6
<1>7. CASE WriteFails(w)
  <2>1. PICK b \in Parts(buf \o w) : Land(b)
    BY <1>7 DEF WriteFails
  <2> HIDE DEF w
  <2>2. buf \o w \in Seq(Byte)
    BY <1>3, <1>4, Together
  <2>3. b \in Seq(Byte) /\ \E c \in Seq(Byte) : buf \o w = b \o c
    BY <2>2, PartType
  <2>4. PICK c \in Seq(Byte) : buf \o w = b \o c
    BY <2>3
  <2>5. Planned = (disk \o b) \o (c \o rest)
    <3>1. Cat(Cat(disk, Cat(buf, w)), rest) = Cat(Cat(disk, buf), Cat(w, rest))
      BY <1>3, <1>4, Shift
    <3>2. b \in Seq(Byte)
      BY <2>3
    <3>3. Cat(Cat(disk, Cat(b, c)), rest) = Cat(Cat(disk, b), Cat(c, rest))
      BY <1>4, <3>2, Shift
    <3>4. Owed = Cat(w, rest) /\ Cat(buf, w) = Cat(b, c)
      BY <1>5, <2>4 DEF Cat
    <3>5. Planned = Cat(Cat(disk, buf), Owed)
      BY DEF Cat, Planned
    <3>6. Planned = Cat(Cat(disk, b), Cat(c, rest))
      BY <3>1, <3>3, <3>4, <3>5
    <3> QED BY <3>6 DEF Cat
  <2>6. c \o rest \in Seq(Byte)
    BY Together
  <2>7. Settled' /\ sure <= sure'
    BY <2>1, <2>3, <2>5, <2>6, Landing
  <2>8. log' = log /\ tail' = "mixed"
    BY <1>7, <2>1 DEF WriteFails, Land
  <2>9. Records'
    BY <2>7, <2>8 DEF Records
  <2>10. J!Fail
    <3>1. tail = "whole" => sure' \in sure..Len(log)
      <4>1. sure' \in Nat
        BY <2>1, <2>3, LandTypes
      <4>a. sure \in Nat /\ Len(log) \in Nat
        BY DEF Types, Logged
      <4>2. sure' <= Len(log)
        BY <2>7, <2>8 DEF Settled
      <4> QED BY <2>7, <4>1, <4>a, <4>2
    <3>2. tail # "whole" => sure' = sure
      BY <2>1 DEF Land
    <3> QED BY <2>8, <3>1, <3>2 DEF J!Fail, J!Settle
  <2> QED BY <2>9, <2>10 DEF J!Next
<1> QED BY <1>6, <1>7 DEF WritePart

(* The steps of "register".                                                *)
LEMMA RegisterRecords ==
  ASSUME Types, Records, RegisterStep, state = "open"
  PROVE  Records' /\ [J!Next]_(J!jvars)
<1>0. state' = state
  BY DEF RegisterStep
<1>1. CASE Refuse \/ Report
  <2>1. UNCHANGED <<disk, buf, log, sure, tail>>
    BY <1>1 DEF Refuse, Report, svars, PutToken
  <2>2. Owed = << >> /\ Owed' = << >>
    BY <1>1 DEF Refuse, Report, Owed, Done
  <2> QED BY <1>0, <2>1, <2>2, QuietStep
<1>2. CASE Accept
  BY <1>0, <1>2, AcceptRecords DEF J!Next
<1>3. ASSUME NEW n \in 1..4, WritePart(n) PROVE Records' /\ [J!Next]_(J!jvars)
  BY <1>0, <1>3, WritePartRecords
<1> QED BY <1>1, <1>2, <1>3 DEF RegisterStep

(* The process ends: what lands is whole, torn, or behind something torn.  *)
LEMMA EndRecords ==
  ASSUME Types, Records, End, state = "open"
  PROVE  Records' /\ [J!Next]_(J!jvars)
<1>1. PICK b \in Parts(buf) : /\ b \in Seq(Byte) /\ Land(b) /\ tail' = TailAfter(b)
                              /\ \/ pc = "done" /\ state' = "closed" /\ b = buf
                                 \/ state' = "lost"
  BY LandPart
<1>2. disk \in Seq(Byte) /\ buf \in Seq(Byte) /\ Owed \in Seq(Byte)
  BY OwedType DEF Types, Bytes
<1>3. PICK c \in Seq(Byte) : buf = b \o c
  BY <1>2, PartType
<1>4. Planned = (disk \o b) \o (c \o Owed)
  <2>1. b \in Seq(Byte)
    BY <1>1
  <2>2. Cat(Cat(disk, Cat(b, c)), Owed) = Cat(Cat(disk, b), Cat(c, Owed))
    BY <1>2, <2>1, Shift
  <2>3. Planned = Cat(Cat(disk, buf), Owed) /\ buf = Cat(b, c)
    BY <1>3 DEF Cat, Planned
  <2>4. Planned = Cat(Cat(disk, b), Cat(c, Owed))
    BY <2>2, <2>3
  <2> QED BY <2>4 DEF Cat
<1>5. c \o Owed \in Seq(Byte)
  BY <1>2, Together
<1>6. /\ Settled' /\ sure <= sure' /\ disk' \in Seq(Byte)
      /\ tail = "whole" => sure' = Len(Entries(disk'))
  BY <1>1, <1>4, <1>5, Landing
<1>7. log' = log /\ buf' = << >> /\ disk' = disk \o b /\ (tail # "whole" => sure' = sure)
  BY <1>1 DEF Land
<1>8. /\ tail = "whole" /\ Whole(disk') => tail' = "whole"
      /\ tail = "whole" /\ ~Whole(disk') => tail' = "torn"
      /\ tail # "whole" => tail' = IF b = << >> THEN tail ELSE "mixed"
  <2>1. tail' = TailAfter(b)
    BY <1>1
  <2>2. ASSUME tail = "whole", Whole(disk') PROVE tail' = "whole"
    BY <2>1, <2>2 DEF TailAfter
  <2>a. ASSUME tail = "whole", ~Whole(disk') PROVE tail' = "torn"
    BY <2>1, <2>a DEF TailAfter
  <2>3. ASSUME tail # "whole", b = << >> PROVE tail' = tail
    BY <2>1, <2>3 DEF TailAfter
  <2>4. ASSUME tail # "whole", b # << >> PROVE tail' = "mixed"
    BY <2>1, <2>4 DEF TailAfter
  <2> QED BY <2>2, <2>a, <2>3, <2>4
<1>9. tail \in {"whole", "torn", "mixed"} /\ state' \in {"closed", "lost"}
  BY <1>1 DEF Types, Logged
<1>10. Records'
  <2>1. ASSUME tail' # "mixed" PROVE sure' = Len(Entries(disk'))
    <3>1. CASE tail = "whole"
      BY <1>6, <3>1
    <3>2. CASE tail = "torn"
      <4>1. b = << >>
        BY <1>8, <2>1, <3>2
      <4>2. disk' = disk
        BY <1>2, <1>7, <4>1, ConcatEmptySeq
      <4> QED BY <1>7, <3>2, <4>2 DEF Records
    <3>3. CASE tail = "mixed"
      BY <1>8, <2>1, <3>3
    <3> QED BY <1>9, <3>1, <3>2, <3>3
  <2>2. tail' = "whole" => Whole(disk')
    BY <1>8, <1>9
  <2> QED BY <1>6, <1>7, <1>9, <2>1, <2>2 DEF Records
<1>11. sure \in Nat /\ sure' \in Nat /\ Len(log) \in Nat /\ sure' <= Len(log)
  BY <1>1, <1>6, <1>7, LandTypes DEF Types, Logged, Settled
<1>12. CASE state' = "lost"
  <2>1. tail = "whole" => sure' \in sure..Len(log)
    BY <1>6, <1>11
  <2>2. J!Settle(sure)
    BY <1>7, <2>1 DEF J!Settle
  <2>3. /\ tail = "whole" => tail' \in {"whole", "torn"}
        /\ tail # "whole" => tail' \in {tail, "mixed"}
    BY <1>8
  <2>4. J!Lose
    BY <1>7, <1>12, <2>2, <2>3 DEF J!Lose
  <2> QED BY <1>10, <2>4 DEF J!Next
<1>13. CASE pc = "done" /\ state' = "closed" /\ b = buf
  <2>1. ASSUME tail = "whole" PROVE sure' = Len(log) /\ tail' = "whole"
    <3>1. Owed = << >>
      BY <1>13 DEF Owed
    <3>2. disk \o buf \in Seq(Byte)
      BY <1>2, Together
    <3>3. Planned = disk'
      <4> DEFINE f == disk \o buf
      <4>1. f \in Seq(Byte) /\ disk' = f
        BY <1>7, <1>13, <3>2
      <4> HIDE DEF f
      <4>2. f \o << >> = f
        BY <4>1, ConcatEmptySeq
      <4> QED BY <3>1, <4>1, <4>2 DEF Planned, f
    <3>4. Entries(disk') = log /\ Whole(disk')
      BY <2>1, <3>3 DEF Records
    <3> QED BY <1>6, <1>8, <2>1, <3>4
  <2>2. J!Settle(Len(log))
    <3>1. tail = "whole" => sure' \in Len(log)..Len(log)
      BY <1>11, <2>1
    <3> QED BY <1>7, <3>1 DEF J!Settle
  <2>3. tail' = tail \/ (tail = "torn" /\ tail' = "mixed")
    BY <1>8, <1>9, <2>1
  <2>4. J!Close
    BY <1>7, <1>13, <2>2, <2>3 DEF J!Close
  <2> QED BY <1>10, <2>4 DEF J!Next
<1> QED BY <1>1, <1>12, <1>13

(* Another process reads the file: it finds what was sure, and no more     *)
(* unless the file is spoilt.                                              *)
LEMMA RestartRecords ==
  ASSUME Types, Records, Restart
  PROVE  Records' /\ [J!Next]_(J!jvars)
<1>1. /\ disk' = disk /\ buf' = buf /\ pc' = "check"
      /\ state # "open" /\ state' = "open" /\ sure' = sure /\ tail' = tail
      /\ log' = Entries(disk)
  BY DEF Restart, Load, OpenToAppend
<1>2. disk \in Seq(Byte) /\ buf = << >> /\ log \in Seq(Record) /\ sure \in Nat
  BY <1>1 DEF Types, Bytes, Logged, Records
<1>3. Entries(disk) \in Seq(Record)
  BY <1>2, EntriesType
<1>4. Settled
  BY DEF Records
<1>5. Settled'
  <2>1. Len(Entries(disk)) \in Nat
    BY <1>3
  <2> QED BY <1>1, <1>2, <1>4, <2>1 DEF Settled
<1>6. Planned' = disk
  <2>1. disk \o << >> = disk
    BY <1>2, ConcatEmptySeq
  <2>2. Owed' = << >>
    BY <1>1 DEF Owed
  <2> QED BY <1>1, <1>2, <2>1, <2>2 DEF Planned
<1>7. Records'
  BY <1>1, <1>2, <1>5, <1>6 DEF Records
<1>8. SubSeq(log', 1, sure) = SubSeq(log, 1, sure)
  BY <1>1, <1>2, <1>3, <1>4, SamePrefix DEF Settled
<1>9. J!Open
  BY <1>1, <1>4, <1>8 DEF J!Open, Settled, Records
<1> QED BY <1>7, <1>9 DEF J!Next

(* The second part is inductive, and each step is one of Journal or a      *)
(* stutter.                                                                *)
LEMMA RecordsNext ==
  ASSUME Types, Records, [Next]_rvars
  PROVE  Records' /\ [J!Next]_(J!jvars)
<1>1. CASE UNCHANGED rvars \/ StartFails
  <2>1. UNCHANGED <<disk, buf, log, sure, tail, state, pc, reg>>
    BY <1>1 DEF rvars, cvars, svars, StartFails
  <2>2. Owed' = Owed
    BY <2>1 DEF Owed
  <2> QED BY <2>1, <2>2, QuietStep
<1>2. CASE Next
  BY <1>1, <1>2, TypedRecords, ConsoleRecords, RegisterRecords, EndRecords, RestartRecords DEF Next
<1> QED BY <1>1, <1>2

(* Both parts hold of every behaviour: what the file and the buffer say,   *)
(* and what the map holds, is what was registered.                         *)
THEOREM RegistryInvariance == Spec => [](Types /\ Records)
<1>1. Init => Types /\ Records
  BY TypesInit, RecordsInit
<1>2. Types /\ Records /\ [Next]_rvars => Types' /\ Records'
  BY TypesNext, RecordsNext
<1> QED BY <1>1, <1>2, PTL DEF Spec

(* The bytes, and the steps of "register", are as the model types them.    *)
THEOREM RegistryTypes == Spec => []TypeOK
<1>1. Types => TypeOK
  <2> SUFFICES ASSUME Types PROVE TypeOK
    OBVIOUS
  <2> USE DEF Types
  <2>1. disk \in Seq(0..255) /\ buf \in Seq(0..255) /\ stdin \in Seq(0..255)
    BY DEF Bytes, Byte
  <2>2. ASSUME NEW r \in Record PROVE r # Idle
    BY <2>2 DEF Record, Idle
  <2>3. {Writing[n] : n \in 1..4} = {"write1", "write2", "write3", "write4"}
    BY DEF Writing
  <2>4. reg # Idle <=> pc \in {Writing[n] : n \in 1..4} \cup {"token"}
    BY <2>2, <2>3 DEF Control, WritingSteps
  <2>5. \A d \in DOMAIN links : <<d, links[d]>> \in {log[n] : n \in DOMAIN log}
    BY DEF Logged
  <2> QED BY <2>1, <2>4, <2>5 DEF TypeOK, Control, Logged
<1> QED BY <1>1, RegistryInvariance, PTL

(* The bytes keep the promise of Journal: what once is in the file behind  *)
(* nothing else is found by every later process.                           *)
THEOREM RegistryImplementsJournal == Spec => ImplementsJournal
<1>1. Init => J!Init
  BY DEF Init, SInit, J!Init
<1>2. Types /\ Records /\ [Next]_rvars => [J!Next]_(J!jvars)
  BY RecordsNext
<1> QED BY <1>1, <1>2, RegistryInvariance, PTL DEF Spec, ImplementsJournal, J!Spec

-----------------------------------------------------------------------------
(* A domain is registered once: in the whole log, as long as the file is   *)
(* not spoilt, and among what is sure, even then.                          *)
Distinct ==
  /\ RegisteredOnce
  /\ tail # "mixed" => \A n, m \in DOMAIN log : log[n][1] = log[m][1] => n = m

(* Steps that leave the log alone.                                         *)
LEMMA DistinctKept ==
  ASSUME Distinct, log' = log, tail # "whole" => sure' = sure,
         tail = "whole" \/ tail = "torn" \/ tail' = "mixed"
  PROVE  Distinct'
<1>1. tail' # "mixed" => \A n, m \in DOMAIN log' : log'[n][1] = log'[m][1] => n = m
  BY DEF Distinct
<1>2. RegisteredOnce'
  BY DEF Distinct, RegisteredOnce
<1> QED BY <1>1, <1>2 DEF Distinct

(* A registration is accepted only if its domain is not in the map.        *)
LEMMA AcceptDistinct ==
  ASSUME Types, Records, Distinct, Accept, state' = state
  PROVE  Distinct'
<1>1. reg' \in Record /\ reg'[1] \notin DOMAIN links /\ log' = Append(log, reg')
  BY AcceptMakes
<1>2. UNCHANGED <<sure, tail>>
  BY DEF Accept, PutLink
<1>3. log \in Seq(Record) /\ sure \in Nat /\ DOMAIN links = {log[n][1] : n \in DOMAIN log}
  BY DEF Types, Logged
<1>4. /\ log' \in Seq(Record) /\ Len(log') = Len(log) + 1 /\ Len(log) \in Nat
      /\ \A n \in 1..Len(log) : log'[n] = log[n]
      /\ log'[Len(log) + 1] = reg'
  BY <1>1, <1>3, AppendProperties
<1>5. \A n \in DOMAIN log : log'[n] = log[n] /\ log'[n][1] # reg'[1]
  BY <1>1, <1>3, <1>4
<1>6. DOMAIN log' = DOMAIN log \cup {Len(log) + 1}
  BY <1>3, <1>4
<1>7. Len(log) + 1 \notin 1..sure
  <2>1. sure <= Len(log)
    BY DEF Records, Settled
  <2> QED BY <1>3, <1>4, <2>1
<1>8. RegisteredOnce'
  BY <1>2, <1>5, <1>6, <1>7 DEF Distinct, RegisteredOnce
<1>9. tail' # "mixed" => \A n, m \in DOMAIN log' : log'[n][1] = log'[m][1] => n = m
  BY <1>2, <1>4, <1>5, <1>6 DEF Distinct
<1> QED BY <1>8, <1>9 DEF Distinct

(* A log that was read back is the beginning of the one before.            *)
LEMMA RestartDistinct ==
  ASSUME Types, Records, Distinct, Restart
  PROVE  Distinct'
<1>1. sure' = sure /\ tail' = tail /\ log' = Entries(disk)
  BY DEF Restart, Load, OpenToAppend
<1>2. disk \in Seq(Byte) /\ log \in Seq(Record) /\ sure \in Nat
  BY DEF Types, Bytes, Logged
<1>3. Entries(disk) \in Seq(Record)
  BY <1>2, EntriesType
<1>4. /\ sure <= Len(Entries(disk)) /\ sure <= Len(log)
      /\ \A n \in 1..sure : Entries(disk)[n] = log[n]
      /\ tail # "mixed" => sure = Len(Entries(disk))
  BY DEF Records, Settled
<1>5. \A n \in 1..sure : n \in DOMAIN log /\ log'[n] = log[n]
  BY <1>1, <1>2, <1>4
<1>6. RegisteredOnce'
  BY <1>1, <1>5 DEF Distinct, RegisteredOnce
<1>7. tail' # "mixed" => DOMAIN log' = 1..sure
  BY <1>1, <1>3, <1>4
<1> QED BY <1>1, <1>5, <1>6, <1>7 DEF Distinct, RegisteredOnce

(* Distinct is inductive.                                                  *)
LEMMA DistinctNext ==
  ASSUME Types, Records, Distinct, [Next]_rvars
  PROVE  Distinct'
<1>1. ASSUME UNCHANGED <<log, sure, tail>> PROVE Distinct'
  <2>1. RegisteredOnce'
    BY <1>1 DEF Distinct, RegisteredOnce
  <2> QED BY <1>1, <2>1 DEF Distinct
<1>2. CASE UNCHANGED rvars \/ StartFails
  BY <1>1, <1>2 DEF rvars, svars, StartFails
<1>3. CASE Typed \/ ConsoleStep
  BY <1>1, <1>3 DEF Typed, ConsoleStep, svars
<1>4. CASE RegisterStep
  <2>0. state' = state
    BY <1>4 DEF RegisterStep
  <2>1. CASE Refuse \/ Report
    BY <1>1, <2>1 DEF Refuse, Report, svars, PutToken
  <2>2. CASE Accept
    BY <2>0, <2>2, AcceptDistinct
  <2>3. ASSUME NEW n \in 1..4, WritePart(n) PROVE Distinct'
    <3>1. CASE Write(Writes(reg)[n])
      BY <1>1, <3>1 DEF Write
    <3>2. CASE WriteFails(Writes(reg)[n])
      <4>1. /\ log' = log /\ tail' = "mixed"
            /\ tail # "whole" => sure' = sure
        BY <3>2 DEF WriteFails, Land
      <4> QED BY <4>1, DistinctKept
    <3> QED BY <2>3, <3>1, <3>2 DEF WritePart
  <2> QED BY <1>4, <2>1, <2>2, <2>3 DEF RegisterStep
<1>5. CASE End
  <2>1. PICK b \in Seq(Byte) : Land(b) /\ tail' = TailAfter(b)
    BY <1>5, LandPart
  <2>2. log' = log /\ (tail # "whole" => sure' = sure)
    BY <2>1 DEF Land
  <2>3. tail = "whole" \/ tail = "torn" \/ tail' = "mixed"
    BY <2>1 DEF TailAfter, Types, Logged
  <2> QED BY <2>2, <2>3, DistinctKept
<1>6. CASE Restart
  BY <1>6, RestartDistinct
<1> QED BY <1>2, <1>3, <1>4, <1>5, <1>6 DEF Next

(* Among the registrations that later processes are sure to find, each     *)
(* domain has one.                                                         *)
THEOREM Once == Spec => []RegisteredOnce
<1>1. Init => Distinct
  BY DEF Init, SInit, Distinct, RegisteredOnce
<1>2. Types /\ Records /\ Distinct /\ [Next]_rvars => Distinct'
  BY DistinctNext
<1>3. Distinct => RegisteredOnce
  BY DEF Distinct
<1> QED BY <1>1, <1>2, <1>3, RegistryInvariance, PTL DEF Spec
-----------------------------------------------------------------------------
(* What is left to read is the end of a line typed, from a place where the *)
(* buffer was full.                                                        *)
RestOf(s, l) ==
  /\ l \in Seq(Byte)
  /\ \A k \in 1..(Len(l) - 1) : l[k] # Newline
  /\ \E c \in 0..Len(l) :
       /\ c <= c * (BufferSize - 1) /\ c * (BufferSize - 1) < Len(l)
       /\ s = SubSeq(l, c * (BufferSize - 1) + 1, Len(l))

Reading ==
  /\ stdin # << >> => \E l \in typed : RestOf(stdin, l)
  /\ RunsWhatWasTyped

(* A line is typed: what is left to read is all of it.                     *)
LEMMA TypedReading ==
  ASSUME Types, Reading, Typed
  PROVE  Reading'
<1>1. pc = "read" /\ pc' = "read"
  BY DEF Typed, Type
<1>2. PICK l \in Line : stdin' = l \/ stdin' = Front(l)
  BY TypedTypes
<1>3. stdin' \in Seq(Byte) /\ typed' = typed \cup {stdin'}
  BY TypedTypes DEF Typed, Types, Bytes
<1>4. l \in Seq(Byte) /\ l # << >> /\ \A k \in 1..Len(l) : l[k] = Newline <=> k = Len(l)
  BY ConsoleAssumption
<1>5. \A k \in 1..(Len(stdin') - 1) : stdin'[k] # Newline
  <2>1. CASE stdin' = l
    BY <1>4, <2>1
  <2>2. CASE stdin' = Front(l)
    <3> DEFINE y == Len(l) - 1
    <3>1. y \in Nat /\ \A k \in 1..y : l[k] \in Byte
      BY <1>4
    <3>2. \A k \in 1..y : l[k] # Newline
      BY <1>4
    <3> HIDE DEF y
    <3>3. /\ SubSeq(l, 1, y) \in Seq(Byte) /\ Len(SubSeq(l, 1, y)) = y
          /\ \A k \in 1..y : SubSeq(l, 1, y)[k] = l[k]
      BY <3>1, SubSeqProperties
    <3>4. stdin' = SubSeq(l, 1, y)
      BY <2>2 DEF Front, y
    <3> QED BY <3>1, <3>2, <3>3, <3>4
  <2> QED BY <1>2, <2>1, <2>2
<1>6. ASSUME stdin' # << >> PROVE RestOf(stdin', stdin')
  <2>1. 0 * (BufferSize - 1) = 0
    BY ConsoleAssumption
  <2>2. Len(stdin') \in Nat /\ Len(stdin') > 0
    BY <1>3, <1>6
  <2>3. SubSeq(stdin', 1, Len(stdin')) = stdin'
    BY <1>3, SubSeqFull
  <2> QED BY <1>3, <1>5, <2>1, <2>2, <2>3 DEF RestOf
<1>7. RunsWhatWasTyped'
  BY <1>1 DEF RunsWhatWasTyped
<1> QED BY <1>3, <1>6, <1>7 DEF Reading

(* A read takes the next piece of the line.                                *)
LEMMA ReadLineReading ==
  ASSUME Types, Reading, ReadLine, typed' = typed
  PROVE  Reading'
<1> DEFINE n == Min({Len(stdin), Room} \cup {k \in DOMAIN stdin : stdin[k] = Newline})
           B == BufferSize - 1
<1>1. stdin \in Seq(Byte) /\ stdin # << >>
  BY DEF Types, Bytes, ReadLine
<1>2. /\ n \in 1..Len(stdin) /\ n <= B
      /\ n = Len(stdin) \/ n = B \/ stdin[n] = Newline
  BY <1>1, ReadLength
<1>3. /\ argv' = Words(Text(SubSeq(stdin, 1, n)))
      /\ stdin' = SubSeq(stdin, n + 1, Len(stdin))
  BY DEF ReadLine
<1> HIDE DEF n
<1>4. B \in Nat /\ B >= 1
  BY ConsoleAssumption
<1>5. PICK l \in typed : RestOf(stdin, l)
  BY <1>1 DEF Reading
<1>6. PICK c \in 0..Len(l) : /\ c <= c * B /\ c * B < Len(l)
                             /\ stdin = SubSeq(l, c * B + 1, Len(l))
  BY <1>5 DEF RestOf
<1> DEFINE k == c * B
<1>7. l \in Seq(Byte) /\ \A j \in 1..(Len(l) - 1) : l[j] # Newline
  BY <1>5 DEF RestOf
<1>8. k \in Nat /\ k < Len(l) /\ Len(l) \in Nat /\ c \in Nat /\ c <= k
  <2>1. c \in Nat /\ Len(l) \in Nat
    BY <1>6, <1>7
  <2>2. k \in Nat
    BY <1>4, <2>1
  <2> QED BY <1>6, <2>1, <2>2
<1>9. stdin = SubSeq(l, k + 1, Len(l))
  BY <1>6
<1>a. k + B = (c + 1) * B
  <2> HIDE DEF B
  <2> QED BY <1>4, <1>8
<1> HIDE DEF B, k
<1>10. /\ Len(stdin) = Len(l) - k
       /\ \A j \in 1..Len(stdin) : stdin[j] = l[k + j]
  <2>1. \A j \in (k + 1)..Len(l) : l[j] \in Byte
    BY <1>7, <1>8
  <2> DEFINE s == SubSeq(l, k + 1, Len(l))
  <2>2. /\ Len(s) = Len(l) - (k + 1) + 1
        /\ \A j \in 1..(Len(l) - (k + 1) + 1) : s[j] = l[(k + 1) + j - 1]
    BY <1>8, <2>1, SubSeqProperties
  <2> HIDE DEF s
  <2>3. Len(l) - (k + 1) + 1 = Len(l) - k /\ \A j \in Nat : (k + 1) + j - 1 = k + j
    BY <1>8
  <2>4. Len(s) = Len(l) - k
    BY <2>2, <2>3
  <2>5. ASSUME NEW j \in 1..Len(s) PROVE s[j] = l[k + j]
    BY <1>8, <2>2, <2>3, <2>4
  <2> QED BY <1>9, <2>4, <2>5 DEF s
<1>11. n = Len(stdin) \/ n = B
  <2> SUFFICES ASSUME stdin[n] = Newline PROVE n = Len(stdin)
    BY <1>2
  <2>1. l[k + n] = Newline /\ k + n \in 1..Len(l)
    BY <1>2, <1>8, <1>10
  <2>2. k + n = Len(l)
    BY <1>7, <1>8, <2>1
  <2>3. n \in Nat /\ Len(stdin) = Len(l) - k
    BY <1>2, <1>10
  <2>4. n = Len(l) - k
    BY <1>8, <2>2, <2>3
  <2> QED BY <2>3, <2>4
<1>12. k + n = Min({k + B, Len(l)})
  <2> DEFINE E == {k + B, Len(l)}
  <2>1. E \subseteq Nat /\ E # {}
    BY <1>4, <1>8
  <2>2. \A j \in E : j = k + B \/ j = Len(l)
    OBVIOUS
  <2>3. k + B \in E /\ Len(l) \in E
    OBVIOUS
  <2> HIDE DEF E
  <2>4. Min(E) \in E /\ \A j \in E : Min(E) <= j
    BY <2>1, MinIs
  <2> DEFINE m == Min(E)
             L == Len(l)
             M == Len(stdin)
  <2>5. /\ m \in {k + B, L} /\ m <= k + B /\ m <= L
        /\ M = L - k /\ n \in Nat /\ n <= M /\ n <= B /\ (n = M \/ n = B)
        /\ L \in Nat /\ k \in Nat /\ B \in Nat
    BY <1>2, <1>4, <1>8, <1>10, <1>11, <2>2, <2>3, <2>4
  <2> HIDE DEF m, L, M
  <2>6. k + n = m
    BY <2>5
  <2> QED BY <2>6 DEF m, E
<1>13. ASSUME NEW i \in 1..Len(stdin), NEW j \in 1..Len(stdin)
       PROVE  SubSeq(stdin, i, j) = SubSeq(l, k + i, k + j)
  <2> DEFINE a == k + 1
             L == Len(l)
             z == L - a + 1
  <2>1. a \in 1..L /\ L \in 1..L /\ i \in 1..z /\ j \in 1..z
    BY <1>8, <1>10
  <2>2. a + i - 1 = k + i /\ a + j - 1 = k + j
    BY <1>8, <1>10
  <2>3. \A t \in Seq(Byte) : \A p, q \in 1..Len(t) : \A u, v \in 1..(q - p + 1) :
          SubSeq(SubSeq(t, p, q), u, v) = SubSeq(t, p + u - 1, p + v - 1)
    BY SubSeqOfSubSeq
  <2>4. stdin = SubSeq(l, a, L)
    BY <1>9
  <2> HIDE DEF a
  <2>5. SubSeq(SubSeq(l, a, L), i, j) = SubSeq(l, a + i - 1, a + j - 1)
    BY <1>7, <2>1, <2>3, Zenon
  <2> QED BY <2>2, <2>4, <2>5
<1>14. RunsWhatWasTyped'
  <2>1. SubSeq(stdin, 1, n) = SubSeq(l, k + 1, Min({k + B, Len(l)}))
    <3>1. 1 \in 1..Len(stdin)
      BY <1>2
    <3> QED BY <1>2, <1>12, <1>13, <3>1
  <2>2. k \in {i * B : i \in 0..Len(l)} \cap 0..(Len(l) - 1)
    BY <1>6, <1>8 DEF k
  <2>3. SubSeq(stdin, 1, n) \in Pieces(l)
    <3>1. k + B = k + BufferSize - 1
      BY <1>8, ConsoleAssumption DEF B
    <3> QED BY <2>1, <2>2, <3>1 DEF Pieces, B
  <2> QED BY <1>3, <2>3 DEF RunsWhatWasTyped
<1>15. ASSUME stdin' # << >> PROVE RestOf(stdin', l)
  <2>1. n < Len(stdin)
    <3>1. n + 1 > Len(stdin) => stdin' = << >>
      BY <1>2, <1>3, SubSeqEmpty
    <3> QED BY <1>2, <1>15, <3>1
  <2>2. n = B /\ k + n < Len(l) /\ k + n \in Nat
    BY <1>2, <1>8, <1>10, <1>11, <2>1
  <2>3. stdin' = SubSeq(l, k + n + 1, Len(l))
    <3>1. n + 1 \in 1..Len(stdin) /\ Len(stdin) \in 1..Len(stdin)
      BY <1>2, <2>1
    <3>2. stdin' = SubSeq(l, k + (n + 1), k + Len(stdin))
      BY <1>3, <1>13, <3>1
    <3>3. k + (n + 1) = k + n + 1 /\ k + Len(stdin) = Len(l)
      BY <1>2, <1>8, <1>10
    <3> QED BY <3>2, <3>3
  <2>4. c + 1 \in 0..Len(l) /\ c + 1 <= k + B
    BY <1>4, <1>8, <2>2
  <2>5. (c + 1) * (BufferSize - 1) = k + n
    BY <1>a, <2>2 DEF B
  <2> QED BY <1>7, <2>2, <2>3, <2>4, <2>5 DEF RestOf
<1> QED BY <1>14, <1>15 DEF Reading

(* Reading is inductive.                                                   *)
LEMMA ReadingNext ==
  ASSUME Types, Reading, [Next]_rvars
  PROVE  Reading'
<1>1. ASSUME UNCHANGED <<stdin, typed>>, pc' # "call" \/ UNCHANGED <<pc, argv>>
      PROVE  Reading'
  <2>1. RunsWhatWasTyped'
    BY <1>1 DEF Reading, RunsWhatWasTyped
  <2>2. \A l : RestOf(stdin, l) => RestOf(stdin', l)
    BY <1>1
  <2> QED BY <1>1, <2>1, <2>2 DEF Reading
<1>2. CASE UNCHANGED rvars \/ StartFails
  BY <1>1, <1>2 DEF rvars, cvars, StartFails
<1>3. CASE Typed
  BY <1>3, TypedReading
<1>4. CASE ConsoleStep
  <2>1. CASE ReadLine
    BY <1>4, <2>1, ReadLineReading DEF ConsoleStep
  <2>2. CASE CheckFinished \/ ReadNothing \/ CallStop \/ CallOther
    BY <1>1, <1>4, <2>2
       DEF ConsoleStep, CheckFinished, ReadNothing, CallStop, CallOther, Done
  <2> QED BY <1>4, <2>1, <2>2 DEF ConsoleStep
<1>5. CASE RegisterStep
  <2>1. UNCHANGED <<stdin, typed>>
    BY <1>5 DEF RegisterStep, Refuse, Accept, WritePart, Report
  <2>2. pc' # "call"
    BY <1>5 DEF RegisterStep, Refuse, Accept, WritePart, Report, Done, After
  <2> QED BY <1>1, <2>1, <2>2
<1>6. CASE End
  BY <1>1, <1>6 DEF End, cvars
<1>7. CASE Restart
  BY <1>7 DEF Restart, Reading, RunsWhatWasTyped
<1> QED BY <1>2, <1>3, <1>4, <1>5, <1>6, <1>7 DEF Next

(* The command that is called is a line typed, or a part of one that begins*)
(* where the buffer was full.                                              *)
THEOREM RunsTyped == Spec => []RunsWhatWasTyped
<1>1. Init => Reading
  BY DEF Init, CInit, Reading, RunsWhatWasTyped
<1>2. Types /\ Reading /\ [Next]_rvars => Reading'
  BY ReadingNext
<1>3. Reading => RunsWhatWasTyped
  BY DEF Reading
<1> QED BY <1>1, <1>2, <1>3, RegistryInvariance, PTL DEF Spec

-----------------------------------------------------------------------------
(* A piece of a line is bytes, and fits the buffer.                        *)
LEMMA PieceType ==
  ASSUME NEW l \in Seq(Byte), NEW p \in Pieces(l)
  PROVE  p \in Seq(Byte) /\ Len(p) < BufferSize
<1>1. PICK k \in 0..(Len(l) - 1) : p = SubSeq(l, k + 1, Min({k + BufferSize - 1, Len(l)}))
  BY DEF Pieces
<1> DEFINE E == {k + BufferSize - 1, Len(l)}
           m == Min(E)
<1>2. BufferSize \in Nat /\ BufferSize >= 1 /\ Len(l) \in Nat /\ k \in Nat /\ k < Len(l)
  BY <1>1, ConsoleAssumption
<1>3. E \subseteq Nat /\ k + BufferSize - 1 \in E /\ Len(l) \in E
  BY <1>2
<1>4. \A x \in E : x >= k
  BY <1>2
<1> HIDE DEF E
<1>5. m \in E /\ \A x \in E : m <= x
  BY <1>3, MinIs
<1>6. m \in Nat /\ m >= k /\ m <= Len(l) /\ m <= k + BufferSize - 1
  BY <1>2, <1>3, <1>4, <1>5
<1>7. p = SubSeq(l, k + 1, m)
  BY <1>1 DEF E
<1> HIDE DEF m
<1>8. \A x \in (k + 1)..m : l[x] \in Byte
  BY <1>2, <1>6
<1>9. k + 1 \in Int /\ m \in Int
  BY <1>2, <1>6
<1>10. p \in Seq(Byte) /\ Len(p) = IF k + 1 <= m THEN m - (k + 1) + 1 ELSE 0
  BY <1>7, <1>8, <1>9, SubSeqProperties
<1> QED BY <1>2, <1>6, <1>10

(* What the map holds was asked for.                                       *)
Asked(r) == \E l \in typed : \E p \in Pieces(l) : AsksFor(p, r[1], r[2])

Heard ==
  /\ typed \subseteq Seq(Byte)
  /\ tail # "mixed" => \A n \in DOMAIN log : Asked(log[n])

(* Steps that leave the log alone.                                         *)
LEMMA HeardKept ==
  ASSUME Heard, UNCHANGED log, typed \subseteq typed', typed' \subseteq Seq(Byte),
         tail = "mixed" => tail' = "mixed"
  PROVE  Heard'
<1>1. ASSUME tail' # "mixed", NEW n \in DOMAIN log' PROVE Asked(log[n])'
  <2>1. PICK l \in typed : \E p \in Pieces(l) : AsksFor(p, log[n][1], log[n][2])
    BY <1>1 DEF Heard, Asked
  <2> QED BY <2>1 DEF Asked
<1> QED BY <1>1 DEF Heard

(* A registration is accepted because a line asks for it.                  *)
LEMMA AcceptHeard ==
  ASSUME Types, Reading, Heard, Accept, UNCHANGED <<state, typed>>
  PROVE  Heard'
<1>1. /\ reg' = <<argv[2], Cut(argv[3])>> /\ reg' \in Record
      /\ log' = Append(log, reg')
  BY AcceptMakes
<1>2. log \in Seq(Record) /\ tail' = tail
  BY DEF Types, Logged, Accept, PutLink
<1>3. /\ Len(log') = Len(log) + 1 /\ DOMAIN log' = 1..(Len(log) + 1) /\ Len(log) \in Nat
      /\ \A n \in 1..Len(log) : log'[n] = log[n]
      /\ log'[Len(log) + 1] = reg'
  <2>1. log' \in Seq(Record)
    BY <1>1, <1>2, AppendProperties
  <2> QED BY <1>1, <1>2, <2>1, AppendProperties
<1>4. pc = "call" /\ Registers(argv)
  BY DEF Accept
<1>5. PICK l \in typed : \E p \in Pieces(l) : argv = Words(Text(p))
  BY <1>4 DEF Reading, RunsWhatWasTyped
<1>6. PICK p \in Pieces(l) : argv = Words(Text(p))
  BY <1>5
<1>7. p \in Seq(Byte) /\ Len(p) < BufferSize
  BY <1>5, PieceType DEF Heard
<1>8. AsksFor(p, argv[2], Cut(argv[3]))
  BY <1>4, <1>6, <1>7, WordsAsk
<1>9. AsksFor(p, reg'[1], reg'[2])
  BY <1>1, <1>8
<1>10. ASSUME tail' # "mixed", NEW n \in DOMAIN log' PROVE Asked(log[n])'
  <2>1. CASE n = Len(log) + 1
    BY <1>3, <1>5, <1>9, <2>1 DEF Asked
  <2>2. CASE n # Len(log) + 1
    <3>1. n \in DOMAIN log /\ log'[n] = log[n]
      BY <1>2, <1>3, <2>2
    <3>2. PICK k \in typed : \E q \in Pieces(k) : AsksFor(q, log[n][1], log[n][2])
      BY <1>2, <1>10, <3>1 DEF Heard, Asked
    <3> QED BY <3>1, <3>2 DEF Asked
  <2> QED BY <2>1, <2>2
<1> QED BY <1>10 DEF Heard

(* What is read back was asked for when it was registered.                 *)
LEMMA RestartHeard ==
  ASSUME Types, Records, Heard, Restart
  PROVE  Heard'
<1>1. tail' = tail /\ log' = Entries(disk) /\ typed' = typed
  BY DEF Restart, Load, OpenToAppend
<1>2. disk \in Seq(Byte) /\ log \in Seq(Record) /\ sure \in Nat
  BY DEF Types, Bytes, Logged
<1>3. Entries(disk) \in Seq(Record)
  BY <1>2, EntriesType
<1>4. /\ sure <= Len(log)
      /\ \A n \in 1..sure : Entries(disk)[n] = log[n]
      /\ tail # "mixed" => sure = Len(Entries(disk))
  BY DEF Records, Settled
<1>5. ASSUME tail' # "mixed", NEW n \in DOMAIN log' PROVE Asked(log[n])'
  <2>1. n \in 1..sure /\ n \in DOMAIN log /\ log'[n] = log[n]
    BY <1>1, <1>2, <1>3, <1>4, <1>5
  <2>2. PICK k \in typed : \E q \in Pieces(k) : AsksFor(q, log[n][1], log[n][2])
    BY <1>1, <1>5, <2>1 DEF Heard, Asked
  <2> QED BY <1>1, <2>1, <2>2 DEF Asked
<1> QED BY <1>1, <1>5 DEF Heard

(* Heard is inductive.                                                     *)
LEMMA HeardNext ==
  ASSUME Types, Records, Reading, Heard, [Next]_rvars
  PROVE  Heard'
<1>0. typed \subseteq Seq(Byte)
  BY DEF Heard
<1>1. CASE UNCHANGED <<log, typed>> /\ (tail = "mixed" => tail' = "mixed")
  BY <1>0, <1>1, HeardKept
<1>2. CASE UNCHANGED rvars \/ StartFails
  BY <1>1, <1>2 DEF rvars, svars, StartFails
<1>3. CASE Typed
  <2>1. typed' \subseteq Seq(Byte) /\ typed \subseteq typed' /\ UNCHANGED <<log, tail>>
    BY <1>0, <1>3, TypedTypes DEF Types, Bytes, Typed, svars
  <2> QED BY <2>1, HeardKept
<1>4. CASE ConsoleStep
  BY <1>1, <1>4 DEF ConsoleStep, svars
<1>5. CASE RegisterStep
  <2>0. UNCHANGED <<state, typed>>
    BY <1>5 DEF RegisterStep
  <2>1. CASE Refuse \/ Report
    BY <1>1, <2>0, <2>1 DEF Refuse, Report, svars, PutToken
  <2>2. CASE Accept
    BY <2>0, <2>2, AcceptHeard
  <2>3. ASSUME NEW n \in 1..4, WritePart(n) PROVE Heard'
    <3>1. UNCHANGED log /\ (tail = "mixed" => tail' = "mixed")
      BY <2>3 DEF WritePart, Write, WriteFails, Land
    <3> QED BY <1>1, <2>0, <3>1
  <2> QED BY <1>5, <2>1, <2>2, <2>3 DEF RegisterStep
<1>6. CASE End
  <2>1. PICK b \in Seq(Byte) : Land(b) /\ tail' = TailAfter(b)
    BY <1>6, LandPart
  <2>2. log' = log /\ typed' = typed
    BY <1>6, <2>1 DEF Land, End
  <2>3. tail = "mixed" => tail' = "mixed"
    BY <2>1 DEF TailAfter
  <2> QED BY <1>1, <2>2, <2>3
<1>7. CASE Restart
  BY <1>7, RestartHeard
<1> QED BY <1>2, <1>3, <1>4, <1>5, <1>6, <1>7 DEF Next

(* As long as the file holds whole entries only, the map links domains to  *)
(* what an operator asked for.                                             *)
THEOREM LinkedTyped == Spec => []LinkedAsTyped
<1>1. Init => Reading /\ Heard
  BY DEF Init, CInit, SInit, Reading, RunsWhatWasTyped, Heard
<1>2. Types /\ Records /\ (Reading /\ Heard) /\ [Next]_rvars => (Reading /\ Heard)'
  BY ReadingNext, HeardNext
<1>3. Types /\ Heard => LinkedAsTyped
  <2> SUFFICES ASSUME Types, Heard, tail # "mixed", NEW d \in DOMAIN links
               PROVE  \E l \in typed : \E p \in Pieces(l) : AsksFor(p, d, links[d])
    BY DEF LinkedAsTyped
  <2>1. PICK n \in DOMAIN log : log[n] = <<d, links[d]>>
    BY DEF Types, Logged
  <2>2. Asked(log[n])
    BY DEF Heard
  <2> QED BY <2>1, <2>2 DEF Asked
<1> QED BY <1>1, <1>2, <1>3, RegistryInvariance, PTL DEF Spec
==============================================================================
