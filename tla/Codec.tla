-------------------------------- MODULE Codec --------------------------------
(***************************************************************************)
(* dns/codec.c: DNS messages to bytes and back.                            *)
(*                                                                         *)
(* A message is its header and four sections: questions, answers,          *)
(* authorities, additionals.  The counts of the header are kept apart from *)
(* the sections, as in dnsmsg_t: it is the counts the loops go by.  A      *)
(* label is the sequence of its bytes, name_size its length.               *)
(***************************************************************************)
EXTENDS Naturals, Sequences, SequencesExt

Sections == 1..4

(* What the types of message.h can hold.                                   *)
uint16 == 0..65535
dnsmsg_label    == {l \in Seq(0..255) : Len(l) \in 1..255}
Labels          == {ls \in Seq(dnsmsg_label) : Len(ls) \in uint16}
dnsmsg_question == [labels : Labels, type : uint16, class : uint16]
dnsmsg_rr       ==
  {r \in [labels : Labels, type : uint16, class : uint16, ttl : Nat,
          size : uint16, data : Seq(0..255)] :
     r.ttl \div 65536 \in uint16 /\ Len(r.data) = r.size}

(* A message with as many elements as its header says.                     *)
WellFormed(m) ==
  /\ m \in [id : uint16, flags : uint16, count : [Sections -> uint16],
            section : [Sections -> Seq(dnsmsg_question) \cup Seq(dnsmsg_rr)]]
  /\ \A s \in Sections : /\ Len(m.section[s]) = m.count[s]
                         /\ m.section[s] \in Seq(IF s = 1 THEN dnsmsg_question ELSE dnsmsg_rr)
-----------------------------------------------------------------------------
(* The size of a message, before anything is written (first a slip: the    *)
(* null byte that ends the labels is forgotten).                           *)
Total(sizes) == FoldLeft(LAMBDA n, size : n + size, 0, sizes)

SizeWithoutEnd(ls) == Total([i \in DOMAIN ls |-> 1 + Len(ls[i])])
LabelsSize(ls)     == 1 + Total([i \in DOMAIN ls |-> 1 + Len(ls[i])])

QuestionSize(q)   == LabelsSize(q.labels) + 4
RecordSize(r)     == LabelsSize(r.labels) + 10 + r.size
RecordsSize(m, s) == Total([i \in 1..m.count[s] |-> RecordSize(m.section[s][i])])

MessageSize(m) ==
  12 + Total([i \in 1..m.count[1] |-> QuestionSize(m.section[1][i])])
     + RecordsSize(m, 2) + RecordsSize(m, 3) + RecordsSize(m, 4)
-----------------------------------------------------------------------------
(* Writing.  A data pointer may lead nowhere: r.data is what it yields.    *)

Bytes16(v) == <<v \div 256, v % 256>>
Bytes32(v) == Bytes16(v \div 65536) \o Bytes16(v % 65536)

LabelBytes(ls)   == FlattenSeq([i \in DOMAIN ls |-> <<Len(ls[i])>> \o ls[i]]) \o <<0>>
QuestionBytes(q) == LabelBytes(q.labels) \o Bytes16(q.type) \o Bytes16(q.class)
RecordBytes(r)   == QuestionBytes(r) \o Bytes32(r.ttl) \o Bytes16(r.size) \o r.data

Serialize(m) ==
  LET Section(s) == FlattenSeq([i \in 1..m.count[s] |->
                      IF s = 1 THEN QuestionBytes(m.section[s][i])
                               ELSE RecordBytes(m.section[s][i])])
  IN Bytes16(m.id) \o Bytes16(m.flags)
     \o FlattenSeq([s \in Sections |-> Bytes16(m.count[s])])
     \o FlattenSeq([s \in Sections |-> Section(s)])
-----------------------------------------------------------------------------
(* Reading.  n bytes have been asked for so far; past the end of the       *)
(* buffer pop_int8 returns 0 and goes on counting buffer_size down, so     *)
(* that it is negative at the end of a message that was not all there.     *)

Byte(b, n) == IF n < Len(b) THEN b[n + 1] ELSE 0

(* (The operands of | in pop_int16 are evaluated from the left, as gcc     *)
(* does; the slip is the other order.)                                     *)
LowFirst(b, n) == Byte(b, n + 1) * 256 + Byte(b, n)
Int16(b, n) == Byte(b, n) * 256 + Byte(b, n + 1)
Int32(b, n) == Int16(b, n) * 65536 + Int16(b, n + 2)

(* Each reader gives what it has read and the position after it.           *)
ReadLabels(b, n) ==
  LET from[k \in Nat] ==
        LET size == Byte(b, k)
            rest == from[k + 1 + size]
        IN IF size = 0 THEN [val |-> << >>, at |-> k + 1]
           ELSE [val |-> <<[j \in 1..size |-> Byte(b, k + j)]>> \o rest.val,
                 at  |-> rest.at]
  IN from[n]

ReadQuestion(b, n) ==
  LET l == ReadLabels(b, n)
  IN [val |-> [labels |-> l.val, type |-> Int16(b, l.at), class |-> Int16(b, l.at + 2)],
      at  |-> l.at + 4]

ReadRecord(b, n) ==
  LET l    == ReadLabels(b, n)
      size == Int16(b, l.at + 8)
  IN [val |-> [labels |-> l.val, type |-> Int16(b, l.at), class |-> Int16(b, l.at + 2),
               ttl |-> Int32(b, l.at + 4), size |-> size,
               data |-> [j \in 1..size |-> Byte(b, l.at + 9 + j)]],
      at  |-> l.at + 10 + size]

ReadAll(Read(_, _), b, n, count) ==
  LET upto[i \in 0..count] ==
        IF i = 0 THEN [val |-> << >>, at |-> n]
        ELSE LET before == upto[i - 1]
                 one    == Read(b, before.at)
             IN [val |-> Append(before.val, one.val), at |-> one.at]
  IN upto[count]

(* interpret_question: the message, and whether buffer_size went negative. *)
Interpret(b) ==
  LET count == [s \in Sections |-> Int16(b, 2 + 2 * s)]
      q == ReadAll(ReadQuestion, b, 12, count[1])
      a == ReadAll(ReadRecord, b, q.at, count[2])
      u == ReadAll(ReadRecord, b, a.at, count[3])
      x == ReadAll(ReadRecord, b, u.at, count[4])
  IN [msg   |-> [id |-> Int16(b, 0), flags |-> Int16(b, 2), count |-> count,
                 section |-> <<q.val, a.val, u.val, x.val>>],
      error |-> x.at > Len(b)]
-----------------------------------------------------------------------------
(* The status flags.                                                       *)

DecodeFlags(v) ==
  [qr |-> (v \div 32768) % 2, opcode |-> (v \div 2048) % 16, aa |-> (v \div 1024) % 2,
   tc |-> (v \div 512) % 2,   rd |-> (v \div 256) % 2,       ra |-> (v \div 128) % 2,
   rcode |-> v % 16]

(* (The first with QR a bit too high.)                                     *)
EncodeShifted(f) ==
  f.qr * 65536 + f.opcode * 2048 + f.aa * 1024 + f.tc * 512
  + f.rd * 256 + f.ra * 128 + f.rcode

EncodeFlags(f) ==
  f.qr * 32768 + f.opcode * 2048 + f.aa * 1024 + f.tc * 512
  + f.rd * 256 + f.ra * 128 + f.rcode
==============================================================================
