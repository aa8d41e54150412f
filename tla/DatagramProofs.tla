---------------------------- MODULE DatagramProofs ---------------------------
(***************************************************************************)
(* Safety of the DNS thread for any messages, names and addresses: a       *)
(* message is read as it was sent or dropped; no block of a datagram is    *)
(* read or freed twice, and no list with elements is left behind; a reply  *)
(* without error has an answer for every question, and is written in       *)
(* exactly the bytes allocated, as a message that reads as it.             *)
(***************************************************************************)
EXTENDS Datagram, CodecProofs

Working == {"answer", "ip"}
Late    == {"serialize", "free_question", "free_reply", "send"}

(* The answers that can be made of a question read.                        *)
Pointing == {"ip", "null", "unset", "none"}
TtlOf(p)  == IF p = "none" THEN 0 ELSE Ttl
SizeOf(p) == IF p = "none" THEN 0 ELSE 4
Made(q)   == {Record(q.section[1][i], TtlOf(p), SizeOf(p), p) :
                i \in 1..q.count[1], p \in Pointing}

(* A reply: its questions are those of the message read.                   *)
Reply(i, f, c, q, a) ==
  [id |-> i, flags |-> f, count |-> c, section |-> <<q, a, << >>, << >>>>]

(* Inductive, first part: what is read is bytes, the counts are numbers;   *)
(* the answers are those of the first questions, in their order.           *)
Types ==
  /\ packet \in Octets
  /\ err \in {0, 1, 4} /\ flag \in 0..2
  /\ link \in [Name -> {"none", "token", "ip"}]
  /\ pc \in {"receive", "interpret"} \cup Working \cup Late
  /\ question.count \in [Sections -> Nat] /\ question.flags \in Nat

Replying ==
  /\ reply = Reply(reply.id, reply.flags, reply.count, question.section[1], Answers)
  /\ Answers \in Seq(Made(question))
  /\ Len(Answers) <= question.count[1]
  /\ \A i \in 1..Len(Answers) : Answers[i].labels = question.section[1][i].labels
  /\ pc \in {"receive", "interpret"} => question = None /\ reply = None
  /\ pc \in Working => reply.count = <<0, 0, 0, 0>>
  /\ pc = "ip" => ~Done
  /\ pc \in Late =>
       /\ Done
       /\ reply.flags = ReplyFlags
       /\ reply.count = <<question.count[1], IF flag # 0 /\ err = 0 THEN 0 ELSE question.count[1], 0, 0>>

(* A message cut short is still bytes.                                     *)
LEMMA PrefixType ==
  ASSUME NEW S, NEW s \in Seq(S), NEW n \in 0..(Len(s) - 1)
  PROVE  SubSeq(s, 1, n) \in Seq(S)
<1>1. \A k \in 1..n : s[k] \in S
  OBVIOUS
<1> QED BY <1>1, SubSeqProperties

(* The counts and the flags read from any datagram are numbers.            *)
LEMMA HeaderType ==
  ASSUME NEW b \in Octets
  PROVE  /\ Interpret(b).msg.count \in [Sections -> Nat]
         /\ Interpret(b).msg.flags \in Nat
<1>1. Interpret(b).msg.count = [s \in Sections |-> Int16(b, 2 + 2 * s)]
  BY DEF Interpret
<1>2. Interpret(b).msg.flags = Int16(b, 2)
  BY DEF Interpret
<1>3. \A s \in Sections : 2 + 2 * s \in Nat
  BY DEF Sections
<1> QED BY <1>1, <1>2, <1>3, IntType

(* The reply make_reply starts with, field by field.                       *)
LEMMA NewReply ==
  ASSUME NEW i, NEW q
  PROVE  LET r == [None EXCEPT !.id = i, !.section[1] = q] IN
         r = [id |-> r.id, flags |-> 0, count |-> <<0, 0, 0, 0>>,
              section |-> <<q, << >>, << >>, << >>>>]
<1> DEFINE e == << << >>, << >>, << >>, << >> >>
           t == <<q, << >>, << >>, << >> >>
<1>1. [e EXCEPT ![1] = q] = t
  OBVIOUS
<1>2. None = [id |-> 0, flags |-> 0, count |-> <<0, 0, 0, 0>>, section |-> e]
  BY DEF None
<1> DEFINE n == [id |-> i, flags |-> 0, count |-> <<0, 0, 0, 0>>, section |-> e]
<1>3. [None EXCEPT !.id = i] = n
  <2> HIDE DEF e
  <2> QED BY <1>2
<1>4. [None EXCEPT !.id = i, !.section[1] = q] = [n EXCEPT !.section[1] = q]
  BY <1>3, Zenon
<1>5. [n EXCEPT !.section[1] = q] = [n EXCEPT !.section = [e EXCEPT ![1] = q]]
  OBVIOUS
<1>6. [n EXCEPT !.section = t] = [id |-> i, flags |-> 0, count |-> <<0, 0, 0, 0>>, section |-> t]
  <2> HIDE DEF e, t
  <2> QED OBVIOUS
<1> HIDE DEF e, n
<1>7. [None EXCEPT !.id = i, !.section[1] = q]
        = [id |-> i, flags |-> 0, count |-> <<0, 0, 0, 0>>, section |-> t]
  BY <1>1, <1>4, <1>5, <1>6
<1> QED BY <1>7

(* Types and Replying hold before the first datagram.                      *)
LEMMA TypesInit == Init => Types /\ Replying
<1> SUFFICES ASSUME Init PROVE Types /\ Replying
  OBVIOUS
<1>1. Types
  BY DEF Init, Types, Octets, None, Sections, Working, Late
<1>2. Replying
  <2>1. reply = None /\ question = None /\ pc = "receive"
    BY DEF Init
  <2>2. Answers = << >>
    BY <2>1 DEF None, Answers
  <2>3. << >> \in Seq(Made(question)) /\ Len(<< >>) = 0 /\ Len(<< >>) <= question.count[1]
    BY <2>1 DEF None
  <2> HIDE DEF Init
  <2> QED BY <2>1, <2>2, <2>3 DEF Replying, Reply, None, Working, Late, Done
<1> QED BY <1>1, <1>2

(* Going back to recvfrom keeps them.                                      *)
LEMMA BackTypes ==
  ASSUME Types, Back, link' = link
  PROVE  Types' /\ Replying'
<1>1. /\ pc' = "receive" /\ packet' = << >> /\ question' = None /\ reply' = None
      /\ err' = 0 /\ flag' = 0
  BY DEF Back
<1>2. Types'
  BY <1>1 DEF Types, Octets, None, Sections
<1>3. Replying'
  <2>1. Answers' = << >>
    BY <1>1 DEF None, Answers
  <2>2. << >> \in Seq(Made(question)') /\ Len(<< >>) = 0 /\ Len(<< >>) <= question'.count[1]
    BY <1>1 DEF None
  <2> QED BY <1>1, <2>1, <2>2 DEF Replying, Reply, None, Working, Late, Done
<1> QED BY <1>2, <1>3

(* Receiving keeps them.                                                   *)
LEMMA ReceiveTypes ==
  ASSUME Types, Replying, Receive
  PROVE  Types' /\ Replying'
<1>1. PICK m \in Message : LET b == Serialize(m) IN
        \/ \E n \in 0..(Len(b) - 1) : packet' = SubSeq(b, 1, n)
        \/ \E after \in Spare : packet' = b \o after
  BY DEF Receive
<1>2. Serialize(m) \in Seq(Octet)
  BY DatagramAssumption, SerializeIs, Zenon DEF Octets
<1>3. packet' \in Octets
  <2> DEFINE b == Serialize(m)
  <2>1. b \in Seq(Octet)
    BY <1>2
  <2>2. \/ \E n \in 0..(Len(b) - 1) : packet' = SubSeq(b, 1, n)
        \/ \E after \in Spare : packet' = b \o after
    BY <1>1
  <2> HIDE DEF b
  <2>3. \A n \in 0..(Len(b) - 1) : SubSeq(b, 1, n) \in Seq(Octet)
    BY <2>1, PrefixType
  <2>4. \A after \in Spare : b \o after \in Seq(Octet)
    BY <2>1, DatagramAssumption DEF Octet
  <2> QED BY <2>2, <2>3, <2>4 DEF Octets
<1>4. /\ pc = "receive" /\ pc' = "interpret"
      /\ UNCHANGED <<question, err, flag, reply, link>>
  BY DEF Receive
<1>5. Types'
  BY <1>3, <1>4 DEF Types
<1>6. Replying'
  BY <1>4 DEF Replying, Answers, Working, Late, Done
<1> QED BY <1>5, <1>6

(* interpret_question keeps them; it drops the datagram or has no answer   *)
(* yet.                                                                    *)
LEMMA ReadTypes ==
  ASSUME Types, Replying, ReadQuestions
  PROVE  /\ Types' /\ Replying'
         /\ \/ Back
            \/ /\ pc' = "answer" /\ Len(Answers') = 0 /\ flag' = 0
               /\ heap' = heap \cup Allocated(question') \cup {AnswerList}
<1> DEFINE r == Interpret(packet)
<1>1. CASE r.error
  BY <1>1, BackTypes DEF ReadQuestions
<1>2. CASE ~r.error
  <2>1. /\ question' = r.msg
        /\ err' = HeaderError(r.msg) /\ flag' = 0
        /\ reply' = [None EXCEPT !.id = r.msg.id, !.section[1] = r.msg.section[1]]
        /\ pc' = "answer"
        /\ heap' = heap \cup Allocated(question') \cup {AnswerList}
        /\ UNCHANGED <<packet, link>>
    BY <1>2 DEF ReadQuestions
  <2>2. r.msg.count \in [Sections -> Nat] /\ r.msg.flags \in Nat
    BY HeaderType DEF Types
  <2>3. err' \in {0, 1, 4}
    BY <2>1 DEF HeaderError
  <2> HIDE DEF r
  <2>4. Types'
    BY <2>1, <2>2, <2>3 DEF Types, Working
  <2>5. reply' = [id |-> reply'.id, flags |-> 0, count |-> <<0, 0, 0, 0>>,
                  section |-> <<r.msg.section[1], << >>, << >>, << >>>>]
    BY <2>1, NewReply
  <2>6. Answers' = << >>
    BY <2>5 DEF Answers
  <2>7. Len(<< >>) = 0 /\ << >> \in Seq(Made(question)') /\ 0 <= r.msg.count[1]
    BY <2>2 DEF Sections
  <2>8. question'.section[1] = r.msg.section[1] /\ question'.count[1] = r.msg.count[1]
    BY <2>1
  <2>9. reply' = Reply(reply'.id, reply'.flags, reply'.count, question'.section[1], Answers')
    BY <2>5, <2>6, <2>8 DEF Reply
  <2>10. reply'.count = <<0, 0, 0, 0>>
    BY <2>5
  <2>11. /\ Answers' \in Seq(Made(question'))
         /\ Len(Answers') = 0 /\ Len(Answers') <= question'.count[1]
    BY <2>6, <2>7, <2>8
  <2>12. \A i \in 1..Len(Answers') : Answers'[i].labels = question'.section[1][i].labels
    BY <2>11
  <2> QED BY <2>1, <2>4, <2>9, <2>10, <2>11, <2>12 DEF Replying, Working, Late
<1> QED BY <1>1, <1>2

(* Adding an answer changes the answers of a reply and nothing else.       *)
LEMMA ReplyAnswers ==
  ASSUME NEW i, NEW f, NEW c, NEW q, NEW a, NEW r
  PROVE  [Reply(i, f, c, q, a) EXCEPT !.section[2] = Append(@, r)]
           = Reply(i, f, c, q, Append(a, r))
<1> DEFINE e == <<q, a, << >>, << >>>>
           x == Append(a, r)
           t == <<q, x, << >>, << >>>>
           n == [id |-> i, flags |-> f, count |-> c, section |-> e]
<1>1. Append(e[2], r) = x
  OBVIOUS
<1> HIDE DEF x
<1>2. [e EXCEPT ![2] = x] = t
  OBVIOUS
<1>3. [n EXCEPT !.section[2] = Append(@, r)] = [n EXCEPT !.section = [e EXCEPT ![2] = Append(e[2], r)]]
  OBVIOUS
<1> HIDE DEF e, t
<1>4. [n EXCEPT !.section = t] = [id |-> i, flags |-> f, count |-> c, section |-> t]
  OBVIOUS
<1> HIDE DEF n
<1>5. [n EXCEPT !.section[2] = Append(@, r)] = [id |-> i, flags |-> f, count |-> c, section |-> t]
  BY <1>1, <1>2, <1>3, <1>4
<1>6. Reply(i, f, c, q, a) = n
  BY DEF Reply, n, e
<1>7. Reply(i, f, c, q, x) = [id |-> i, flags |-> f, count |-> c, section |-> t]
  BY DEF Reply, t
<1>8. [Reply(i, f, c, q, a) EXCEPT !.section[2] = Append(@, r)] = [n EXCEPT !.section[2] = Append(@, r)]
  BY <1>6, Zenon
<1> QED BY <1>5, <1>7, <1>8 DEF x

(* The two updates of make_reply as operators.                            *)
FullReply(r, n, g)  == [r EXCEPT !.count = <<n, n, 0, 0>>, !.flags = g]
NoAnswers(r)        == [r EXCEPT !.count[2] = 0]

(* Setting the counts and the flags leaves its sections alone.             *)
LEMMA ReplyCounts ==
  ASSUME NEW i, NEW f, NEW c, NEW q, NEW a, NEW g, NEW n, NEW r,
         r = Reply(i, f, c, q, a)
  PROVE  /\ FullReply(r, n, g) = Reply(i, g, <<n, n, 0, 0>>, q, a)
         /\ NoAnswers(Reply(i, g, <<n, n, 0, 0>>, q, a)) = Reply(i, g, <<n, 0, 0, 0>>, q, a)
<1> DEFINE t == <<q, a, << >>, << >>>>
           d == <<n, n, 0, 0>>
           e == <<n, 0, 0, 0>>
           m == [id |-> i, flags |-> f, count |-> c, section |-> t]
           s == [id |-> i, flags |-> g, count |-> d, section |-> t]
<1> HIDE DEF t
<1>1. [m EXCEPT !.count = d, !.flags = g] = s
  <2> DEFINE k == [id |-> i, flags |-> f, count |-> d, section |-> t]
  <2> HIDE DEF d
  <2>1. [m EXCEPT !.count = d] = k
    OBVIOUS
  <2>2. [k EXCEPT !.flags = g] = s
    OBVIOUS
  <2> HIDE DEF k, s, m
  <2>3. [m EXCEPT !.count = d, !.flags = g] = [[m EXCEPT !.count = d] EXCEPT !.flags = g]
    OBVIOUS
  <2> QED BY <2>1, <2>2, <2>3, Zenon
<1>2. [d EXCEPT ![2] = 0] = e
  OBVIOUS
<1>3. [s EXCEPT !.count[2] = 0] = [s EXCEPT !.count = [d EXCEPT ![2] = 0]]
  OBVIOUS
<1> HIDE DEF d, e
<1>4. [s EXCEPT !.count = e] = [id |-> i, flags |-> g, count |-> e, section |-> t]
  OBVIOUS
<1> HIDE DEF m, s
<1>5. Reply(i, f, c, q, a) = m /\ Reply(i, g, d, q, a) = s
      /\ Reply(i, g, e, q, a) = [id |-> i, flags |-> g, count |-> e, section |-> t]
  BY DEF Reply, m, s, t
<1>6. [r EXCEPT !.count = d, !.flags = g] = s
  BY <1>1, <1>5, Zenon
<1>7. [s EXCEPT !.count[2] = 0] = Reply(i, g, e, q, a)
  BY <1>2, <1>3, <1>4, <1>5, Zenon
<1>8. [Reply(i, g, d, q, a) EXCEPT !.count[2] = 0] = Reply(i, g, e, q, a)
  BY <1>5, <1>7, Zenon
<1> QED BY <1>5, <1>6, <1>8, Zenon DEF d, e, FullReply, NoAnswers

(* An answer with the labels of the current question keeps Replying.       *)
LEMMA AddTypes ==
  ASSUME Replying, NEW r \in Made(question), r.labels = Current.labels,
         AddAnswer(r), UNCHANGED question, question.count[1] \in Nat,
         pc \in Working, ~Done, pc' = "answer"
  PROVE  /\ Replying' /\ Answers' = Append(Answers, r) /\ Len(Answers') = Len(Answers) + 1
         /\ reply'.section[1] = reply.section[1]
<1> DEFINE q == question.section[1]
<1>1. reply = Reply(reply.id, reply.flags, reply.count, q, Answers)
  BY DEF Replying
<1>2. reply' = Reply(reply.id, reply.flags, reply.count, q, Append(Answers, r))
  <2>1. reply' = [reply EXCEPT !.section[2] = Append(@, r)]
    BY DEF AddAnswer
  <2>2. [Reply(reply.id, reply.flags, reply.count, q, Answers) EXCEPT !.section[2] = Append(@, r)]
          = Reply(reply.id, reply.flags, reply.count, q, Append(Answers, r))
    BY ReplyAnswers
  <2> HIDE DEF q
  <2> QED BY <1>1, <2>1, <2>2, Zenon
<1>3. /\ Answers' = Append(Answers, r) /\ reply'.count = reply.count
      /\ reply' = Reply(reply'.id, reply'.flags, reply'.count, q, Answers')
      /\ reply'.section[1] = q /\ reply.section[1] = q
  <2> DEFINE x == Append(Answers, r)
  <2> HIDE DEF x, q
  <2> QED BY <1>1, <1>2 DEF Reply, Answers, x
<1>4. Answers \in Seq(Made(question)) /\ Len(Answers) <= question.count[1]
      /\ Len(Answers) # question.count[1]
      /\ \A i \in 1..Len(Answers) : Answers[i].labels = q[i].labels
  BY DEF Replying, Done
<1>5. /\ Answers' \in Seq(Made(question')) /\ Len(Answers') = Len(Answers) + 1
      /\ \A i \in 1..Len(Answers) : Answers'[i] = Answers[i]
      /\ Answers'[Len(Answers) + 1] = r /\ Len(Answers) \in Nat
  <2> DEFINE S == Made(question) s == Answers t == Answers'
  <2>1. s \in Seq(S) /\ t = Append(s, r) /\ r \in S
    BY <1>3, <1>4
  <2> HIDE DEF S, s, t
  <2>2. /\ t \in Seq(S) /\ Len(t) = Len(s) + 1 /\ Len(s) \in Nat
        /\ \A i \in 1..Len(s) : t[i] = s[i]
        /\ t[Len(s) + 1] = r
    BY <2>1, AppendProperties
  <2> QED BY <2>2 DEF S, s, t
<1>6. Len(Answers') <= question'.count[1]
  BY <1>4, <1>5
<1>7. r.labels = q[Len(Answers) + 1].labels
  BY DEF Current
<1>8. \A i \in 1..Len(Answers') : Answers'[i].labels = question'.section[1][i].labels
  <2> HIDE DEF q
  <2>1. \A i \in 1..(Len(Answers) + 1) : Answers'[i].labels = q[i].labels
    BY <1>4, <1>5, <1>7
  <2> QED BY <1>5, <2>1 DEF q
<1> HIDE DEF q
<1>9. Replying'
  BY <1>3, <1>5, <1>6, <1>8 DEF Replying, Working, Late, q
<1> QED BY <1>3, <1>5, <1>9

(* What make_rr_reply builds is an answer to the current question.         *)
LEMMA RecordMade ==
  ASSUME Types, Replying, ~Done, NEW p \in Pointing, NEW r,
         r = Record(Current, TtlOf(p), SizeOf(p), p)
  PROVE  /\ r \in Made(question) /\ r.labels = Current.labels /\ r.ptr = p
         /\ question.count[1] \in Nat /\ Len(Answers) \in Nat
         /\ Len(Answers) + 1 \in 1..question.count[1]
<1>1. question.count[1] \in Nat
  BY DEF Types, Sections
<1>2. Len(Answers) \in Nat /\ Len(Answers) <= question.count[1] /\ Len(Answers) # question.count[1]
  BY DEF Replying, Done
<1>3. Len(Answers) + 1 \in 1..question.count[1]
  BY <1>1, <1>2
<1>4. r \in Made(question)
  BY <1>3 DEF Made, Current
<1> QED BY <1>1, <1>2, <1>3, <1>4 DEF Record

(* The first look-up of get_ip goes on to the second or flags the          *)
(* question.                                                               *)
LEMMA LookupTokenTypes ==
  ASSUME Types, Replying, LookupToken
  PROVE  /\ Types' /\ Replying' /\ UNCHANGED <<question, link, err>>
         /\ heap' = heap \cup NewBlocks /\ pc = "answer" /\ ~Done
         /\ \/ /\ pc' = "ip" /\ UNCHANGED <<reply, flag>>
               /\ domain' \in LookedUp(Current.labels)
            \/ /\ pc' = "answer" /\ flag' = 1 /\ Len(Answers') = Len(Answers) + 1
               /\ \E r : Answers' = Append(Answers, r)
<1>1. /\ UNCHANGED <<packet, question, err, link>> /\ pc = "answer" /\ ~Done
      /\ heap' = heap \cup NewBlocks
  BY DEF LookupToken
<1>2. CASE /\ pc' = "ip" /\ UNCHANGED <<reply, flag>>
           /\ \E d \in LookedUp(Current.labels) : domain' = d
  <2>1. Types'
    BY <1>1, <1>2 DEF Types, Working
  <2>2. Replying'
    BY <1>1, <1>2 DEF Replying, Reply, Answers, Done, Working, Late
  <2>3. domain' \in LookedUp(Current.labels)
    BY <1>2
  <2> QED BY <1>1, <1>2, <2>1, <2>2, <2>3
<1>3. CASE flag' = 1 /\ AddAnswer(Record(Current, Ttl, 4, "unset")) /\ UNCHANGED <<pc, domain>>
  <2>1. /\ Record(Current, Ttl, 4, "unset") \in Made(question)
        /\ Record(Current, Ttl, 4, "unset").labels = Current.labels
        /\ question.count[1] \in Nat
    <3>1. "unset" \in Pointing /\ TtlOf("unset") = Ttl /\ SizeOf("unset") = 4
      BY DEF Pointing, TtlOf, SizeOf
    <3> QED BY <1>1, <3>1, RecordMade
  <2>2. /\ Replying' /\ Len(Answers') = Len(Answers) + 1
        /\ \E r : Answers' = Append(Answers, r)
    BY <1>1, <1>3, <2>1, AddTypes DEF Working
  <2>3. Types'
    BY <1>1, <1>3 DEF Types, Working
  <2> QED BY <1>1, <1>3, <2>2, <2>3
<1> QED BY <1>1, <1>2, <1>3 DEF LookupToken

(* The second look-up adds an address, or a null pointer and the flag.     *)
LEMMA LookupIpTypes ==
  ASSUME Types, Replying, LookupIp
  PROVE  /\ Types' /\ Replying' /\ UNCHANGED <<question, link, err, heap>>
         /\ pc = "ip" /\ ~Done /\ pc' = "answer" /\ Len(Answers') = Len(Answers) + 1
         /\ \/ /\ link[domain] = "ip" /\ flag' = flag
               /\ Answers' = Append(Answers, Record(Current, Ttl, 4, "ip"))
            \/ flag' = 1
<1>0. PICK found \in {link[domain] = "ip", FALSE} :
        /\ flag' = IF found THEN flag ELSE NoIp
        /\ AddAnswer(Record(Current, Ttl, 4, IF found THEN "ip" ELSE "null"))
  BY DEF LookupIp
<1> DEFINE p == IF found THEN "ip" ELSE "null"
           r == Record(Current, Ttl, 4, p)
<1>1. /\ UNCHANGED <<packet, question, err, link, heap>> /\ pc = "ip" /\ pc' = "answer"
      /\ AddAnswer(r) /\ flag' = (IF found THEN flag ELSE 1) /\ (found => link[domain] = "ip")
  BY <1>0 DEF LookupIp, NoIp
<1>2. ~Done
  BY <1>1 DEF Replying
<1>3. p \in Pointing /\ TtlOf(p) = Ttl /\ SizeOf(p) = 4
  BY DEF Pointing, TtlOf, SizeOf
<1> HIDE DEF p
<1>4. r \in Made(question) /\ r.labels = Current.labels /\ question.count[1] \in Nat
  BY <1>2, <1>3, RecordMade
<1> HIDE DEF r
<1>5. Replying' /\ Answers' = Append(Answers, r) /\ Len(Answers') = Len(Answers) + 1
  BY <1>1, <1>2, <1>4, AddTypes DEF Working
<1>6. Types'
  BY <1>1 DEF Types, Working
<1> QED BY <1>1, <1>2, <1>5, <1>6 DEF r, p

(* A question of another type is flagged and answered with nothing.        *)
LEMMA OtherQuestionTypes ==
  ASSUME Types, Replying, OtherQuestion
  PROVE  /\ Types' /\ Replying' /\ UNCHANGED <<question, link, err>>
         /\ heap' = heap \cup NewBlocks /\ pc = "answer" /\ ~Done
         /\ pc' = "answer" /\ flag' = 2 /\ Len(Answers') = Len(Answers) + 1
<1> DEFINE r == Record(Current, 0, 0, "none")
<1>1. /\ UNCHANGED <<packet, question, err, link, pc>> /\ pc = "answer" /\ ~Done
      /\ AddAnswer(r) /\ flag' = 2 /\ heap' = heap \cup NewBlocks
  BY DEF OtherQuestion
<1>2. r \in Made(question) /\ r.labels = Current.labels /\ question.count[1] \in Nat
  <2>1. "none" \in Pointing /\ TtlOf("none") = 0 /\ SizeOf("none") = 0
    BY DEF Pointing, TtlOf, SizeOf
  <2> QED BY <1>1, <2>1, RecordMade
<1> HIDE DEF r
<1>3. Replying' /\ Len(Answers') = Len(Answers) + 1
  BY <1>1, <1>2, AddTypes DEF Working
<1>4. Types'
  BY <1>1 DEF Types, Working
<1> QED BY <1>1, <1>3, <1>4

(* The reply with its counts and flags, the answers not dropped.           *)
FullReplyMade == [reply EXCEPT !.count = <<question.count[1], question.count[1], 0, 0>>, !.flags = ReplyFlags]

(* The reply of make_reply before and after the answers are dropped.       *)
LEMMA FullIs ==
  ASSUME Replying
  PROVE  LET n == question.count[1] q == question.section[1] IN
         /\ FullReplyMade = Reply(reply.id, ReplyFlags, <<n, n, 0, 0>>, q, Answers)
         /\ [FullReplyMade EXCEPT !.count[2] = 0] = Reply(reply.id, ReplyFlags, <<n, 0, 0, 0>>, q, Answers)
<1> DEFINE n == question.count[1] q == question.section[1] g == ReplyFlags
<1>1. reply = Reply(reply.id, reply.flags, reply.count, q, Answers)
  BY DEF Replying
<1>2. FullReplyMade = [reply EXCEPT !.count = <<n, n, 0, 0>>, !.flags = g]
  BY Zenon DEF FullReplyMade
<1> HIDE DEF n, q, g
<1> DEFINE i == reply.id f == reply.flags d == reply.count a == Answers
<1>3. reply = Reply(i, f, d, q, a)
  BY <1>1
<1> HIDE DEF i, f, d, a
<1>4. /\ FullReply(reply, n, g) = Reply(i, g, <<n, n, 0, 0>>, q, a)
      /\ NoAnswers(Reply(i, g, <<n, n, 0, 0>>, q, a)) = Reply(i, g, <<n, 0, 0, 0>>, q, a)
  BY <1>3, ReplyCounts
<1>5. FullReplyMade = Reply(i, g, <<n, n, 0, 0>>, q, a)
  BY <1>2, <1>4, Zenon DEF FullReply
<1>6. [FullReplyMade EXCEPT !.count[2] = 0] = Reply(i, g, <<n, 0, 0, 0>>, q, a)
  BY <1>4, <1>5, Zenon DEF NoAnswers
<1> QED BY <1>5, <1>6, Zenon DEF i, a, n, q, g

(* make_reply counts the questions, and the answers unless it drops them.  *)
LEMMA MakeReplyTypes ==
  ASSUME Types, Replying, MakeReply
  PROVE  /\ Types' /\ Replying' /\ Answers' = Answers /\ Done
         /\ pc' = "serialize" /\ UNCHANGED <<question, err, flag>>
         /\ reply'.count = <<question.count[1], IF flag # 0 /\ err = 0 THEN 0 ELSE question.count[1], 0, 0>>
<1> DEFINE n    == question.count[1]
           full == FullReplyMade
           drop == flag # 0 /\ err = 0
           c    == IF drop THEN 0 ELSE n
           q    == question.section[1]
           g    == ReplyFlags
<1>1. /\ pc = "answer" /\ Done /\ pc' = "serialize"
      /\ reply' = IF drop THEN [full EXCEPT !.count[2] = 0] ELSE full
      /\ UNCHANGED <<packet, question, err, flag, link>>
  BY Zenon DEF MakeReply, FullReplyMade
<1>2. /\ full = Reply(reply.id, g, <<n, n, 0, 0>>, q, Answers)
      /\ [full EXCEPT !.count[2] = 0] = Reply(reply.id, g, <<n, 0, 0, 0>>, q, Answers)
  BY FullIs, Zenon
<1> HIDE DEF full
<1>4. reply' = Reply(reply.id, g, <<n, c, 0, 0>>, q, Answers)
  BY <1>1, <1>2
<1> HIDE DEF c, g
<1>5. Answers' = Answers /\ reply'.flags = g /\ reply'.count = <<n, c, 0, 0>>
      /\ reply' = Reply(reply'.id, reply'.flags, reply'.count, q, Answers')
  <2> DEFINE a == Answers
  <2> HIDE DEF a, q, n
  <2>1. reply' = Reply(reply.id, g, <<n, c, 0, 0>>, q, a)
    BY <1>4 DEF a
  <2>2. Answers' = a
    BY <2>1 DEF Answers, Reply
  <2> QED BY <2>1, <2>2 DEF Reply, a
<1>6. g' = g
  BY <1>1 DEF g, ReplyFlags, FlagsWith, Code
<1>7. Types'
  BY <1>1 DEF Types, Late
<1>8. Done'
  BY <1>1, <1>5 DEF Done
<1>9. Replying'
  BY <1>1, <1>5, <1>6, <1>8 DEF Replying, Working, Late, g, c
<1> QED BY <1>1, <1>5, <1>7, <1>9 DEF c

(* Every step keeps Types and Replying.                                    *)
LEMMA TypesNext ==
  ASSUME Types, Replying, [Next]_vars
  PROVE  Types' /\ Replying'
<1>1. ASSUME UNCHANGED <<packet, question, err, flag, reply>>, link' \in [Name -> {"none", "token", "ip"}],
             pc' = pc \/ (pc \in Late /\ pc' \in Late)
      PROVE  Types' /\ Replying'
  <2>1. Types'
    BY <1>1 DEF Types
  <2>2. ReplyFlags' = ReplyFlags
    BY <1>1 DEF ReplyFlags, FlagsWith, Code
  <2>3. Answers' = Answers /\ Done' = Done
    BY <1>1 DEF Answers, Done
  <2>4. Replying'
    BY <1>1, <2>2, <2>3 DEF Replying, Working, Late
  <2> QED BY <2>1, <2>4
<1>2. link \in [Name -> {"none", "token", "ip"}]
  BY DEF Types
<1>3. CASE UNCHANGED vars
  BY <1>1, <1>2, <1>3 DEF vars
<1>4. CASE WriteReply
  BY <1>1, <1>2, <1>4 DEF WriteReply, Late
<1>5. CASE FreeQuestion
  BY <1>1, <1>2, <1>5 DEF FreeQuestion, Late
<1>6. CASE FreeReply
  BY <1>1, <1>2, <1>6 DEF FreeReply, Late
<1>7. CASE RootUnderflow \/ FollowNowhere
  BY <1>1, <1>2, <1>7 DEF RootUnderflow, FollowNowhere
<1>8. ASSUME NEW d \in Name, Register(d) \/ Bind(d) PROVE Types' /\ Replying'
  BY <1>1, <1>2, <1>8 DEF Register, Bind
<1>9. CASE Send
  BY <1>9, BackTypes DEF Send
<1> QED BY <1>3, <1>4, <1>5, <1>6, <1>7, <1>8, <1>9, ReceiveTypes, ReadTypes, LookupTokenTypes,
           LookupIpTypes, OtherQuestionTypes, MakeReplyTypes DEF Next
-----------------------------------------------------------------------------
(* Inductive, second part: which blocks there are.                         *)

(* The blocks of k answers, and those of them that free_message reaches.   *)
Own(k) == {AnswerList} \cup {<<"labels", 5, i>> : i \in 1..k}
OwnReached ==
  {b \in Own(Len(Answers)) :
     question.count[1] > 0 /\ (b[1] = "labels" => Answers[b[3]].labels # << >>)}

Kept == IF reply.count[2] = 0 THEN Own(Len(Answers)) \ OwnReached ELSE Own(Len(Answers))
Left == Allocated(question) \ Reached(question, InQuestion)

Held(B) == B \subseteq heap /\ \A b \in heap : b \in B \/ b[1] = "domain"

Blocks ==
  /\ ~misuse
  /\ pc \in {"receive", "interpret"} => heap = {}
  /\ pc = "answer" => Held(Allocated(question) \cup Own(Len(Answers)))
  /\ pc = "ip" => Held(Allocated(question) \cup Own(Len(Answers) + 1))
  /\ pc \in {"serialize", "free_question"} => Held(Allocated(question) \cup Kept)
  /\ pc = "free_reply" => Held(Left \cup Kept)
  /\ pc = "send" => Held(Left \cup (Own(Len(Answers)) \ OwnReached))

(* The blocks free_message reaches, one by one.                            *)
LEMMA ReachedIs ==
  ASSUME NEW m, NEW place, NEW b
  PROVE  b \in Reached(m, place) <=>
           \E s \in Sections : /\ m.count[s] > 0
                               /\ \/ b = <<"section", place[s], 0>>
                                  \/ \E i \in Labelled(m, s) : b = <<"labels", place[s], i>>
BY DEF Reached

(* The blocks interpret_question allocates, one by one.                    *)
LEMMA AllocatedIs ==
  ASSUME NEW m, NEW b
  PROVE  b \in Allocated(m) <=>
           \E s \in Sections : \/ b = <<"section", s, 0>>
                               \/ \E i \in Labelled(m, s) : b = <<"labels", s, i>>
                               \/ s # 1 /\ \E i \in 1..m.count[s] : b = <<"data", s, i>>
<1>1. 2..4 = {s \in Sections : s # 1}
  BY DEF Sections
<1>2. b \in {<<"section", s, 0>> : s \in Sections} <=> \E s \in Sections : b = <<"section", s, 0>>
  OBVIOUS
<1>3. b \in UNION {{<<"labels", s, i>> : i \in Labelled(m, s)} : s \in Sections}
        <=> \E s \in Sections : \E i \in Labelled(m, s) : b = <<"labels", s, i>>
  OBVIOUS
<1>4. b \in UNION {{<<"data", s, i>> : i \in 1..m.count[s]} : s \in 2..4}
        <=> \E s \in Sections : s # 1 /\ \E i \in 1..m.count[s] : b = <<"data", s, i>>
  <2> DEFINE S == 2..4
  <2>1. \A s : s \in S <=> s \in Sections /\ s # 1
    BY <1>1
  <2> HIDE DEF S
  <2>2. b \in UNION {{<<"data", s, i>> : i \in 1..m.count[s]} : s \in S}
        <=> \E s \in S : \E i \in 1..m.count[s] : b = <<"data", s, i>>
    OBVIOUS
  <2>3. S = 2..4
    BY DEF S
  <2> QED BY <2>1, <2>2, <2>3, Zenon
<1> DEFINE A == {<<"section", s, 0>> : s \in Sections}
           B == UNION {{<<"labels", s, i>> : i \in Labelled(m, s)} : s \in Sections}
           C == UNION {{<<"data", s, i>> : i \in 1..m.count[s]} : s \in 2..4}
<1>5. Allocated(m) = A \cup B \cup C
  BY Zenon DEF Allocated
<1> HIDE DEF A, B, C
<1>6. b \in Allocated(m) <=> b \in A \/ b \in B \/ b \in C
  BY <1>5
<1>7. b \in A <=> \E s \in Sections : b = <<"section", s, 0>>
  BY <1>2 DEF A
<1>8. b \in B <=> \E s \in Sections : \E i \in Labelled(m, s) : b = <<"labels", s, i>>
  BY <1>3 DEF B
<1>9. b \in C <=> \E s \in Sections : s # 1 /\ \E i \in 1..m.count[s] : b = <<"data", s, i>>
  BY <1>4 DEF C
<1> QED BY <1>6, <1>7, <1>8, <1>9, Zenon

(* What is freed with the question is there, and nothing of the reply.     *)
LEMMA QuestionBlocks ==
  /\ Reached(question, InQuestion) \subseteq Allocated(question)
  /\ \A b \in Allocated(question) : b[2] \in Sections /\ b[1] \in {"section", "labels", "data"}
<1>1. \A s \in Sections : InQuestion[s] = s
  BY DEF Sections, InQuestion
<1>2. ASSUME NEW b \in Reached(question, InQuestion) PROVE b \in Allocated(question)
  BY <1>1, <1>2, ReachedIs, AllocatedIs
<1>3. ASSUME NEW b \in Allocated(question) 
      PROVE  b[2] \in Sections /\ b[1] \in {"section", "labels", "data"}
  BY <1>3, AllocatedIs
<1> QED BY <1>2, <1>3

(* The blocks of k answers, one by one.                                    *)
LEMMA OwnIs ==
  ASSUME NEW k \in Nat, NEW b
  PROVE  b \in Own(k) <=> \/ b = <<"section", 5, 0>>
                          \/ \E i \in 1..k : b = <<"labels", 5, i>>
BY DEF Own, AnswerList

(* What is reached of a reply: the questions, if it counts them, and its   *)
(* own blocks, if it counts the answers.                                   *)
LEMMA ReplyReached ==
  ASSUME Types, Replying, Done,
         NEW m, m.section = <<question.section[1], Answers, << >>, << >>>>,
         NEW x \in {0, question.count[1]}, NEW c \in {0, question.count[1]},
         m.count = <<x, c, 0, 0>>
  PROVE  \A b : b \in Reached(m, InReply) <=>
                  \/ c > 0 /\ b \in OwnReached
                  \/ /\ x > 0 /\ b \in Reached(question, InQuestion) /\ b[2] = 1
<1> DEFINE n == question.count[1]
<1>1. n \in Nat /\ x \in Nat /\ c \in Nat /\ Len(Answers) = n
  BY DEF Types, Sections, Done
<1> SUFFICES ASSUME NEW b
             PROVE  b \in Reached(m, InReply) <=>
                      \/ c > 0 /\ b \in OwnReached
                      \/ x > 0 /\ b \in Reached(question, InQuestion) /\ b[2] = 1
  OBVIOUS
<1>2. b \in Reached(m, InReply) <=>
        \E s \in Sections : /\ m.count[s] > 0
                            /\ \/ b = <<"section", InReply[s], 0>>
                               \/ \E i \in Labelled(m, s) : b = <<"labels", InReply[s], i>>
  BY ReachedIs
<1>3. /\ m.count[1] = x /\ m.count[2] = c /\ m.count[3] = 0 /\ m.count[4] = 0
      /\ m.section[1] = question.section[1] /\ m.section[2] = Answers
      /\ InReply[1] = 1 /\ InReply[2] = 5
  BY DEF InReply
<1>4. \A s : s \in Sections <=> s = 1 \/ s = 2 \/ s = 3 \/ s = 4
  BY DEF Sections
<1>5. b \in Reached(m, InReply) <=>
        \/ x > 0 /\ (b = <<"section", 1, 0>> \/ \E i \in Labelled(m, 1) : b = <<"labels", 1, i>>)
        \/ c > 0 /\ (b = <<"section", 5, 0>> \/ \E i \in Labelled(m, 2) : b = <<"labels", 5, i>>)
  <2>1. ~(0 > 0)
    OBVIOUS
  <2> QED BY <1>2, <1>3, <1>4, <2>1, Zenon
<1>6. c > 0 => (b \in OwnReached <=>
                  b = <<"section", 5, 0>> \/ \E i \in Labelled(m, 2) : b = <<"labels", 5, i>>)
  <2> SUFFICES ASSUME c > 0
               PROVE  b \in OwnReached <=>
                        b = <<"section", 5, 0>> \/ \E i \in Labelled(m, 2) : b = <<"labels", 5, i>>
    OBVIOUS
  <2>1. c = n
    BY <1>1
  <2>2. b \in Own(n) <=> b = <<"section", 5, 0>> \/ \E i \in 1..n : b = <<"labels", 5, i>>
    BY <1>1, OwnIs
  <2>3. \A i : i \in Labelled(m, 2) <=> i \in 1..n /\ Answers[i].labels # << >>
    BY <1>3, <2>1 DEF Labelled
  <2>4. b \in OwnReached <=> b \in Own(n) /\ (b[1] = "labels" => Answers[b[3]].labels # << >>)
    BY <1>1, <2>1 DEF OwnReached
  <2> QED BY <2>2, <2>3, <2>4
<1>7. x > 0 => (b \in Reached(question, InQuestion) /\ b[2] = 1 <=>
                  b = <<"section", 1, 0>> \/ \E i \in Labelled(m, 1) : b = <<"labels", 1, i>>)
  <2> SUFFICES ASSUME x > 0
               PROVE  b \in Reached(question, InQuestion) /\ b[2] = 1 <=>
                        b = <<"section", 1, 0>> \/ \E i \in Labelled(m, 1) : b = <<"labels", 1, i>>
    OBVIOUS
  <2>1. x = n
    BY <1>1
  <2>2. Labelled(m, 1) = Labelled(question, 1)
    BY <1>3, <2>1 DEF Labelled
  <2>3. /\ \A s \in Sections : InQuestion[s] = s
        /\ 1 \in Sections
    BY DEF Sections, InQuestion
  <2>4. b \in Reached(question, InQuestion) <=>
          \E s \in Sections : /\ question.count[s] > 0
                              /\ \/ b = <<"section", s, 0>>
                                 \/ \E i \in Labelled(question, s) : b = <<"labels", s, i>>
    BY <2>3, ReachedIs
  <2> QED BY <2>1, <2>2, <2>3, <2>4
<1> QED BY <1>5, <1>6, <1>7

(* No block of the answers is one of the question.                         *)
LEMMA OwnPlaces ==
  ASSUME NEW k, NEW b \in Own(k)
  PROVE  b[2] = 5 /\ b[1] \in {"section", "labels"}
BY DEF Own, AnswerList

(* One more answer is one more list of labels.                             *)
LEMMA AnswerBlocks ==
  ASSUME Types, Replying, Blocks, pc = "answer", heap' = heap \cup NewBlocks,
         UNCHANGED <<question, misuse>>, ~Done,
         \/ pc' = "ip" /\ Answers' = Answers
         \/ pc' = "answer" /\ Len(Answers') = Len(Answers) + 1
  PROVE  Blocks'
<1> DEFINE k == Len(Answers) a == Allocated(question)
<1>1. k \in Nat
  BY DEF Replying
<1>2. Held(a \cup Own(k))
  BY DEF Blocks
<1>3. \A b : b \in Own(k + 1) <=> b \in Own(k) \/ b = <<"labels", 5, k + 1>>
  <2> SUFFICES ASSUME NEW b
               PROVE  b \in Own(k + 1) <=>
                        b \in Own(k) \/ b = <<"labels", 5, k + 1>>
    OBVIOUS
  <2> HIDE DEF k
  <2>1. k + 1 \in Nat
    BY <1>1
  <2>2. \A i : i \in 1..(k + 1) <=> i \in 1..k \/ i = k + 1
    BY <1>1
  <2>3. /\ b \in Own(k) <=> b = <<"section", 5, 0>> \/ \E i \in 1..k : b = <<"labels", 5, i>>
        /\ b \in Own(k + 1) <=> b = <<"section", 5, 0>> \/ \E i \in 1..(k + 1) : b = <<"labels", 5, i>>
    BY <1>1, <2>1, OwnIs
  <2> QED BY <2>1, <2>2, <2>3
<1>4. \A b : b \in NewBlocks => b = <<"labels", 5, k + 1>> \/ b[1] = "domain"
  BY DEF NewBlocks
<1>5. <<"labels", 5, k + 1>> \in NewBlocks
  BY DEF NewBlocks
<1>6. Allocated(question') = a
  OBVIOUS
<1> HIDE DEF k, a
<1>7. a \cup Own(k + 1) \subseteq heap' /\ \A b \in heap' : b \in a \cup Own(k + 1) \/ b[1] = "domain"
  BY <1>2, <1>3, <1>4, <1>5 DEF Held
<1>8. \/ pc' = "answer" /\ Len(Answers') = k + 1
      \/ pc' = "ip" /\ Len(Answers') = k
  BY DEF k
<1>9. pc' = "answer" => Held(Allocated(question) \cup Own(Len(Answers)))'
  BY <1>6, <1>7, <1>8 DEF Held
<1>10. pc' = "ip" => Held(Allocated(question) \cup Own(Len(Answers) + 1))'
  BY <1>6, <1>7, <1>8 DEF Held
<1>11. ~misuse'
  BY DEF Blocks
<1> QED BY <1>8, <1>9, <1>10, <1>11 DEF Blocks

(* Answers dropped are freed, all that free_message reaches of them.       *)
LEMMA MakeReplyBlocks ==
  ASSUME Types, Replying, Blocks, MakeReply
  PROVE  Blocks'
<1> DEFINE n    == question.count[1]
           full == FullReplyMade
           own  == {b \in Reached(full, InReply) : b[2] = 5}
           drop == flag # 0 /\ err = 0
           q    == question.section[1]
<1>1. /\ pc = "answer" /\ IF drop THEN Free(own) ELSE UNCHANGED <<heap, misuse>>
  BY Zenon DEF MakeReply, FullReplyMade
<1>2. /\ Answers' = Answers /\ Done /\ pc' = "serialize" /\ question' = question
      /\ reply'.count = <<n, IF drop THEN 0 ELSE n, 0, 0>>
  BY MakeReplyTypes
<1>3. n \in Nat /\ Len(Answers) = n
  BY <1>2 DEF Types, Sections, Done
<1>4. full.section = <<q, Answers, << >>, << >>>> /\ full.count = <<n, n, 0, 0>>
  <2>1. full = Reply(reply.id, ReplyFlags, <<n, n, 0, 0>>, q, Answers)
    BY FullIs, Zenon
  <2> HIDE DEF q, n, full
  <2> QED BY <2>1 DEF Reply
<1>5. \A b : b \in OwnReached => n > 0
  BY DEF OwnReached
<1> HIDE DEF full
<1>6. own = OwnReached
  <2>1. \A b : b \in Reached(full, InReply) <=>
                 \/ n > 0 /\ b \in OwnReached
                 \/ n > 0 /\ b \in Reached(question, InQuestion) /\ b[2] = 1
    BY <1>2, <1>4, ReplyReached
  <2>2. \A b : b \in OwnReached => b \in Own(n) /\ b[2] = 5
    BY <1>3, OwnPlaces DEF OwnReached
  <2> HIDE DEF n
  <2> QED BY <1>5, <2>1, <2>2
<1> HIDE DEF own
<1>7. Held(Allocated(question) \cup Own(n)) /\ ~misuse
  BY <1>1, <1>3 DEF Blocks
<1>8. OwnReached \subseteq Own(n)
  BY <1>3 DEF OwnReached
<1>9. \A b \in OwnReached : b \notin Allocated(question)
  <2>1. 5 \notin Sections
    BY DEF Sections
  <2> QED BY <1>8, <2>1, QuestionBlocks, OwnPlaces
<1>10. Kept' = IF drop \/ n = 0 THEN Own(n) \ OwnReached ELSE Own(n)
  <2>1. OwnReached' = OwnReached
    BY <1>2 DEF OwnReached
  <2>2. reply'.count[2] = IF drop THEN 0 ELSE n
    BY <1>2
  <2> HIDE DEF drop, n
  <2> QED BY <1>2, <1>3, <2>1, <2>2 DEF Kept
<1>11. ~misuse' /\ Held(Allocated(question) \cup Kept)'
  <2>1. Allocated(question)' = Allocated(question)
    BY <1>2
  <2> HIDE DEF n
  <2>2. CASE drop
    <3>1. misuse' = (misuse \/ ~(OwnReached \subseteq heap)) /\ heap' = heap \ OwnReached
      BY <1>1, <1>6, <2>2 DEF Free, Use
    <3>2. OwnReached \subseteq heap
      BY <1>7, <1>8 DEF Held
    <3>3. ~misuse'
      BY <1>7, <3>1, <3>2
    <3>4. Kept' = Own(n) \ OwnReached
      BY <1>10, <2>2
    <3> QED BY <1>7, <1>9, <2>1, <3>1, <3>3, <3>4 DEF Held
  <2>3. CASE ~drop
    <3>1. heap' = heap /\ ~misuse'
      BY <1>1, <1>7, <2>3
    <3>2. Kept' = Own(n)
      <4>1. n = 0 => OwnReached = {}
        BY <1>5
      <4> QED BY <1>10, <2>3, <4>1
    <3> QED BY <1>7, <2>1, <3>1, <3>2 DEF Held
  <2> QED BY <2>2, <2>3
<1> QED BY <1>2, <1>11 DEF Blocks

(* What is there of question and reply from make_reply on.                 *)
LEMMA ReplyHeld ==
  ASSUME Types, Replying, Blocks, pc \in Late
  PROVE  /\ question.count[1] \in Nat /\ Len(Answers) = question.count[1] /\ Done
         /\ reply.section = <<question.section[1], Answers, << >>, << >>>>
         /\ OwnReached \subseteq Own(question.count[1])
         /\ \A b \in Own(question.count[1]) : b \notin Allocated(question)
         /\ \E c \in {0, question.count[1]} :
              /\ reply.count = <<question.count[1], c, 0, 0>>
              /\ Kept = IF c = 0 THEN Own(question.count[1]) \ OwnReached ELSE Own(question.count[1])
<1> DEFINE n == question.count[1]
<1>1. n \in Nat /\ Len(Answers) = n /\ Done
  BY DEF Replying, Types, Sections, Done
<1>2. reply.section = <<question.section[1], Answers, << >>, << >>>>
  <2> DEFINE q == question.section[1] a == Answers
  <2>1. reply = Reply(reply.id, reply.flags, reply.count, q, a)
    BY DEF Replying
  <2> HIDE DEF q, a
  <2>2. reply.section = <<q, a, << >>, << >>>>
    BY <2>1 DEF Reply
  <2> QED BY <2>2 DEF q, a
<1>3. OwnReached \subseteq Own(n)
  BY <1>1 DEF OwnReached
<1>4. ASSUME NEW b \in Own(n) PROVE b \notin Allocated(question)
  <2>1. 5 \notin Sections
    BY DEF Sections
  <2> QED BY <1>4, <2>1, QuestionBlocks, OwnPlaces
<1>5. PICK c \in {0, n} : reply.count = <<n, c, 0, 0>>
  BY DEF Replying
<1>6. Kept = IF c = 0 THEN Own(n) \ OwnReached ELSE Own(n)
  <2> HIDE DEF n
  <2>1. reply.count[2] = c
    BY <1>5
  <2> QED BY <1>1, <2>1 DEF Kept
<1> QED BY <1>1, <1>2, <1>3, <1>4, <1>5, <1>6

(* serialize_message reads no block that has been freed.                   *)
LEMMA WriteBlocks ==
  ASSUME Types, Replying, Blocks, WriteReply
  PROVE  Blocks'
<1> DEFINE n == question.count[1]
<1>1. /\ pc = "serialize" /\ pc' = "free_question" /\ UNCHANGED <<question, reply, heap>>
      /\ misuse' = (misuse \/ ~(Reached(reply, InReply) \subseteq heap))
  BY DEF WriteReply, Use
<1>2. pc \in Late
  BY <1>1 DEF Late
<1>3. PICK c \in {0, n} :
        /\ reply.count = <<n, c, 0, 0>>
        /\ Kept = IF c = 0 THEN Own(n) \ OwnReached ELSE Own(n)
  BY <1>2, ReplyHeld
<1>4. /\ n \in Nat /\ OwnReached \subseteq Own(n)
      /\ Done /\ reply.section = <<question.section[1], Answers, << >>, << >>>>
  BY <1>2, ReplyHeld
<1>5. \A b : b \in Reached(reply, InReply) <=>
               \/ c > 0 /\ b \in OwnReached
               \/ n > 0 /\ b \in Reached(question, InQuestion) /\ b[2] = 1
  BY <1>3, <1>4, ReplyReached
<1>6. Held(Allocated(question) \cup Kept) /\ ~misuse
  BY <1>1 DEF Blocks
<1> HIDE DEF n
<1>7. Reached(reply, InReply) \subseteq heap
  <2>1. ~(0 > 0)
    OBVIOUS
  <2> QED BY <1>3, <1>4, <1>5, <1>6, <2>1, QuestionBlocks DEF Held
<1>8. ~misuse'
  BY <1>1, <1>6, <1>7
<1>9. (Held(Allocated(question) \cup Kept))'
  BY <1>1, <1>6 DEF Held, Kept, OwnReached, Answers
<1> QED BY <1>1, <1>8, <1>9 DEF Blocks

(* Freeing the question takes its blocks, and none of the reply.           *)
LEMMA FreeQuestionBlocks ==
  ASSUME Types, Replying, Blocks, FreeQuestion
  PROVE  Blocks'
<1> DEFINE n == question.count[1] R == Reached(question, InQuestion)
<1>1. /\ pc = "free_question" /\ pc' = "free_reply" /\ UNCHANGED <<question, reply>>
      /\ heap' = heap \ R /\ misuse' = (misuse \/ ~(R \subseteq heap))
  BY DEF FreeQuestion, Free, Use
<1>2. Held(Allocated(question) \cup Kept) /\ ~misuse
  BY <1>1 DEF Blocks
<1>3. R \subseteq Allocated(question) /\ \A b \in Allocated(question) : b[1] # "domain"
  BY QuestionBlocks
<1>4. \A b \in Kept : b \notin Allocated(question)
  <2>1. pc \in Late
    BY <1>1 DEF Late
  <2>2. /\ \A b \in Own(n) : b \notin Allocated(question)
        /\ \E c \in {0, n} : Kept = IF c = 0 THEN Own(n) \ OwnReached ELSE Own(n)
    BY <2>1, ReplyHeld
  <2> QED BY <2>2
<1>5. Left' = Left /\ Kept' = Kept /\ Left = Allocated(question) \ R
  BY <1>1 DEF Left, Kept, OwnReached, Answers
<1> HIDE DEF R
<1>6. Held(Left \cup Kept)'
  BY <1>1, <1>2, <1>3, <1>4, <1>5 DEF Held
<1>7. ~misuse'
  BY <1>1, <1>2, <1>3 DEF Held
<1> QED BY <1>1, <1>6, <1>7 DEF Blocks

(* Freeing the reply takes its answers and leaves the questions alone.     *)
LEMMA FreeReplyBlocks ==
  ASSUME Types, Replying, Blocks, FreeReply
  PROVE  Blocks'
<1> DEFINE n == question.count[1] m == [reply EXCEPT !.count = NotCounted] R == Reached(m, InReply)
<1>1. /\ pc = "free_reply" /\ pc' = "send" /\ UNCHANGED <<question, reply>>
      /\ heap' = heap \ R /\ misuse' = (misuse \/ ~(R \subseteq heap))
  BY DEF FreeReply, Free, Use
<1>2. pc \in Late
  BY <1>1 DEF Late
<1>3. PICK c \in {0, n} :
        /\ reply.count = <<n, c, 0, 0>>
        /\ Kept = IF c = 0 THEN Own(n) \ OwnReached ELSE Own(n)
  BY <1>2, ReplyHeld
<1>4. /\ n \in Nat /\ Len(Answers) = n /\ OwnReached \subseteq Own(n)
      /\ \A b \in Own(n) : b \notin Allocated(question)
      /\ Done /\ reply.section = <<question.section[1], Answers, << >>, << >>>>
  BY <1>2, ReplyHeld
<1>5. m.section = <<question.section[1], Answers, << >>, << >>>> /\ m.count = <<0, c, 0, 0>>
  <2> DEFINE q == question.section[1] a == Answers
             t == <<q, a, << >>, << >>>> d == <<n, c, 0, 0>> e == <<0, c, 0, 0>>
  <2>1. reply = Reply(reply.id, reply.flags, reply.count, q, a)
    BY DEF Replying
  <2> HIDE DEF q, a, n
  <2>2. [d EXCEPT ![1] = 0] = e
    OBVIOUS
  <2>3. reply.count = d
    BY <1>3
  <2> HIDE DEF d, e
  <2>4. NotCounted = e
    BY <2>2, <2>3, Zenon DEF NotCounted
  <2>5. reply = [id |-> reply.id, flags |-> reply.flags, count |-> reply.count, section |-> t]
    BY <2>1 DEF Reply
  <2> HIDE DEF t
  <2>6. m.section = t /\ m.count = NotCounted
    BY <2>5
  <2> QED BY <2>4, <2>6, Zenon DEF q, a, t, e
<1>6. \A b : b \in R <=>
               \/ c > 0 /\ b \in OwnReached
               \/ 0 > 0 /\ b \in Reached(question, InQuestion) /\ b[2] = 1
  <2> HIDE DEF m
  <2> QED BY <1>4, <1>5, <1>3, ReplyReached
<1> HIDE DEF m, R, n
<1>7. \A b : b \in R <=> c # 0 /\ b \in OwnReached
  BY <1>3, <1>4, <1>6
<1>8. Held(Left \cup Kept) /\ ~misuse
  BY <1>1 DEF Blocks
<1>9. R \subseteq heap
  BY <1>3, <1>4, <1>7, <1>8 DEF Held
<1>10. ~misuse'
  BY <1>1, <1>8, <1>9
<1>11. /\ Left' = Left /\ OwnReached' = OwnReached /\ Own(Len(Answers))' = Own(n)
  BY <1>1, <1>4 DEF Left, OwnReached, Answers
<1>12. \A b \in R : b \notin Left
  BY <1>4, <1>7 DEF Left
<1>13. \A b : b \in Left \cup Kept => b \in R \/ b \in Left \cup (Own(n) \ OwnReached)
  BY <1>3, <1>7
<1>14. \A b \in Left \cup (Own(n) \ OwnReached) : b \in Left \cup Kept /\ b \notin R
  BY <1>3, <1>7, <1>12
<1>15. Left \cup (Own(n) \ OwnReached) \subseteq heap'
       /\ \A b \in heap' : b \in Left \cup (Own(n) \ OwnReached) \/ b[1] = "domain"
  BY <1>1, <1>8, <1>13, <1>14 DEF Held
<1>16. Held(Left \cup (Own(Len(Answers)) \ OwnReached))'
  BY <1>11, <1>15 DEF Held
<1> QED BY <1>1, <1>10, <1>16 DEF Blocks

(* Of no answers there is the empty list.                                  *)
LEMMA EmptyOwn == Own(0) = {AnswerList}
<1>1. \A b : b \in Own(0) <=> b = AnswerList
  BY OwnIs DEF AnswerList
<1> QED BY <1>1

(* Every step keeps Blocks.                                                *)
LEMMA BlocksNext ==
  ASSUME Types, Replying, Blocks, [Next]_vars
  PROVE  Blocks'
<1>1. ASSUME UNCHANGED <<pc, question, reply, heap, misuse>> PROVE Blocks'
  BY <1>1 DEF Blocks, Held, Kept, Left, OwnReached, Answers
<1>2. CASE UNCHANGED vars
  BY <1>1, <1>2 DEF vars
<1>3. CASE RootUnderflow \/ FollowNowhere
  BY <1>1, <1>3 DEF RootUnderflow, FollowNowhere
<1>4. ASSUME NEW d \in Name, Register(d) \/ Bind(d) PROVE Blocks'
  BY <1>1, <1>4 DEF Register, Bind
<1>5. ASSUME Back, misuse' = misuse PROVE Blocks'
  BY <1>5 DEF Back, Blocks
<1>6. CASE Send
  BY <1>5, <1>6 DEF Send
<1>7. CASE Receive
  BY <1>7 DEF Receive, Blocks
<1>8. CASE ReadQuestions
  <2>1. misuse' = misuse /\ pc = "interpret" /\ ~misuse /\ heap = {}
    BY <1>8 DEF ReadQuestions, Blocks
  <2>2. CASE pc' = "answer" /\ Len(Answers') = 0 /\ heap' = heap \cup Allocated(question') \cup {AnswerList}
    <3>1. Held(Allocated(question) \cup Own(Len(Answers)))'
      BY <2>1, <2>2, EmptyOwn DEF Held
    <3> QED BY <2>1, <2>2, <3>1 DEF Blocks
  <2> QED BY <1>5, <1>8, <2>1, <2>2, ReadTypes
<1>9. CASE LookupToken
  <2>1. UNCHANGED <<question, misuse>> /\ heap' = heap \cup NewBlocks /\ pc = "answer" /\ ~Done
    BY <1>9 DEF LookupToken
  <2>2. \/ pc' = "ip" /\ reply' = reply
        \/ pc' = "answer" /\ Len(Answers') = Len(Answers) + 1
    BY <1>9, LookupTokenTypes
  <2>3. \/ pc' = "ip" /\ Answers' = Answers
        \/ pc' = "answer" /\ Len(Answers') = Len(Answers) + 1
    BY <2>2 DEF Answers
  <2> QED BY <2>1, <2>3, AnswerBlocks
<1>10. CASE OtherQuestion
  <2>1. UNCHANGED <<question, misuse>> /\ heap' = heap \cup NewBlocks /\ pc = "answer" /\ ~Done
    BY <1>10 DEF OtherQuestion
  <2>2. pc' = "answer" /\ Len(Answers') = Len(Answers) + 1
    BY <1>10, OtherQuestionTypes
  <2> QED BY <2>1, <2>2, AnswerBlocks
<1>11. CASE LookupIp
  <2>1. UNCHANGED <<question, heap, misuse>> /\ pc = "ip"
    BY <1>11 DEF LookupIp
  <2>2. pc' = "answer" /\ Len(Answers') = Len(Answers) + 1
    BY <1>11, LookupIpTypes
  <2>3. Held(Allocated(question) \cup Own(Len(Answers) + 1)) /\ ~misuse
    BY <2>1 DEF Blocks
  <2>4. Held(Allocated(question) \cup Own(Len(Answers)))'
    BY <2>1, <2>2, <2>3 DEF Held
  <2> QED BY <2>1, <2>2, <2>3, <2>4 DEF Blocks
<1> QED BY <1>2, <1>3, <1>4, <1>6, <1>7, <1>8, <1>9, <1>10, <1>11, MakeReplyBlocks,
           WriteBlocks, FreeQuestionBlocks, FreeReplyBlocks DEF Next

(* The heap is empty before the first datagram.                            *)
LEMMA BlocksInit == Init => Blocks
BY DEF Init, Blocks

-----------------------------------------------------------------------------
(* Inductive, third part: no flag means that every answer so far has an    *)
(* address, bound when it was looked up and from then on.                  *)
Bound == {d \in Name : link[d] = "ip"}

Answered ==
  /\ pc = "ip" => domain \in LookedUp(Current.labels)
  /\ flag = 0 => \A i \in 1..Len(Answers) : Answers[i].ptr = "ip" /\ LookedUp(Answers[i].labels) \cap Bound # {}

(* What is looked up and found is a name.                                  *)
LEMMA LookedUpNames == \A ls : LookedUp(ls) \subseteq Name
BY DEF LookedUp

(* Answered holds before the first datagram.                               *)
LEMMA AnsweredInit == Init => Answered
<1> SUFFICES ASSUME Init PROVE Answered
  OBVIOUS
<1>1. Answers = << >> /\ pc = "receive"
  BY DEF Init, Answers, None
<1>2. Len(<< >>) = 0
  OBVIOUS
<1> QED BY <1>1, <1>2 DEF Answered

(* Every step keeps Answered; the other threads only ever bind more.       *)
LEMMA AnsweredNext ==
  ASSUME Types, Replying, Answered, [Next]_vars
  PROVE  Answered'
<1>1. ASSUME UNCHANGED <<question, reply, flag, domain>>, pc' = pc \/ pc' # "ip", Bound \subseteq Bound'
      PROVE  Answered'
  BY <1>1 DEF Answered, Answers, Current
<1>2. link' = link => Bound' = Bound
  BY DEF Bound
<1>3. ASSUME Back PROVE Answered'
  <2>1. Answers' = << >> /\ pc' = "receive"
    BY <1>3 DEF Back, Answers, None
  <2>2. Len(<< >>) = 0
    OBVIOUS
  <2> QED BY <2>1, <2>2 DEF Answered
<1>4. ASSUME NEW r, Answers' = Append(Answers, r), flag' = flag, Bound' = Bound, pc' = "answer",
             flag = 0 => r.ptr = "ip" /\ LookedUp(r.labels) \cap Bound # {}
      PROVE  Answered'
  <2> DEFINE k == Len(Answers) s == Answers t == Answers'
  <2>1. s \in Seq(Made(question)) /\ t = Append(s, r) /\ k = Len(s)
    BY <1>4 DEF Replying
  <2> HIDE DEF s, t, k
  <2>2. /\ Len(t) = k + 1 /\ t[k + 1] = r /\ k \in Nat
        /\ \A i \in 1..k : t[i] = s[i]
    BY <2>1
  <2>3. ASSUME flag' = 0, NEW i \in 1..Len(t) PROVE t[i].ptr = "ip" /\ LookedUp(t[i].labels) \cap Bound' # {}
    <3>1. CASE i = k + 1
      BY <1>4, <2>2, <2>3, <3>1
    <3>2. CASE i # k + 1
      <4>1. i \in 1..k
        BY <2>2, <2>3, <3>2
      <4>2. s[i].ptr = "ip" /\ LookedUp(s[i].labels) \cap Bound # {}
        BY <1>4, <2>3, <4>1 DEF Answered, s, k
      <4> QED BY <1>4, <2>2, <4>1, <4>2
    <3> QED BY <3>1, <3>2
  <2> QED BY <1>4, <2>3 DEF Answered, t
<1>5. CASE UNCHANGED vars
  BY <1>1, <1>2, <1>5 DEF vars
<1>6. CASE RootUnderflow \/ FollowNowhere \/ WriteReply \/ FreeQuestion \/ FreeReply \/ Receive
  BY <1>1, <1>2, <1>6 DEF RootUnderflow, FollowNowhere, WriteReply, FreeQuestion, FreeReply, Receive
<1>7. ASSUME NEW d \in Name, Register(d) \/ Bind(d) PROVE Answered'
  <2>1. \A e \in Name : link[e] = "ip" => link'[e] = "ip"
    BY <1>7 DEF Register, Bind, Types
  <2>2. Bound \subseteq Bound'
    BY <2>1 DEF Bound
  <2> QED BY <1>1, <1>7, <2>2 DEF Register, Bind
<1>8. CASE Send
  BY <1>3, <1>8 DEF Send
<1>9. CASE ReadQuestions
  <2>1. \/ Back
        \/ pc' = "answer" /\ Len(Answers') = 0
    BY <1>9, ReadTypes
  <2>2. ASSUME pc' = "answer", Len(Answers') = 0 PROVE Answered'
    BY <2>2 DEF Answered
  <2> QED BY <1>3, <2>1, <2>2
<1>10. CASE LookupToken
  <2>1. UNCHANGED <<question, link>>
        /\ \/ /\ pc' = "ip" /\ UNCHANGED <<reply, flag>>
              /\ domain' \in LookedUp(Current.labels)
           \/ pc' = "answer" /\ flag' = 1
    BY <1>10, LookupTokenTypes
  <2>2. CASE pc' = "answer" /\ flag' = 1
    BY <2>2 DEF Answered
  <2>3. CASE /\ pc' = "ip" /\ UNCHANGED <<reply, flag>>
             /\ domain' \in LookedUp(Current.labels)
    <3>1. Current' = Current /\ Answers' = Answers /\ Bound' = Bound
      BY <1>2, <2>1, <2>3 DEF Current, Answers
    <3> QED BY <2>3, <3>1 DEF Answered
  <2> QED BY <2>1, <2>2, <2>3
<1>11. CASE OtherQuestion
  <2>1. pc' = "answer" /\ flag' = 2
    BY <1>11, OtherQuestionTypes
  <2> QED BY <2>1 DEF Answered
<1>12. CASE LookupIp
  <2>1. /\ UNCHANGED <<question, link>> /\ pc = "ip" /\ ~Done /\ pc' = "answer"
        /\ \/ /\ link[domain] = "ip" /\ flag' = flag
              /\ Answers' = Append(Answers, Record(Current, Ttl, 4, "ip"))
           \/ flag' = 1
    BY <1>12, LookupIpTypes
  <2>2. CASE link[domain] = "ip" /\ flag' = flag
             /\ Answers' = Append(Answers, Record(Current, Ttl, 4, "ip"))
    <3>1. Record(Current, Ttl, 4, "ip").ptr = "ip" /\ Record(Current, Ttl, 4, "ip").labels = Current.labels
      BY DEF Record
    <3>2. LookedUp(Current.labels) \cap Bound # {}
      BY <2>1, <2>2, LookedUpNames DEF Answered, Bound
    <3> DEFINE r == Record(Current, Ttl, 4, "ip")
    <3>3. r.ptr = "ip" /\ LookedUp(r.labels) \cap Bound # {} /\ Answers' = Append(Answers, r) /\ flag' = flag
      BY <2>1, <2>2, <3>1, <3>2
    <3> HIDE DEF r
    <3> QED BY <1>2, <1>4, <2>1, <3>3
  <2>3. CASE flag' = 1
    BY <2>1, <2>3 DEF Answered
  <2> QED BY <2>1, <2>2, <2>3
<1>13. CASE MakeReply
  <2>1. Answers' = Answers /\ pc' = "serialize" /\ flag' = flag /\ link' = link
    BY <1>13, MakeReplyTypes DEF MakeReply
  <2> QED BY <1>2, <2>1 DEF Answered
<1> QED BY <1>5, <1>6, <1>7, <1>8, <1>9, <1>10, <1>11, <1>12, <1>13 DEF Next

(* The code of a reply is read from its flags as it was written.           *)
LEMMA CodeRead ==
  ASSUME Types
  PROVE  DecodeFlags(ReplyFlags).rcode = Code
<1>1. Code \in {0, 1, 3, 4}
  BY DEF Code, Types
<1> DEFINE rd == DecodeFlags(question.flags).rd
<1>2. rd \in {0, 1}
  <2>1. question.flags \in Nat
    BY DEF Types
  <2>2. \A v \in Nat : (v \div 256) % 2 \in {0, 1}
    OBVIOUS
  <2> QED BY <2>1, <2>2 DEF DecodeFlags
<1> DEFINE c == Code
<1>3. ReplyFlags = 33792 + rd * 256 + c
  <2>1. ReplyFlags = 1 * 32768 + 0 * 2048 + 1 * 1024 + 0 * 512 + rd * 256 + 0 * 128 + c
    BY DEF ReplyFlags, FlagsWith, EncodeFlags
  <2> HIDE DEF rd, c
  <2>2. \A x \in {0, 1}, y \in {0, 1, 3, 4} :
          1 * 32768 + 0 * 2048 + 1 * 1024 + 0 * 512 + x * 256 + 0 * 128 + y = 33792 + x * 256 + y
    BY SMT
  <2> QED BY <1>1, <1>2, <2>1, <2>2 DEF c
<1>4. c \in {0, 1, 3, 4}
  BY <1>1
<1> HIDE DEF rd, c
<1>5. (33792 + rd * 256 + c) % 16 = c
  BY <1>2, <1>4, SMT
<1>6. DecodeFlags(ReplyFlags).rcode = ReplyFlags % 16
  BY DEF DecodeFlags
<1> QED BY <1>3, <1>5, <1>6 DEF c

(* The code of a reply is 0 only if nothing was flagged.                   *)
LEMMA ReplyAnswered ==
  ASSUME Types, Replying, Answered
  PROVE  NoErrorMeansAnswered
<1> SUFFICES ASSUME pc \in Late, DecodeFlags(reply.flags).rcode = 0
             PROVE  /\ reply.count[2] = question.count[1]
                    /\ \A i \in 1..reply.count[2] :
                         /\ reply.section[2][i].ptr = "ip"
                         /\ reply.section[2][i].labels = question.section[1][i].labels
                         /\ \E d \in LookedUp(reply.section[2][i].labels) : link[d] = "ip"
  BY DEF NoErrorMeansAnswered, Late
<1>1. Done /\ Code = 0
      /\ reply.count = <<question.count[1], IF flag # 0 /\ err = 0 THEN 0 ELSE question.count[1], 0, 0>>
  BY CodeRead DEF Replying
<1>2. flag = 0
  BY <1>1 DEF Code, Types
<1> DEFINE n == question.count[1]
<1>3. n \in Nat /\ Len(Answers) = n
  BY <1>1 DEF Done, Types, Sections
<1>4. reply.count[2] = n
  <2> HIDE DEF n
  <2> QED BY <1>1, <1>2 DEF n
<1>5. ASSUME NEW i \in 1..n
      PROVE  /\ Answers[i].ptr = "ip" /\ Answers[i].labels = question.section[1][i].labels
             /\ LookedUp(Answers[i].labels) \cap Bound # {}
  BY <1>2, <1>3, <1>5 DEF Answered, Replying
<1> QED BY <1>4, <1>5 DEF Answers, Bound

(* What is left when a reply is sent.                                      *)
LEMMA LeftHasNothing ==
  ASSUME Types, Replying, Blocks
  PROVE  LeavesNoList
<1> DEFINE Empty(b) ==
             \/ b[1] \in {"domain", "data"}
             \/ b = AnswerList /\ question.count[1] = 0
             \/ b[1] = "section" /\ b # AnswerList /\ question.count[b[2]] = 0
             \/ b[1] = "labels" /\ b[2] = 5 /\ question.section[1][b[3]].labels = << >>
<1> SUFFICES ASSUME pc = "send", NEW b \in heap PROVE Empty(b)
  BY DEF LeavesNoList, AnswerList
<1> DEFINE n == question.count[1]
<1>1. b \in Left \/ (b \in Own(Len(Answers)) /\ b \notin OwnReached) \/ b[1] = "domain"
  BY DEF Blocks, Held
<1>2. n \in Nat /\ Len(Answers) = n
  BY DEF Replying, Late, Done, Types, Sections
<1>3. CASE b \in Left
  <2>1. \A s \in Sections : InQuestion[s] = s
    BY DEF Sections, InQuestion
  <2>2. PICK s \in Sections : \/ b = <<"section", s, 0>>
                              \/ \E i \in Labelled(question, s) : b = <<"labels", s, i>>
                              \/ \E i \in 1..question.count[s] : b = <<"data", s, i>>
    BY <1>3, AllocatedIs DEF Left
  <2>3. b \notin Reached(question, InQuestion)
    BY <1>3 DEF Left
  <2>4. question.count[s] \in Nat
    BY DEF Types
  <2>5. \A i \in Labelled(question, s) : question.count[s] > 0
    BY <2>4 DEF Labelled
  <2>6. ~(question.count[s] > 0 /\ (b = <<"section", s, 0>> \/ \E i \in Labelled(question, s) : b = <<"labels", s, i>>))
    BY <2>1, <2>3, ReachedIs
  <2>7. CASE b = <<"section", s, 0>>
    <3>1. s # 5
      BY DEF Sections
    <3> QED BY <2>4, <2>6, <2>7, <3>1 DEF AnswerList
  <2>8. CASE \E i \in Labelled(question, s) : b = <<"labels", s, i>>
    BY <2>5, <2>6, <2>8
  <2>9. CASE \E i \in 1..question.count[s] : b = <<"data", s, i>>
    BY <2>9
  <2> QED BY <2>2, <2>7, <2>8, <2>9
<1>4. CASE b \in Own(Len(Answers)) /\ b \notin OwnReached
  <2>1. n = 0 \/ (b[1] = "labels" /\ Answers[b[3]].labels = << >>)
    BY <1>2, <1>4 DEF OwnReached
  <2> DEFINE k == Len(Answers)
  <2>2. b \in Own(k) /\ k \in Nat
    BY <1>2, <1>4
  <2>3. k = n
    BY <1>2
  <2> HIDE DEF k
  <2>4. CASE b = AnswerList
    <3>1. b[1] # "labels"
      BY <2>4 DEF AnswerList
    <3> QED BY <2>1, <2>4, <3>1
  <2>5. CASE b # AnswerList
    <3>1. PICK i \in 1..k : b = <<"labels", 5, i>>
      BY <2>2, <2>5, OwnIs DEF AnswerList
    <3>2. n # 0
      BY <2>2, <2>3, <3>1
    <3>3. Answers[i].labels = question.section[1][i].labels
      BY <3>1 DEF Replying, k
    <3> QED BY <2>1, <3>1, <3>2, <3>3
  <2> QED BY <2>4, <2>5
<1> QED BY <1>1, <1>3, <1>4
-----------------------------------------------------------------------------
(* Inductive, fourth part: what was sent is what is read, answered and, in *)
(* the reply, written.                                                     *)
Sending == {"free_question", "free_reply", "send"}

Arrived ==
  IF sent.whole THEN \E after \in Octets : packet = Serialize(sent.msg) \o after
  ELSE \E n \in 0..(Len(Serialize(sent.msg)) - 1) : packet = SubSeq(Serialize(sent.msg), 1, n)

Understood ==
  /\ pc # "receive" => sent.msg \in Message
  /\ pc = "interpret" => Arrived
  /\ pc \in Working \cup Late => question = sent.msg /\ reply.id = sent.msg.id
  /\ out = IF pc \in Sending THEN Serialize(Written) ELSE << >>

(* Nothing is understood before the first datagram.                        *)
LEMMA UnderstoodInit == Init => Understood
BY DEF Init, Understood, Working, Late, Sending

(* Answers, counts and flags leave the id of the reply as it was.          *)
LEMMA IdKept ==
  ASSUME Replying
  PROVE  /\ \A r : AddAnswer(r) => reply'.id = reply.id
         /\ MakeReply => reply'.id = reply.id
<1>1. ASSUME NEW r, AddAnswer(r) PROVE reply'.id = reply.id
  <2> DEFINE i == reply.id f == reply.flags c == reply.count q == question.section[1] a == Answers
  <2>1. reply = Reply(i, f, c, q, a)
    BY DEF Replying
  <2>2. reply' = [reply EXCEPT !.section[2] = Append(@, r)]
    BY <1>1 DEF AddAnswer
  <2> HIDE DEF i, f, c, q, a
  <2>3. [Reply(i, f, c, q, a) EXCEPT !.section[2] = Append(@, r)] = Reply(i, f, c, q, Append(a, r))
    BY ReplyAnswers
  <2>4. reply' = Reply(i, f, c, q, Append(a, r))
    BY <2>1, <2>2, <2>3, Zenon
  <2> QED BY <2>4 DEF Reply, i
<1>2. ASSUME MakeReply PROVE reply'.id = reply.id
  <2> DEFINE n == question.count[1] q == question.section[1] a == Answers g == ReplyFlags i == reply.id
             full == FullReplyMade drop == flag # 0 /\ err = 0
  <2>1. reply' = IF drop THEN [full EXCEPT !.count[2] = 0] ELSE full
    BY <1>2, Zenon DEF MakeReply, FullReplyMade
  <2>2. /\ full = Reply(i, g, <<n, n, 0, 0>>, q, a)
        /\ [full EXCEPT !.count[2] = 0] = Reply(i, g, <<n, 0, 0, 0>>, q, a)
    BY FullIs, Zenon
  <2> HIDE DEF n, q, a, g, i, full, drop
  <2>3. reply' = Reply(i, g, <<n, n, 0, 0>>, q, a) \/ reply' = Reply(i, g, <<n, 0, 0, 0>>, q, a)
    BY <2>1, <2>2, Zenon
  <2> QED BY <2>3 DEF Reply, i
<1> QED BY <1>1, <1>2

(* recvfrom: what arrives is bytes of a message some peer sent.            *)
LEMMA ReceiveUnderstood ==
  ASSUME Understood, Receive
  PROVE  Understood'
<1>1. PICK m \in Message : LET b == Serialize(m) IN
        \/ \E n \in 0..(Len(b) - 1) :
             packet' = SubSeq(b, 1, n) /\ sent' = [msg |-> m, whole |-> FALSE]
        \/ \E after \in Spare :
             packet' = b \o after /\ sent' = [msg |-> m, whole |-> TRUE]
  BY DEF Receive
<1>2. pc = "receive" /\ pc' = "interpret" /\ out' = out
  BY DEF Receive
<1>3. sent'.msg = m
  BY <1>1
<1>4. Arrived'
  <2>1. CASE \E n \in 0..(Len(Serialize(m)) - 1) :
               packet' = SubSeq(Serialize(m), 1, n) /\ sent' = [msg |-> m, whole |-> FALSE]
    <3>1. ~sent'.whole /\ \E n \in 0..(Len(Serialize(m)) - 1) : packet' = SubSeq(Serialize(m), 1, n)
      BY <2>1
    <3> QED BY <1>3, <3>1 DEF Arrived
  <2>2. CASE \E after \in Spare : packet' = Serialize(m) \o after /\ sent' = [msg |-> m, whole |-> TRUE]
    <3>1. PICK after \in Spare : packet' = Serialize(m) \o after /\ sent' = [msg |-> m, whole |-> TRUE]
      BY <2>2
    <3>2. sent'.whole
      BY <3>1
    <3>3. after \in Octets
      BY <3>1, DatagramAssumption DEF Octets, Octet
    <3> QED BY <1>3, <3>1, <3>2, <3>3, Zenon DEF Arrived
  <2> QED BY <1>1, <2>1, <2>2, Zenon
<1> QED BY <1>2, <1>3, <1>4 DEF Understood, Working, Late, Sending

(* interpret_question makes of a whole message what was sent, and drops    *)
(* a part.                                                                 *)
LEMMA ReadWhatWasSent ==
  ASSUME Understood, ReadQuestions
  PROVE  IF sent.whole THEN pc' = "answer" /\ question' = sent.msg /\ reply'.id = sent.msg.id
         ELSE Back
<1> DEFINE r == Interpret(packet)
<1>1. /\ pc = "interpret"
      /\ IF r.error THEN Back
         ELSE /\ question' = r.msg
              /\ reply' = [None EXCEPT !.id = r.msg.id, !.section[1] = r.msg.section[1]]
              /\ pc' = "answer"
  BY DEF ReadQuestions
<1>2. sent.msg \in Message /\ Arrived
  BY <1>1 DEF Understood
<1>3. WellFormed(sent.msg)
  BY <1>2, DatagramAssumption
<1> HIDE DEF r
<1>4. CASE sent.whole
  <2>1. PICK after \in Octets : packet = Serialize(sent.msg) \o after
    BY <1>2, <1>4 DEF Arrived
  <2>2. ~r.error /\ r.msg = sent.msg
    BY <1>3, <2>1, WholeBack, Zenon DEF r
  <2>3. reply'.id = sent.msg.id
    <3> DEFINE i == r.msg.id q == r.msg.section[1]
    <3>1. reply' = [None EXCEPT !.id = i, !.section[1] = q]
      BY <1>1, <2>2
    <3>2. i = sent.msg.id
      BY <2>2
    <3> HIDE DEF i, q
    <3>3. reply'.id = i
      BY <3>1 DEF None
    <3> QED BY <3>2, <3>3
  <2> QED BY <1>1, <1>4, <2>2, <2>3, Zenon
<1>5. CASE ~sent.whole
  <2>1. PICK n \in 0..(Len(Serialize(sent.msg)) - 1) : packet = SubSeq(Serialize(sent.msg), 1, n)
    BY <1>2, <1>5 DEF Arrived
  <2>2. r.error
    BY <1>3, <2>1, PartKnown, Zenon DEF r
  <2> QED BY <1>1, <1>5, <2>2, Zenon
<1> QED BY <1>4, <1>5

(* Every step keeps Understood.                                            *)
LEMMA UnderstoodNext ==
  ASSUME Types, Replying, Understood, [Next]_vars
  PROVE  Understood'
<1>1. ASSUME UNCHANGED <<sent, packet, question, reply, out>>,
             pc' = pc \/ (pc \in Sending /\ pc' \in Sending)
      PROVE  Understood'
  <2>1. Written' = Written
    BY <1>1 DEF Written
  <2>2. Arrived' = Arrived
    BY <1>1 DEF Arrived
  <2> QED BY <1>1, <2>1, <2>2 DEF Understood, Sending, Working, Late
<1>2. ASSUME UNCHANGED <<sent, question, out>>, reply'.id = reply.id,
             pc \in Working, pc' \in Working \cup {"serialize"}
      PROVE  Understood'
  BY <1>2 DEF Understood, Sending, Working, Late
<1>3. ASSUME Back PROVE Understood'
  BY <1>3 DEF Back, Understood, Sending, Working, Late
<1>4. CASE UNCHANGED vars
  BY <1>1, <1>4 DEF vars
<1>5. CASE RootUnderflow \/ FollowNowhere \/ \E d \in Name : Register(d) \/ Bind(d)
  BY <1>1, <1>5 DEF RootUnderflow, FollowNowhere, Register, Bind
<1>6. CASE FreeQuestion \/ FreeReply
  BY <1>1, <1>6 DEF FreeQuestion, FreeReply, Sending
<1>7. CASE Send
  BY <1>3, <1>7 DEF Send
<1>8. CASE ReadQuestions
  <2>1. CASE sent.whole
    <3>1. /\ pc = "interpret" /\ pc' = "answer" /\ question' = sent.msg /\ reply'.id = sent.msg.id
          /\ UNCHANGED <<sent, out>>
      <4>1. pc' = "answer" /\ question' = sent.msg /\ reply'.id = sent.msg.id
        BY <1>8, <2>1, ReadWhatWasSent
      <4>2. pc = "interpret" /\ (~Interpret(packet).error => UNCHANGED <<sent, out>>)
            /\ (Interpret(packet).error => Back)
        BY <1>8 DEF ReadQuestions
      <4>3. ~Back
        BY <4>1 DEF Back
      <4> QED BY <4>1, <4>2, <4>3
    <3> QED BY <3>1 DEF Understood, Sending, Working, Late
  <2>2. CASE ~sent.whole
    BY <1>3, <1>8, <2>2, ReadWhatWasSent
  <2> QED BY <2>1, <2>2
<1>9. CASE LookupToken
  <2>1. UNCHANGED <<sent, question, out>> /\ pc = "answer"
    BY <1>9 DEF LookupToken
  <2>2. \/ pc' = "ip" /\ reply' = reply
        \/ pc' = pc /\ \E r : AddAnswer(r)
    BY <1>9 DEF LookupToken
  <2>3. reply'.id = reply.id
    BY <2>2, IdKept
  <2> QED BY <1>2, <2>1, <2>2, <2>3 DEF Working
<1>10. CASE LookupIp
  <2>1. UNCHANGED <<sent, question, out>> /\ pc = "ip" /\ pc' = "answer" /\ \E r : AddAnswer(r)
    BY <1>10 DEF LookupIp
  <2>2. reply'.id = reply.id
    BY <2>1, IdKept
  <2> QED BY <1>2, <2>1, <2>2 DEF Working
<1>11. CASE OtherQuestion
  <2>1. UNCHANGED <<sent, question, out, pc>> /\ pc = "answer" /\ \E r : AddAnswer(r)
    BY <1>11 DEF OtherQuestion
  <2>2. reply'.id = reply.id
    BY <2>1, IdKept
  <2> QED BY <1>2, <2>1, <2>2 DEF Working
<1>12. CASE MakeReply
  <2>1. UNCHANGED <<sent, question, out>> /\ pc = "answer" /\ pc' = "serialize"
    BY <1>12 DEF MakeReply
  <2>2. reply'.id = reply.id
    BY <1>12, IdKept
  <2> QED BY <1>2, <2>1, <2>2 DEF Working
<1>13. CASE WriteReply
  <2>1. /\ UNCHANGED <<sent, question, reply>> /\ pc = "serialize" /\ pc' = "free_question"
        /\ out' = Serialize(Written)
    BY <1>13 DEF WriteReply
  <2>2. Written' = Written
    BY <2>1 DEF Written
  <2>3. out' = Serialize(Written')
    BY <2>1, <2>2
  <2> QED BY <2>1, <2>3 DEF Understood, Sending, Working, Late
<1> QED BY <1>4, <1>5, <1>6, <1>7, <1>8, <1>9, <1>10, <1>11, <1>12, <1>13, ReceiveUnderstood DEF Next
-----------------------------------------------------------------------------
(* The reply as it is written.                                             *)

(* make_reply's flags fit their field; QR and RD are read back from them.  *)
LEMMA FlagsRead ==
  ASSUME Types
  PROVE  /\ ReplyFlags \in uint16
         /\ DecodeFlags(ReplyFlags).qr = 1
         /\ DecodeFlags(ReplyFlags).rd = DecodeFlags(question.flags).rd
<1> DEFINE rd == DecodeFlags(question.flags).rd c == Code
<1>1. c \in {0, 1, 3, 4}
  BY DEF Code, Types
<1>2. rd \in {0, 1}
  <2>1. question.flags \in Nat
    BY DEF Types
  <2>2. \A v \in Nat : (v \div 256) % 2 \in {0, 1}
    BY SMT
  <2> QED BY <2>1, <2>2 DEF DecodeFlags
<1>3. ReplyFlags = 33792 + rd * 256 + c
  <2>1. ReplyFlags = 1 * 32768 + 0 * 2048 + 1 * 1024 + 0 * 512 + rd * 256 + 0 * 128 + c
    BY DEF ReplyFlags, FlagsWith, EncodeFlags
  <2> HIDE DEF rd, c
  <2>2. \A x \in {0, 1}, y \in {0, 1, 3, 4} :
          1 * 32768 + 0 * 2048 + 1 * 1024 + 0 * 512 + x * 256 + 0 * 128 + y = 33792 + x * 256 + y
    BY SMT
  <2> QED BY <1>1, <1>2, <2>1, <2>2
<1> HIDE DEF rd, c
<1>4. \A x \in {0, 1}, y \in {0, 1, 3, 4} :
        /\ 33792 + x * 256 + y \in Nat
        /\ 33792 + x * 256 + y <= 34304
        /\ ((33792 + x * 256 + y) \div 32768) = 1
        /\ ((33792 + x * 256 + y) \div 256) = 132 + x
  BY SMT
<1>5. \A x \in {0, 1} : ((132 + x) % 2) = x
  BY SMT
<1> DEFINE f == ReplyFlags
<1>6. /\ f \in Nat /\ f <= 34304
      /\ (f \div 32768) = 1 /\ (f \div 256) = 132 + rd
  BY <1>1, <1>2, <1>3, <1>4, SMT
<1> DEFINE w == f \div 32768 u == f \div 256
<1>7. /\ DecodeFlags(f).qr = w % 2
      /\ DecodeFlags(f).rd = u % 2
  BY DEF DecodeFlags
<1> HIDE DEF f
<1>8. f \in uint16
  <2> DEFINE m == 65535
  <2>1. uint16 = 0..m /\ m \in Nat /\ f <= m
    BY <1>6, SMT DEF uint16
  <2> HIDE DEF m
  <2>2. f \in 0..m
    BY <1>6, <2>1, SMT
  <2> QED BY <2>1, <2>2
<1>9. w = 1 /\ u = 132 + rd
  BY <1>6
<1> HIDE DEF w, u
<1>10. w % 2 = 1 /\ u % 2 = rd
  BY <1>2, <1>5, <1>9, SMT
<1> QED BY <1>7, <1>8, <1>10 DEF f, rd

(* Replacing the answers of a reply.                                       *)
LEMMA ReplyReplaced ==
  ASSUME NEW i, NEW f, NEW c, NEW q, NEW a, NEW x
  PROVE  [Reply(i, f, c, q, a) EXCEPT !.section[2] = x] = Reply(i, f, c, q, x)
<1> DEFINE e == <<q, a, << >>, << >> >>
           t == <<q, x, << >>, << >> >>
           n == [id |-> i, flags |-> f, count |-> c, section |-> e]
<1>1. [e EXCEPT ![2] = x] = t
  OBVIOUS
<1> HIDE DEF e, t
<1>2. [n EXCEPT !.section[2] = x] = [n EXCEPT !.section = [e EXCEPT ![2] = x]]
  OBVIOUS
<1>3. [n EXCEPT !.section = t] = [id |-> i, flags |-> f, count |-> c, section |-> t]
  OBVIOUS
<1> HIDE DEF n
<1>4. [n EXCEPT !.section[2] = x] = [id |-> i, flags |-> f, count |-> c, section |-> t]
  BY <1>1, <1>2, <1>3
<1>5. Reply(i, f, c, q, a) = n /\ Reply(i, f, c, q, x) = [id |-> i, flags |-> f, count |-> c, section |-> t]
  BY DEF Reply, n, e, t
<1> QED BY <1>4, <1>5, Zenon

(* An answer as the serializer finds it.                                   *)
Filled(r) == [labels |-> r.labels, type |-> r.type, class |-> r.class,
              ttl |-> r.ttl, size |-> r.size, data |-> Yield(r.ptr)]

(* What the data pointer yields is as long as the answer says.             *)
LEMMA FilledType ==
  ASSUME NEW q \in dnsmsg_question, NEW p \in Pointing, NEW r, r = Record(q, TtlOf(p), SizeOf(p), p)
  PROVE  Filled(r) \in dnsmsg_rr
<1>1. q.labels \in Labels /\ q.type \in uint16 /\ q.class \in uint16
  BY DEF dnsmsg_question
<1>2. Filled(r) = [labels |-> q.labels, type |-> q.type, class |-> q.class, ttl |-> TtlOf(p),
                   size |-> SizeOf(p), data |-> Yield(p)]
  BY DEF Filled, Record
<1> DEFINE t == TtlOf(p) z == SizeOf(p) d == Yield(p)
<1>3. t \in Nat /\ (t \div 65536) \in uint16 /\ z \in uint16
  <2>1. t \in {0, 300} /\ z \in {0, 4}
    BY DEF TtlOf, SizeOf, Ttl
  <2>2. \A k \in {0, 300} : k \in Nat /\ (k \div 65536) \in uint16
    <3>1. \A k \in {0, 300} : k \in Nat /\ (k \div 65536) = 0
      BY SMT
    <3>2. 0 \in uint16
      BY SMT DEF uint16
    <3> QED BY <3>1, <3>2, SMT
  <2>3. \A k \in {0, 4} : k \in uint16
    BY SMT DEF uint16
  <2> HIDE DEF t, z
  <2> QED BY <2>1, <2>2, <2>3
<1>4. d \in Seq(0..255) /\ Len(d) = z
  <2>1. CASE p = "ip"
    BY <2>1, DatagramAssumption DEF Yield, SizeOf
  <2>2. CASE p = "none"
    BY <2>2 DEF Yield, SizeOf
  <2>3. CASE p \in {"null", "unset"}
    <3>1. d = <<0, 0, 0, 0>> /\ z = 4
      BY <2>3 DEF Yield, SizeOf
    <3> QED BY <3>1
  <2> QED BY <2>1, <2>2, <2>3 DEF Pointing
<1> HIDE DEF t, z, d
<1>5. [labels |-> q.labels, type |-> q.type, class |-> q.class, ttl |-> t, size |-> z, data |-> d]
        \in dnsmsg_rr
  BY <1>1, <1>3, <1>4, SMT DEF dnsmsg_rr
<1> QED BY <1>2, <1>5, Zenon DEF t, z, d

(* The reply that is written is a message as its header says.              *)
LEMMA ReplyWellFormed ==
  ASSUME Types, Replying, Understood, pc \in Late
  PROVE  /\ WellFormed(Written)
         /\ Written.id = sent.msg.id /\ Written.flags = ReplyFlags
         /\ Written.section[1] = sent.msg.section[1]
<1> DEFINE n == question.count[1]
           k == IF flag # 0 /\ err = 0 THEN 0 ELSE n
           q == question.section[1]
           a == Answers
           x == [i \in 1..k |-> Filled(a[i])]
           c == <<n, k, 0, 0>>
           m == Reply(reply.id, ReplyFlags, c, q, x)
<1>1. /\ question = sent.msg /\ reply.id = sent.msg.id /\ sent.msg \in Message
      /\ reply = Reply(reply.id, ReplyFlags, c, q, a) /\ reply.count = c
      /\ Done
  BY DEF Understood, Replying, Late
<1>2. WellFormed(question)
  BY <1>1, DatagramAssumption
<1>3. /\ question.id \in uint16 /\ n \in uint16 /\ q \in Seq(dnsmsg_question) /\ Len(q) = n
  <2>1. 1 \in Sections /\ Element(1) = dnsmsg_question
    BY DEF Sections, Element
  <2> QED BY <1>2, <2>1, FieldsOf, Zenon
<1>4. n \in Nat /\ k \in 0..n /\ k \in uint16
  <2>1. \A y \in uint16 : y \in Nat /\ 0 \in uint16
    BY SMT DEF uint16
  <2> HIDE DEF n
  <2> QED BY <1>3, <2>1
<1>5. Written = m
  <2>1. Written = [reply EXCEPT !.section[2] = [i \in 1..reply.count[2] |-> Filled(reply.section[2][i])]]
    BY Zenon DEF Written, Filled
  <2>2. reply.count[2] = k /\ reply.section[2] = a
    <3> HIDE DEF k, n
    <3> QED BY <1>1 DEF Answers
  <2> DEFINE i == reply.id f == ReplyFlags
  <2> HIDE DEF k, a, c, q, i, f
  <2>3. [Reply(i, f, c, q, a) EXCEPT !.section[2] = x] = Reply(i, f, c, q, x)
    <3> HIDE DEF x
    <3> QED BY ReplyReplaced
  <2>4. reply = Reply(i, f, c, q, a)
    BY <1>1 DEF i, f
  <2> QED BY <2>1, <2>2, <2>3, <2>4, Zenon DEF i, f
<1>6. x \in Seq(dnsmsg_rr) /\ Len(x) = k
  <2>1. ASSUME NEW i \in 1..k PROVE Filled(a[i]) \in dnsmsg_rr
    <3>1. Len(a) = n /\ a \in Seq(Made(question))
      BY <1>1 DEF Replying, Done
    <3>2. a[i] \in Made(question)
      <4> DEFINE S == Made(question)
      <4> HIDE DEF S, a, n, k
      <4>1. i \in 1..Len(a)
        BY <1>4, <3>1
      <4> QED BY <3>1, <4>1, SeqAt
    <3>3. PICK j \in 1..n, p \in Pointing : a[i] = Record(q[j], TtlOf(p), SizeOf(p), p)
      BY <3>2 DEF Made
    <3>4. q[j] \in dnsmsg_question
      <4> HIDE DEF q, n
      <4> QED BY <1>3, SeqAt
    <3> QED BY <3>3, <3>4, FilledType
  <2> HIDE DEF k
  <2> QED BY <1>4, <2>1
<1>7. /\ m.id = reply.id /\ m.flags = ReplyFlags /\ m.count = c
      /\ m.section = <<q, x, << >>, << >>>>
      /\ m = [id |-> reply.id, flags |-> ReplyFlags, count |-> c, section |-> <<q, x, << >>, << >>>>]
  <2> HIDE DEF c, q, x
  <2> QED BY DEF Reply
<1>8. WellFormed(m)
  <2> DEFINE T == Seq(dnsmsg_question) \cup Seq(dnsmsg_rr) s == <<q, x, << >>, << >>>>
             i == reply.id f == ReplyFlags
  <2>1. i \in uint16 /\ f \in uint16
    BY <1>1, <1>3, FlagsRead
  <2> HIDE DEF n, k, q, x, i, f
  <2>2. 0 \in uint16
    BY SMT DEF uint16
  <2>3. c \in [Sections -> uint16]
    <3> DEFINE U == uint16
    <3>1. n \in U /\ k \in U /\ 0 \in U
      BY <1>3, <1>4, <2>2
    <3> HIDE DEF U
    <3>2. c \in [1..4 -> U]
      BY <3>1
    <3> QED BY <3>2 DEF U, Sections
  <2>4. q \in T /\ x \in T /\ << >> \in T
    BY <1>3, <1>6
  <2>5. s \in [Sections -> T]
    <3> HIDE DEF T
    <3> QED BY <2>4 DEF Sections
  <2>6. \A j \in Sections : /\ Len(s[j]) = c[j]
                            /\ s[j] \in Seq(IF j = 1 THEN dnsmsg_question ELSE dnsmsg_rr)
    <3> DEFINE Q == dnsmsg_question R == dnsmsg_rr
    <3> HIDE DEF Q, R
    <3>1. q \in Seq(Q) /\ x \in Seq(R) /\ Len(q) = n /\ Len(x) = k
      BY <1>3, <1>6 DEF Q, R
    <3>2. << >> \in Seq(R) /\ Len(<< >>) = 0
      OBVIOUS
    <3>3. ASSUME NEW j \in Sections PROVE Len(s[j]) = c[j] /\ s[j] \in Seq(IF j = 1 THEN Q ELSE R)
      <4>1. CASE j = 1
        BY <3>1, <4>1
      <4>2. CASE j = 2
        BY <3>1, <4>2
      <4>3. CASE j = 3
        <5>1. s[j] = << >> /\ c[j] = 0
          BY <4>3
        <5> QED BY <3>2, <4>3, <5>1
      <4>4. CASE j = 4
        <5>1. s[j] = << >> /\ c[j] = 0
          BY <4>4
        <5> QED BY <3>2, <4>4, <5>1
      <4> QED BY <4>1, <4>2, <4>3, <4>4 DEF Sections
    <3> QED BY <3>3 DEF Q, R
  <2> HIDE DEF c, s, T
  <2>7. m = [id |-> i, flags |-> f, count |-> c, section |-> s]
    BY <1>7 DEF i, f, s
  <2> HIDE DEF m
  <2>8. m.count = c /\ m.section = s
        /\ m \in [id : uint16, flags : uint16, count : [Sections -> uint16], section : [Sections -> T]]
    BY <2>1, <2>3, <2>5, <2>7
  <2> QED BY <2>6, <2>8, Zenon DEF WellFormed, T
<1> HIDE DEF m
<1>9. m.section[1] = sent.msg.section[1]
  <2> HIDE DEF x
  <2> QED BY <1>1, <1>7
<1> QED BY <1>1, <1>5, <1>7, <1>8, <1>9, Zenon

(* What is sent is bytes, and reads as the reply.                          *)
LEMMA ReplyReads ==
  ASSUME Types, Replying, Understood, pc \in Sending
  PROVE  /\ out \in Octets /\ Len(out) = MessageSize(Written)
         /\ ~Interpret(out).error /\ Interpret(out).msg = Written
<1>1. pc \in Late /\ out = Serialize(Written)
  BY DEF Understood, Sending, Late
<1>2. WellFormed(Written)
  BY <1>1, ReplyWellFormed
<1>3. Serialize(Written) \in Octets
  BY <1>2, SerializeIs, Zenon
<1>4. << >> \in Octets
  BY DEF Octets
<1>5. Serialize(Written) \o << >> = Serialize(Written)
  <2> DEFINE S == Serialize(Written)
  <2>1. S \in Seq(Octet)
    BY <1>3 DEF Octets
  <2> HIDE DEF S
  <2>2. S \o << >> = S
    BY <2>1, ConcatEmptySeq
  <2> QED BY <2>2, Zenon DEF S
<1>6. ~Interpret(out).error /\ Interpret(out).msg = Written
  BY <1>1, <1>2, <1>4, <1>5, WholeBack, Zenon
<1>7. Len(out) = MessageSize(Written)
  BY <1>1, <1>2, SizeIs, Zenon
<1> QED BY <1>1, <1>3, <1>6, <1>7, Zenon
-----------------------------------------------------------------------------
Safe == Types /\ Replying /\ Blocks /\ Answered /\ Understood

(* The parts hold from the first recvfrom on, for any messages, any names, *)
(* any address and whatever the other threads store meanwhile.             *)
THEOREM DatagramInvariance == Spec => []Safe
<1>1. Init => Safe
  BY TypesInit, BlocksInit, AnsweredInit, UnderstoodInit DEF Safe
<1>2. Safe /\ [Next]_vars => Safe'
  BY TypesNext, BlocksNext, AnsweredNext, UnderstoodNext DEF Safe
<1> QED BY <1>1, <1>2, PTL DEF Spec

(* What the buffers hold is bytes, before a reply is made and after; there *)
(* are never more answers than questions.                                  *)
THEOREM DatagramTypeOK == Spec => []TypeOK
<1>1. Safe => TypeOK
  <2> SUFFICES ASSUME Safe PROVE TypeOK
    OBVIOUS
  <2>1. packet \in Seq(0..255) /\ err \in {0, 1, 4} /\ flag \in 0..2
        /\ link \in [Name -> {"none", "token", "ip"}]
    BY DEF Safe, Types, Octets, Octet
  <2>2. out \in Seq(0..255)
    <3>1. CASE pc \in Sending
      BY <3>1, ReplyReads DEF Safe, Octets, Octet
    <3>2. CASE pc \notin Sending
      BY <3>2 DEF Safe, Understood
    <3> QED BY <3>1, <3>2
  <2>3. Len(Answers) <= question.count[1] /\ Answers \in Seq(Made(question))
    BY DEF Safe, Replying
  <2>4. ASSUME NEW i \in DOMAIN Answers PROVE Answers[i].ptr \in Pointing
    <3> DEFINE a == Answers M == Made(question)
    <3>1. a \in Seq(M) /\ i \in DOMAIN a
      BY <2>3, <2>4
    <3> HIDE DEF a, M
    <3>2. a[i] \in M
      BY <3>1
    <3> QED BY <3>2 DEF a, M, Made, Record
  <2> QED BY <2>1, <2>2, <2>3, <2>4 DEF TypeOK, Pointing
<1> QED BY <1>1, DatagramInvariance, PTL

(* No block of a datagram is freed twice, or read once it is freed.        *)
THEOREM DatagramFreedOnce == Spec => []FreedOnce
<1>1. Safe => FreedOnce
  BY DEF Safe, Blocks, FreedOnce
<1> QED BY <1>1, DatagramInvariance, PTL

(* No list of elements or labels an answered datagram made stays in the    *)
(* heap, whether its answers were counted, dropped or never made; what is  *)
(* not freed are its domains, its record data and blocks of no elements.   *)
THEOREM DatagramLeavesNoList == Spec => []LeavesNoList
<1>1. Safe => LeavesNoList
  BY LeftHasNothing DEF Safe
<1> QED BY <1>1, DatagramInvariance, PTL

(* A reply without error has, for every question of the message, an answer *)
(* with an address bound by then.                                          *)
THEOREM DatagramNoErrorMeansAnswered == Spec => []NoErrorMeansAnswered
<1>1. Safe => NoErrorMeansAnswered
  BY ReplyAnswered DEF Safe
<1> QED BY <1>1, DatagramInvariance, PTL

(* serialize_message writes exactly what calc_message_size has allocated,  *)
(* whatever the number of questions and the lengths of their labels.       *)
THEOREM DatagramSizeExact == Spec => []SizeExact
<1>1. Safe => SizeExact
  <2> SUFFICES ASSUME Safe, pc = "free_question" PROVE Len(out) = MessageSize(Written)
    BY DEF SizeExact
  <2> QED BY ReplyReads DEF Safe, Sending
<1> QED BY <1>1, DatagramInvariance, PTL

(* Every reply reads as the message the server made: a response to the     *)
(* question that was sent, with its id, its questions and its RD flag.     *)
THEOREM DatagramRepliesParse == Spec => []RepliesParse
<1>1. Safe => RepliesParse
  <2> SUFFICES ASSUME Safe, out # << >>
               PROVE  LET r == Interpret(out) f == DecodeFlags(r.msg.flags) IN
                      /\ ~r.error
                      /\ r.msg.id = sent.msg.id /\ r.msg.section[1] = sent.msg.section[1]
                      /\ f.qr = 1 /\ f.rd = DecodeFlags(sent.msg.flags).rd
                      /\ r.msg.section = Written.section /\ f.rcode = Code
    BY DEF RepliesParse
  <2>1. pc \in Sending /\ pc \in Late /\ question = sent.msg
    BY DEF Safe, Understood, Sending, Late
  <2>2. ~Interpret(out).error /\ Interpret(out).msg = Written
    BY <2>1, ReplyReads DEF Safe
  <2>3. /\ Written.id = sent.msg.id /\ Written.flags = ReplyFlags
        /\ Written.section[1] = sent.msg.section[1]
    BY <2>1, ReplyWellFormed DEF Safe
  <2> DEFINE f == DecodeFlags(ReplyFlags)
  <2>4. f.qr = 1 /\ f.rd = DecodeFlags(sent.msg.flags).rd /\ f.rcode = Code
    BY <2>1, FlagsRead, CodeRead DEF Safe
  <2> HIDE DEF f
  <2>5. DecodeFlags(Interpret(out).msg.flags) = f
    BY <2>2, <2>3 DEF f
  <2> QED BY <2>2, <2>3, <2>4, <2>5, Zenon
<1> QED BY <1>1, DatagramInvariance, PTL

(* A message of any size that arrives whole, whatever follows it, is read  *)
(* as it was sent; one cut anywhere is dropped.                            *)
THEOREM DatagramReadsWhatWasSent == Spec => ReadsWhatWasSent
<1> DEFINE Step == pc = "interpret" /\ pc' # pc =>
                     IF sent.whole THEN pc' = "answer" /\ question' = sent.msg
                                   ELSE pc' = "receive"
<1>1. Safe /\ [Next]_vars => [Step]_vars
  <2> SUFFICES ASSUME Safe, Next, pc = "interpret", pc' # pc
               PROVE  IF sent.whole THEN pc' = "answer" /\ question' = sent.msg
                                    ELSE pc' = "receive"
    OBVIOUS
  <2>1. ReadQuestions
    BY DEF Next, Receive, LookupToken, LookupIp, RootUnderflow, OtherQuestion, MakeReply,
           WriteReply, FollowNowhere, FreeQuestion, FreeReply, Send, Register, Bind
  <2>2. IF sent.whole THEN pc' = "answer" /\ question' = sent.msg ELSE Back
    BY <2>1, ReadWhatWasSent, Zenon DEF Safe
  <2> QED BY <2>2, Zenon DEF Back
<1> QED BY <1>1, DatagramInvariance, PTL DEF Spec, ReadsWhatWasSent
==============================================================================
