------------------------------- MODULE Datagram ------------------------------
(***************************************************************************)
(* What the DNS thread does with one datagram after another: reading it    *)
(* (dns/codec.c), making a reply question by question (dns/answer.c) while *)
(* the console and the binding thread go on changing the maps, writing the *)
(* reply, and freeing both (dns/message.c), as handle_datagram calls them. *)
(***************************************************************************)
EXTENDS Codec, FiniteSets

CONSTANTS
  Message,   \* messages a peer may send
  Spare,     \* what may follow a message in its datagram
  Name,      \* domains that can be linked, as the bytes of their strings
  Address    \* the four bytes of a bound address

(* A peer may cut a message, but what it cuts is one.                      *)
ASSUME DatagramAssumption ==
  /\ \A m \in Message : WellFormed(m)
  /\ Spare \subseteq Seq(0..255)
  /\ Name \subseteq Seq(1..255)
  /\ Address \in Seq(0..255) /\ Len(Address) = 4

VARIABLES
  pc,        \* "receive", "interpret", "answer", "ip", "serialize", ...
  sent,      \* the message a peer sent, and whether all of it arrived
  packet,    \* buffer_in
  question, err, flag,   \* the message read, return_error, the error flag
  reply,     \* the reply; ptr of an answer: where its data points
  domain,    \* the domain get_ip looks up
  out,       \* buffer_out
  link,      \* what the maps hold for a name: "none", its "token", its "ip"
  heap,      \* the blocks of this datagram malloc gave and free has not got
  misuse,    \* a block was read or freed that is not in the heap
  crashed

vars == <<pc, sent, packet, question, err, flag, reply, domain, out,
          link, heap, misuse, crashed>>

TypeA   == 1
TypeAny == 255
In      == 1
Ttl     == 300

None == [id |-> 0, flags |-> 0, count |-> <<0, 0, 0, 0>>,
         section |-> << << >>, << >>, << >>, << >> >>]

Init ==
  /\ pc = "receive" /\ packet = << >> /\ out = << >>
  /\ sent = [msg |-> None, whole |-> FALSE]
  /\ question = None /\ reply = None /\ err = 0 /\ flag = 0 /\ domain = << >>
  /\ link = [d \in Name |-> "none"]
  /\ heap = {} /\ misuse = FALSE /\ crashed = FALSE
-----------------------------------------------------------------------------
(* Memory.  A message has a block for each section and, in it, one for the *)
(* labels of an element that has any (their names counted in).  The first  *)
(* section of the reply is that of the question, not a copy; the list of   *)
(* its answers is there for no question as well, with no element.          *)

InQuestion == <<1, 2, 3, 4>>
InReply    == <<1, 5, 6, 7>>
AnswerList == <<"section", 5, 0>>

Labelled(m, s) == {i \in 1..m.count[s] : m.section[s][i].labels # << >>}

(* What free_message frees, and what serialize_message reads.              *)
Reached(m, place) ==
  UNION {{<<"section", place[s], 0>>}
         \cup {<<"labels", place[s], i>> : i \in Labelled(m, s)}
         : s \in {r \in Sections : m.count[r] > 0}}

(* What interpret_question allocates.                                      *)
Allocated(m) ==
  {<<"section", s, 0>> : s \in Sections}
  \cup (UNION {{<<"labels", s, i>> : i \in Labelled(m, s)} : s \in Sections})
  \cup (UNION {{<<"data", s, i>> : i \in 1..m.count[s]} : s \in 2..4})

Use(B) == misuse' = (misuse \/ ~(B \subseteq heap))
Free(B) == Use(B) /\ heap' = heap \ B
-----------------------------------------------------------------------------
(* What the operations decide.  Some are preceded by a slip one could make *)
(* in the code; a property below catches each.                             *)

(* make_reply: is the header that of a question the server deals with?     *)
HeaderError(m) ==
  LET f == DecodeFlags(m.flags) IN
  IF f.qr = 1 \/ f.opcode # 0 THEN 1 ELSE IF f.tc = 1 THEN 4 ELSE 0

Answerable(q) == q.class = In /\ q.type \in {TypeA, TypeAny}

(* get_ip: the flag when the token has no address.                         *)
NotFlagged == flag
NoIp       == 1

(* make_reply: the code of the reply.                                      *)
Code == IF err # 0 THEN err ELSE CASE flag = 0 -> 0 [] flag = 1 -> 3 [] flag = 2 -> 4

FlagsWith(rd) == EncodeFlags([qr |-> 1, opcode |-> 0, aa |-> 1, tc |-> 0,
                              rd |-> rd, ra |-> 0, rcode |-> Code])
WithoutRd  == FlagsWith(0)
ReplyFlags == FlagsWith(DecodeFlags(question.flags).rd)

(* handle_datagram: the questions of the reply are not its own to free.    *)
StillCounted == reply.count
NoneCounted  == <<0, 0, 0, 0>>
NotCounted   == [reply.count EXCEPT ![1] = 0]
-----------------------------------------------------------------------------
(* recvfrom: a datagram holds a message, all of it or, when it is longer   *)
(* than the buffer or its sender cut it, a part; or something after it.    *)
Receive ==
  /\ pc = "receive"
  /\ \E m \in Message :
       LET b == Serialize(m) IN
       \/ \E n \in 0..(Len(b) - 1) :
            packet' = SubSeq(b, 1, n) /\ sent' = [msg |-> m, whole |-> FALSE]
       \/ \E after \in Spare :
            packet' = b \o after /\ sent' = [msg |-> m, whole |-> TRUE]
  /\ pc' = "interpret"
  /\ UNCHANGED <<question, err, flag, reply, domain, out, link, heap, misuse, crashed>>

(* To the next recvfrom.  What is left in the heap is lost, as nothing     *)
(* reaches it any more: the blocks of a datagram that was dropped, empty   *)
(* sections, record data, the domains that were looked up.                 *)
Back ==
  /\ pc' = "receive" /\ packet' = << >> /\ out' = << >>
  /\ sent' = [msg |-> None, whole |-> FALSE]
  /\ question' = None /\ reply' = None /\ err' = 0 /\ flag' = 0 /\ domain' = << >>
  /\ heap' = {}

(* interpret_question, then the header checks of make_reply.  A datagram   *)
(* that ended too early is dropped as it is.                               *)
ReadQuestions ==
  LET r == Interpret(packet) IN
  /\ pc = "interpret"
  /\ IF r.error
     THEN Back
     ELSE /\ question' = r.msg
          /\ err' = HeaderError(r.msg) /\ flag' = 0
          /\ reply' = [None EXCEPT !.id = r.msg.id, !.section[1] = r.msg.section[1]]
          /\ heap' = heap \cup Allocated(r.msg) \cup {AnswerList}
          /\ pc' = "answer"
          /\ UNCHANGED <<sent, packet, domain, out>>
  /\ UNCHANGED <<link, misuse, crashed>>

(* The question make_rr_reply deals with, and its answer so far.           *)
Answers == reply.section[2]
Done    == Len(Answers) = question.count[1]
Current == question.section[1][Len(Answers) + 1]

Record(q, ttl, size, ptr) ==
  [labels |-> q.labels, type |-> q.type, class |-> q.class,
   ttl |-> ttl, size |-> size, ptr |-> ptr]

AddAnswer(r) == reply' = [reply EXCEPT !.section[2] = Append(@, r)]

(* labels_to_domain: the bytes of the labels, a dot after each, the last   *)
(* overwritten by the terminator.  It is a C string: who uses it reads up  *)
(* to the first 0, were it one inside a label; and a dot inside a label is *)
(* a dot.                                                                  *)
DomainOf(ls) ==
  LET dotted == FlattenSeq([i \in DOMAIN ls |-> Append(ls[i], 46)])
      text   == Append(SubSeq(dotted, 1, Len(dotted) - 1), 0)
  IN SubSeq(text, 1, SelectInSeq(text, LAMBDA byte : byte = 0) - 1)

(* make_rr_reply copies the labels; then, for a question it can answer,    *)
(* get_ip makes a domain of them and looks up its token.  The domain of    *)
(* the root is what the block holds: its terminator is stored elsewhere.   *)
(* A look-up may miss what is there while another thread puts.             *)
NewBlocks ==
  {<<"labels", 5, Len(Answers) + 1>>}
  \cup (IF Answerable(Current) THEN {<<"domain", 5, Len(Answers) + 1>>} ELSE {})

LookedUp(ls) == IF ls = << >> THEN Name ELSE {DomainOf(ls)} \cap Name

LookupToken ==
  /\ pc = "answer" /\ ~Done /\ Answerable(Current)
  /\ heap' = heap \cup NewBlocks
  /\ \/ /\ \E d \in LookedUp(Current.labels) : link[d] # "none" /\ domain' = d
        /\ pc' = "ip" /\ UNCHANGED <<reply, flag>>
     \/ /\ flag' = 1
        /\ AddAnswer(Record(Current, Ttl, 4, "unset"))
        /\ UNCHANGED <<pc, domain>>
  /\ UNCHANGED <<sent, packet, question, err, out, link, misuse, crashed>>

LookupIp ==
  /\ pc = "ip"
  /\ \E found \in {link[domain] = "ip", FALSE} :
       /\ flag' = IF found THEN flag ELSE NoIp
       /\ AddAnswer(Record(Current, Ttl, 4, IF found THEN "ip" ELSE "null"))
  /\ pc' = "answer" /\ domain' = << >>
  /\ UNCHANGED <<sent, packet, question, err, out, link, heap, misuse, crashed>>

(* labels_to_domain of the root: the index of the terminator goes below    *)
(* zero, and the store, 2^32 - 1 bytes behind an empty block or one before  *)
(* it, may end the process.                                                *)
RootUnderflow ==
  /\ pc = "answer" /\ ~Done /\ Answerable(Current) /\ Current.labels = << >>
  /\ crashed' = TRUE
  /\ UNCHANGED <<pc, sent, packet, question, err, flag, reply, domain, out, link,
                 heap, misuse>>

OtherQuestion ==
  /\ pc = "answer" /\ ~Done /\ ~Answerable(Current)
  /\ heap' = heap \cup NewBlocks
  /\ flag' = 2
  /\ AddAnswer(Record(Current, 0, 0, "none"))
  /\ UNCHANGED <<pc, sent, packet, question, err, domain, out, link, misuse, crashed>>

(* The rest of make_reply: on an error of the look-ups alone the answers   *)
(* are freed and not counted.                                              *)
MakeReply ==
  LET n    == question.count[1]
      full == [reply EXCEPT !.count = <<n, n, 0, 0>>, !.flags = ReplyFlags]
      own  == {b \in Reached(full, InReply) : b[2] = 5}
      drop == flag # 0 /\ err = 0
  IN
  /\ pc = "answer" /\ Done
  /\ IF drop THEN Free(own) ELSE UNCHANGED <<heap, misuse>>
  /\ reply' = IF drop THEN [full EXCEPT !.count[2] = 0] ELSE full
  /\ pc' = "serialize"
  /\ UNCHANGED <<sent, packet, question, err, flag, domain, out, link, crashed>>

(* serialize_message follows the data pointers.  One that was never set    *)
(* yields four bytes, no matter which, or stops the process; NULL stops it. *)
Pointers == {reply.section[2][i].ptr : i \in 1..reply.count[2]}
Yield(ptr) == CASE ptr = "ip"   -> Address
                [] ptr = "none" -> << >>
                [] OTHER        -> <<0, 0, 0, 0>>
Written  ==
  [reply EXCEPT !.section[2] =
     [i \in 1..reply.count[2] |->
        LET r == reply.section[2][i] IN
        [labels |-> r.labels, type |-> r.type, class |-> r.class,
         ttl |-> r.ttl, size |-> r.size, data |-> Yield(r.ptr)]]]

WriteReply ==
  /\ pc = "serialize" /\ "null" \notin Pointers
  /\ out' = Serialize(Written)
  /\ Use(Reached(reply, InReply))
  /\ pc' = "free_question"
  /\ UNCHANGED <<sent, packet, question, err, flag, reply, domain, link, heap, crashed>>

FollowNowhere ==
  /\ pc = "serialize" /\ Pointers \cap {"null", "unset"} # {}
  /\ crashed' = TRUE
  /\ UNCHANGED <<pc, sent, packet, question, err, flag, reply, domain, out, link,
                 heap, misuse>>

FreeQuestion ==
  /\ pc = "free_question"
  /\ Free(Reached(question, InQuestion))
  /\ pc' = "free_reply"
  /\ UNCHANGED <<sent, packet, question, err, flag, reply, domain, out, link, crashed>>

FreeReply ==
  /\ pc = "free_reply"
  /\ Free(Reached([reply EXCEPT !.count = NotCounted], InReply))
  /\ pc' = "send"
  /\ UNCHANGED <<sent, packet, question, err, flag, reply, domain, out, link, crashed>>

(* sendto; then the next datagram.                                         *)
Send ==
  /\ pc = "send"
  /\ Back
  /\ UNCHANGED <<link, misuse, crashed>>

(* The other threads: a name is linked to a token, the token to an address. *)
Register(d) ==
  /\ link[d] = "none"
  /\ link' = [link EXCEPT ![d] = "token"]
  /\ UNCHANGED <<pc, sent, packet, question, err, flag, reply, domain, out,
                 heap, misuse, crashed>>

Bind(d) ==
  /\ link[d] = "token"
  /\ link' = [link EXCEPT ![d] = "ip"]
  /\ UNCHANGED <<pc, sent, packet, question, err, flag, reply, domain, out,
                 heap, misuse, crashed>>

Next ==
  /\ ~crashed
  /\ \/ Receive \/ ReadQuestions
     \/ LookupToken \/ LookupIp \/ RootUnderflow \/ OtherQuestion
     \/ MakeReply \/ WriteReply \/ FollowNowhere
     \/ FreeQuestion \/ FreeReply \/ Send
     \/ \E d \in Name : Register(d) \/ Bind(d)

Spec == Init /\ [][Next]_vars
-----------------------------------------------------------------------------
(* Properties.                                                             *)

(* Bytes are bytes and codes are codes; there is at most one answer to a   *)
(* question, and only the data of answers can point nowhere.               *)
TypeOK ==
  /\ packet \in Seq(0..255) /\ out \in Seq(0..255)
  /\ err \in {0, 1, 4} /\ flag \in 0..2
  /\ Len(Answers) <= question.count[1]
  /\ \A i \in DOMAIN Answers : Answers[i].ptr \in {"ip", "null", "unset", "none"}
  /\ link \in [Name -> {"none", "token", "ip"}]

(* A message that arrives whole, with or without something behind it, is   *)
(* read as it was sent; one that does not is dropped, wherever it was cut: *)
(* the zeros read past its end never make up for what is missing.          *)
ReadsWhatWasSent ==
  [][pc = "interpret" /\ pc' # pc =>
       IF sent.whole THEN pc' = "answer" /\ question' = sent.msg
                     ELSE pc' = "receive"]_vars

(* What the server sends is a message that reads as the reply it made: it  *)
(* has the id, the questions and the RD flag of the question, it is marked *)
(* as a response, and its counts fit its sections.                         *)
RepliesParse ==
  out # << >> =>
    LET r == Interpret(out)
        f == DecodeFlags(r.msg.flags) IN
    /\ ~r.error
    /\ r.msg.id = sent.msg.id /\ r.msg.section[1] = sent.msg.section[1]
    /\ f.qr = 1 /\ f.rd = DecodeFlags(sent.msg.flags).rd
    /\ r.msg.section = Written.section /\ f.rcode = Code

(* serialize_message writes exactly the bytes calc_message_size has        *)
(* allocated, never past them.                                             *)
SizeExact == pc = "free_question" => Len(out) = MessageSize(Written)

(* Between the question and the reply, which share their questions, and    *)
(* the answers dropped early, no block is freed twice or read once freed.  *)
FreedOnce == ~misuse

(* Every list of elements or of labels that an answered datagram made is   *)
(* freed, be the answers counted in the reply, dropped from it, or never   *)
(* made: what is left of them has no elements.  (free_message is to "Free  *)
(* everything inside a given message"; domains, record data and the blocks *)
(* of no elements are never freed.)                                        *)
LeavesNoList ==
  pc = "send" =>
    \A b \in heap :
      /\ b[1] = "section" => question.count[IF b = AnswerList THEN 1 ELSE b[2]] = 0
      /\ b[1] = "labels"  => b[2] = 5 /\ question.section[1][b[3]].labels = << >>

(* A reply without error answers every question of the message with an     *)
(* address that was bound by then to the domain its labels make, whichever *)
(* of several questions failed and whatever the other threads stored       *)
(* between the look-ups.  (For the root, to any domain.)                   *)
NoErrorMeansAnswered ==
  /\ pc \in {"serialize", "free_question", "free_reply", "send"}
  /\ DecodeFlags(reply.flags).rcode = 0
  =>
    /\ reply.count[2] = question.count[1]
    /\ \A i \in 1..reply.count[2] :
         /\ reply.section[2][i].ptr = "ip"
         /\ reply.section[2][i].labels = question.section[1][i].labels
         /\ \E d \in LookedUp(reply.section[2][i].labels) : link[d] = "ip"

(* answer.c says of get_ip: "This is always one unsigned 32-bit value."    *)
(* The data of every answer the serializer writes is an address.           *)
AnswerIsAddress ==
  pc = "serialize" =>
    \A i \in 1..reply.count[2] :
      reply.section[2][i].size = 4 => reply.section[2][i].ptr = "ip"
==============================================================================
