------------------------------ MODULE MCDatagram -----------------------------
(* Instances of Datagram for TLC: messages of up to two questions, for two *)
(* names (one of two labels; one asked for with a byte 0 in a label, too,  *)
(* the other with a dot in one) and the root, with and without an          *)
(* additional record, with every kind of header make_reply tells apart.    *)
EXTENDS Datagram

MCName    == {<<97>>, <<98, 46, 97>>}
MCAddress == <<10, 0, 0, 200>>
MCSpare   == {<< >>, <<7>>}

Plain   == {<< <<97>> >>, << <<98>>, <<97>> >>}
Aliases == {<< <<97, 0>> >>, << <<98, 46, 97>> >>}
Root    == << >>

Question(ls, t) == [labels |-> ls, type |-> t, class |-> In]
Questions == {Question(ls, TypeA) : ls \in Plain \cup Aliases \cup {Root}}
             \cup {Question(ls, 16) : ls \in {<< <<97>> >>, Root}}
Asked     == {<< >>} \cup {<<q>> : q \in Questions} \cup {<<p, q>> : p, q \in Questions}
Extra     == [labels |-> << <<97>> >>, type |-> 41, class |-> 258, ttl |-> 66051,
              size |-> 2, data |-> <<1, 255>>]

(* A plain query, one that asks for recursion, a response, an operation    *)
(* other than a query, a truncated message.                                *)
Headers == {0, 256, 32768, 4096, 512}

MCMessage ==
  {[id |-> 258, flags |-> h, count |-> <<Len(q), 0, 0, Len(x)>>,
    section |-> <<q, << >>, << >>, x>>] :
     h \in Headers, q \in Asked, x \in {<< >>, <<Extra>>}}

Few == {m \in MCMessage : \E ls \in Plain : m.section[1] = <<Question(ls, TypeA)>>}
==============================================================================
