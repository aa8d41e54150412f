----------------------------- MODULE ServerProofs ----------------------------
(***************************************************************************)
(* Safety of the server process for any number of domains, tokens, clients *)
(* and restarts: a stop is seen after at most one more request, the        *)
(* teardown happens alone, what was registered can be used, no question is *)
(* answered with an address nobody bound, and the file holds what was      *)
(* registered across every way to end.                                     *)
(*                                                                         *)
(* The invariant comes in three parts, each inductive given those before:  *)
(* where the threads are, what the console has registered, and what the    *)
(* binding thread has bound and the DNS thread looked up.                  *)
(***************************************************************************)
EXTENDS Server, TLAPS, FiniteSetTheorems, SequenceTheorems

Answering   == {"token", "ip", "reply"}
Registering == {"put", "write_domain", "write_token", "add_token"}

Starting == {"create_dns", "create_binding", "create_console"}
Closing  == {"destroy", "close", "done"}

(* main has created the threads that run and joined those that are done,   *)
(* and a thread that has taken a request since the stop is not waiting for *)
(* another.                                                                *)
ThreadsInv ==
  /\ pc = [t \in Threads |-> pc[t]] /\ finished \in BOOLEAN
  /\ pc["main"] \in Starting \cup {"join_dns", "join_binding", "join_console"} \cup Closing
  /\ pc["main"] = "create_dns" => pc["dns"] = "none"
  /\ pc["main"] \in {"create_dns", "create_binding"} => pc["binding"] = "none"
  /\ pc["main"] \in Starting => pc["console"] = "none"
  /\ pc["main"] \notin Starting \cup {"join_dns"} => pc["dns"] = "done"
  /\ pc["main"] \in {"join_console"} \cup Closing => pc["binding"] = "done"
  /\ pc["main"] \in Closing => pc["console"] = "done"
  /\ late = [t \in {"dns", "binding"} |-> late[t]]
  /\ late["dns"] \in {0, 1} /\ late["binding"] \in {0, 1}
  /\ late["dns"] = 1 => finished /\ pc["dns"] \notin {"none", "start", "receive"}
  /\ late["binding"] = 1 => finished /\ pc["binding"] \notin {"none", "start", "accept"}

(* The console is the only writer of domain_to_token: between its check    *)
(* and its put nobody links the domain, and a link never changes.          *)
ConsoleInv ==
  /\ d2t = [d \in Domain |-> d2t[d]]
  /\ pc["console"] \in Registering => reg \in Domain \X Token
  /\ pc["console"] = "put" => d2t[reg[1]] = NULL
  /\ pc["console"] \in Registering \ {"put"} => d2t[reg[1]] = reg[2]
  /\ acked \subseteq Domain \X Token
  /\ \A r \in acked : d2t[r[1]] = r[2] /\ r[2] \in tokens

(* A bound token has an owner; what get_ip has found of a domain stays     *)
(* true while the reply is made and after it was sent.                     *)
BindingInv ==
  /\ bound \subseteq Token /\ owner \in [Token -> Client \cup {NULL}]
  /\ \A t \in bound : owner[t] # NULL
  /\ pc["binding"] = "receive" => conn \in Client
  /\ pc["binding"] \in {"update", "renew"} => conn \in Client \X Token
  /\ cell \in Client \cup {Junk}
  /\ pc["dns"] \in Answering => query \in Domain
  /\ pc["dns"] = "ip" => ptr \in {NULL, d2t[query]}
  /\ pc["dns"] = "reply" => ptr = NULL \/ (ptr = "cell" /\ d2t[query] \in bound)
  /\ answer # NULL =>
       /\ answer \in Domain \X (Client \cup {Junk, NULL})
       /\ answer[2] # NULL => d2t[answer[1]] \in bound

SafetyInv == ThreadsInv /\ ConsoleInv /\ BindingInv
-----------------------------------------------------------------------------
(* Types and order of the threads: one step per action.                    *)
LEMMA ThreadsInit == Init => ThreadsInv
<1> SUFFICES ASSUME Init PROVE ThreadsInv
  OBVIOUS
<1>1. pc = [t \in Threads |-> pc[t]] /\ pc["main"] = "create_dns"
  BY DEF Init, FreshPc, Threads
<1>4. pc["dns"] = "none" /\ pc["binding"] = "none" /\ pc["console"] = "none"
  BY DEF Init, FreshPc, Threads
<1>2. /\ late = [t \in {"dns", "binding"} |-> late[t]]
      /\ late["dns"] = 0 /\ late["binding"] = 0
  BY DEF Init, FreshLate
<1>3. finished \in BOOLEAN
  BY DEF Init
<1> QED BY <1>1, <1>2, <1>3, <1>4 DEF ThreadsInv, Starting, Closing

LEMMA ThreadsStep == ThreadsInv /\ [Next]_vars => ThreadsInv'
<1> SUFFICES ASSUME ThreadsInv, [Next]_vars
             PROVE  ThreadsInv'
  OBVIOUS
<1> USE ServerAssumption
    DEF ThreadsInv, Threads, Starting, Closing,
        Up, Goto, tvars, dvars, fvars, lvars, hvars
<1>1. CASE ConsoleCheck
  BY <1>1 DEF ConsoleCheck, HasFinished
<1>2. CASE ConsoleOther
  BY <1>2 DEF ConsoleOther
<1>3. CASE Stop
  BY <1>3 DEF Stop
<1>4. ASSUME NEW d \in Domain, NEW t \in Token, RegisterCheck(d, t)
      PROVE  ThreadsInv'
  BY <1>4 DEF RegisterCheck, Refused
<1>5. CASE RegisterPut
  BY <1>5 DEF RegisterPut
<1>6. CASE WriteDomain
  BY <1>6 DEF WriteDomain
<1>7. CASE WriteToken
  BY <1>7 DEF WriteToken
<1>8. CASE AddToken
  BY <1>8 DEF AddToken
<1>9. CASE BindingStart
  BY <1>9 DEF BindingStart
<1>10. CASE BindingCheck
  BY <1>10 DEF BindingCheck, HasFinished
<1>11. CASE AcceptFails
  BY <1>11 DEF AcceptFails
<1>12. ASSUME NEW c \in Client, Accept(c)
      PROVE  ThreadsInv'
  <2>1. CASE finished
    <3>1. late["binding"] = 0
      BY <1>12 DEF Accept
    <3>2. late' = [late EXCEPT !["binding"] = 1]
      BY <1>12, <2>1, <3>1 DEF Accept, Late
    <3> QED BY <1>12, <2>1, <3>2 DEF Accept
  <2>2. CASE ~finished
    BY <1>12, <2>2 DEF Accept, Late
  <2> QED BY <2>1, <2>2
<1>13. ASSUME NEW t \in Token, ReceiveToken(t)
      PROVE  ThreadsInv'
  BY <1>13 DEF ReceiveToken, ShutDown, MayFind, MayMiss
<1>14. CASE ReceiveShort
  BY <1>14 DEF ReceiveShort, ShutDown
<1>15. CASE Update
  BY <1>15 DEF Update, ShutDown
<1>16. CASE DnsStart
  BY <1>16 DEF DnsStart
<1>17. CASE DnsCheck
  BY <1>17 DEF DnsCheck, HasFinished
<1>18. ASSUME NEW d \in Domain, Receive(d)
      PROVE  ThreadsInv'
  <2>1. CASE finished
    <3>1. late["dns"] = 0
      BY <1>18 DEF Receive
    <3>2. late' = [late EXCEPT !["dns"] = 1]
      BY <1>18, <2>1, <3>1 DEF Receive, Late
    <3> QED BY <1>18, <2>1, <3>2 DEF Receive
  <2>2. CASE ~finished
    BY <1>18, <2>2 DEF Receive, Late
  <2> QED BY <2>1, <2>2
<1>19. CASE Ignore
  <2>1. CASE finished
    <3>1. late["dns"] = 0
      BY <1>19 DEF Ignore
    <3>2. late' = [late EXCEPT !["dns"] = 1]
      BY <1>19, <2>1, <3>1 DEF Ignore, Late
    <3> QED BY <1>19, <2>1, <3>2 DEF Ignore
  <2>2. CASE ~finished
    BY <1>19, <2>2 DEF Ignore, Late
  <2> QED BY <2>1, <2>2
<1>20. CASE LookupToken
  BY <1>20 DEF LookupToken
<1>21. CASE LookupIp
  BY <1>21 DEF LookupIp, HasIp
<1>22. CASE Reply
  BY <1>22 DEF Reply
<1>23. CASE DnsFails
  BY <1>23 DEF DnsFails, Exit
<1>24. ASSUME NEW t \in {"dns", "binding", "console"}, Join(t)
      PROVE  ThreadsInv'
  <2>1. CASE t = "dns"
    BY <1>24, <2>1 DEF Join, Joined, Joining
  <2>2. CASE t = "binding"
    BY <1>24, <2>2 DEF Join, Joined, Joining
  <2>3. CASE t = "console"
    BY <1>24, <2>3 DEF Join, Joined, Joining
  <2> QED BY <2>1, <2>2, <2>3
<1>25. CASE Destroy
  BY <1>25 DEF Destroy
<1>26. CASE FreeAborts
  BY <1>26 DEF FreeAborts, Lose
<1>27. CASE Close
  BY <1>27 DEF Close, Exit
<1>28. CASE Flush
  BY <1>28 DEF Flush
<1>29. CASE Kill
  BY <1>29 DEF Kill, Lose
<1>30. CASE Restart
  <2>1. /\ pc' = [t \in Threads |-> pc'[t]] /\ pc'["main"] = "create_dns"
        /\ pc'["dns"] = "none" /\ pc'["binding"] = "none" /\ pc'["console"] = "none"
    BY <1>30 DEF Restart, FreshPc
  <2>2. late' = [t \in {"dns", "binding"} |-> late'[t]]
        /\ late'["dns"] = 0 /\ late'["binding"] = 0
    BY <1>30 DEF Restart, FreshLate
  <2>3. finished' \in BOOLEAN
    BY <1>30 DEF Restart
  <2> QED BY <2>1, <2>2, <2>3
<1>32. ASSUME NEW t \in {"dns", "binding", "console"}, Create(t)
      PROVE  ThreadsInv'
  <2>1. CASE t = "dns"
    BY <1>32, <2>1 DEF Create, Creating, Created, FirstPc
  <2>2. CASE t = "binding"
    BY <1>32, <2>2 DEF Create, Creating, Created, FirstPc
  <2>3. CASE t = "console"
    BY <1>32, <2>3 DEF Create, Creating, Created, FirstPc
  <2> QED BY <2>1, <2>2, <2>3
<1>33. CASE CreateFails
  BY <1>33 DEF CreateFails, Creating, Exit
<1>34. CASE Renew
  BY <1>34 DEF Renew, ShutDown
<1>31. CASE UNCHANGED vars
  BY <1>31 DEF vars
<1> QED
  BY <1>1, <1>2, <1>3, <1>4, <1>5, <1>6, <1>7, <1>8, <1>9, <1>10, <1>11, <1>12,
       <1>13, <1>14, <1>15, <1>16, <1>17, <1>18, <1>19, <1>20, <1>21, <1>22,
       <1>23, <1>24, <1>25, <1>26, <1>27, <1>28, <1>29, <1>30, <1>31, <1>32, <1>33, <1>34 DEF Next,
       Console, Binding, Dns, Main

(* What was registered: RegisterPut adds a link to a domain that has none. *)
LEMMA ConsoleInit == Init => ConsoleInv
BY DEF Init, ConsoleInv, FreshPc, Threads, Linked, Registering

LEMMA ConsoleStep == ThreadsInv /\ ConsoleInv /\ [Next]_vars => ConsoleInv'
<1> SUFFICES ASSUME ThreadsInv, ConsoleInv, [Next]_vars
             PROVE  ConsoleInv'
  OBVIOUS
<1> USE ServerAssumption
    DEF ThreadsInv, Threads, ConsoleInv, Registering,
        Up, Goto, tvars, dvars, fvars, lvars, hvars
<1>1. CASE ConsoleCheck
  BY <1>1 DEF ConsoleCheck, HasFinished
<1>2. CASE ConsoleOther
  BY <1>2 DEF ConsoleOther
<1>3. CASE Stop
  BY <1>3 DEF Stop
<1>4. ASSUME NEW d \in Domain, NEW t \in Token, RegisterCheck(d, t)
      PROVE  ConsoleInv'
  BY <1>4 DEF RegisterCheck, Refused
<1>5. CASE RegisterPut
  <2>1. reg \in Domain \X Token /\ reg' = reg /\ d2t[reg[1]] = NULL
        /\ reg[1] \in Domain
    BY <1>5 DEF RegisterPut
  <2>2. d2t' = [d2t EXCEPT ![reg[1]] = reg[2]]
    BY <1>5 DEF RegisterPut
  <2>3. d2t' = [d \in Domain |-> d2t'[d]] /\ d2t'[reg[1]] = reg[2]
    BY <2>1, <2>2
  <2>4. ASSUME NEW r \in acked
        PROVE  d2t'[r[1]] = r[2] /\ r[2] \in tokens'
    <3>1. r \in Domain \X Token /\ d2t[r[1]] = r[2] /\ r[2] /= NULL
      OBVIOUS
    <3>2. r[1] /= reg[1]
      BY <2>1, <3>1
    <3> QED BY <1>5, <2>2, <3>1, <3>2 DEF RegisterPut
  <2> QED BY <1>5, <2>1, <2>3, <2>4 DEF RegisterPut
<1>6. CASE WriteDomain
  BY <1>6 DEF WriteDomain
<1>7. CASE WriteToken
  BY <1>7 DEF WriteToken
<1>8. CASE AddToken
  BY <1>8 DEF AddToken
<1>9. CASE BindingStart
  BY <1>9 DEF BindingStart
<1>10. CASE BindingCheck
  BY <1>10 DEF BindingCheck, HasFinished
<1>11. CASE AcceptFails
  BY <1>11 DEF AcceptFails
<1>12. ASSUME NEW c \in Client, Accept(c)
      PROVE  ConsoleInv'
  BY <1>12 DEF Accept, Late
<1>13. ASSUME NEW t \in Token, ReceiveToken(t)
      PROVE  ConsoleInv'
  BY <1>13 DEF ReceiveToken, ShutDown, MayFind, MayMiss
<1>14. CASE ReceiveShort
  BY <1>14 DEF ReceiveShort, ShutDown
<1>15. CASE Update
  BY <1>15 DEF Update, ShutDown
<1>16. CASE DnsStart
  BY <1>16 DEF DnsStart
<1>17. CASE DnsCheck
  BY <1>17 DEF DnsCheck, HasFinished
<1>18. ASSUME NEW d \in Domain, Receive(d)
      PROVE  ConsoleInv'
  BY <1>18 DEF Receive, Late
<1>19. CASE Ignore
  BY <1>19 DEF Ignore, Late
<1>20. CASE LookupToken
  BY <1>20 DEF LookupToken
<1>21. CASE LookupIp
  BY <1>21 DEF LookupIp, HasIp
<1>22. CASE Reply
  BY <1>22 DEF Reply
<1>23. CASE DnsFails
  BY <1>23 DEF DnsFails, Exit
<1>24. ASSUME NEW t \in {"dns", "binding", "console"}, Join(t)
      PROVE  ConsoleInv'
  BY <1>24 DEF Join, Joined, Joining
<1>25. CASE Destroy
  BY <1>25 DEF Destroy
<1>26. CASE FreeAborts
  BY <1>26 DEF FreeAborts, Lose
<1>27. CASE Close
  BY <1>27 DEF Close, Exit
<1>28. CASE Flush
  BY <1>28 DEF Flush
<1>29. CASE Kill
  BY <1>29 DEF Kill, Lose
<1>30. CASE Restart
  BY <1>30 DEF Restart, FreshPc, FreshLate, FreshOwner, Linked
<1>32. ASSUME NEW t \in {"dns", "binding", "console"}, Create(t)
      PROVE  ConsoleInv'
  <2>1. CASE t = "dns"
    BY <1>32, <2>1 DEF Create, Creating, Created, FirstPc
  <2>2. CASE t = "binding"
    BY <1>32, <2>2 DEF Create, Creating, Created, FirstPc
  <2>3. CASE t = "console"
    BY <1>32, <2>3 DEF Create, Creating, Created, FirstPc
  <2> QED BY <2>1, <2>2, <2>3
<1>33. CASE CreateFails
  BY <1>33 DEF CreateFails, Creating, Exit
<1>34. CASE Renew
  BY <1>34 DEF Renew, ShutDown
<1>31. CASE UNCHANGED vars
  BY <1>31 DEF vars
<1> QED
  BY <1>1, <1>2, <1>3, <1>4, <1>5, <1>6, <1>7, <1>8, <1>9, <1>10, <1>11, <1>12,
       <1>13, <1>14, <1>15, <1>16, <1>17, <1>18, <1>19, <1>20, <1>21, <1>22,
       <1>23, <1>24, <1>25, <1>26, <1>27, <1>28, <1>29, <1>30, <1>31, <1>32, <1>33, <1>34 DEF Next,
       Console, Binding, Dns, Main

(* What was bound and looked up.                                           *)
LEMMA BindingInit == Init => BindingInv
BY DEF Init, BindingInv, FreshPc, Threads, FreshOwner, Answering

LEMMA BindingStep ==
  ThreadsInv /\ ConsoleInv /\ BindingInv /\ [Next]_vars => BindingInv'
<1> SUFFICES ASSUME ThreadsInv, ConsoleInv, BindingInv, [Next]_vars
             PROVE  BindingInv'
  OBVIOUS
<1> USE ServerAssumption
    DEF ThreadsInv, Threads, ConsoleInv, BindingInv, Registering, Answering,
        Up, Goto, tvars, dvars, fvars, lvars, hvars
<1>1. CASE ConsoleCheck
  BY <1>1 DEF ConsoleCheck, HasFinished
<1>2. CASE ConsoleOther
  BY <1>2 DEF ConsoleOther
<1>3. CASE Stop
  BY <1>3 DEF Stop
<1>4. ASSUME NEW d \in Domain, NEW t \in Token, RegisterCheck(d, t)
      PROVE  BindingInv'
  BY <1>4 DEF RegisterCheck, Refused
<1>5. CASE RegisterPut
  BY <1>5 DEF RegisterPut
<1>6. CASE WriteDomain
  BY <1>6 DEF WriteDomain
<1>7. CASE WriteToken
  BY <1>7 DEF WriteToken
<1>8. CASE AddToken
  BY <1>8 DEF AddToken
<1>9. CASE BindingStart
  BY <1>9 DEF BindingStart
<1>10. CASE BindingCheck
  BY <1>10 DEF BindingCheck, HasFinished
<1>11. CASE AcceptFails
  BY <1>11 DEF AcceptFails
<1>12. ASSUME NEW c \in Client, Accept(c)
      PROVE  BindingInv'
  BY <1>12 DEF Accept, Late
<1>13. ASSUME NEW t \in Token, ReceiveToken(t)
      PROVE  BindingInv'
  BY <1>13 DEF ReceiveToken, ShutDown, MayFind, MayMiss
<1>14. CASE ReceiveShort
  BY <1>14 DEF ReceiveShort, ShutDown
<1>15. CASE Update
  BY <1>15 DEF Update, ShutDown
<1>16. CASE DnsStart
  BY <1>16 DEF DnsStart
<1>17. CASE DnsCheck
  BY <1>17 DEF DnsCheck, HasFinished
<1>18. ASSUME NEW d \in Domain, Receive(d)
      PROVE  BindingInv'
  BY <1>18 DEF Receive, Late
<1>19. CASE Ignore
  BY <1>19 DEF Ignore, Late
<1>20. CASE LookupToken
  BY <1>20 DEF LookupToken
<1>21. CASE LookupIp
  BY <1>21 DEF LookupIp, HasIp
<1>22. CASE Reply
  BY <1>22 DEF Reply
<1>23. CASE DnsFails
  BY <1>23 DEF DnsFails, Exit
<1>24. ASSUME NEW t \in {"dns", "binding", "console"}, Join(t)
      PROVE  BindingInv'
  BY <1>24 DEF Join, Joined, Joining
<1>25. CASE Destroy
  BY <1>25 DEF Destroy
<1>26. CASE FreeAborts
  BY <1>26 DEF FreeAborts, Lose
<1>27. CASE Close
  BY <1>27 DEF Close, Exit
<1>28. CASE Flush
  BY <1>28 DEF Flush
<1>29. CASE Kill
  BY <1>29 DEF Kill, Lose
<1>30. CASE Restart
  BY <1>30 DEF Restart, FreshPc, FreshLate, FreshOwner, Linked
<1>32. ASSUME NEW t \in {"dns", "binding", "console"}, Create(t)
      PROVE  BindingInv'
  <2>1. CASE t = "dns"
    BY <1>32, <2>1 DEF Create, Creating, Created, FirstPc
  <2>2. CASE t = "binding"
    BY <1>32, <2>2 DEF Create, Creating, Created, FirstPc
  <2>3. CASE t = "console"
    BY <1>32, <2>3 DEF Create, Creating, Created, FirstPc
  <2> QED BY <2>1, <2>2, <2>3
<1>33. CASE CreateFails
  BY <1>33 DEF CreateFails, Creating, Exit
<1>34. CASE Renew
  BY <1>34 DEF Renew, ShutDown
<1>31. CASE UNCHANGED vars
  BY <1>31 DEF vars
<1> QED
  BY <1>1, <1>2, <1>3, <1>4, <1>5, <1>6, <1>7, <1>8, <1>9, <1>10, <1>11, <1>12,
       <1>13, <1>14, <1>15, <1>16, <1>17, <1>18, <1>19, <1>20, <1>21, <1>22,
       <1>23, <1>24, <1>25, <1>26, <1>27, <1>28, <1>29, <1>30, <1>31, <1>32, <1>33, <1>34 DEF Next,
       Console, Binding, Dns, Main
-----------------------------------------------------------------------------
(* The invariant of every reachable state, the one the four theorems below *)
(* follow from.                                                            *)
THEOREM ServerInvariance == Spec => []SafetyInv
<1>1. Init => SafetyInv
  BY ThreadsInit, ConsoleInit, BindingInit DEF SafetyInv
<1>2. SafetyInv /\ [Next]_vars => SafetyInv'
  BY ThreadsStep, ConsoleStep, BindingStep DEF SafetyInv
<1> QED BY <1>1, <1>2, PTL DEF Spec

(* The maps are freed only when no thread can use them: main joins all     *)
(* three, and none comes back.                                             *)
THEOREM Teardown == Spec => []TeardownAlone
<1>1. SafetyInv => TeardownAlone
  BY DEF SafetyInv, ThreadsInv, Starting, Closing, TeardownAlone
<1> QED BY <1>1, ServerInvariance, PTL

(* After "stop" each service thread takes at most one more request.        *)
THEOREM OneMore == Spec => []OneMoreAtMost
<1>1. SafetyInv => OneMoreAtMost
  BY DEF SafetyInv, ThreadsInv, OneMoreAtMost
<1> QED BY <1>1, ServerInvariance, PTL

(* A registration reported to the operator links its domain from then on,  *)
(* and its token is valid for a client but for what puts do to one another. *)
THEOREM Usable == Spec => []AckedIsUsable
<1>1. SafetyInv => AckedIsUsable
  BY DEF SafetyInv, ConsoleInv, AckedIsUsable, MayMiss
<1> QED BY <1>1, ServerInvariance, PTL

(* An address is only ever answered for a domain whose token a client has  *)
(* bound, however registrations, bindings and the two look-ups interleave. *)
THEOREM OnlyBound == Spec => []NoAddressUnbound
<1>1. SafetyInv => NoAddressUnbound
  BY ServerAssumption DEF SafetyInv, BindingInv, NoAddressUnbound
<1> QED BY <1>1, ServerInvariance, PTL
-----------------------------------------------------------------------------
(* The file of registrations, whatever the moment of flushing and the way  *)
(* to end: a new process finds a prefix of what was registered, and all    *)
(* that was reported if the old one ended in order.  Types first; then the *)
(* invariant that the file and the stdio buffer together are the           *)
(* registrations written down, as far as the console has come with the     *)
(* last of them.                                                           *)

(* Strings the console has still to write of the last registration.        *)
Owed == CASE pc["console"] = "write_domain" -> 2
          [] pc["console"] = "write_token"  -> 1
          [] OTHER                          -> 0

Ended == {"exited", "failed"}

(* Of the strings in file and buffer there are two less than the log asks  *)
(* for as soon as it has one registration more.                            *)
LEMMA TwoOwed ==
  ASSUME NEW m, NEW n \in Nat, m = 2 * n
  PROVE  m = 2 * (n + 1) - 2 /\ m <= 2 * (n + 1) /\ n + 1 > 0
  OBVIOUS

(* f holds the registrations r written down, as far as it reaches.         *)
Agrees(f, r) ==
  \A n \in DOMAIN r :
    /\ 2*n - 1 <= Len(f) /\ f[2*n - 1] # Torn => f[2*n - 1] = r[n][1]
    /\ 2*n <= Len(f) /\ f[2*n] # Torn => f[2*n] = r[n][2]

Undamaged == \A k \in DOMAIN disk : disk[k] # Torn

LogInv ==
  /\ log \in Seq(Domain \X Token)
  /\ \A n, m \in DOMAIN log : log[n][1] = log[m][1] => n = m
  /\ \A n \in DOMAIN log : d2t[log[n][1]] = log[n][2]

FileInv ==
  /\ Agrees(disk \o buf, log)
  /\ Len(disk) + Len(buf) <= 2 * Len(log)
  /\ status = "up" => Len(disk) + Len(buf) = 2 * Len(log) - Owed
  /\ Owed > 0 => Len(log) > 0 /\ reg = log[Len(log)]
  /\ pc["console"] = "add_token" => Len(log) > 0 /\ reg = log[Len(log)]
  /\ status = "up" => Undamaged
  /\ status # "up" => buf = << >>

AckedInv ==
  \A r \in acked : \E n \in DOMAIN log :
    /\ log[n] = r
    /\ status = "up" => 2*n <= Len(disk) + Len(buf)
    /\ status \in Ended => 2*n <= Len(disk) /\ \A k \in 1..(2*n) : disk[k] # Torn

RecordInv == whole => LogInv /\ FileInv /\ AckedInv
-----------------------------------------------------------------------------
(* Sets of naturals, and what is read of a file.                           *)

(* A bounded set of naturals has a greatest element.                       *)
LEMMA Greatest ==
  ASSUME NEW S, S \subseteq Nat, NEW n \in Nat, S # {}, \A s \in S : s <= n
  PROVE  \E m \in S : \A k \in S : k <= m
<1> DEFINE T == {n - s : s \in S}
           Below == OpToRel(<, Nat)
<1>1. \A s \in S : s \in Nat /\ n - s \in Nat
  OBVIOUS
<1>2. T \subseteq Nat /\ T # {}
  BY <1>1
<1>3. PICK x \in T : \A y \in T : ~(<<y, x>> \in Below)
  <2>1. IsWellFoundedOn(Below, Nat)
    BY NatLessThanWellFounded
  <2> HIDE DEF T, Below
  <2> QED BY <1>2, <2>1, WFMin
<1>4. ASSUME NEW y \in T PROVE x <= y
  <2>1. x \in Nat /\ y \in Nat
    BY <1>2
  <2>2. y < x => <<y, x>> \in Below
    BY <2>1 DEF OpToRel
  <2>3. ~(y < x)
    <3> HIDE DEF Below, T
    <3> QED BY <1>3, <2>2
  <2> HIDE DEF Below, T
  <2> QED BY <2>1, <2>3
<1>5. PICK m \in S : x = n - m
  OBVIOUS
<1>6. ASSUME NEW k \in S PROVE k <= m
  <2>1. x <= n - k
    BY <1>4
  <2> QED BY <1>1, <1>5, <2>1
<1> QED BY <1>6

LEMMA Segment ==
  ASSUME NEW S, NEW n \in Nat, S \subseteq 1..n,
         \A k \in S : \A j \in 1..k : j \in S
  PROVE  Cardinality(S) \in 0..n /\ S = 1..Cardinality(S)
<1>1. CASE S = {}
  <2>1. Cardinality(S) = 0
    BY <1>1, FS_EmptySet
  <2> QED BY <1>1, <2>1
<1>2. CASE S # {}
  <2>1. S \subseteq Nat /\ \A s \in S : s <= n
    OBVIOUS
  <2>2. PICK m \in S : \A k \in S : k <= m
    BY <1>2, <2>1, Greatest
  <2>3. m \in 1..n /\ 1..m \subseteq S
    OBVIOUS
  <2>4. S \subseteq 1..m
    BY <2>1, <2>2
  <2>5. S = 1..m
    BY <2>3, <2>4
  <2>6. Cardinality(1..m) = m
    BY <2>3, FS_Interval
  <2> QED BY <2>3, <2>5, <2>6
<1> QED BY <1>1, <1>2

(* The strings a new process reads are those before the first torn one.    *)
LEMMA ReadableIsPrefix ==
  ASSUME NEW X, NEW f \in Seq(X)
  PROVE  /\ Cardinality(Readable(f)) \in 0..Len(f)
         /\ Readable(f) = 1..Cardinality(Readable(f))
<1>1. Readable(f) \subseteq 1..Len(f) /\ Len(f) \in Nat
  BY DEF Readable
<1>2. \A k \in Readable(f) : \A j \in 1..k : j \in Readable(f)
  BY DEF Readable
<1> QED BY <1>1, <1>2, Segment

(* Records are pairs of whole strings that stand where they are written.   *)
LEMMA PairsAreRecords ==
  ASSUME NEW X, NEW f \in Seq(X)
  PROVE  LET p == Pairs(f) IN
         /\ p \in Seq((X \ {Torn}) \X (X \ {Torn}))
         /\ 2 * Len(p) <= Len(f)
         /\ \A n \in DOMAIN p : p[n] = <<f[2*n - 1], f[2*n]>>
         /\ \A k \in 1..(2 * Len(p)) : f[k] # Torn
         /\ \A n \in Nat : /\ 2 * n <= Len(f)
                           /\ \A k \in 1..(2*n) : f[k] # Torn
                           => n <= Len(p)
<1> DEFINE c == Cardinality(Readable(f))
           p == Pairs(f)
<1>1. c \in 0..Len(f) /\ Readable(f) = 1..c /\ Len(f) \in Nat
  BY ReadableIsPrefix
<1>2. c \div 2 \in Nat /\ 2 * (c \div 2) <= c /\ c <= 2 * (c \div 2) + 1
  <2> HIDE DEF c
  <2> QED BY <1>1
<1>3. p = [n \in 1..(c \div 2) |-> <<f[2*n - 1], f[2*n]>>]
  BY DEF Pairs
<1>4. \A k \in 1..c : k \in DOMAIN f /\ f[k] # Torn /\ f[k] \in X
  <2>1. ASSUME NEW k \in 1..c PROVE f[k] # Torn
    <3>1. k \in Readable(f) /\ k \in 1..k
      BY <1>1
    <3> QED BY <3>1 DEF Readable
  <2> HIDE DEF c
  <2> QED BY <1>1, <2>1
<1>5. Len(p) = c \div 2 /\ DOMAIN p = 1..(c \div 2)
  <2> HIDE DEF c
  <2> QED BY <1>2, <1>3
<1>6. \A n \in DOMAIN p : 2*n - 1 \in 1..c /\ 2*n \in 1..c
  <2> HIDE DEF c, p
  <2> QED BY <1>1, <1>2, <1>5
<1>7. \A n \in DOMAIN p : p[n] = <<f[2*n - 1], f[2*n]>>
  <2> HIDE DEF c
  <2> QED BY <1>3
<1>8. p \in Seq((X \ {Torn}) \X (X \ {Torn}))
  <2> DEFINE Record == (X \ {Torn}) \X (X \ {Torn})
  <2>1. ASSUME NEW n \in 1..(c \div 2) PROVE p[n] \in Record
    <3> HIDE DEF c, p
    <3>1. 2*n - 1 \in 1..c /\ 2*n \in 1..c /\ p[n] = <<f[2*n - 1], f[2*n]>>
      BY <1>5, <1>6, <1>7
    <3>2. f[2*n - 1] \in X \ {Torn} /\ f[2*n] \in X \ {Torn}
      BY <1>4, <3>1
    <3> QED BY <3>1, <3>2
  <2>2. p = [n \in 1..(c \div 2) |-> p[n]]
    <3> HIDE DEF c
    <3> QED BY <1>3
  <2> HIDE DEF c, p, Record
  <2>3. p \in [1..(c \div 2) -> Record]
    BY <2>1, <2>2
  <2>4. p \in Seq(Record)
    BY <1>2, <2>3
  <2> QED BY <2>4 DEF Record
<1>9. ASSUME NEW n \in Nat, 2 * n <= Len(f), \A k \in 1..(2*n) : f[k] # Torn
      PROVE  n <= Len(p)
  <2>1. CASE n = 0
    <3> HIDE DEF c, p
    <3> QED BY <1>2, <1>5, <2>1
  <2>2. CASE n > 0
    <3>1. 2*n \in 1..Len(f)
      BY <1>1, <1>9, <2>2
    <3>2. 2*n \in Readable(f)
      BY <1>9, <3>1 DEF Readable
    <3> HIDE DEF c, p
    <3> QED BY <1>1, <1>2, <1>5, <3>2
  <2> QED BY <2>1, <2>2
<1>10. 2 * Len(p) <= Len(f) /\ \A k \in 1..(2 * Len(p)) : f[k] # Torn
  <2> HIDE DEF c, p
  <2> QED BY <1>1, <1>2, <1>4, <1>5
<1> QED BY <1>7, <1>8, <1>9, <1>10

(* What a map filled from records holds: a string of theirs, or nothing.   *)
LEMMA LinkedHasType ==
  ASSUME NEW X, NEW r \in Seq(X \X X)
  PROVE  Linked(r) \in [Domain -> X \cup {NULL}]
<1> SUFFICES ASSUME NEW d \in Domain, \E n \in DOMAIN r : r[n][1] = d
             PROVE  r[LastOf(r, d)][2] \in X
  BY DEF Linked
<1> DEFINE S == {n \in DOMAIN r : r[n][1] = d}
<1>1. S \subseteq Nat /\ S # {} /\ \A s \in S : s <= Len(r)
  OBVIOUS
<1>2. PICK m \in S : \A k \in S : k <= m
  <2>1. Len(r) \in Nat
    OBVIOUS
  <2> HIDE DEF S
  <2> QED BY <1>1, <2>1, Greatest
<1>3. LastOf(r, d) \in DOMAIN r
  BY <1>2 DEF LastOf
<1> QED BY <1>3

(* When no domain has two records, the map holds just the records.         *)
LEMMA LinkedIsRecords ==
  ASSUME NEW r \in Seq(Domain \X Token),
         \A n, m \in DOMAIN r : r[n][1] = r[m][1] => n = m,
         NEW n \in DOMAIN r
  PROVE  Linked(r)[r[n][1]] = r[n][2]
<1>1. LastOf(r, r[n][1]) = n
  <2>1. n \in Nat /\ n <= n
    OBVIOUS
  <2>2. \A m \in DOMAIN r : r[m][1] = r[n][1] => m <= n
    BY <2>1
  <2>3. \A m \in DOMAIN r : r[m][1] = r[n][1] => m = n
    OBVIOUS
  <2> QED BY <2>2, <2>3 DEF LastOf
<1>2. r[n][1] \in Domain
  OBVIOUS
<1> QED BY <1>1, <1>2 DEF Linked
-----------------------------------------------------------------------------
(* Types: one step per action.                                             *)
LEMMA TypesInit == Init => TypeOK
<1> SUFFICES ASSUME Init PROVE TypeOK
  OBVIOUS
<1>1. d2t = [d \in Domain |-> NULL]
  BY DEF Init, Linked
<1>2. pc = FreshPc /\ DOMAIN pc = Threads /\ pc["console"] = "none"
      /\ pc["binding"] = "none" /\ pc["dns"] = "none"
  BY DEF Init, FreshPc, Threads
<1>3. /\ disk = << >> /\ disk \in Seq(String \cup {Torn})
      /\ buf = << >> /\ buf \in Seq(String)
  BY DEF Init
<1>4. owner \in [Token -> Client \cup {NULL}]
  BY DEF Init, FreshOwner
<1>5. d2t \in [Domain -> String \cup {NULL}]
  BY <1>1
<1>6. /\ status = "up" /\ restarts = 0 /\ finished = FALSE /\ whole = TRUE
      /\ tokens = {} /\ raced = FALSE /\ bound = {} /\ cell = Junk
      /\ reg = NULL /\ conn = NULL /\ query = NULL
  BY DEF Init
<1>7. restarts \in 0..MaxRestarts
  BY <1>6, ServerAssumption
<1> QED BY <1>2, <1>3, <1>4, <1>5, <1>6, <1>7 DEF TypeOK

(* A flush cuts the buffer in two.                                         *)
LEMMA FlushCuts ==
  ASSUME buf \in Seq(String), Flush
  PROVE  \E a, b \in Seq(String) : disk' = disk \o a /\ buf' = b /\ a \o b = buf
<1>1. PICK n \in 1..Len(buf) : disk' = disk \o SubSeq(buf, 1, n)
                              /\ buf' = SubSeq(buf, n + 1, Len(buf))
  BY DEF Flush
<1>2. \A i \in 1..Len(buf) : buf[i] \in String
  OBVIOUS
<1>3. n \in Int /\ Len(buf) \in Int /\ 1 <= n /\ n <= Len(buf)
  OBVIOUS
<1>4. SubSeq(buf, 1, n) \in Seq(String)
  BY <1>2, <1>3, SubSeqProperties
<1>5. SubSeq(buf, n + 1, Len(buf)) \in Seq(String)
  BY <1>2, <1>3, SubSeqProperties
<1>6. 1 \in 1..(Len(buf) + 1) /\ n \in (1 - 1)..Len(buf) /\ Len(buf) \in n..Len(buf)
  BY <1>3
<1>7. SubSeq(buf, 1, n) \o SubSeq(buf, n + 1, Len(buf)) = SubSeq(buf, 1, Len(buf))
  BY <1>6, ConcatAdjacentSubSeq
<1>8. SubSeq(buf, 1, Len(buf)) = buf
  BY SubSeqFull
<1> QED BY <1>1, <1>4, <1>5, <1>7, <1>8, Zenon

(* What the two files of strings are made of after a flush, and after the  *)
(* end of a process.                                                       *)
LEMMA FlushTyped ==
  ASSUME TypeOK, Flush
  PROVE  disk' \in Seq(String \cup {Torn}) /\ buf' \in Seq(String)
<1>1. disk \in Seq(String \cup {Torn}) /\ buf \in Seq(String)
  BY DEF TypeOK
<1>2. PICK a, b \in Seq(String) : disk' = disk \o a /\ buf' = b
  BY <1>1, FlushCuts, Zenon
<1>3. a \in Seq(String \cup {Torn})
  OBVIOUS
<1>4. disk \o a \in Seq(String \cup {Torn})
  BY <1>1, <1>3
<1> QED BY <1>2, <1>4, Zenon

LEMMA LoseTyped ==
  ASSUME TypeOK, NEW s, Lose(s)
  PROVE  disk' \in Seq(String \cup {Torn}) /\ buf' = << >>
<1>1. disk \in Seq(String \cup {Torn})
  BY DEF TypeOK
<1>2. Append(disk, Torn) \in Seq(String \cup {Torn})
  BY <1>1
<1>3. disk' = disk \/ disk' = Append(disk, Torn)
  BY DEF Lose, WithHalf
<1>4. buf' = << >>
  BY DEF Lose
<1> QED BY <1>1, <1>2, <1>3, <1>4, Zenon

LEMMA ExitTyped ==
  ASSUME TypeOK, NEW s, Exit(s)
  PROVE  disk' \in Seq(String \cup {Torn}) /\ buf' = << >> /\ buf' \in Seq(String)
<1>1. disk \in Seq(String \cup {Torn}) /\ buf \in Seq(String \cup {Torn})
  BY DEF TypeOK
<1>2. /\ disk \o buf \in Seq(String \cup {Torn})
      /\ Append(disk \o buf, Torn) \in Seq(String \cup {Torn})
  BY <1>1
<1>3. disk' = disk \o buf \/ disk' = Append(disk \o buf, Torn)
  BY DEF Exit, Closed, WithHalf
<1>4. buf' = << >> /\ buf' \in Seq(String)
  BY DEF Exit
<1> QED BY <1>2, <1>3, <1>4, Zenon

LEMMA TypesStep ==
  TypeOK /\ ThreadsInv /\ ConsoleInv /\ BindingInv /\ [Next]_vars => TypeOK'
<1> SUFFICES ASSUME TypeOK, ThreadsInv, ConsoleInv, BindingInv, [Next]_vars
             PROVE  TypeOK'
  OBVIOUS
<1> USE ServerAssumption
    DEF TypeOK, String, Threads, ConsoleInv, BindingInv, Registering, Answering,
        Up, Goto, tvars, dvars, fvars, lvars, hvars
<1>1. CASE ConsoleCheck
  BY <1>1 DEF ConsoleCheck, HasFinished
<1>2. CASE ConsoleOther
  BY <1>2 DEF ConsoleOther
<1>3. CASE Stop
  BY <1>3 DEF Stop
<1>4. ASSUME NEW d \in Domain, NEW t \in Token, RegisterCheck(d, t)
      PROVE  TypeOK'
  BY <1>4 DEF RegisterCheck, Refused
<1>5. CASE RegisterPut
  BY <1>5 DEF RegisterPut
<1>6. CASE WriteDomain
  BY <1>6 DEF WriteDomain
<1>7. CASE WriteToken
  BY <1>7 DEF WriteToken
<1>8. CASE AddToken
  BY <1>8 DEF AddToken
<1>9. CASE BindingStart
  BY <1>9 DEF BindingStart
<1>10. CASE BindingCheck
  BY <1>10 DEF BindingCheck, HasFinished
<1>11. CASE AcceptFails
  BY <1>11 DEF AcceptFails
<1>12. ASSUME NEW c \in Client, Accept(c)
      PROVE  TypeOK'
  BY <1>12 DEF Accept, Late
<1>13. ASSUME NEW t \in Token, ReceiveToken(t)
      PROVE  TypeOK'
  BY <1>13 DEF ReceiveToken, ShutDown, MayFind, MayMiss
<1>14. CASE ReceiveShort
  BY <1>14 DEF ReceiveShort, ShutDown
<1>15. CASE Update
  BY <1>15 DEF Update, ShutDown
<1>16. CASE DnsStart
  BY <1>16 DEF DnsStart
<1>17. CASE DnsCheck
  BY <1>17 DEF DnsCheck, HasFinished
<1>18. ASSUME NEW d \in Domain, Receive(d)
      PROVE  TypeOK'
  BY <1>18 DEF Receive, Late
<1>19. CASE Ignore
  BY <1>19 DEF Ignore, Late
<1>20. CASE LookupToken
  BY <1>20 DEF LookupToken
<1>21. CASE LookupIp
  BY <1>21 DEF LookupIp
<1>22. CASE Reply
  BY <1>22 DEF Reply
<1>23. CASE DnsFails
  <2>1. disk' \in Seq(String \cup {Torn}) /\ buf' \in Seq(String)
    <3> HIDE DEF TypeOK, String
    <3> QED BY <1>23, ExitTyped DEF DnsFails
  <2> QED BY <1>23, <2>1 DEF DnsFails, Exit
<1>24. ASSUME NEW t \in {"dns", "binding", "console"}, Join(t)
      PROVE  TypeOK'
  BY <1>24 DEF Join, Joined, Joining
<1>25. CASE Destroy
  BY <1>25 DEF Destroy
<1>26. CASE FreeAborts
  <2>1. disk' \in Seq(String \cup {Torn}) /\ buf' = << >>
    <3> HIDE DEF TypeOK, String
    <3> QED BY <1>26, LoseTyped DEF FreeAborts
  <2>2. buf' \in Seq(String)
    BY <2>1
  <2> QED BY <1>26, <2>1, <2>2 DEF FreeAborts, Lose
<1>27. CASE Close
  <2>1. disk' \in Seq(String \cup {Torn}) /\ buf' \in Seq(String)
    <3> HIDE DEF TypeOK, String
    <3> QED BY <1>27, ExitTyped DEF Close
  <2> QED BY <1>27, <2>1 DEF Close, Exit
<1>28. CASE Flush
  <2>1. disk' \in Seq(String \cup {Torn}) /\ buf' \in Seq(String)
    <3> HIDE DEF TypeOK, String
    <3> QED BY <1>28, FlushTyped
  <2> QED BY <1>28, <2>1 DEF Flush
<1>29. CASE Kill
  <2>1. disk' \in Seq(String \cup {Torn}) /\ buf' = << >>
    <3> HIDE DEF TypeOK, String
    <3> QED BY <1>29, LoseTyped DEF Kill
  <2>2. buf' \in Seq(String)
    BY <2>1
  <2> QED BY <1>29, <2>1, <2>2 DEF Kill, Lose
<1>30. CASE Restart
  <2>1. disk \in Seq(String \cup {Torn})
    OBVIOUS
  <2>2. Pairs(disk) \in Seq(((String \cup {Torn}) \ {Torn}) \X ((String \cup {Torn}) \ {Torn}))
    BY <2>1, PairsAreRecords
  <2>3. Pairs(disk) \in Seq(String \X String)
    BY <2>2
  <2>4. Linked(Pairs(disk)) \in [Domain -> String \cup {NULL}]
    <3> HIDE DEF String
    <3> QED BY <2>3, LinkedHasType
  <2>5. \A n \in DOMAIN Pairs(disk) : Pairs(disk)[n][2] \in String
    BY <2>3
  <2>6. pc' = FreshPc /\ DOMAIN pc' = Threads /\ pc'["console"] = "none"
        /\ pc'["binding"] = "none" /\ pc'["dns"] = "none"
    BY <1>30 DEF Restart, FreshPc
  <2>7. d2t' \in [Domain -> String \cup {NULL}] /\ tokens' \subseteq String
    BY <1>30, <2>4, <2>5 DEF Restart
  <2>8. buf' = << >> /\ buf' \in Seq(String)
    BY <1>30 DEF Restart
  <2>9. whole' \in BOOLEAN
    BY <1>30 DEF Restart, Whole
  <2>10. /\ status' = "up" /\ restarts' = restarts + 1 /\ restarts < MaxRestarts
         /\ finished' = FALSE /\ raced' = FALSE /\ bound' = {} /\ cell' = Junk /\ disk' = disk
         /\ reg' = NULL /\ conn' = NULL /\ query' = NULL
    BY <1>30 DEF Restart
  <2>11. restarts' \in 0..MaxRestarts
    BY <2>10
  <2>12. owner' \in [Token -> Client \cup {NULL}]
    BY <1>30 DEF Restart, FreshOwner
  <2> QED BY <2>6, <2>7, <2>8, <2>9, <2>10, <2>11, <2>12
<1>32. ASSUME NEW t \in {"dns", "binding", "console"}, Create(t)
      PROVE  TypeOK'
  <2>1. CASE t = "dns"
    BY <1>32, <2>1 DEF Create, Creating, Created, FirstPc, ThreadsInv, Starting
  <2>2. CASE t = "binding"
    BY <1>32, <2>2 DEF Create, Creating, Created, FirstPc, ThreadsInv, Starting
  <2>3. CASE t = "console"
    BY <1>32, <2>3 DEF Create, Creating, Created, FirstPc, ThreadsInv, Starting
  <2> QED BY <2>1, <2>2, <2>3
<1>33. CASE CreateFails
  <2>1. disk' \in Seq(String \cup {Torn}) /\ buf' \in Seq(String)
    <3> HIDE DEF TypeOK, String
    <3> QED BY <1>33, ExitTyped DEF CreateFails
  <2> QED BY <1>33, <2>1 DEF CreateFails, Creating, Exit
<1>34. CASE Renew
  BY <1>34 DEF Renew, ShutDown
<1>31. CASE UNCHANGED vars
  BY <1>31 DEF vars
<1> QED
  BY <1>1, <1>2, <1>3, <1>4, <1>5, <1>6, <1>7, <1>8, <1>9, <1>10, <1>11, <1>12,
       <1>13, <1>14, <1>15, <1>16, <1>17, <1>18, <1>19, <1>20, <1>21, <1>22, <1>23, <1>24,
       <1>25, <1>26, <1>27, <1>28, <1>29, <1>30, <1>31, <1>32, <1>33, <1>34 DEF Next,
       Console, Binding, Dns, Main
-----------------------------------------------------------------------------
(* The file and the buffer are the log written down.                       *)

LEMMA AgreesWhereSame ==
  ASSUME NEW X, NEW f \in Seq(X), NEW g \in Seq(X), NEW r \in Seq(Domain \X Token),
         Agrees(f, r),
         \A k \in DOMAIN g : g[k] = Torn \/ (k <= Len(f) /\ g[k] = f[k])
  PROVE  Agrees(g, r)
<1>1. \A n \in DOMAIN r : n \in Nat /\ n > 0 /\ 2*n - 1 \in Nat /\ 2*n - 1 > 0
                          /\ 2*n \in Nat /\ 2*n > 0
  OBVIOUS
<1>2. Len(f) \in Nat /\ Len(g) \in Nat /\ DOMAIN g = 1..Len(g)
  OBVIOUS
<1>3. \A k \in Nat : k > 0 /\ k <= Len(g) => k \in DOMAIN g
  BY <1>2
<1> SUFFICES ASSUME NEW n \in DOMAIN r
             PROVE  /\ 2*n - 1 <= Len(g) /\ g[2*n - 1] # Torn => g[2*n - 1] = r[n][1]
                    /\ 2*n <= Len(g) /\ g[2*n] # Torn => g[2*n] = r[n][2]
  BY DEF Agrees
<1>4. 2*n - 1 <= Len(g) /\ g[2*n - 1] # Torn => g[2*n - 1] = r[n][1]
  BY <1>1, <1>3 DEF Agrees
<1>5. 2*n <= Len(g) /\ g[2*n] # Torn => g[2*n] = r[n][2]
  BY <1>1, <1>3 DEF Agrees
<1> QED BY <1>4, <1>5

(* The strings behind one another, by position.                            *)
LEMMA TextAt ==
  ASSUME NEW X, NEW f \in Seq(X), NEW g \in Seq(X)
  PROVE  /\ f \o g \in Seq(X) /\ Len(f \o g) = Len(f) + Len(g)
         /\ \A k \in DOMAIN f : (f \o g)[k] = f[k]
         /\ \A k \in DOMAIN g : (f \o g)[Len(f) + k] = g[k]
         /\ \A k \in DOMAIN (f \o g) :
              (f \o g)[k] = IF k <= Len(f) THEN f[k] ELSE g[k - Len(f)]
OBVIOUS

LEMMA RecordInit == Init => RecordInv
<1> SUFFICES ASSUME Init PROVE RecordInv
  OBVIOUS
<1>1. log = << >> /\ disk = << >> /\ buf = << >> /\ acked = {} /\ status = "up"
  BY DEF Init
<1>2. pc["console"] = "none"
  BY DEF Init, FreshPc, Threads
<1>3. LogInv
  BY <1>1 DEF LogInv
<1>4. Agrees(disk \o buf, log)
  BY <1>1 DEF Agrees
<1>5. Owed = 0
  BY <1>2 DEF Owed
<1>6. FileInv
  BY <1>1, <1>2, <1>4, <1>5 DEF FileInv, Undamaged
<1>7. AckedInv
  BY <1>1 DEF AckedInv
<1> QED BY <1>3, <1>6, <1>7 DEF RecordInv

(* A step that touches neither the file nor a registration in progress.    *)
LEMMA RecordKept ==
  ASSUME RecordInv, UNCHANGED <<status, log, d2t, disk, buf, acked, whole>>,
         Owed' = Owed,
         Owed > 0 \/ pc'["console"] = "add_token" =>
           reg' = reg /\ pc'["console"] = pc["console"]
  PROVE  RecordInv'
<1> SUFFICES ASSUME whole PROVE (LogInv /\ FileInv /\ AckedInv)'
  BY DEF RecordInv
<1>1. LogInv'
  BY DEF RecordInv, LogInv
<1>2. Agrees(disk \o buf, log)'
  BY DEF RecordInv, FileInv, Agrees
<1>3. FileInv'
  BY <1>2 DEF RecordInv, FileInv, Undamaged
<1>4. AckedInv'
  BY DEF RecordInv, AckedInv
<1> QED BY <1>1, <1>3, <1>4

(* What a process has left in the file, and a new one finds, is a prefix   *)
(* of the log.                                                             *)
LEMMA FoundIsPrefix ==
  ASSUME TypeOK, LogInv, FileInv, status # "up"
  PROVE  /\ Len(Pairs(disk)) \in 0..Len(log)
         /\ Pairs(disk) = SubSeq(log, 1, Len(Pairs(disk)))
<1> DEFINE p == Pairs(disk)
<1>1. disk \in Seq(String \cup {Torn}) /\ disk \o buf = disk /\ Len(buf) = 0
  BY DEF TypeOK, FileInv
<1>2. /\ p \in Seq(((String \cup {Torn}) \ {Torn}) \X ((String \cup {Torn}) \ {Torn}))
      /\ 2 * Len(p) <= Len(disk)
      /\ \A n \in DOMAIN p : p[n] = <<disk[2*n - 1], disk[2*n]>>
      /\ \A k \in 1..(2 * Len(p)) : disk[k] # Torn
  BY <1>1, PairsAreRecords
<1> HIDE DEF p
<1>3. Len(p) \in Nat /\ DOMAIN p = 1..Len(p)
  BY <1>2
<1>4. log \in Seq(Domain \X Token) /\ Len(log) \in Nat /\ DOMAIN log = 1..Len(log)
  BY DEF LogInv
<1>5. Len(disk) \in Nat /\ Len(disk) <= 2 * Len(log)
  BY <1>1 DEF FileInv
<1>6. Len(p) \in 0..Len(log)
  BY <1>2, <1>3, <1>4, <1>5
<1>7. ASSUME NEW n \in DOMAIN p
      PROVE  p[n] = log[n]
  <2>1. /\ n \in DOMAIN log /\ 2*n - 1 \in 1..(2 * Len(p)) /\ 2*n \in 1..(2 * Len(p))
        /\ 2*n - 1 <= Len(disk) /\ 2*n <= Len(disk)
    BY <1>2, <1>3, <1>4, <1>5, <1>6
  <2>2. disk[2*n - 1] = log[n][1] /\ disk[2*n] = log[n][2]
    BY <1>1, <1>2, <2>1 DEF FileInv, Agrees
  <2>3. log[n] = <<log[n][1], log[n][2]>>
    BY <1>4, <2>1
  <2> QED BY <1>2, <2>2, <2>3
<1>8. p = SubSeq(log, 1, Len(p))
  BY <1>2, <1>3, <1>4, <1>6, <1>7
<1> QED BY <1>6, <1>8 DEF p

(* A process that ends leaves what the file held or what the buffer held   *)
(* too, and perhaps half of a string that was on its way.                  *)
LEMMA RecordEnd ==
  ASSUME TypeOK, RecordInv, status = "up", Owed' = Owed, pc'["console"] = pc["console"],
         UNCHANGED <<log, acked, reg, d2t, whole>>, status' # "up", buf' = << >>,
         NEW f \in {disk, disk \o buf},
         disk' = f \/ (disk' = Append(f, Torn) /\ (Owed > 0 \/ (f = disk /\ buf # << >>))),
         status' \in Ended => f = disk \o buf
  PROVE  RecordInv'
<1> SUFFICES ASSUME whole PROVE (LogInv /\ FileInv /\ AckedInv)'
  BY DEF RecordInv
<1>1. LogInv /\ FileInv /\ AckedInv
  BY DEF RecordInv
<1>2. disk \in Seq(String \cup {Torn}) /\ buf \in Seq(String \cup {Torn}) /\ Torn \notin String
  BY ServerAssumption DEF TypeOK, String
<1>3. disk' \in Seq(String \cup {Torn}) /\ disk' \o buf' = disk' /\ Len(buf') = 0
  <2>1. f \in Seq(String \cup {Torn})
    <3>1. disk \o buf \in Seq(String \cup {Torn})
      BY <1>2
    <3> QED BY <1>2, <3>1
  <2>2. disk' \in Seq(String \cup {Torn})
    BY <2>1
  <2> QED BY <2>2
<1>4. /\ disk \o buf \in Seq(String \cup {Torn}) /\ Len(disk \o buf) = Len(disk) + Len(buf)
      /\ Len(disk) \in Nat /\ Len(buf) \in Nat /\ Len(disk') \in Nat
  BY <1>2, <1>3
<1>5. \A k \in DOMAIN disk' :
        disk'[k] = Torn \/ (k <= Len(disk \o buf) /\ disk'[k] = (disk \o buf)[k])
  <2>1. \A k \in DOMAIN f : k <= Len(disk \o buf) /\ f[k] = (disk \o buf)[k]
    <3>1. CASE f = disk
      BY <1>2, <1>4, <3>1, TextAt
    <3>2. CASE f = disk \o buf
      BY <1>4, <3>2
    <3> QED BY <3>1, <3>2
  <2>2. f \in Seq(String \cup {Torn})
    BY <1>2, <1>4
  <2>3. \A k \in DOMAIN disk' : (k \in DOMAIN f /\ disk'[k] = f[k]) \/ disk'[k] = Torn
    BY <2>2
  <2> QED BY <2>1, <2>3
<1>6. Agrees(disk', log)
  BY <1>1, <1>3, <1>4, <1>5, AgreesWhereSame DEF FileInv, LogInv
<1>7. Len(disk') <= 2 * Len(log)
  <2>1. Len(log) \in Nat
    BY <1>1 DEF LogInv
  <2>2. Owed \in {0, 1, 2} /\ Len(disk) + Len(buf) = 2 * Len(log) - Owed
    BY <1>1 DEF FileInv, Owed
  <2>3. Len(disk') <= Len(f) + 1 /\ Len(f) <= Len(disk) + Len(buf)
    BY <1>2, <1>4
  <2>4. CASE disk' = f
    BY <1>4, <2>1, <2>2, <2>3, <2>4
  <2>5. CASE Owed > 0
    BY <1>4, <2>1, <2>2, <2>3, <2>5
  <2>6. CASE disk' = Append(disk, Torn) /\ buf # << >>
    <3>1. Len(buf) > 0 /\ Len(disk') = Len(disk) + 1
      BY <1>2, <2>6
    <3> QED BY <1>4, <2>1, <2>2, <3>1
  <2> QED BY <2>4, <2>5, <2>6
<1>8. LogInv'
  BY <1>1 DEF LogInv
<1>9. FileInv'
  <2>1. Agrees(disk \o buf, log)'
    BY <1>3, <1>6
  <2>2. Len(disk') + Len(buf') <= 2 * Len(log')
    BY <1>3, <1>4, <1>7
  <2> QED BY <1>1, <2>1, <2>2 DEF FileInv
<1>10. ASSUME status' \in Ended, NEW n \in DOMAIN log, 2*n <= Len(disk) + Len(buf)
       PROVE  2*n <= Len(disk') /\ \A k \in 1..(2*n) : disk'[k] # Torn
  <2>1. n \in Nat /\ f = disk \o buf
    BY <1>1, <1>10 DEF LogInv
  <2>2. \A k \in 1..(Len(disk) + Len(buf)) : (disk \o buf)[k] # Torn
    <3>1. \A k \in DOMAIN disk : disk[k] # Torn
      BY <1>1 DEF FileInv, Undamaged
    <3>2. \A k \in DOMAIN buf : buf[k] # Torn
      BY <1>2 DEF TypeOK
    <3> QED BY <1>2, <1>4, <3>1, <3>2, TextAt
  <2> DEFINE text == disk \o buf
  <2>3. text \in Seq(String \cup {Torn}) /\ disk' \in {text, Append(text, Torn)}
    BY <1>4, <2>1
  <2>4. Len(text) = Len(disk) + Len(buf) /\ Len(text) \in Nat
    BY <1>4
  <2>5. \A k \in 1..Len(text) : text[k] # Torn
    BY <2>2, <2>4
  <2>6. 2*n <= Len(text)
    BY <1>10, <2>4
  <2> HIDE DEF text
  <2>7. Len(disk') >= Len(text) /\ \A k \in 1..Len(text) : disk'[k] = text[k]
    BY <2>3
  <2>8. \A k \in 1..(2*n) : k \in 1..Len(text)
    BY <2>1, <2>4, <2>6
  <2>9. 2*n <= Len(disk')
    BY <1>4, <2>1, <2>4, <2>6, <2>7
  <2> QED BY <2>5, <2>7, <2>8, <2>9
<1>11. AckedInv'
  BY <1>1, <1>10 DEF AckedInv, Ended
<1> QED BY <1>8, <1>9, <1>11

LEMMA RecordExit ==
  ASSUME TypeOK, RecordInv, status = "up",
         NEW s \in Ended, Exit(s), UNCHANGED pc \/ Goto("main", "done"),
         pc = [t \in Threads |-> pc[t]]
  PROVE  RecordInv'
<1>1. pc'["console"] = pc["console"] /\ Owed' = Owed
  BY DEF Owed, Goto, Threads
<1>2. /\ UNCHANGED <<log, acked, reg, d2t, whole>> /\ status' # "up" /\ buf' = << >>
      /\ disk' = disk \o buf \/ (disk' = Append(disk \o buf, Torn) /\ Owed > 0)
  BY DEF Exit, Closed, WithHalf, Owed, Ended, hvars, dvars, lvars
<1> QED BY <1>1, <1>2, RecordEnd

LEMMA RecordLose ==
  ASSUME TypeOK, RecordInv, status = "up",
         NEW s \in {"crashed", "killed"}, Lose(s), UNCHANGED pc
  PROVE  RecordInv'
<1>1. pc'["console"] = pc["console"] /\ Owed' = Owed
  BY DEF Owed
<1>2. /\ UNCHANGED <<log, acked, reg, d2t, whole>> /\ buf' = << >>
      /\ status' # "up" /\ status' \notin Ended
      /\ disk' = disk \/ (disk' = Append(disk, Torn) /\ (Owed > 0 \/ buf # << >>))
  BY DEF Lose, WithHalf, Owed, Ended, hvars, dvars, lvars
<1> QED BY <1>1, <1>2, RecordEnd

LEMMA RecordStep ==
  TypeOK /\ ThreadsInv /\ ConsoleInv /\ RecordInv /\ [Next]_vars => RecordInv'
<1> SUFFICES ASSUME TypeOK, ThreadsInv, ConsoleInv, RecordInv, [Next]_vars
             PROVE  RecordInv'
  OBVIOUS
<1> USE ServerAssumption
    DEF ThreadsInv, Threads, Up, Goto, tvars, dvars, fvars, lvars, hvars
<1>1. CASE ConsoleCheck
  BY <1>1, RecordKept DEF ConsoleCheck, HasFinished, Owed
<1>2. CASE ConsoleOther
  BY <1>2, RecordKept DEF ConsoleOther, Owed
<1>3. CASE Stop
  BY <1>3, RecordKept DEF Stop, Owed
<1>4. ASSUME NEW d \in Domain, NEW t \in Token, RegisterCheck(d, t)
      PROVE  RecordInv'
  BY <1>4, RecordKept DEF RegisterCheck, Refused, Owed
<1>5. CASE RegisterPut
  <2> SUFFICES ASSUME whole PROVE (LogInv /\ FileInv /\ AckedInv)'
    BY <1>5 DEF RegisterPut, RecordInv
  <2>1. LogInv /\ FileInv /\ AckedInv
    BY <1>5 DEF RegisterPut, RecordInv
  <2>2. /\ UNCHANGED <<disk, buf, status, acked, reg>> /\ status = "up"
        /\ log' = Append(log, reg) /\ d2t' = [d2t EXCEPT ![reg[1]] = reg[2]]
        /\ pc'["console"] = "write_domain" /\ Owed' = 2 /\ Owed = 0
    BY <1>5 DEF RegisterPut, Owed
  <2>3. reg \in Domain \X Token /\ d2t[reg[1]] = NULL /\ reg[1] \in Domain
    BY <1>5 DEF RegisterPut, ConsoleInv, Registering
  <2>4. log \in Seq(Domain \X Token) /\ Len(log) \in Nat
    BY <2>1 DEF LogInv
  <2>5. /\ log' \in Seq(Domain \X Token) /\ Len(log') = Len(log) + 1
        /\ DOMAIN log' = 1..(Len(log) + 1) /\ DOMAIN log = 1..Len(log)
        /\ log'[Len(log')] = reg
        /\ \A n \in DOMAIN log : log'[n] = log[n]
    BY <2>2, <2>3, <2>4
  <2>6. \A n \in DOMAIN log : log[n][1] # reg[1]
    <3>1. \A n \in DOMAIN log : log[n] \in Domain \X Token
      BY <2>4
    <3> QED BY <2>1, <2>3, <3>1 DEF LogInv
  <2>7. LogInv'
    <3>1. \A n \in DOMAIN log' : n \in DOMAIN log \/ n = Len(log')
      BY <2>4, <2>5
    <3>2. \A n, m \in DOMAIN log' : log'[n][1] = log'[m][1] => n = m
      BY <2>1, <2>5, <2>6, <3>1 DEF LogInv
    <3>3. d2t = [d \in Domain |-> d2t[d]]
      BY DEF ConsoleInv
    <3>4. d2t'[reg[1]] = reg[2]
      BY <2>2, <2>3, <3>3
    <3>5. \A n \in DOMAIN log : d2t'[log[n][1]] = log[n][2]
      BY <2>1, <2>2, <2>6, <3>3 DEF LogInv
    <3>6. \A n \in DOMAIN log' : d2t'[log'[n][1]] = log'[n][2]
      BY <2>5, <3>1, <3>4, <3>5
    <3> QED BY <2>5, <3>2, <3>6 DEF LogInv
  <2>8. Len(disk \o buf) = Len(disk) + Len(buf) /\ Len(disk) \in Nat /\ Len(buf) \in Nat
    BY DEF TypeOK
  <2>9. Len(disk) + Len(buf) = 2 * Len(log)
    BY <2>1, <2>2, <2>4 DEF FileInv
  <2>10. Agrees(disk \o buf, log')
    <3> DEFINE text == disk \o buf
    <3>1. Agrees(text, log) /\ Len(text) = 2 * Len(log)
      BY <2>1, <2>8, <2>9 DEF FileInv
    <3> HIDE DEF text
    <3>2. ASSUME NEW n \in DOMAIN log'
          PROVE  /\ 2*n - 1 <= Len(text) /\ text[2*n - 1] # Torn => text[2*n - 1] = log'[n][1]
                 /\ 2*n <= Len(text) /\ text[2*n] # Torn => text[2*n] = log'[n][2]
      <4>1. CASE n \in DOMAIN log
        BY <2>5, <3>1, <4>1 DEF Agrees
      <4>2. CASE n = Len(log) + 1
        <5>1. ~(2*n - 1 <= Len(text)) /\ ~(2*n <= Len(text))
          BY <2>4, <3>1, <4>2
        <5> QED BY <5>1
      <4> QED BY <2>4, <2>5, <4>1, <4>2
    <3>3. Agrees(text, log')
      BY <3>2 DEF Agrees
    <3> QED BY <3>3 DEF text
  <2>11. Agrees(disk \o buf, log)'
    BY <2>2, <2>10 DEF Agrees
  <2>12. FileInv'
    <3>1. /\ Len(disk') + Len(buf') = 2 * Len(log') - Owed'
          /\ Len(disk') + Len(buf') <= 2 * Len(log') /\ Len(log') > 0
      <4>1. Len(disk') = Len(disk) /\ Len(buf') = Len(buf) /\ Len(log') = Len(log) + 1
        BY <2>2, <2>5
      <4>2. Owed' = 2
        BY <2>2
      <4>3. /\ Len(disk) + Len(buf) = 2 * (Len(log) + 1) - 2
            /\ Len(disk) + Len(buf) <= 2 * (Len(log) + 1) /\ Len(log) + 1 > 0
        BY ONLY <2>4, <2>9, TwoOwed
      <4> QED BY ONLY <4>1, <4>2, <4>3
    <3> QED BY <2>1, <2>2, <2>5, <2>11, <3>1 DEF FileInv, Undamaged
  <2>13. AckedInv'
    BY <2>1, <2>2, <2>5, <2>4 DEF AckedInv, Ended
  <2> QED BY <2>7, <2>12, <2>13
<1>6. CASE WriteDomain
  <2> SUFFICES ASSUME whole PROVE (LogInv /\ FileInv /\ AckedInv)'
    BY <1>6 DEF WriteDomain, RecordInv
  <2>1. LogInv /\ FileInv /\ AckedInv
    BY <1>6 DEF WriteDomain, RecordInv
  <2>2. /\ UNCHANGED <<disk, log, d2t, status, acked, reg>> /\ status = "up"
        /\ buf' = Append(buf, reg[1])
        /\ pc'["console"] = "write_token" /\ Owed' = 1 /\ Owed = 2
    BY <1>6 DEF WriteDomain, Owed
  <2>3. reg = log[Len(log)] /\ Len(log) \in Nat /\ Len(log) > 0
        /\ Len(log) \in DOMAIN log /\ log \in Seq(Domain \X Token)
    BY <2>1, <2>2 DEF FileInv, LogInv
  <2>4. reg[1] \in String /\ disk \in Seq(String \cup {Torn}) /\ buf \in Seq(String)
        /\ String \subseteq String \cup {Torn}
    BY <2>3 DEF TypeOK, String
  <2> DEFINE text == disk \o buf
  <2>5. /\ text \in Seq(String \cup {Torn}) /\ Len(text) = Len(disk) + Len(buf)
        /\ Len(buf') = Len(buf) + 1 /\ Len(disk) \in Nat /\ Len(buf) \in Nat
        /\ (disk \o buf)' = Append(text, reg[1])
    BY <2>2, <2>4
  <2>6. Len(text) + 1 = 2 * Len(log) - 1
    BY <2>1, <2>2, <2>3, <2>5 DEF FileInv
  <2>7. Agrees(Append(text, reg[1]), log)
    <3>1. Agrees(text, log)
      BY <2>1 DEF FileInv
    <3>2. /\ Len(Append(text, reg[1])) = 2 * Len(log) - 1
          /\ Append(text, reg[1])[2 * Len(log) - 1] = log[Len(log)][1]
          /\ \A k \in Nat : 0 < k /\ k < 2 * Len(log) - 1 =>
               Append(text, reg[1])[k] = text[k] /\ k <= Len(text)
      <4> HIDE DEF text
      <4>1. Len(text) \in Nat /\ text \in Seq(String \cup {Torn})
        BY <2>5
      <4>2. /\ Len(Append(text, reg[1])) = Len(text) + 1
            /\ Append(text, reg[1])[Len(text) + 1] = reg[1]
            /\ \A k \in 1..Len(text) : Append(text, reg[1])[k] = text[k]
        BY <2>4, <4>1
      <4>3. \A k \in Nat : 0 < k /\ k < 2 * Len(log) - 1 => k \in 1..Len(text)
        BY <2>3, <2>6, <4>1
      <4> QED BY <2>3, <2>6, <4>1, <4>2, <4>3
    <3> SUFFICES ASSUME NEW n \in DOMAIN log
                 PROVE  /\ /\ 2*n - 1 <= Len(Append(text, reg[1]))
                           /\ Append(text, reg[1])[2*n - 1] # Torn
                           => Append(text, reg[1])[2*n - 1] = log[n][1]
                        /\ /\ 2*n <= Len(Append(text, reg[1]))
                           /\ Append(text, reg[1])[2*n] # Torn
                           => Append(text, reg[1])[2*n] = log[n][2]
      BY DEF Agrees
    <3>3. n \in Nat /\ 0 < n /\ n <= Len(log) /\ (n = Len(log) \/ n < Len(log))
      BY <2>3
    <3> HIDE DEF text
    <3>4. CASE n = Len(log)
      <4>1. 2*n - 1 = 2 * Len(log) - 1 /\ ~(2*n <= 2 * Len(log) - 1)
        BY <2>3, <3>4
      <4> QED BY <3>2, <3>4, <4>1
    <3>5. CASE n < Len(log)
      <4>1. /\ 2*n - 1 \in Nat /\ 0 < 2*n - 1 /\ 2*n - 1 < 2 * Len(log) - 1
            /\ 2*n \in Nat /\ 0 < 2*n /\ 2*n < 2 * Len(log) - 1
        BY <2>3, <3>3, <3>5
      <4>2. /\ Append(text, reg[1])[2*n - 1] = text[2*n - 1] /\ 2*n - 1 <= Len(text)
            /\ Append(text, reg[1])[2*n] = text[2*n] /\ 2*n <= Len(text)
        BY <3>2, <4>1
      <4>3. /\ text[2*n - 1] # Torn => text[2*n - 1] = log[n][1]
            /\ text[2*n] # Torn => text[2*n] = log[n][2]
        BY <3>1, <4>2 DEF Agrees
      <4> QED BY <4>2, <4>3
    <3> QED BY <3>3, <3>4, <3>5
  <2>8. Agrees(disk \o buf, log)'
    BY <2>2, <2>5, <2>7 DEF Agrees
  <2>9. LogInv'
    BY <2>1, <2>2 DEF LogInv
  <2>10. FileInv'
    <3> HIDE DEF text
    <3>1. Len(disk') + Len(buf') <= 2 * Len(log')
          /\ Len(disk') + Len(buf') = 2 * Len(log') - Owed'
      BY <2>2, <2>3, <2>5, <2>6
    <3> QED BY <2>1, <2>2, <2>3, <2>8, <3>1 DEF FileInv, Undamaged
  <2>11. AckedInv'
    <3>1. \A n \in DOMAIN log : n \in Nat
      BY <2>3
    <3> HIDE DEF text
    <3> QED BY <2>1, <2>2, <2>5, <3>1 DEF AckedInv, Ended
  <2> QED BY <2>9, <2>10, <2>11
<1>7. CASE WriteToken
  <2> SUFFICES ASSUME whole PROVE (LogInv /\ FileInv /\ AckedInv)'
    BY <1>7 DEF WriteToken, RecordInv
  <2>1. LogInv /\ FileInv /\ AckedInv
    BY <1>7 DEF WriteToken, RecordInv
  <2>2. /\ UNCHANGED <<disk, log, d2t, status, acked, reg>> /\ status = "up"
        /\ buf' = Append(buf, reg[2])
        /\ pc'["console"] = "add_token" /\ Owed' = 0 /\ Owed = 1
    BY <1>7 DEF WriteToken, Owed
  <2>3. reg = log[Len(log)] /\ Len(log) \in Nat /\ Len(log) > 0
        /\ Len(log) \in DOMAIN log /\ log \in Seq(Domain \X Token)
    BY <2>1, <2>2 DEF FileInv, LogInv
  <2>4. reg[2] \in String /\ disk \in Seq(String \cup {Torn}) /\ buf \in Seq(String)
        /\ String \subseteq String \cup {Torn}
    BY <2>3 DEF TypeOK, String
  <2> DEFINE text == disk \o buf
  <2>5. /\ text \in Seq(String \cup {Torn}) /\ Len(text) = Len(disk) + Len(buf)
        /\ Len(buf') = Len(buf) + 1 /\ Len(disk) \in Nat /\ Len(buf) \in Nat
        /\ (disk \o buf)' = Append(text, reg[2])
    BY <2>2, <2>4
  <2>6. Len(text) + 1 = 2 * Len(log)
    BY <2>1, <2>2, <2>3, <2>5 DEF FileInv
  <2>7. Agrees(Append(text, reg[2]), log)
    <3>1. Agrees(text, log)
      BY <2>1 DEF FileInv
    <3>2. /\ Len(Append(text, reg[2])) = 2 * Len(log)
          /\ Append(text, reg[2])[2 * Len(log)] = log[Len(log)][2]
          /\ \A k \in Nat : 0 < k /\ k < 2 * Len(log) =>
               Append(text, reg[2])[k] = text[k] /\ k <= Len(text)
      <4> HIDE DEF text
      <4>1. Len(text) \in Nat /\ text \in Seq(String \cup {Torn})
        BY <2>5
      <4>2. /\ Len(Append(text, reg[2])) = Len(text) + 1
            /\ Append(text, reg[2])[Len(text) + 1] = reg[2]
            /\ \A k \in 1..Len(text) : Append(text, reg[2])[k] = text[k]
        BY <2>4, <4>1
      <4>3. \A k \in Nat : 0 < k /\ k < 2 * Len(log) => k \in 1..Len(text)
        BY <2>3, <2>6, <4>1
      <4> QED BY <2>3, <2>6, <4>1, <4>2, <4>3
    <3> SUFFICES ASSUME NEW n \in DOMAIN log
                 PROVE  /\ /\ 2*n - 1 <= Len(Append(text, reg[2]))
                           /\ Append(text, reg[2])[2*n - 1] # Torn
                           => Append(text, reg[2])[2*n - 1] = log[n][1]
                        /\ /\ 2*n <= Len(Append(text, reg[2]))
                           /\ Append(text, reg[2])[2*n] # Torn
                           => Append(text, reg[2])[2*n] = log[n][2]
      BY DEF Agrees
    <3>3. n \in Nat /\ 0 < n /\ n <= Len(log) /\ (n = Len(log) \/ n < Len(log))
      BY <2>3
    <3> HIDE DEF text
    <3>4. CASE n = Len(log)
      <4>1. 2*n = 2 * Len(log) /\ 2*n - 1 < 2 * Len(log) /\ 0 < 2*n - 1 /\ 2*n - 1 \in Nat
        BY <2>3, <3>4
      <4>2. Append(text, reg[2])[2*n - 1] = text[2*n - 1] /\ 2*n - 1 <= Len(text)
        BY <3>2, <4>1
      <4>3. 2*n - 1 <= Len(text) /\ text[2*n - 1] # Torn => text[2*n - 1] = log[n][1]
        BY <3>1 DEF Agrees
      <4> QED BY <3>2, <3>4, <4>1, <4>2, <4>3
    <3>5. CASE n < Len(log)
      <4>1. /\ 2*n - 1 \in Nat /\ 0 < 2*n - 1 /\ 2*n - 1 < 2 * Len(log)
            /\ 2*n \in Nat /\ 0 < 2*n /\ 2*n < 2 * Len(log)
        BY <2>3, <3>3, <3>5
      <4>2. /\ Append(text, reg[2])[2*n - 1] = text[2*n - 1] /\ 2*n - 1 <= Len(text)
            /\ Append(text, reg[2])[2*n] = text[2*n] /\ 2*n <= Len(text)
        BY <3>2, <4>1
      <4>3. /\ text[2*n - 1] # Torn => text[2*n - 1] = log[n][1]
            /\ text[2*n] # Torn => text[2*n] = log[n][2]
        BY <3>1, <4>2 DEF Agrees
      <4> QED BY <4>2, <4>3
    <3> QED BY <3>3, <3>4, <3>5
  <2>8. Agrees(disk \o buf, log)'
    BY <2>2, <2>5, <2>7 DEF Agrees
  <2>9. LogInv'
    BY <2>1, <2>2 DEF LogInv
  <2>10. FileInv'
    <3> HIDE DEF text
    <3>1. Len(disk') + Len(buf') <= 2 * Len(log')
          /\ Len(disk') + Len(buf') = 2 * Len(log') - Owed'
      BY <2>2, <2>3, <2>5, <2>6
    <3> QED BY <2>1, <2>2, <2>3, <2>8, <3>1 DEF FileInv, Undamaged
  <2>11. AckedInv'
    <3>1. \A n \in DOMAIN log : n \in Nat
      BY <2>3
    <3> HIDE DEF text
    <3> QED BY <2>1, <2>2, <2>5, <3>1 DEF AckedInv, Ended
  <2> QED BY <2>9, <2>10, <2>11
<1>8. CASE AddToken
  <2> SUFFICES ASSUME whole PROVE (LogInv /\ FileInv /\ AckedInv)'
    BY <1>8 DEF AddToken, RecordInv
  <2>1. LogInv /\ FileInv /\ AckedInv
    BY <1>8 DEF AddToken, RecordInv
  <2>2. Owed = 0 /\ Owed' = 0 /\ pc'["console"] = "check"
    BY <1>8 DEF AddToken, Owed
  <2>3. /\ UNCHANGED <<log, disk, buf, d2t, status>> /\ status = "up"
        /\ acked' = acked \cup {reg}
    BY <1>8 DEF AddToken
  <2>4. Len(log) \in DOMAIN log /\ reg = log[Len(log)]
        /\ Len(disk) + Len(buf) = 2 * Len(log)
    BY <1>8, <2>1, <2>2, <2>3 DEF AddToken, FileInv, LogInv
  <2>5. LogInv'
    BY <2>1, <2>3 DEF LogInv
  <2>6. FileInv'
    <3>1. Agrees(disk \o buf, log)'
      BY <2>1, <2>3 DEF FileInv, Agrees
    <3> QED BY <2>1, <2>2, <2>3, <2>4, <3>1 DEF FileInv, Undamaged
  <2>7. AckedInv'
    BY <2>1, <2>3, <2>4 DEF AckedInv, Ended
  <2> QED BY <2>5, <2>6, <2>7
<1>9. CASE BindingStart
  BY <1>9, RecordKept DEF BindingStart, Owed
<1>10. CASE BindingCheck
  BY <1>10, RecordKept DEF BindingCheck, HasFinished, Owed
<1>11. CASE AcceptFails
  BY <1>11, RecordKept DEF AcceptFails, Owed
<1>12. ASSUME NEW c \in Client, Accept(c)
      PROVE  RecordInv'
  BY <1>12, RecordKept DEF Accept, Late, Owed
<1>13. ASSUME NEW t \in Token, ReceiveToken(t)
      PROVE  RecordInv'
  BY <1>13, RecordKept DEF ReceiveToken, ShutDown, MayFind, MayMiss, Owed
<1>14. CASE ReceiveShort
  BY <1>14, RecordKept DEF ReceiveShort, ShutDown, Owed
<1>15. CASE Update
  BY <1>15, RecordKept DEF Update, ShutDown, Owed
<1>16. CASE DnsStart
  BY <1>16, RecordKept DEF DnsStart, Owed
<1>17. CASE DnsCheck
  BY <1>17, RecordKept DEF DnsCheck, HasFinished, Owed
<1>18. ASSUME NEW d \in Domain, Receive(d)
      PROVE  RecordInv'
  BY <1>18, RecordKept DEF Receive, Late, Owed
<1>19. CASE Ignore
  BY <1>19, RecordKept DEF Ignore, Late, Owed
<1>20. CASE LookupToken
  BY <1>20, RecordKept DEF LookupToken, Owed
<1>21. CASE LookupIp
  BY <1>21, RecordKept DEF LookupIp, Owed
<1>22. CASE Reply
  BY <1>22, RecordKept DEF Reply, Owed
<1>23. CASE DnsFails
  BY <1>23, RecordExit DEF DnsFails, Ended
<1>24. ASSUME NEW t \in {"dns", "binding", "console"}, Join(t)
      PROVE  RecordInv'
  BY <1>24, RecordKept DEF Join, Joined, Joining, Owed
<1>25. CASE Destroy
  BY <1>25, RecordKept DEF Destroy, Owed
<1>26. CASE FreeAborts
  BY <1>26, RecordLose DEF FreeAborts
<1>27. CASE Close
  BY <1>27, RecordExit DEF Close, Ended
<1>28. CASE Flush
  <2> SUFFICES ASSUME whole PROVE (LogInv /\ FileInv /\ AckedInv)'
    BY <1>28 DEF Flush, RecordInv
  <2>1. LogInv /\ FileInv /\ AckedInv
    BY <1>28 DEF Flush, RecordInv
  <2>2. /\ UNCHANGED <<log, d2t, status, acked, pc, reg>> /\ status = "up"
        /\ Owed' = Owed
    BY <1>28 DEF Flush, Owed
  <2>3. disk \in Seq(String \cup {Torn}) /\ buf \in Seq(String) /\ Torn \notin String
    BY DEF TypeOK, String
  <2>4. PICK a, b \in Seq(String) : disk' = disk \o a /\ buf' = b /\ a \o b = buf
    BY <1>28, <2>3, FlushCuts, Zenon
  <2>5. disk' \o buf' = disk \o buf
    <3> DEFINE Stored == String \cup {Torn}
    <3>1. disk \in Seq(Stored) /\ a \in Seq(Stored) /\ b \in Seq(Stored)
      BY <2>3
    <3>2. (disk \o a) \o b = disk \o (a \o b)
      <4> HIDE DEF Stored
      <4> QED BY <3>1
    <3> QED BY <2>4, <3>2, Zenon
  <2>6. Len(disk') = Len(disk) + Len(a) /\ Len(buf) = Len(a) + Len(b) /\ buf' = b
        /\ Len(disk) \in Nat /\ Len(a) \in Nat /\ Len(b) \in Nat
    BY <2>3, <2>4
  <2>7. Undamaged'
    <3>1. Undamaged
      BY <2>1, <2>2 DEF FileInv
    <3>2. \A k \in DOMAIN disk' : IF k <= Len(disk) THEN disk'[k] = disk[k] /\ k \in DOMAIN disk
                                  ELSE disk'[k] = a[k - Len(disk)] /\ k - Len(disk) \in DOMAIN a
      BY <2>3, <2>4
    <3>3. \A k \in DOMAIN a : a[k] # Torn
      BY <2>3
    <3> QED BY <3>1, <3>2, <3>3 DEF Undamaged
  <2>8. LogInv'
    BY <2>1, <2>2 DEF LogInv
  <2>9. Len(disk') + Len(buf') = Len(disk) + Len(buf)
    BY <2>6
  <2>10. FileInv'
    <3>1. Agrees(disk \o buf, log)'
      BY <2>1, <2>2, <2>5 DEF FileInv, Agrees
    <3> QED BY <2>1, <2>2, <2>7, <2>9, <3>1 DEF FileInv
  <2>11. AckedInv'
    BY <2>1, <2>2, <2>9 DEF AckedInv, Ended
  <2> QED BY <2>8, <2>10, <2>11
<1>29. CASE Kill
  BY <1>29, RecordLose DEF Kill
<1>30. CASE Restart
  <2> SUFFICES ASSUME whole, Whole(disk) PROVE (LogInv /\ FileInv /\ AckedInv)'
    BY <1>30 DEF Restart, RecordInv
  <2>1. LogInv /\ FileInv /\ status # "up"
    BY <1>30 DEF Restart, RecordInv
  <2>2. /\ log' = Pairs(disk) /\ d2t' = Linked(Pairs(disk)) /\ disk' = disk
        /\ buf' = << >> /\ acked' = {} /\ status' = "up" /\ pc' = FreshPc
    BY <1>30 DEF Restart
  <2>3. pc'["console"] = "none" /\ Owed' = 0
    BY <2>2 DEF FreshPc, Threads, Owed
  <2>4. Pairs(disk) = SubSeq(log, 1, Len(Pairs(disk))) /\ Len(Pairs(disk)) \in 0..Len(log)
    BY <2>1, FoundIsPrefix DEF TypeOK
  <2>5. /\ Pairs(disk) \in Seq(Domain \X Token)
        /\ \A n \in DOMAIN Pairs(disk) : Pairs(disk)[n] = log[n] /\ n \in DOMAIN log
    <3>1. log \in Seq(Domain \X Token) /\ Len(log) \in Nat
      BY <2>1 DEF LogInv
    <3>2. PICK l \in 0..Len(log) : Pairs(disk) = SubSeq(log, 1, l)
      BY <2>4
    <3> QED BY <3>1, <3>2
  <2>6. \A n, m \in DOMAIN Pairs(disk) : Pairs(disk)[n][1] = Pairs(disk)[m][1] => n = m
    BY <2>1, <2>5 DEF LogInv
  <2>7. LogInv'
    BY <2>2, <2>5, <2>6, LinkedIsRecords DEF LogInv
  <2>8. disk \in Seq(String \cup {Torn}) /\ Len(disk) = 2 * Len(Pairs(disk))
    BY DEF TypeOK, Whole
  <2>9. /\ \A n \in DOMAIN Pairs(disk) : Pairs(disk)[n] = <<disk[2*n - 1], disk[2*n]>>
        /\ \A k \in 1..(2 * Len(Pairs(disk))) : disk[k] # Torn
    BY <2>8, PairsAreRecords
  <2>10. Undamaged'
    BY <2>2, <2>8, <2>9 DEF Undamaged
  <2>11. disk \o << >> = disk
    BY <2>8
  <2>12. Agrees(disk \o buf, log)'
    BY <2>2, <2>9, <2>11 DEF Agrees
  <2>13. FileInv'
    BY <2>2, <2>3, <2>8, <2>10, <2>12 DEF FileInv
  <2>14. AckedInv'
    BY <2>2 DEF AckedInv, Ended
  <2> QED BY <2>7, <2>13, <2>14
<1>32. ASSUME NEW t \in {"dns", "binding", "console"}, Create(t)
      PROVE  RecordInv'
  BY <1>32, RecordKept DEF Create, Creating, Created, FirstPc, Owed, ThreadsInv, Starting
<1>33. CASE CreateFails
  BY <1>33, RecordExit DEF CreateFails, Creating, Ended
<1>34. CASE Renew
  BY <1>34, RecordKept DEF Renew, ShutDown, Owed
<1>31. CASE UNCHANGED vars
  BY <1>31, RecordKept DEF vars, Owed
<1> QED
  BY <1>1, <1>2, <1>3, <1>4, <1>5, <1>6, <1>7, <1>8, <1>9, <1>10, <1>11, <1>12,
       <1>13, <1>14, <1>15, <1>16, <1>17, <1>18, <1>19, <1>20, <1>21, <1>22, <1>23, <1>24,
       <1>25, <1>26, <1>27, <1>28, <1>29, <1>30, <1>31, <1>32, <1>33, <1>34 DEF Next,
       Console, Binding, Dns, Main
-----------------------------------------------------------------------------
(* The variables of the server keep their types, whatever files and ends   *)
(* of processes came before.                                               *)
THEOREM ServerTypes == Spec => []TypeOK
<1>1. Init => TypeOK
  BY TypesInit
<1>2. TypeOK /\ SafetyInv /\ [Next]_vars => TypeOK'
  BY TypesStep DEF SafetyInv
<1> QED BY <1>1, <1>2, ServerInvariance, PTL DEF Spec

(* File and stdio buffer are the registrations of the process, written     *)
(* down one after another, in every reachable state of a process that did  *)
(* not inherit half a record.                                              *)
THEOREM RecordInvariance == Spec => []RecordInv
<1>1. Init => RecordInv
  BY RecordInit
<1>2. RecordInv /\ TypeOK /\ SafetyInv /\ [Next]_vars => RecordInv'
  BY RecordStep DEF SafetyInv
<1> QED BY <1>1, <1>2, ServerTypes, ServerInvariance, PTL DEF Spec

(* A process that ends by main returning or by exit(1) leaves every        *)
(* registration it reported where a new process finds it.                  *)
THEOREM OrderlyEnd == Spec => []OrderlyEndKeepsLinks
<1>1. TypeOK /\ RecordInv => OrderlyEndKeepsLinks
  <2> SUFFICES ASSUME TypeOK, LogInv, FileInv, AckedInv, status \in Ended,
                      NEW r \in acked
               PROVE  Loaded[r[1]] = r[2]
    BY DEF RecordInv, OrderlyEndKeepsLinks, Ended
  <2> DEFINE p == Pairs(disk)
  <2>1. Len(p) \in 0..Len(log) /\ p = SubSeq(log, 1, Len(p))
    BY FoundIsPrefix DEF Ended
  <2>2. log \in Seq(Domain \X Token) /\ Len(log) \in Nat /\ disk \in Seq(String \cup {Torn})
    BY DEF LogInv, TypeOK
  <2>3. PICK n \in DOMAIN log :
          log[n] = r /\ 2*n <= Len(disk) /\ \A k \in 1..(2*n) : disk[k] # Torn
    BY DEF AckedInv
  <2>4. n \in Nat /\ n > 0 /\ 2*n <= Len(disk) /\ Len(disk) \in Nat
    BY <2>2, <2>3
  <2>5. \A k \in 1..(2*n) : disk[k] # Torn
    BY <2>3
  <2>6. n <= Len(p)
    BY <2>2, <2>4, <2>5, PairsAreRecords
  <2> HIDE DEF p
  <2>7. /\ p \in Seq(Domain \X Token) /\ n \in DOMAIN p
        /\ \A k \in DOMAIN p : k \in DOMAIN log /\ p[k] = log[k]
    <3>1. PICK l \in 0..Len(log) : p = SubSeq(log, 1, l) /\ Len(p) = l
      BY <2>1
    <3>2. log \in Seq(Domain \X Token) /\ Len(log) \in Nat
      BY <2>2
    <3>3. /\ p \in Seq(Domain \X Token) /\ DOMAIN p = 1..l
          /\ \A k \in DOMAIN p : k \in DOMAIN log /\ p[k] = log[k]
      BY <3>1, <3>2
    <3>4. n \in 1..l
      BY <2>4, <2>6, <3>1
    <3> QED BY <3>3, <3>4
  <2>8. \A k, m \in DOMAIN p : p[k][1] = p[m][1] => k = m
    BY <2>7 DEF LogInv
  <2>9. Linked(p)[p[n][1]] = p[n][2]
    BY <2>7, <2>8, LinkedIsRecords
  <2>10. p[n] = r
    BY <2>3, <2>7
  <2> QED BY <2>9, <2>10 DEF Loaded, p
<1> QED BY <1>1, ServerTypes, RecordInvariance, PTL

(* However a process ends, the next one finds a prefix of what it had      *)
(* registered.                                                             *)
THEOREM RestartPrefix == Spec => RestartFindsPrefix
<1>1. TypeOK /\ RecordInv /\ [Next]_vars =>
        [(status # "up" /\ status' = "up" /\ whole) =>
           \E n \in 0..Len(log) : d2t' = Linked(SubSeq(log, 1, n))]_vars
  <2> SUFFICES ASSUME TypeOK, LogInv, FileInv, Next, status # "up", status' = "up"
               PROVE  \E n \in 0..Len(log) : d2t' = Linked(SubSeq(log, 1, n))
    BY DEF RecordInv
  <2>1. Restart
    BY DEF Next, Console, Binding, Dns, Main, Up, ConsoleCheck, ConsoleOther, Stop,
           RegisterCheck, RegisterPut, WriteDomain, WriteToken, AddToken,
           BindingStart, BindingCheck, AcceptFails, Accept, ReceiveToken,
           ReceiveShort, Update, DnsStart, DnsCheck, Receive, Ignore, LookupToken,
           LookupIp, Reply, DnsFails, Join, Destroy, FreeAborts, Close, Flush, Kill,
           Create, CreateFails, Renew
  <2>2. d2t' = Linked(Pairs(disk))
    BY <2>1 DEF Restart
  <2> QED BY <2>2, FoundIsPrefix
<1> QED BY <1>1, ServerTypes, RecordInvariance, PTL DEF Spec, RestartFindsPrefix
=============================================================================
