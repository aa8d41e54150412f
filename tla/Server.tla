-------------------------------- MODULE Server -------------------------------
(***************************************************************************)
(* The server process: main and its three threads, the maps they share,    *)
(* the file of registrations behind a stdio buffer, the ways the process   *)
(* ends, and a restart.                                                    *)
(*                                                                         *)
(* Steps of different threads interleave between any two operations on     *)
(* shared state.  A put or get of a map is one step here; what two of them *)
(* do to each other is the subject of HashMap, and comes in as what a      *)
(* look-up may miss.  Clients and DNS resolvers are the environment: they  *)
(* may connect, ask, send any token, hang up, or stay silent.              *)
(***************************************************************************)
EXTENDS Naturals, Sequences, FiniteSets

CONSTANTS
  Domain,        \* domains an operator registers and resolvers ask for
  Token,         \* tokens, as cut to TOKEN_SIZE bytes
  Client,        \* addresses clients connect from
  MaxRestarts,   \* restarts explored
  AlenMayBeSmall, \* the uninitialised alen of accept may hold a value
                  \* too small for an address
  NULL,
  Junk,          \* an address nobody stored
  Torn           \* a string of which the file holds only the first bytes

ASSUME ServerAssumption ==
  /\ Domain \cap Token = {} /\ MaxRestarts \in Nat /\ AlenMayBeSmall \in BOOLEAN
  /\ {NULL, Torn} \cap (Domain \cup Token \cup Client \cup {Junk}) = {} /\ NULL # Torn
  /\ NULL # "cell" /\ NULL \notin (Domain \X Token) \cup (Client \X Token)
  /\ Junk \notin Client

VARIABLES
  status,    \* "up", or how the process ended: "exited" (main returned),
             \* "failed" (another exit code), "crashed" (in free), "killed"
  restarts,
  finished,  \* the flag set by the command "stop"
  pc,        \* where each thread is
  d2t,       \* map->domain_to_token
  tokens,    \* keys put into map->tokens
  raced,     \* has a put of map->tokens by the console overlapped one by
             \* the binding thread in this process?
  bound,     \* keys of map->token_to_ip
  cell,      \* client_addr.sin_addr of the binding thread: every value
             \* in map->token_to_ip is a pointer to this one variable
  buf, disk, \* domain2token.data: strings in the stdio buffer, in the file
  reg,       \* <<domain, token>> of the registration in progress
  conn,      \* the client connected, then <<client, token it sent>>
  query,     \* domain of the question being handled
  ptr,       \* what its lookup found so far: a token, then "cell"
  (* history *)
  log,       \* registrations put in the map, in order
  acked,     \* those reported as "Succesfully linked"
  owner,     \* the client each token was last bound for
  answer,    \* <<domain, address>> of the last reply; address NULL: none
  late,      \* requests each service thread has taken since "stop"
  whole      \* no earlier process left half a record in the file

tvars == <<finished, pc>>
dvars == <<d2t, tokens, raced, bound, cell>>
fvars == <<buf, disk>>
lvars == <<reg, conn, query, ptr>>
hvars == <<log, acked, owner, answer, late, whole>>
vars  == <<status, restarts, tvars, dvars, fvars, lvars, hvars>>

Threads == {"main", "dns", "binding", "console"}
Up(t, l)   == status = "up" /\ pc[t] = l
Goto(t, l) == pc' = [pc EXCEPT ![t] = l]
Late(t)    == \/ finished /\ late[t] < 2 /\ late' = [late EXCEPT ![t] = @ + 1]
              \/ (finished => late[t] = 2) /\ UNCHANGED late
-----------------------------------------------------------------------------
(* What the operations decide and store.  Some are preceded by a slip one  *)
(* could make in the code; a property below catches each.                  *)

(* The loops ask has_finished().                                           *)
NeverFinished == FALSE
HasFinished   == finished

(* register_func: is the domain linked already?                            *)
NeverRefused(d) == FALSE
Refused(d)      == d2t[d] # NULL

(* process_client_connection: the connection is shut down on return.       *)
StillOpen == conn
ShutDown  == NULL

(* get_ip: has the token an address?                                       *)
AnyToken(t) == t # NULL
HasIp(t)    == t \in bound

(* dns_map_has_token: what a look-up may find and may miss while the       *)
(* console puts a token, and after two unlocked puts (see TokensMap).      *)
MayFind(t) == t \in tokens \/ (pc["console"] = "add_token" /\ t = reg[2])
MayMiss(t) == t \notin tokens \/ raced \/ pc["console"] = "add_token"

(* main creates its threads in this order,                                 *)
Creating == [dns |-> "create_dns", binding |-> "create_binding", console |-> "create_console"]
Created  == [dns |-> "create_binding", binding |-> "create_console", console |-> "join_dns"]
FirstPc  == [dns |-> "start", binding |-> "start", console |-> "check"]

(* joins them in that order too, and tears down.                           *)
JoinsTwo == [dns |-> "join_console", binding |-> "join_console", console |-> "destroy"]
Joined   == [dns |-> "join_binding", binding |-> "join_console", console |-> "destroy"]

Joining  == [dns |-> "join_dns", binding |-> "join_binding", console |-> "join_console"]

(* exit and return from main close the streams: the file gets the buffer.  *)
Dropped == disk
Closed  == disk \o buf

(* A string is written in two calls, its length and its bytes: a process   *)
(* that ends between them leaves f with half a string behind.              *)
WithHalf(f) ==
  {f} \cup (IF pc["console"] \in {"write_domain", "write_token"} THEN {Append(f, Torn)} ELSE {})

(* Two strings in a row are a record.  read_files stops at a string that   *)
(* is not all there, and a domain read twice has the later token.          *)
ReadableTorn(f) == 1..Len(f)
Readable(f)     == {n \in 1..Len(f) : \A m \in 1..n : f[m] # Torn}
Pairs(f) == [n \in 1..(Cardinality(Readable(f)) \div 2) |-> <<f[2*n - 1], f[2*n]>>]
LastOf(r, d) == CHOOSE n \in DOMAIN r :
                  r[n][1] = d /\ \A m \in DOMAIN r : r[m][1] = d => m <= n
Linked(r) == [d \in Domain |->
                IF \E n \in DOMAIN r : r[n][1] = d THEN r[LastOf(r, d)][2] ELSE NULL]

Whole(f) == Len(f) = 2 * Len(Pairs(f))

(* The locals and history of a process that has just read its file.        *)
FreshPc    == [t \in Threads |-> IF t = "main" THEN "create_dns" ELSE "none"]
FreshOwner == [t \in Token |-> NULL]
FreshLate  == [t \in {"dns", "binding"} |-> 0]

Init ==
  /\ status = "up" /\ restarts = 0 /\ finished = FALSE /\ pc = FreshPc
  /\ disk = << >> /\ buf = << >>
  /\ d2t = Linked(<< >>) /\ tokens = {} /\ raced = FALSE /\ bound = {} /\ cell = Junk
  /\ reg = NULL /\ conn = NULL /\ query = NULL /\ ptr = NULL
  /\ log = << >> /\ acked = {} /\ owner = FreshOwner /\ answer = NULL
  /\ late = FreshLate /\ whole = TRUE
-----------------------------------------------------------------------------
(* console_run and the commands "register" and "stop".                     *)

ConsoleCheck ==
  /\ Up("console", "check")
  /\ Goto("console", IF HasFinished THEN "done" ELSE "read")
  /\ UNCHANGED <<status, restarts, finished, dvars, fvars, lvars, hvars>>

(* A line that is no command, or end of input: back to the check.          *)
ConsoleOther ==
  /\ Up("console", "read")
  /\ Goto("console", "check")
  /\ UNCHANGED <<status, restarts, finished, dvars, fvars, lvars, hvars>>

Stop ==
  /\ Up("console", "read")
  /\ finished' = TRUE
  /\ Goto("console", "check")
  /\ UNCHANGED <<status, restarts, dvars, fvars, lvars, hvars>>

(* register_func looks the domain up: a linked one is refused.             *)
RegisterCheck(d, t) ==
  /\ Up("console", "read")
  /\ IF Refused(d) THEN Goto("console", "check") /\ UNCHANGED reg
                   ELSE Goto("console", "put") /\ reg' = <<d, t>>
  /\ UNCHANGED <<status, restarts, finished, dvars, fvars, conn, query, ptr, hvars>>

(* dns_map_put_token: the map, then the two strings, then map->tokens.     *)
RegisterPut ==
  /\ Up("console", "put")
  /\ d2t' = [d2t EXCEPT ![reg[1]] = reg[2]]
  /\ log' = Append(log, reg)
  /\ Goto("console", "write_domain")
  /\ UNCHANGED <<status, restarts, finished, tokens, raced, bound, cell, fvars, lvars,
                 acked, owner, answer, late, whole>>

WriteDomain ==
  /\ Up("console", "write_domain")
  /\ buf' = Append(buf, reg[1])
  /\ Goto("console", "write_token")
  /\ UNCHANGED <<status, restarts, finished, dvars, disk, lvars, hvars>>

WriteToken ==
  /\ Up("console", "write_token")
  /\ buf' = Append(buf, reg[2])
  /\ Goto("console", "add_token")
  /\ UNCHANGED <<status, restarts, finished, dvars, disk, lvars, hvars>>

(* ... and the report to the operator.                                     *)
AddToken ==
  /\ Up("console", "add_token")
  /\ tokens' = tokens \cup {reg[2]}
  /\ raced' = (raced \/ pc["binding"] = "renew")
  /\ acked' = acked \cup {reg}
  /\ reg' = NULL
  /\ Goto("console", "check")
  /\ UNCHANGED <<status, restarts, finished, d2t, bound, cell, fvars, conn, query, ptr,
                 log, owner, answer, late, whole>>
-----------------------------------------------------------------------------
(* binding_thread_main and process_client_connection.                      *)

(* The listening socket; without one the server goes on, but not this      *)
(* thread.                                                                 *)
BindingStart ==
  /\ Up("binding", "start")
  /\ Goto("binding", "check") \/ Goto("binding", "done")
  /\ UNCHANGED <<status, restarts, finished, dvars, fvars, lvars, hvars>>

BindingCheck ==
  /\ Up("binding", "check")
  /\ Goto("binding", IF HasFinished THEN "done" ELSE "accept")
  /\ UNCHANGED <<status, restarts, finished, dvars, fvars, lvars, hvars>>

(* accept stores the peer's address in client_addr, as far as alen lets it. *)
Accept(c) ==
  /\ Up("binding", "accept")
  /\ cell' \in {c} \cup (IF AlenMayBeSmall THEN {cell} ELSE {})
  /\ Goto("binding", "receive")
  /\ Late("binding")
  /\ conn' = c
  /\ UNCHANGED <<status, restarts, finished, d2t, tokens, raced, bound, fvars, reg, query, ptr,
                 log, acked, owner, answer, whole>>

(* accept fails (no descriptor left, say): the thread ends, the server     *)
(* goes on without it.                                                     *)
AcceptFails ==
  /\ Up("binding", "accept")
  /\ Goto("binding", "done")
  /\ UNCHANGED <<status, restarts, finished, dvars, fvars, lvars, hvars>>

(* recv returns: a token that is looked up, or too few bytes.              *)
ReceiveToken(t) ==
  /\ Up("binding", "receive")
  /\ \/ MayFind(t) /\ Goto("binding", "update") /\ conn' = <<conn, t>>
     \/ MayMiss(t) /\ Goto("binding", "check")  /\ conn' = ShutDown
  /\ UNCHANGED <<status, restarts, finished, dvars, fvars, reg, query, ptr, hvars>>

ReceiveShort ==
  /\ Up("binding", "receive")
  /\ Goto("binding", "check")
  /\ conn' = ShutDown
  /\ UNCHANGED <<status, restarts, finished, dvars, fvars, reg, query, ptr, hvars>>

(* dns_map_put_ipv4 with flag_update 0: the file of addresses is not       *)
(* written.                                                                *)
Update ==
  /\ Up("binding", "update")
  /\ bound' = bound \cup {conn[2]}
  /\ owner' = [owner EXCEPT ![conn[2]] = conn[1]]
  /\ Goto("binding", "renew")
  /\ UNCHANGED <<status, restarts, finished, d2t, tokens, raced, cell, fvars, lvars,
                 log, acked, answer, late, whole>>

(* Its second put, of the token in map->tokens, and RESP_OK, sent or not.  *)
Renew ==
  /\ Up("binding", "renew")
  /\ tokens' = tokens \cup {conn[2]}
  /\ raced' = (raced \/ pc["console"] = "add_token")
  /\ conn' = ShutDown
  /\ Goto("binding", "check")
  /\ UNCHANGED <<status, restarts, finished, d2t, bound, cell, fvars, reg, query, ptr, hvars>>
-----------------------------------------------------------------------------
(* start_listener and, for one question, handle_datagram.                  *)

DnsStart ==
  /\ Up("dns", "start")
  /\ Goto("dns", "check")
  /\ UNCHANGED <<status, restarts, finished, dvars, fvars, lvars, hvars>>

DnsCheck ==
  /\ Up("dns", "check")
  /\ Goto("dns", IF HasFinished THEN "done" ELSE "receive")
  /\ UNCHANGED <<status, restarts, finished, dvars, fvars, lvars, hvars>>

(* recvfrom; get_ip looks up the token, then the pointer to the address.   *)
Receive(d) ==
  /\ Up("dns", "receive")
  /\ query' = d
  /\ Late("dns")
  /\ answer' = NULL
  /\ Goto("dns", "token")
  /\ UNCHANGED <<status, restarts, finished, dvars, fvars, reg, conn, ptr,
                 log, acked, owner, whole>>

(* A datagram too short for what its header promises gets no reply.        *)
Ignore ==
  /\ Up("dns", "receive")
  /\ Late("dns")
  /\ Goto("dns", "check")
  /\ UNCHANGED <<status, restarts, finished, dvars, fvars, lvars,
                 log, acked, owner, answer, whole>>

(* A look-up during a put of its table may miss what is there.             *)
LookupToken ==
  /\ Up("dns", "token")
  /\ ptr' \in {d2t[query]} \cup (IF pc["console"] = "put" THEN {NULL} ELSE {})
  /\ Goto("dns", "ip")
  /\ UNCHANGED <<status, restarts, finished, dvars, fvars, reg, conn, query, hvars>>

(* (A lookup that waited for the address would hold up every resolver.)    *)
LookupIpWaits ==
  /\ Up("dns", "ip") /\ HasIp(ptr)
  /\ ptr' = "cell"
  /\ Goto("dns", "reply")
  /\ UNCHANGED <<status, restarts, finished, dvars, fvars, reg, conn, query, hvars>>

LookupIp ==
  /\ Up("dns", "ip")
  /\ \/ HasIp(ptr) /\ ptr' = "cell"
     \/ (~HasIp(ptr) \/ pc["binding"] = "update") /\ ptr' = NULL
  /\ Goto("dns", "reply")
  /\ UNCHANGED <<status, restarts, finished, dvars, fvars, reg, conn, query, hvars>>

(* serialize_message reads the address through the pointer, which outlives  *)
(* the stack it points into once the binding thread has ended; sendto.     *)
Reply ==
  /\ Up("dns", "reply")
  /\ \E a \in {cell} \cup (IF pc["binding"] = "done" THEN {Junk} ELSE {}) :
       answer' = <<query, IF ptr = "cell" THEN a ELSE NULL>>
  /\ query' = NULL /\ ptr' = NULL
  /\ Goto("dns", "check")
  /\ UNCHANGED <<status, restarts, finished, dvars, fvars, reg, conn,
                 log, acked, owner, late, whole>>

(* exit closes the streams: what is in the buffer reaches the file.        *)
Exit(s) ==
  /\ status' = s
  /\ disk' \in WithHalf(Closed) /\ buf' = << >>
  /\ UNCHANGED <<restarts, finished, dvars, lvars, hvars>>

(* A process that does not get to exit loses its buffer; the last write    *)
(* may have ended inside a string.                                         *)
Lose(s) ==
  /\ status' = s
  /\ disk' \in WithHalf(disk) \cup (IF buf # << >> THEN {Append(disk, Torn)} ELSE {})
  /\ buf' = << >>
  /\ UNCHANGED <<restarts, finished, dvars, lvars, hvars>>

(* The socket cannot be bound, or recvfrom or sendto fails: the thread     *)
(* exits the whole process, whatever the other threads are doing.          *)
DnsFails ==
  /\ Up("dns", "start") \/ Up("dns", "receive") \/ Up("dns", "reply")
  /\ Exit("failed")
  /\ UNCHANGED pc
-----------------------------------------------------------------------------
(* main: it creates the threads, joins them and tears down.                *)

Create(t) ==
  /\ Up("main", Creating[t])
  /\ pc' = [pc EXCEPT !["main"] = Created[t], ![t] = FirstPc[t]]
  /\ UNCHANGED <<status, restarts, finished, dvars, fvars, lvars, hvars>>

(* pthread_create fails: main returns 3 or 4, whoever is running already.  *)
CreateFails ==
  /\ \E t \in DOMAIN Creating : Up("main", Creating[t])
  /\ Exit("failed")
  /\ UNCHANGED pc

Join(t) ==
  /\ Up("main", Joining[t]) /\ pc[t] = "done"
  /\ Goto("main", Joined[t])
  /\ UNCHANGED <<status, restarts, finished, dvars, fvars, lvars, hvars>>

(* destroy_dns_map(map, 1, 1, 1) frees the domains, the tokens and the     *)
(* values of token_to_ip.  Those point into the binding thread's stack:    *)
(* free may notice and abort, or corrupt the heap and go on.               *)
Destroy ==
  /\ Up("main", "destroy")
  /\ Goto("main", "close")
  /\ UNCHANGED <<status, restarts, finished, dvars, fvars, lvars, hvars>>

FreeAborts ==
  /\ Up("main", "destroy") /\ bound # {}
  /\ Lose("crashed")
  /\ UNCHANGED pc

(* fclose of both files and return from main.                              *)
Close ==
  /\ Up("main", "close")
  /\ Exit("exited")
  /\ Goto("main", "done")
-----------------------------------------------------------------------------
(* The C library and the operating system.                                 *)

(* A full stdio buffer is written out; what does not fit stays.            *)
Flush ==
  /\ status = "up"
  /\ \E n \in 1..Len(buf) :
       /\ disk' = disk \o SubSeq(buf, 1, n)
       /\ buf' = SubSeq(buf, n + 1, Len(buf))
  /\ UNCHANGED <<status, restarts, tvars, dvars, lvars, hvars>>

(* Somebody kills the process; or a thread that looks into a table while   *)
(* another one puts follows a pointer that is not there yet.               *)
Kill ==
  /\ status = "up"
  /\ Lose("killed")
  /\ UNCHANGED pc

(* A new process: create_dns_map fills the maps from the file.             *)
Restart ==
  /\ status # "up" /\ restarts < MaxRestarts
  /\ status' = "up" /\ restarts' = restarts + 1 /\ finished' = FALSE /\ pc' = FreshPc
  /\ d2t' = Linked(Pairs(disk))
  /\ tokens' = {Pairs(disk)[n][2] : n \in DOMAIN Pairs(disk)}
  /\ raced' = FALSE /\ bound' = {} /\ cell' = Junk /\ buf' = << >>
  /\ reg' = NULL /\ conn' = NULL /\ query' = NULL /\ ptr' = NULL
  /\ log' = Pairs(disk) /\ acked' = {} /\ owner' = FreshOwner /\ answer' = NULL
  /\ late' = FreshLate /\ whole' = (whole /\ Whole(disk))
  /\ UNCHANGED disk

Console == \/ ConsoleCheck \/ ConsoleOther \/ Stop
           \/ \E d \in Domain, t \in Token : RegisterCheck(d, t)
           \/ RegisterPut \/ WriteDomain \/ WriteToken \/ AddToken
Binding == \/ BindingStart \/ BindingCheck \/ AcceptFails
           \/ \E c \in Client : Accept(c)
           \/ \E t \in Token : ReceiveToken(t)
           \/ ReceiveShort \/ Update \/ Renew
Dns     == \/ DnsStart \/ DnsCheck \/ (\E d \in Domain : Receive(d)) \/ Ignore
           \/ LookupToken \/ LookupIp \/ Reply \/ DnsFails
Main    == \/ \E t \in {"dns", "binding", "console"} : Create(t) \/ Join(t)
           \/ CreateFails \/ Destroy \/ FreeAborts \/ Close

Next == Console \/ Binding \/ Dns \/ Main \/ Flush \/ Kill \/ Restart

Spec == Init /\ [][Next]_vars

(* Threads that can go on without input do; nobody has to send anything.   *)
FairSpec ==
  /\ Spec
  /\ WF_vars(ConsoleCheck \/ RegisterPut \/ WriteDomain \/ WriteToken \/ AddToken)
  /\ WF_vars(BindingStart \/ BindingCheck \/ Update \/ Renew)
  /\ WF_vars(DnsStart \/ DnsCheck \/ LookupToken \/ LookupIp \/ Reply)
  /\ WF_vars(Main)
-----------------------------------------------------------------------------
(* Properties.                                                             *)

String == Domain \cup Token

(* The variables have their types, and a thread's locals are set exactly   *)
(* while it is in the middle of a request.                                 *)
TypeOK ==
  /\ status \in {"up", "exited", "failed", "crashed", "killed"}
  /\ restarts \in 0..MaxRestarts /\ finished \in BOOLEAN /\ whole \in BOOLEAN
  /\ DOMAIN pc = Threads
  /\ d2t \in [Domain -> String \cup {NULL}] /\ tokens \subseteq String /\ raced \in BOOLEAN
  /\ bound \subseteq Token /\ cell \in Client \cup {Junk}
  /\ buf \in Seq(String) /\ disk \in Seq(String \cup {Torn})
  /\ (reg # NULL) <=> pc["console"] \in {"put", "write_domain", "write_token", "add_token"}
  /\ (conn # NULL) <=> pc["binding"] \in {"receive", "update", "renew"}
  /\ (query # NULL) <=> pc["dns"] \in {"token", "ip", "reply"}
  /\ owner \in [Token -> Client \cup {NULL}]

Loaded == Linked(Pairs(disk))

(* A registration the operator was told about answers to its token: the    *)
(* domain is linked to it, and a client that sends it is turned away as    *)
(* RESP_INVALID_TOKEN only while another registration is being put, or     *)
(* once such a put has overlapped one of the binding thread.               *)
AckedIsUsable ==
  status = "up" =>
    \A r \in acked : /\ d2t[r[1]] = r[2]
                     /\ MayMiss(r[2]) => raced \/ pc["console"] = "add_token"

(* However the process ends, a new one finds the registrations up to some  *)
(* point in time and none made after it.                                   *)
RestartFindsPrefix ==
  [][(status # "up" /\ status' = "up" /\ whole) =>
       \E n \in 0..Len(log) : d2t' = Linked(SubSeq(log, 1, n))]_vars

(* A process that ends by main returning or by exit(1) leaves every        *)
(* registration it reported in the file, in a form a new process reads --  *)
(* provided it did not inherit half a record.                              *)
OrderlyEndKeepsLinks ==
  status \in {"exited", "failed"} /\ whole => \A r \in acked : Loaded[r[1]] = r[2]

(* The maps are destroyed and the files closed only when no thread is left *)
(* that could use them.                                                    *)
TeardownAlone ==
  pc["main"] \in {"destroy", "close", "done"} =>
    \A t \in {"dns", "binding", "console"} : pc[t] = "done"

(* After "stop" the DNS thread answers at most one more question and the   *)
(* binding thread serves at most one more client.                          *)
OneMoreAtMost == \A t \in DOMAIN late : late[t] <= 1

(* No question is answered with an address before some client has bound    *)
(* the token of its domain in the life of this process.                    *)
NoAddressUnbound ==
  answer # NULL /\ answer[2] # NULL =>
    /\ d2t[answer[1]] # NULL /\ owner[d2t[answer[1]]] # NULL

(* A question taken from the socket is answered, unless the process ends:  *)
(* the DNS thread waits for nobody in between.                             *)
QuestionAnswered == (pc["dns"] = "token") ~> (pc["dns"] = "check" \/ status # "up")

(* What a "stop" needs to end the process: that one more datagram comes,   *)
(* and one more connection whose client sends something or hangs up.       *)
TrafficComes ==
  /\ WF_vars(Ignore \/ \E d \in Domain : Receive(d))
  /\ WF_vars(\E c \in Client : Accept(c))
  /\ WF_vars(ReceiveShort \/ \E t \in Token : ReceiveToken(t))
StopEnds == TrafficComes => (finished ~> status # "up")

(* common.h: a binding request is "an updat of its dynamic dns"; the       *)
(* binding thread: "Valid token, do update of IP here".  While that thread *)
(* runs, the address answered for a domain is the one the client that last *)
(* bound its token connected from.                                         *)
AnswerIsOwners ==
  [][(/\ answer' \notin {answer, NULL} /\ answer'[2] # NULL
      /\ pc["binding"] # "done") =>
       answer'[2] = owner[d2t[answer'[1]]]]_vars

(* "Succesfully linked domain '%s' to token '%s'": a link reported to the  *)
(* operator is still there after "stop" has ended the process.             *)
StopKeepsLinks ==
  status \in {"exited", "crashed"} => \A r \in acked : Loaded[r[1]] = r[2]
==============================================================================
