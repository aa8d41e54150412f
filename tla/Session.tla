------------------------------- MODULE Session -------------------------------
(***************************************************************************)
(* The binding client and the binding thread, across the connections       *)
(* between them: what a client may conclude from its response, and whether *)
(* it gets one, when clients die, the operator stops the server, the       *)
(* process is killed and another one started, and descriptors run out.     *)
(*                                                                         *)
(* A member of Client is one run of the client program.  Its connection is *)
(* one value each way, since each side sends once: the token, the response *)
(* code, or the end of the stream.                                         *)
(***************************************************************************)
EXTENDS Naturals, Sequences

CONSTANTS
  Client, Token,
  MaxFds,       \* descriptors the server has for client sockets
  Backlog,      \* the second argument of listen
  MaxRestarts,  \* restarts explored
  NULL, Eof     \* nothing yet; end of stream, or reset

ASSUME SessionAssumption ==
  /\ MaxFds \in Nat \ {0} /\ Backlog \in Nat /\ MaxRestarts \in Nat
  /\ NULL \notin Client \cup Token \cup {Eof, "ok", "invalid"}
  /\ Eof \notin Token \cup {"ok", "invalid"}

VARIABLES
  (* the server *)
  up, finished, restarts,
  bpc,       \* where the binding thread is; "done" if it has no listening
             \* socket, "deaf" if it has left an open one, "off" if not up
  queue,     \* clients connected but not accepted
  serving, got,  \* the client accepted, the token received from it
  fds,       \* client sockets the process has accepted
  known,     \* keys put into map->tokens
  tokens,    \* that table: "quiet"; "put", while the console puts one; or
             \* "torn", once two puts have overlapped in this process
  (* the clients *)
  cpc,       \* where each is; "ok" or "invalid" once told so, "failed"
             \* if it gave up with another exit code or was killed
  word,      \* the bytes of its token
  toServer, toClient,
  (* history *)
  served,    \* <<client, token>> of each dns_map_put_ipv4
  knew       \* was a client's token there when it connected, and nothing
             \* put by the console until it had its answer?

pvars == <<up, finished, restarts>>
bvars == <<bpc, queue, serving, got, fds>>
mvars == <<known, tokens>>
cvars == <<cpc, word, toServer, toClient>>
vars  == <<pvars, bvars, mvars, cvars, served, knew>>

Init ==
  /\ up = TRUE /\ finished = FALSE /\ restarts = 0
  /\ bpc = "start" /\ queue = << >> /\ serving = NULL /\ got = NULL /\ fds = 0
  /\ known \in SUBSET Token /\ tokens = "quiet"
  /\ cpc = [c \in Client |-> "idle"] /\ word = [c \in Client |-> NULL]
  /\ toServer = [c \in Client |-> NULL] /\ toClient = [c \in Client |-> NULL]
  /\ served = {} /\ knew = [c \in Client |-> FALSE]

ClientAt(c, l) == cpc[c] = l
ClientTo(c, l) == cpc' = [cpc EXCEPT ![c] = l]
-----------------------------------------------------------------------------
(* client/c/main.c.                                                        *)

(* main: the token is that of the arguments or, with fewer of them, what   *)
(* happens to be in the array.                                             *)
Start(c, t) ==
  /\ ClientAt(c, "idle") /\ ClientTo(c, "connect")
  /\ word' = [word EXCEPT ![c] = t]
  /\ UNCHANGED <<pvars, bvars, mvars, toServer, toClient, served, knew>>

(* Exit codes 1 to 4: no socket, no such host, connection refused.         *)
GiveUp(c) ==
  /\ ClientAt(c, "connect") /\ ClientTo(c, "failed")
  /\ UNCHANGED <<pvars, bvars, mvars, word, toServer, toClient, served, knew>>

(* connect succeeds before anybody has accepted.                           *)
Listening == up /\ bpc \notin {"start", "done"}
Connect(c) ==
  /\ ClientAt(c, "connect") /\ ClientTo(c, "send")
  /\ Listening /\ Len(queue) <= Backlog
  /\ queue' = Append(queue, c)
  /\ knew' = [knew EXCEPT ![c] = word[c] \in known /\ tokens = "quiet"]
  /\ UNCHANGED <<pvars, bpc, serving, got, fds, mvars, word, toServer, toClient, served>>

(* send_token_to_server: a send may succeed although nobody will read it.  *)
Send(c) ==
  /\ ClientAt(c, "send") /\ ClientTo(c, "recv")
  /\ toServer' = [toServer EXCEPT ![c] = word[c]]
  /\ UNCHANGED <<pvars, bvars, mvars, word, toClient, served, knew>>

SendFails(c) ==
  /\ ClientAt(c, "send") /\ ClientTo(c, "failed")
  /\ toClient[c] = Eof
  /\ UNCHANGED <<pvars, bvars, mvars, word, toServer, toClient, served, knew>>

(* recv, and process_response_code; exit code 5 if nothing came.           *)
ReceiveResponse(c) ==
  /\ ClientAt(c, "recv") /\ toClient[c] # NULL
  /\ ClientTo(c, IF toClient[c] = Eof THEN "failed" ELSE toClient[c])
  /\ UNCHANGED <<pvars, bvars, mvars, word, toServer, toClient, served, knew>>

(* What a client that dies has sent can still be read.                     *)
Die(c) ==
  /\ cpc[c] \in {"send", "recv"} /\ ClientTo(c, "failed")
  /\ toServer' = [toServer EXCEPT ![c] = IF @ = NULL THEN Eof ELSE @]
  /\ UNCHANGED <<pvars, bvars, mvars, word, toClient, served, knew>>
-----------------------------------------------------------------------------
(* binding_thread_main.                                                    *)

At(l)   == up /\ bpc = l
Goto(l) == bpc' = l

Listen ==
  /\ At("start")
  /\ Goto("check") \/ Goto("done")
  /\ UNCHANGED <<pvars, queue, serving, got, fds, mvars, cvars, served, knew>>

Check ==
  /\ At("check")
  /\ Goto(IF finished THEN "shut" ELSE "accept")
  /\ UNCHANGED <<pvars, queue, serving, got, fds, mvars, cvars, served, knew>>

(* The end of a stream reaches the client behind what was sent before.     *)
Reset(cs) == [c \in Client |-> IF c \in cs /\ toClient[c] = NULL THEN Eof ELSE toClient[c]]
Queued    == {queue[n] : n \in DOMAIN queue}

(* shutdown of the listening socket resets the connections waiting there.  *)
Nobody  == {}
Waiting == Queued
ShutDown ==
  /\ At("shut") /\ Goto("done")
  /\ queue' = << >> /\ toClient' = Reset(Waiting)
  /\ UNCHANGED <<pvars, serving, got, fds, mvars, cpc, word, toServer, served, knew>>

(* Client sockets are shut down but never closed.                          *)
Accept ==
  /\ At("accept") /\ queue # << >> /\ fds < MaxFds
  /\ serving' = Head(queue) /\ queue' = Tail(queue) /\ fds' = fds + 1
  /\ Goto("receive")
  /\ UNCHANGED <<pvars, got, mvars, cvars, served, knew>>

(* accept may fail at any time and for any reason: "other" stands for the  *)
(* codes not named here.  A connection is then taken from the queue, as    *)
(* when it is gone or alen, uninitialised at first, is negative, or not.   *)
Errno    == {"ECHILD", "EINTR", "other"} \cup (IF fds = MaxFds THEN {"EMFILE"} ELSE {})
Fatal(e) == e \notin {"ECHILD", "EINTR"}

AcceptFails(e) ==
  /\ At("accept") /\ e \in Errno
  /\ Goto(IF Fatal(e) THEN "deaf" ELSE "accept")
  /\ \/ e = "other" /\ queue # << >>
        /\ queue' = Tail(queue) /\ toClient' = Reset({Head(queue)})
     \/ UNCHANGED <<queue, toClient>>
  /\ UNCHANGED <<pvars, serving, got, fds, mvars, cpc, word, toServer, served, knew>>
-----------------------------------------------------------------------------
(* process_client_connection.                                              *)

(* It returns, the connection shut down.                                   *)
StillThere == UNCHANGED <<serving, got>>
Gone       == serving' = NULL /\ got' = NULL

Receive ==
  /\ At("receive") /\ toServer[serving] \in Token
  /\ got' = toServer[serving]
  /\ Goto("lookup")
  /\ UNCHANGED <<pvars, queue, serving, fds, mvars, cvars, served, knew>>

(* Not all of a token, or an error.                                        *)
ReceiveShort ==
  /\ At("receive") /\ toServer[serving] # NULL
  /\ toClient' = Reset({serving}) /\ Gone
  /\ Goto("check")
  /\ UNCHANGED <<pvars, queue, fds, mvars, cpc, word, toServer, served, knew>>

(* dns_map_has_token.  A look-up during a put of the console may or may    *)
(* not find what is there or about to be; after two puts have overlapped,  *)
(* a token may be missing for good (see TokensMap).                        *)
HasAddress(t) == {\E s \in served : s[2] = t}
HasToken(t)   == {found \in BOOLEAN : IF found THEN t \in known
                                               ELSE t \notin known \/ tokens # "quiet"}
Lookup ==
  /\ At("lookup")
  /\ \E found \in HasToken(got) : Goto(IF found THEN "update" ELSE "refuse")
  /\ UNCHANGED <<pvars, queue, serving, got, fds, mvars, cvars, served, knew>>

(* dns_map_put_ipv4; its second put is one of map->tokens.                 *)
Update ==
  /\ At("update") /\ Goto("respond")
  /\ served' = served \cup {<<serving, got>>}
  /\ known' = known \cup {got}
  /\ tokens' = (IF tokens = "quiet" THEN "quiet" ELSE "torn")
  /\ UNCHANGED <<pvars, queue, serving, got, fds, cvars, knew>>

(* send, and shutdown.                                                     *)
Respond(code) ==
  /\ toClient' = [toClient EXCEPT ![serving] = code] /\ Gone
  /\ Goto("check")
  /\ UNCHANGED <<pvars, queue, fds, mvars, cpc, word, toServer, served, knew>>

OkWithToken == At("update") \/ At("respond")
OkAfterPut  == At("respond")
RespondOk      == OkAfterPut /\ Respond("ok")
RespondInvalid == At("refuse") /\ Respond("invalid")

(* A send that fails ends the connection like one that does not.           *)
RespondFails ==
  /\ At("respond") \/ At("refuse")
  /\ toClient' = Reset({serving}) /\ Gone
  /\ Goto("check")
  /\ UNCHANGED <<pvars, queue, fds, mvars, cpc, word, toServer, served, knew>>
-----------------------------------------------------------------------------
(* The operator, and the process.                                          *)

Stop ==
  /\ up /\ finished' = TRUE
  /\ UNCHANGED <<up, restarts, bvars, mvars, cvars, served, knew>>

(* dns_map_put_token: the console begins its put of map->tokens, and ends  *)
(* it.  Whoever waits for an answer meanwhile may be told anything.        *)
BeginRegister(t) ==
  /\ up /\ tokens # "put"
  /\ known' = known \cup {t} /\ tokens' = (IF tokens = "quiet" THEN "put" ELSE tokens)
  /\ knew' = [c \in Client |-> knew[c] /\ c \notin Queued \cup {serving}]
  /\ UNCHANGED <<pvars, bvars, cvars, served>>

EndRegister ==
  /\ up /\ tokens = "put"
  /\ tokens' = (IF At("update") THEN "torn" ELSE "quiet")
  /\ UNCHANGED <<pvars, bvars, known, cvars, served, knew>>

(* main returns, the DNS thread exits, or somebody kills the process: no   *)
(* connection survives, and a response under way may be lost with it.      *)
End ==
  /\ up /\ up' = FALSE /\ finished' = FALSE
  /\ Goto("off") /\ queue' = << >> /\ serving' = NULL /\ got' = NULL /\ fds' = 0
  /\ \/ toClient' = Reset({c \in Client : cpc[c] \in {"send", "recv"}})
     \/ toClient' = [c \in Client |-> IF cpc[c] \in {"send", "recv"} THEN Eof ELSE toClient[c]]
  /\ tokens' = "quiet"
  /\ UNCHANGED <<restarts, known, cpc, word, toServer, served, knew>>

(* A new process knows what of the registrations is in the file.           *)
Restart ==
  /\ ~up /\ restarts < MaxRestarts
  /\ up' = TRUE /\ restarts' = restarts + 1
  /\ Goto("start")
  /\ known' \in SUBSET known
  /\ UNCHANGED <<finished, queue, serving, got, fds, tokens, cvars, served, knew>>

ClientStep(c) == Send(c) \/ SendFails(c) \/ ReceiveResponse(c)
BindingStep   == \/ Listen \/ Check \/ ShutDown \/ Accept
                 \/ (\E e \in Errno : AcceptFails(e))
                 \/ Receive \/ ReceiveShort \/ Lookup \/ Update
                 \/ RespondOk \/ RespondInvalid \/ RespondFails

Next == \/ \E c \in Client : \/ \E t \in Token : Start(c, t)
                             \/ GiveUp(c) \/ Connect(c) \/ Die(c) \/ ClientStep(c)
        \/ BindingStep
        \/ Stop \/ (\E t \in Token : BeginRegister(t)) \/ EndRegister \/ End \/ Restart

Spec == Init /\ [][Next]_vars

(* Neither program waits for anything but the calls it makes.              *)
FairSpec == Spec /\ WF_vars(BindingStep) /\ \A c \in Client : WF_vars(ClientStep(c))
-----------------------------------------------------------------------------
(* Properties.                                                             *)

Running   == {"send", "recv"}
Responses == {"ok", "invalid"}

(* The variables have their types; a client is served or queued only once, *)
(* and only after it has connected.                                        *)
TypeOK ==
  /\ up \in BOOLEAN /\ finished \in BOOLEAN /\ restarts \in 0..MaxRestarts
  /\ bpc \in {"start", "check", "accept", "receive", "lookup", "update", "respond",
              "refuse", "shut", "done", "deaf", "off"}
  /\ queue \in Seq(Client) /\ serving \in Client \cup {NULL}
  /\ (serving # NULL) <=> bpc \in {"receive", "lookup", "update", "respond", "refuse"}
  /\ (got # NULL) <=> bpc \in {"lookup", "update", "respond", "refuse"}
  /\ got \in Token \cup {NULL} /\ fds \in 0..MaxFds /\ known \in SUBSET Token
  /\ tokens \in {"quiet", "put", "torn"}
  /\ cpc \in [Client -> {"idle", "connect", "failed"} \cup Running \cup Responses]
  /\ word \in [Client -> Token \cup {NULL}]
  /\ toServer \in [Client -> Token \cup {NULL, Eof}]
  /\ toClient \in [Client -> Responses \cup {NULL, Eof}]
  /\ \A n, m \in DOMAIN queue : queue[n] # serving /\ (queue[n] = queue[m] => n = m)
  /\ \A c \in Client : cpc[c] \in {"idle", "connect"} =>
       c \notin Queued \cup {serving} /\ toServer[c] = NULL /\ toClient[c] = NULL

(* "Succesfully updated your IP": the server had the token, and has put    *)
(* the address of this very client for it.                                 *)
ToldOkWasBound ==
  \A c \in Client : cpc[c] = "ok" => <<c, word[c]>> \in served

(* "Could not update your IP because an invalid token was supplied": when  *)
(* the client connected its token was not registered, or the console put   *)
(* one before it was answered, or a put of the console had overlapped one  *)
(* of the binding thread in whichever process the client reached.          *)
ToldInvalidWasUnknown ==
  \A c \in Client : cpc[c] = "invalid" => ~knew[c]

(* A client that got as far as connecting comes to an end, whatever        *)
(* becomes of the server and of the clients before it, unless the thread   *)
(* is deaf: then nobody shuts the connection down.                         *)
ClientReturns ==
  \A c \in Client : (cpc[c] \in Running) ~> (cpc[c] \notin Running \/ bpc = "deaf")
==============================================================================
