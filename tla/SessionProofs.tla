---------------------------- MODULE SessionProofs ----------------------------
(***************************************************************************)
(* What a client may conclude from its response, for any number of         *)
(* clients, tokens, descriptors and restarts.                              *)
(*                                                                         *)
(* The invariant comes in two parts.  The first says where everybody is: a *)
(* client that has not connected is in no queue, and one that is served    *)
(* has a token of its own.  The second, inductive given the first, carries *)
(* the promise of a response from the lookup and the put, through the      *)
(* connection, to the client that reads it; what makes the refusal of a    *)
(* token sure is that the table is quiet as long as somebody who waits has *)
(* a token that was there when it connected.                               *)
(***************************************************************************)
EXTENDS Session, TLAPS

Busy == {"lookup", "update", "respond", "refuse"}

PlaceInv ==
  /\ TypeOK
  /\ (up <=> bpc # "off") /\ (~up => queue = << >>)
  /\ \A c \in Client : cpc[c] # "idle" => word[c] \in Token

PromiseInv ==
  /\ \A c \in Client : toServer[c] \in Token => toServer[c] = word[c]
  /\ bpc \in Busy => got = word[serving]
  /\ bpc = "respond" => <<serving, got>> \in served
  /\ bpc = "refuse" => ~knew[serving]
  /\ knew = [c \in Client |-> knew[c]]
  /\ \A c \in Client : c \in Queued \cup {serving} /\ knew[c] =>
       word[c] \in known /\ tokens = "quiet"
  /\ \A c \in Client : "ok" \in {toClient[c], cpc[c]} => <<c, word[c]>> \in served
  /\ \A c \in Client : "invalid" \in {toClient[c], cpc[c]} => ~knew[c]

-----------------------------------------------------------------------------
(* Types, and where clients and connections are: one step per action.      *)
LEMMA PlaceInit == Init => PlaceInv
<1> SUFFICES ASSUME Init PROVE PlaceInv
  OBVIOUS
<1> USE SessionAssumption DEF Init
<1>1. queue = << >> /\ queue \in Seq(Client) /\ Queued = {} /\ DOMAIN queue = {}
  BY DEF Queued
<1>2. /\ cpc \in [Client -> {"idle", "connect", "killed", "failed"} \cup Running \cup Responses]
      /\ word \in [Client -> Token \cup {NULL}]
      /\ toServer \in [Client -> Token \cup {NULL, Eof}]
      /\ toClient \in [Client -> Responses \cup {NULL, Eof}]
  OBVIOUS
<1>3. \A c \in Client : cpc[c] = "idle" /\ toServer[c] = NULL /\ toClient[c] = NULL
  OBVIOUS
<1>4. /\ up = TRUE /\ finished = FALSE /\ restarts \in 0..MaxRestarts /\ bpc = "start"
      /\ serving = NULL /\ got = NULL /\ fds \in 0..MaxFds /\ known \in SUBSET Token
      /\ tokens \in {"quiet", "put", "torn"}
  OBVIOUS
<1> HIDE DEF Init
<1>5. TypeOK
  BY <1>1, <1>2, <1>3, <1>4 DEF TypeOK
<1> QED BY <1>1, <1>3, <1>4, <1>5 DEF PlaceInv

LEMMA PlaceStep == PlaceInv /\ [Next]_vars => PlaceInv'
<1> SUFFICES ASSUME PlaceInv, [Next]_vars
             PROVE  PlaceInv'
  OBVIOUS
<1> USE SessionAssumption
    DEF PlaceInv, TypeOK, Queued, Running, Responses, At, Goto, ClientAt, ClientTo,
        pvars, bvars, mvars, cvars
<1>1. ASSUME NEW c \in Client, NEW t \in Token, Start(c, t)
      PROVE  PlaceInv'
  BY <1>1 DEF Start
<1>2. ASSUME NEW c \in Client, GiveUp(c)
      PROVE  PlaceInv'
  BY <1>2 DEF GiveUp
<1>3. ASSUME NEW c \in Client, Connect(c)
      PROVE  PlaceInv'
  BY <1>3 DEF Connect, Listening
<1>4. ASSUME NEW c \in Client, Die(c)
      PROVE  PlaceInv'
  BY <1>4 DEF Die
<1>5. ASSUME NEW c \in Client, Send(c)
      PROVE  PlaceInv'
  BY <1>5 DEF Send
<1>6. ASSUME NEW c \in Client, SendFails(c)
      PROVE  PlaceInv'
  BY <1>6 DEF SendFails
<1>7. ASSUME NEW c \in Client, ReceiveResponse(c)
      PROVE  PlaceInv'
  BY <1>7 DEF ReceiveResponse
<1>8. CASE Listen
  BY <1>8 DEF Listen
<1>9. CASE Check
  BY <1>9 DEF Check
<1>10. CASE ShutDown
  BY <1>10 DEF ShutDown, Reset, Waiting
<1>11. CASE Accept
  BY <1>11 DEF Accept
<1>12. ASSUME NEW e \in Errno, AcceptFails(e)
      PROVE  PlaceInv'
  <2>1. CASE e = "other" /\ queue # << >> /\ queue' = Tail(queue) /\ toClient' = Reset({Head(queue)})
    <3>1. queue # << >>
      BY <2>1
    <3>2. toClient' = Reset({Head(queue)}) /\ queue' = Tail(queue)
      BY <2>1
    <3>3. /\ toClient' \in [Client -> Responses \cup {NULL, Eof}]
          /\ \A c \in Client : c # Head(queue) => toClient'[c] = toClient[c]
      BY <3>2 DEF Reset
    <3>4. bpc' \in {"accept", "deaf"}
      BY <1>12 DEF AcceptFails
    <3>5. queue' \in Seq(Client) /\ Head(queue) \in Queued
      BY <3>1, <3>2
    <3>6. \A n \in DOMAIN queue' : n + 1 \in DOMAIN queue /\ queue'[n] = queue[n + 1]
      BY <3>1, <3>2
    <3>7. \A n, m \in DOMAIN queue' :
             queue'[n] # serving /\ (queue'[n] = queue'[m] => n = m)
      BY <3>5, <3>6
    <3>8. \A c \in Client : cpc[c] \in {"idle", "connect"} =>
             c \notin Queued' \cup {serving} /\ toClient'[c] = NULL
      BY <3>3, <3>5, <3>6
    <3> QED BY <1>12, <3>3, <3>4, <3>5, <3>7, <3>8 DEF AcceptFails
  <2>2. CASE UNCHANGED <<queue, toClient>>
    BY <1>12, <2>2 DEF AcceptFails, Fatal
  <2> QED BY <1>12, <2>1, <2>2 DEF AcceptFails
<1>13. CASE Receive
  BY <1>13 DEF Receive
<1>14. CASE ReceiveShort
  BY <1>14 DEF ReceiveShort, Reset, Gone
<1>15. CASE Lookup
  BY <1>15 DEF Lookup, HasToken
<1>16. CASE Update
  BY <1>16 DEF Update
<1>17. CASE RespondOk
  BY <1>17 DEF RespondOk, Respond, Gone, OkAfterPut
<1>18. CASE RespondInvalid
  BY <1>18 DEF RespondInvalid, Respond, Gone
<1>19. CASE Stop
  BY <1>19 DEF Stop
<1>20. ASSUME NEW t \in Token, BeginRegister(t)
      PROVE  PlaceInv'
  BY <1>20 DEF BeginRegister
<1>21. CASE End
  <2>1. /\ toClient' \in [Client -> Responses \cup {NULL, Eof}]
        /\ \A c \in Client : cpc[c] \in {"idle", "connect"} => toClient'[c] = NULL
    BY <1>21 DEF End, Reset
  <2>2. queue' = << >> /\ queue' \in Seq(Client) /\ Queued' = {} /\ DOMAIN queue' = {}
    BY <1>21 DEF End
  <2>3. tokens' = "quiet" /\ fds' \in 0..MaxFds /\ serving' = NULL /\ got' = NULL /\ up' = FALSE /\ bpc' = "off"
    BY <1>21 DEF End
  <2>4. /\ finished' = FALSE /\ UNCHANGED <<restarts, known, cpc, word, toServer>>
    BY <1>21 DEF End
  <2>5. TypeOK'
    BY <2>1, <2>2, <2>3, <2>4
  <2> QED BY <2>2, <2>3, <2>4, <2>5
<1>22. CASE Restart
  BY <1>22 DEF Restart
<1>24. CASE EndRegister
  BY <1>24 DEF EndRegister
<1>25. CASE RespondFails
  BY <1>25 DEF RespondFails, Reset, Gone
<1>23. CASE UNCHANGED vars
  BY <1>23 DEF vars
<1> QED
  BY <1>1, <1>2, <1>3, <1>4, <1>5, <1>6, <1>7, <1>8, <1>9, <1>10, <1>11, <1>12,
       <1>13, <1>14, <1>15, <1>16, <1>17, <1>18, <1>19, <1>20, <1>21, <1>22, <1>23,
     <1>24, <1>25
       DEF Next, ClientStep, BindingStep

(* What the server's responses promise, given where everybody is.          *)
LEMMA PromiseInit == Init => PromiseInv
  BY SessionAssumption DEF Init, PromiseInv, Queued, Busy

LEMMA PromiseStep == PlaceInv /\ PromiseInv /\ [Next]_vars => PromiseInv'
<1> SUFFICES ASSUME PlaceInv, PromiseInv, [Next]_vars
             PROVE  PromiseInv'
  OBVIOUS
<1> USE SessionAssumption
    DEF PlaceInv, TypeOK, PromiseInv, Busy, Queued, Running, Responses, At, Goto,
        ClientAt, ClientTo, pvars, bvars, mvars, cvars
<1>1. ASSUME NEW c \in Client, NEW t \in Token, Start(c, t)
      PROVE  PromiseInv'
  BY <1>1 DEF Start
<1>2. ASSUME NEW c \in Client, GiveUp(c)
      PROVE  PromiseInv'
  BY <1>2 DEF GiveUp
<1>3. ASSUME NEW c \in Client, Connect(c)
      PROVE  PromiseInv'
  <2>1. \A n \in DOMAIN queue' : queue'[n] = c \/ queue'[n] \in Queued
    BY <1>3 DEF Connect
  <2>2. \A b \in Client : b \in (Queued \cup {serving})' => b \in Queued \cup {serving, c}
    BY <1>3, <2>1 DEF Connect
  <2>3. knew' = [knew EXCEPT ![c] = word[c] \in known /\ tokens = "quiet"]
    BY <1>3 DEF Connect
  <2>4. \A b \in Client : b # c => knew'[b] = knew[b] /\ cpc'[b] = cpc[b]
    BY <1>3, <2>3 DEF Connect
  <2>5. toClient[c] = NULL /\ cpc'[c] = "send" /\ serving # c /\ knew'[c] = (word[c] \in known /\ tokens = "quiet")
    BY <1>3, <2>3 DEF Connect
  <2>6. \A b \in Client : b \in (Queued \cup {serving})' /\ knew'[b] =>
         word[b] \in known /\ tokens = "quiet"
    BY <2>2, <2>4, <2>5
  <2>7. UNCHANGED <<bpc, serving, got, known, tokens, word, toServer, toClient, served>>
    BY <1>3 DEF Connect
  <2> QED BY <2>3, <2>4, <2>5, <2>6, <2>7
<1>4. ASSUME NEW c \in Client, Die(c)
      PROVE  PromiseInv'
  BY <1>4 DEF Die
<1>5. ASSUME NEW c \in Client, Send(c)
      PROVE  PromiseInv'
  BY <1>5 DEF Send
<1>6. ASSUME NEW c \in Client, SendFails(c)
      PROVE  PromiseInv'
  BY <1>6 DEF SendFails
<1>7. ASSUME NEW c \in Client, ReceiveResponse(c)
      PROVE  PromiseInv'
  BY <1>7 DEF ReceiveResponse
<1>8. CASE Listen
  BY <1>8 DEF Listen
<1>9. CASE Check
  BY <1>9 DEF Check
<1>10. CASE ShutDown
  BY <1>10 DEF ShutDown, Reset, Waiting
<1>11. CASE Accept
  BY <1>11 DEF Accept
<1>12. ASSUME NEW e \in Errno, AcceptFails(e)
      PROVE  PromiseInv'
  <2>1. CASE e = "other" /\ queue # << >> /\ queue' = Tail(queue) /\ toClient' = Reset({Head(queue)})
    <3>1. queue # << >>
      BY <2>1
    <3>2. toClient' = Reset({Head(queue)}) /\ queue' = Tail(queue)
      BY <2>1
    <3>3. \A c \in Client : toClient'[c] \in {toClient[c], Eof}
      BY <3>2 DEF Reset
    <3>4. \A c \in Client : c \in Queued' => c \in Queued
      BY <3>1, <3>2
    <3>5. bpc' \in {"accept", "deaf"}
      BY <1>12 DEF AcceptFails
    <3> QED BY <1>12, <3>3, <3>4, <3>5 DEF AcceptFails
  <2>2. CASE UNCHANGED <<queue, toClient>>
    BY <1>12, <2>2 DEF AcceptFails, Fatal
  <2> QED BY <1>12, <2>1, <2>2 DEF AcceptFails
<1>13. CASE Receive
  BY <1>13 DEF Receive
<1>14. CASE ReceiveShort
  BY <1>14 DEF ReceiveShort, Reset, Gone
<1>15. CASE Lookup
  BY <1>15 DEF Lookup, HasToken
<1>16. CASE Update
  BY <1>16 DEF Update
<1>17. CASE RespondOk
  <2>1. serving \in Client /\ <<serving, word[serving]>> \in served
    BY <1>17 DEF RespondOk, OkAfterPut
  <2>2. toClient' = [toClient EXCEPT ![serving] = "ok"]
    BY <1>17 DEF RespondOk, Respond
  <2>3. /\ bpc' = "check" /\ serving' = NULL
        /\ queue' = queue /\ known' = known /\ tokens' = tokens /\ served' = served /\ knew' = knew
        /\ cpc' = cpc /\ word' = word /\ toServer' = toServer
    BY <1>17 DEF RespondOk, Respond, Gone
  <2>4. \A c \in Client : "ok" \in {toClient'[c], cpc'[c]} => <<c, word'[c]>> \in served'
    BY <2>1, <2>2, <2>3
  <2>5. \A c \in Client : "invalid" \in {toClient'[c], cpc'[c]} => ~knew'[c]
    BY <2>1, <2>2, <2>3
  <2>6. \A c \in Client : c \in (Queued \cup {serving})' /\ knew'[c] =>
         word'[c] \in known' /\ tokens' = "quiet"
    BY <2>3
  <2> QED BY <2>3, <2>4, <2>5, <2>6
<1>18. CASE RespondInvalid
  BY <1>18 DEF RespondInvalid, Respond, Gone
<1>19. CASE Stop
  BY <1>19 DEF Stop
<1>20. ASSUME NEW t \in Token, BeginRegister(t)
      PROVE  PromiseInv'
  <2>1. /\ UNCHANGED <<pvars, bvars, cvars, served>>
        /\ known' = known \cup {t}
        /\ knew' = [c \in Client |-> knew[c] /\ c \notin Queued \cup {serving}]
    BY <1>20 DEF BeginRegister
  <2>2. \A c \in Client : knew'[c] <=> knew[c] /\ c \notin Queued \cup {serving}
    BY <2>1
  <2>3. knew' = [c \in Client |-> knew'[c]]
    BY <2>1
  <2>4. bpc \in Busy => serving \in Client
    OBVIOUS
  <2>5. UNCHANGED <<bpc, serving, got, queue, cpc, word, toServer, toClient, served>>
    BY <2>1
  <2>6. \A c \in Client : c \notin (Queued \cup {serving})' \/ ~knew'[c]
    BY <2>2, <2>5
  <2>7. \A c \in Client : "invalid" \in {toClient'[c], cpc'[c]} => ~knew'[c]
    BY <2>2, <2>5
  <2>8. bpc' = "refuse" => ~knew'[serving']
    BY <2>2, <2>4, <2>5
  <2> QED BY <2>3, <2>5, <2>6, <2>7, <2>8
<1>21. CASE End
  BY <1>21 DEF End, Reset
<1>22. CASE Restart
  BY <1>22 DEF Restart
<1>24. CASE EndRegister
  BY <1>24 DEF EndRegister
<1>25. CASE RespondFails
  BY <1>25 DEF RespondFails, Reset, Gone
<1>23. CASE UNCHANGED vars
  BY <1>23 DEF vars
<1> QED
  BY <1>1, <1>2, <1>3, <1>4, <1>5, <1>6, <1>7, <1>8, <1>9, <1>10, <1>11, <1>12,
       <1>13, <1>14, <1>15, <1>16, <1>17, <1>18, <1>19, <1>20, <1>21, <1>22, <1>23,
     <1>24, <1>25
       DEF Next, ClientStep, BindingStep

-----------------------------------------------------------------------------
LEMMA Safety == Spec => [](PlaceInv /\ PromiseInv)
<1>1. Init => PlaceInv /\ PromiseInv
  BY PlaceInit, PromiseInit
<1>2. PlaceInv /\ PromiseInv /\ [Next]_vars =>
        (PlaceInv /\ PromiseInv)'
  BY PlaceStep, PromiseStep
<1> QED BY <1>1, <1>2, PTL DEF Spec

(* The types of the variables, for any number of clients and descriptors;  *)
(* no client is in two places at once.                                     *)
THEOREM Types == Spec => []TypeOK
<1>1. PlaceInv => TypeOK
  BY DEF PlaceInv
<1> QED BY <1>1, Safety, PTL

(* A client that reads RESP_OK had a registered token, and its address was *)
(* put for it.                                                             *)
THEOREM ToldOk == Spec => []ToldOkWasBound
<1>1. PromiseInv => ToldOkWasBound
  BY DEF PromiseInv, ToldOkWasBound
<1> QED BY <1>1, Safety, PTL

(* A client that reads RESP_INVALID_TOKEN connected before the operator    *)
(* had registered its token, or while registrations disturbed the table.   *)
THEOREM ToldInvalid == Spec => []ToldInvalidWasUnknown
<1>1. PromiseInv => ToldInvalidWasUnknown
  BY DEF PromiseInv, ToldInvalidWasUnknown
<1> QED BY <1>1, Safety, PTL
==============================================================================
