------------------------------ MODULE TokensMap ------------------------------
(***************************************************************************)
(* The map "tokens" of dns_map.c as its two threads use it.  The console   *)
(* puts the token of every registration (dns_map_put_token); the binding   *)
(* thread looks up the token a client sent (dns_map_has_token) and, when   *)
(* it is there, puts it again (dns_map_put_ipv4).                          *)
(***************************************************************************)
EXTENDS HashMap

CONSTANTS Console, Binding   \* the two threads, both in Writer

VARIABLE valid   \* the token the binding thread has found, or NULL

tvars == <<vars, valid>>

TInit == Init /\ valid = NULL

Register(k, v) == Put(Console, k, v) /\ UNCHANGED valid

HasToken(k) == valid = NULL /\ Get(Binding, k) /\ UNCHANGED valid

Bind(v) ==
  /\ valid # NULL
  /\ Put(Binding, valid, v)
  /\ valid' = NULL

Proceed(t) ==
  /\ Step(t)
  /\ valid' = IF t = Binding /\ res'[t] # NULL /\ want'[t] = NULL /\ want[t] # NULL
              THEN want[t] ELSE valid

TNext ==
  /\ ~crashed
  /\ \/ \E k \in Key, v \in Value : Register(k, v)
     \/ \E k \in Key : HasToken(k)
     \/ \E v \in Value : Bind(v)
     \/ \E t \in Thread : Proceed(t)

TSpec == TInit /\ [][TNext]_tvars

(* hash_map.h: "Insert a new entry into the hashmap."  Once no put is in   *)
(* progress, every key that was inserted is found in its bucket.           *)
NoInsertLost ==
  (Quiescent /\ ~crashed) =>
    \A e \in InUse :
      LET i == Hash[key[e]] % size IN
      i \in DOMAIN arr[entries] /\ \E d \in Chain(arr[entries][i]) : key[d] = key[e]
==============================================================================
