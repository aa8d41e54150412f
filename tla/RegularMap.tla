----------------------------- MODULE RegularMap ------------------------------
(***************************************************************************)
(* What the threads of the server can rely on when they share a hash map   *)
(* of map/hash_map.c that one of them writes: a dictionary whose puts take *)
(* effect at one moment between call and return, and whose lookups answer  *)
(* a value the key had while they ran.  A lookup that met a put may also   *)
(* answer NULL for a key that is stored, or bring the process down: the    *)
(* promise is only as strong as that.                                      *)
(***************************************************************************)
EXTENDS Naturals, Sequences

CONSTANTS Key, Value, Thread, Writer, NULL

VARIABLES
  dict,      \* the value stored for each key, or NULL
  put,       \* the put each writer is in: <<key, value>>; once it has taken
             \* effect <<key>>; << >> between puts
  asked,     \* the key each thread looks up, or NULL
  seen,      \* the values asked[t] had since the lookup started
  torn,      \* the lookup of t met a put
  answer,    \* what the last lookup of t returned
  crashed

rvars == <<dict, put, asked, seen, torn, answer, crashed>>

Init ==
  /\ dict = [k \in Key |-> NULL]
  /\ put = [w \in Writer |-> << >>]
  /\ asked = [t \in Thread |-> NULL] /\ seen = [t \in Thread |-> {}]
  /\ torn = [t \in Thread |-> FALSE] /\ answer = [t \in Thread |-> NULL]
  /\ crashed = FALSE

Begin(w, k, v) ==
  /\ put[w] = << >> /\ asked[w] = NULL
  /\ put' = [put EXCEPT ![w] = <<k, v>>]
  /\ torn' = [t \in Thread |-> torn[t] \/ asked[t] # NULL]
  /\ UNCHANGED <<dict, asked, seen, answer, crashed>>

(* The put takes effect; a put that only replaces a value returns at once. *)
Commit(w) ==
  /\ Len(put[w]) = 2
  /\ dict' = [dict EXCEPT ![put[w][1]] = put[w][2]]
  /\ \E p \in {<< >>, <<put[w][1]>>} : put' = [put EXCEPT ![w] = p]
  /\ seen' = [t \in Thread |-> IF asked[t] = put[w][1] THEN seen[t] \cup {put[w][2]}
                                                       ELSE seen[t]]
  /\ UNCHANGED <<asked, torn, answer, crashed>>

End(w) ==
  /\ Len(put[w]) = 1
  /\ put' = [put EXCEPT ![w] = << >>]
  /\ UNCHANGED <<dict, asked, seen, torn, answer, crashed>>

Ask(t, k) ==
  /\ asked[t] = NULL /\ (t \in Writer => put[t] = << >>)
  /\ asked' = [asked EXCEPT ![t] = k]
  /\ seen' = [seen EXCEPT ![t] = {dict[k]}]
  /\ torn' = [torn EXCEPT ![t] = \E w \in Writer : put[w] # << >>]
  /\ answer' = [answer EXCEPT ![t] = NULL]
  /\ UNCHANGED <<dict, put, crashed>>

Reply(t) ==
  /\ asked[t] # NULL
  /\ \E v \in seen[t] \cup (IF torn[t] THEN {NULL} ELSE {}) :
       answer' = [answer EXCEPT ![t] = v]
  /\ asked' = [asked EXCEPT ![t] = NULL]
  /\ seen' = [seen EXCEPT ![t] = {}]
  /\ torn' = [torn EXCEPT ![t] = FALSE]
  /\ UNCHANGED <<dict, put, crashed>>

Crash(t) ==
  /\ torn[t]
  /\ crashed' = TRUE
  /\ UNCHANGED <<dict, put, asked, seen, torn, answer>>

Next ==
  /\ ~crashed
  /\ \/ \E w \in Writer, k \in Key, v \in Value : Begin(w, k, v)
     \/ \E w \in Writer : Commit(w) \/ End(w)
     \/ \E t \in Thread, k \in Key : Ask(t, k)
     \/ \E t \in Thread : Reply(t) \/ Crash(t)

Spec == Init /\ [][Next]_rvars
==============================================================================
