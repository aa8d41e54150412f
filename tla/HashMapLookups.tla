--------------------------- MODULE HashMapLookups ----------------------------
(***************************************************************************)
(* HashMap with what each lookup has lived through, and the dictionary it  *)
(* stands for: with one writer the table implements RegularMap.            *)
(***************************************************************************)
EXTENDS HashMap

VARIABLES
  seen,   \* the values the key of a get in progress had since its call
  torn    \* a put was in progress since then

hvars == <<vars, seen, torn>>

dict == [k \in Key |->
           IF \E e \in Stored : key[e] = k
           THEN value[CHOOSE e \in Stored : key[e] = k] ELSE NULL]

put == [w \in Writer |->
          IF ~Putting(w) THEN << >>
          ELSE IF Pending(w) THEN <<key[Outer(w)], value[Outer(w)]>>
          ELSE <<key[Outer(w)]>>]

HInit == Init /\ seen = [t \in Thread |-> {}] /\ torn = [t \in Thread |-> FALSE]

(* A step of the table, and what it means to the lookups in progress.      *)
HNext ==
  /\ Next
  /\ seen' = [t \in Thread |->
       IF want'[t] = NULL THEN {}
       ELSE {dict'[want'[t]]} \cup (IF want[t] = NULL THEN {} ELSE seen[t])]
  /\ torn' = [t \in Thread |-> want'[t] # NULL /\ (torn[t] \/ ~Quiescent')]

HSpec == HInit /\ [][HNext]_hvars

Regular == INSTANCE RegularMap WITH asked <- want, answer <- res

(* With one writer, a get answers a value its key had while the get ran;   *)
(* it misses a stored key, or brings the process down, only if a put was   *)
(* in progress meanwhile; a put takes effect at one moment and no rehash   *)
(* changes what the table stores.                                          *)
ImplementsRegularMap == Regular!Spec
==============================================================================
