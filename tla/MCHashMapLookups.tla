-------------------------- MODULE MCHashMapLookups ---------------------------
(* Instances of HashMapLookups for TLC: keys that all share a bucket while *)
(* the table has two buckets, and part as it doubles to four and to eight. *)
EXTENDS HashMapLookups, TLC

CONSTANTS e1, e2, e3, a1, a2, a3, v1, v2

MCKey3   == {1, 2, 3}
MCHash   == [k \in Key |-> <<0, 4, 2, 6>>[k]]
MCEntry3 == {e1, e2, e3}
MCArray3 == {a1, a2, a3}
MCValue2 == {v1, v2}
==============================================================================
