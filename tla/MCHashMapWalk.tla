---------------------------- MODULE MCHashMapWalk ----------------------------
(* Instances of HashMapWalk for TLC: keys that all share a bucket while    *)
(* the table has two buckets, and part as it doubles to four and to eight. *)
EXTENDS HashMapWalk, TLC

CONSTANTS e1, e2, e3, e4, a1, a2, a3, v1

MCKey3   == {1, 2, 3}
MCHash   == [k \in Key |-> <<0, 4, 2, 6>>[k]]
MCEntry4 == {e1, e2, e3, e4}
MCArray3 == {a1, a2, a3}
MCValue1 == {v1}
==============================================================================
