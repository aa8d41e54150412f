------------------------------ MODULE MCHashMap ------------------------------
(* Instances of HashMap for TLC: keys that all share a bucket while the    *)
(* table has two buckets, and part as it doubles to four and to eight.     *)
EXTENDS HashMap, TLC

CONSTANTS e1, e2, e3, a1, a2, v1

MCKey2   == {1, 2}
MCHash   == [k \in Key |-> <<0, 4, 2, 6>>[k]]
MCEntry3 == {e1, e2, e3}
MCArray2 == {a1, a2}
MCValue1 == {v1}
==============================================================================
