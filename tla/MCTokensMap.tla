----------------------------- MODULE MCTokensMap -----------------------------
(* TokensMap with three tokens and room for a rehash by each thread.       *)
EXTENDS TokensMap, TLC

CONSTANTS e1, e2, e3, e4, a1, a2, a3, v1

MCKey   == {1, 2, 3}
MCHash  == (1 :> 0) @@ (2 :> 4) @@ (3 :> 2)
MCEntry == {e1, e2, e3, e4}
MCArray == {a1, a2, a3}
MCValue == {v1}
==============================================================================
