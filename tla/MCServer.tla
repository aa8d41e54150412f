------------------------------ MODULE MCServer -------------------------------
(* Instances of Server for TLC.                                            *)
EXTENDS Server, TLC

CONSTANTS d1, d2, t1, t2, c1, c2

MCDomain1 == {d1}
MCDomain2 == {d1, d2}
MCToken1  == {t1}
MCToken2  == {t1, t2}
MCClient1 == {c1}
MCClient2 == {c1, c2}

Symmetry == Permutations(MCDomain2)
==============================================================================
