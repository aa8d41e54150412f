------------------------------ MODULE MCSession ------------------------------
(* Session with two runs of the client and two tokens.                     *)
EXTENDS Session

CONSTANTS c1, c2, t1, t2

MCClient == {c1, c2}
MCToken  == {t1, t2}
==============================================================================
