------------------------------- MODULE Journal -------------------------------
(***************************************************************************)
(* What an operator can rely on when the server keeps registrations in a   *)
(* file it only appends to: the registrations of one process after another, *)
(* of which the first `sure` are in the file for good.                     *)
(*                                                                         *)
(* A process that ends in order settles all of its registrations, one that *)
(* does not loses some of the last.  Once the file ends in half a record   *)
(* ("torn"), a process still finds what is sure and nothing else; but what *)
(* it appends to that ("mixed") later processes may read as anything.      *)
(***************************************************************************)
EXTENDS Naturals, Sequences

VARIABLES
  state,  \* "open"; "closed" in order; "lost"
  log,    \* registrations of the present process, those it found first
  sure,   \* how many of them every later process finds
  tail    \* "whole", "torn" or "mixed"

jvars == <<state, log, sure, tail>>

Init == state = "open" /\ log = << >> /\ sure = 0 /\ tail = "whole"

Register ==
  /\ state = "open"
  /\ Len(log') = Len(log) + 1 /\ SubSeq(log', 1, Len(log)) = log
  /\ UNCHANGED <<state, sure, tail>>

(* More of the registrations become sure, unless the file is damaged.      *)
Settle(least) ==
  IF tail = "whole" THEN sure' \in least..Len(log) ELSE sure' = sure

(* The disk is full: what follows may be appended to anything.             *)
Fail ==
  /\ state = "open"
  /\ tail' = "mixed" /\ Settle(sure)
  /\ UNCHANGED <<state, log>>

Close ==
  /\ state = "open" /\ state' = "closed"
  /\ Settle(Len(log))
  /\ tail' = tail \/ (tail = "torn" /\ tail' = "mixed")
  /\ UNCHANGED log

Lose ==
  /\ state = "open" /\ state' = "lost"
  /\ Settle(sure)
  /\ CASE tail = "whole" -> tail' \in {"whole", "torn"}
       [] OTHER          -> tail' \in {tail, "mixed"}
  /\ UNCHANGED log

Open ==
  /\ state # "open" /\ state' = "open"
  /\ Len(log') >= sure /\ SubSeq(log', 1, sure) = SubSeq(log, 1, sure)
  /\ tail # "mixed" => Len(log') = sure
  /\ UNCHANGED <<sure, tail>>

Next == Register \/ Fail \/ Close \/ Lose \/ Open

Spec == Init /\ [][Next]_jvars
==============================================================================
