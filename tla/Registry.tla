------------------------------- MODULE Registry ------------------------------
(***************************************************************************)
(* From the operator's keyboard to the file and back: the console thread   *)
(* with its command "register", and the registrations it stores, through   *)
(* ends of the process in and out of order, full disks, and new processes. *)
(***************************************************************************)
EXTENDS Console, Store

CONSTANTS MaxLines, MaxRestarts   \* lines typed and restarts of a run

ASSUME BoundAssumption == MaxLines \in Nat /\ MaxRestarts \in Nat

VARIABLES
  state,      \* "open" while the process runs; "closed" if it ended in
              \* order, "lost" if not
  reg,        \* register_func's domain and token
  nlines, restarts,
  typed       \* history: the lines

rvars == <<cvars, svars, state, reg, nlines, restarts, typed>>

Idle == << >>

Init ==
  /\ CInit /\ SInit
  /\ state = "open" /\ reg = Idle /\ nlines = 0 /\ restarts = 0 /\ typed = {}

Typed ==
  /\ nlines < MaxLines /\ nlines' = nlines + 1
  /\ \E l \in Line : Type(l)
  /\ typed' = typed \cup {stdin'}
  /\ UNCHANGED <<svars, state, reg, restarts>>

ConsoleStep ==
  /\ CheckFinished \/ ReadLine \/ ReadNothing \/ CallStop \/ CallOther
  /\ UNCHANGED <<svars, state, reg, nlines, restarts, typed>>

(* register_func: a linked domain is refused; another one goes to the map, *)
(* and then dns_map_put_token goes on to the file.                         *)
TakenAndKnown(d) == d \in DOMAIN links /\ links[d] = Cut(argv[3])
Taken(d)         == d \in DOMAIN links

Refuse ==
  /\ pc = "call" /\ Registers(argv) /\ Taken(argv[2])
  /\ Done
  /\ UNCHANGED <<stdin, eof, finished, svars, reg>>

Accept ==
  /\ pc = "call" /\ Registers(argv) /\ ~Taken(argv[2])
  /\ reg' = <<argv[2], Cut(argv[3])>>
  /\ PutLink(reg')
  /\ pc' = "write1" /\ argv' = << >>
  /\ UNCHANGED <<stdin, eof, finished>>

(* write_domain_token_entry: each fwrite only if those before succeeded.   *)
Writing == <<"write1", "write2", "write3", "write4">>
After   == <<"write2", "write3", "write4", "token">>

WritePart(n) ==
  /\ pc = Writing[n]
  /\ \/ Write(Writes(reg)[n]) /\ pc' = After[n]
     \/ WriteFails(Writes(reg)[n]) /\ pc' = "token"
  /\ UNCHANGED <<stdin, eof, argv, finished, reg>>

(* The result is ignored: the token is put and success reported.           *)
Report ==
  /\ pc = "token"
  /\ PutToken(reg[2])
  /\ reg' = Idle
  /\ pc' = "check"
  /\ UNCHANGED <<stdin, eof, argv, finished>>

RegisterStep ==
  /\ Refuse \/ Accept \/ (\E n \in 1..4 : WritePart(n)) \/ Report
  /\ UNCHANGED <<state, nlines, restarts, typed>>

(* The process ends: in main, once the console is done, or anywhere.       *)
End ==
  /\ \/ pc = "done" /\ CloseFile /\ state' = "closed"
     \/ LoseBuffer /\ state' = "lost"
  /\ UNCHANGED <<cvars, reg, nlines, restarts, typed>>

Restart ==
  /\ state # "open" /\ restarts < MaxRestarts
  /\ Load
  /\ state' = "open" /\ reg' = Idle /\ restarts' = restarts + 1
  /\ stdin' = << >> /\ eof' = FALSE /\ argv' = << >> /\ finished' = FALSE
  /\ pc' = "check"
  /\ UNCHANGED <<nlines, typed>>

(* A new process can end while it reads a file whose bytes a torn write    *)
(* has put out of step; the file stays as it is.                           *)
StartFails ==
  /\ state # "open" /\ restarts < MaxRestarts
  /\ Overruns(disk)
  /\ restarts' = restarts + 1
  /\ UNCHANGED <<cvars, svars, state, reg, nlines, typed>>

Next == \/ state = "open" /\ (Typed \/ ConsoleStep \/ RegisterStep \/ End)
        \/ Restart \/ StartFails

Spec == Init /\ [][Next]_rvars
-----------------------------------------------------------------------------
(* Properties.                                                             *)

(* Strings are bytes, the read position is never past what was typed, and  *)
(* an entry is in the making exactly while it is being written.            *)
TypeOK ==
  /\ {disk, buf, stdin} \subseteq Seq(0..255)
  /\ argv # << >> <=> pc = "call"
  /\ reg # Idle <=> pc \in {Writing[n] : n \in 1..4} \cup {"token"}
  /\ tail \in {"whole", "torn", "mixed"}
  /\ \A d \in DOMAIN links : <<d, links[d]>> \in {log[n] : n \in DOMAIN log}

(* The bytes keep the promise of Journal: registrations that are once in   *)
(* the file behind nothing else are found by every later process that gets *)
(* to run, whatever crashes and full disks follow; an orderly end settles  *)
(* all of them; and a process that follows a crash finds those and nothing *)
(* else.                                                                   *)
J == INSTANCE Journal
ImplementsJournal == J!Spec

(* As long as the file holds whole entries only, whatever process reads    *)
(* them, a domain is linked to what an operator asked for: in a line, or a *)
(* part of one, the first word is "register", the second the domain, and   *)
(* the third begins with the token: TOKEN_SIZE bytes of it, or all of it.  *)
StandsAt(p, k, w) == k + Len(w) <= Len(p) + 1 /\ \A n \in 1..Len(w) : p[k + n - 1] = w[n]
Blank(p, m, n)    == \A k \in m..n : p[k] = Space

AsksFor(p, d, t) ==
  \E i \in DOMAIN p :
    /\ Blank(p, 1, i - 1) /\ StandsAt(p, i, RegisterWord)
    /\ \E j \in (i + Len(RegisterWord) + 1)..Len(p) :
         /\ Blank(p, i + Len(RegisterWord), j - 1) /\ StandsAt(p, j, d)
         /\ \E k \in (j + Len(d) + 1)..Len(p) :
              /\ Blank(p, j + Len(d), k - 1) /\ StandsAt(p, k, t)
              /\ Len(t) <= TokenSize
              /\ \/ Len(t) = TokenSize
                 \/ k + Len(t) > Len(p)
                 \/ p[k + Len(t)] \in {Space, Newline, Nul}

LinkedAsTyped ==
  tail # "mixed" =>
    \A d \in DOMAIN links :
      \E l \in typed : \E p \in Pieces(l) : AsksFor(p, d, links[d])

(* A domain has one entry among those that later processes are sure to     *)
(* find, for all the registrations lost and asked for again: the order in  *)
(* which they are read cannot link it anew.                                *)
RegisteredOnce ==
  \A n, m \in (1..sure) \cap DOMAIN log : log[n][1] = log[m][1] => n = m

(* A command that is called is a line typed, or the part of a long line    *)
(* that begins where the buffer was full.                                  *)
RunsWhatWasTyped ==
  pc = "call" => \E l \in typed : \E p \in Pieces(l) : argv = Words(Text(p))
==============================================================================
