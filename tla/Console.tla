------------------------------- MODULE Console -------------------------------
(***************************************************************************)
(* The console of common/c/console.c: lines from stdin, read in pieces of  *)
(* at most buffer_size - 1 bytes, split into words, and called.  What      *)
(* "register" does beyond that is in Registry.                             *)
(***************************************************************************)
EXTENDS Naturals, Sequences, FiniteSets, SequencesExt, FiniteSetsExt

CONSTANTS
  BufferSize,   \* CONSOLE_BUFFER_SIZE
  TokenSize,    \* TOKEN_SIZE
  Line,         \* lines an operator may type, newline included
  RegisterWord, StopWord   \* the names of these two of the three commands

(* Lines are bytes up to a newline; the length of a word fits four bytes.  *)
Byte    == 0..255
Newline == 10
ASSUME ConsoleAssumption ==
  /\ BufferSize \in Nat \ {0, 1} /\ BufferSize < 256 * 256 * 256 * 64
  /\ TokenSize \in Nat \ {0}
  /\ Line \subseteq Seq(Byte)
  /\ \A l \in Line : l # << >> /\ \A k \in 1..Len(l) : l[k] = Newline <=> k = Len(l)

VARIABLES
  stdin,     \* bytes typed and not yet read
  eof,       \* nothing follows them
  argv,      \* the words of the command being executed
  finished,
  pc         \* "check", "read", "call", then the steps of "register"; "done"

cvars == <<stdin, eof, argv, finished, pc>>

Nul   == 0
Space == 32

(* The string in the buffer, without the newline that ends it.  (A line    *)
(* that starts with a NUL makes the code look at the byte before the       *)
(* buffer; whatever it finds there, the string is empty.)                  *)
Text(bytes) ==
  LET z == SelectInSeq(bytes, LAMBDA b : b = Nul)
      s == IF z = 0 THEN bytes ELSE SubSeq(bytes, 1, z - 1)
  IN IF s # << >> /\ Last(s) = Newline THEN Front(s) ELSE s

(* parse_console_line: the words, separated by any number of spaces.       *)
Starts(s)    == {k \in 1..Len(s) : s[k] # Space /\ (k = 1 \/ s[k-1] = Space)}
WordAt(s, k) == SubSeq(s, k, Min({j \in k..Len(s) : j = Len(s) \/ s[j+1] = Space}))
NthOf(S, n)  == CHOOSE k \in S : Cardinality({j \in S : j < k}) = n - 1
Words(s)     == [n \in 1..Cardinality(Starts(s)) |-> WordAt(s, NthOf(Starts(s), n))]

(* register_func: memcpy of TOKEN_SIZE bytes of the word, as a string.     *)
Uncut(word) == word
Cut(word) == SubSeq(word, 1, Min({TokenSize, Len(word)}))

(* fgets leaves room for the terminator.                                   *)
RoomForAll == BufferSize
Room       == BufferSize - 1

CInit ==
  /\ stdin = << >> /\ eof = FALSE /\ argv = << >> /\ finished = FALSE
  /\ pc = "check"
-----------------------------------------------------------------------------
(* The operator: a line, or the end of input in place of its newline (the  *)
(* bytes are looked at only when a read wants some).                       *)
Type(l) ==
  /\ pc = "read" /\ stdin = << >> /\ ~eof
  /\ \/ stdin' = l /\ eof' = FALSE
     \/ stdin' = Front(l) /\ eof' = TRUE
  /\ UNCHANGED <<argv, finished, pc>>

(* console_run.                                                            *)
CheckFinished ==
  /\ pc = "check"
  /\ pc' = IF finished THEN "done" ELSE "read"
  /\ UNCHANGED <<stdin, eof, argv, finished>>

(* read_console_line and parse_console_line.                               *)
ReadLine ==
  LET n == Min({Len(stdin), Room} \cup {k \in DOMAIN stdin : stdin[k] = Newline}) IN
  /\ pc = "read" /\ stdin # << >>
  /\ argv' = Words(Text(SubSeq(stdin, 1, n)))
  /\ stdin' = SubSeq(stdin, n + 1, Len(stdin))
  /\ pc' = IF argv' = << >> THEN "check" ELSE "call"
  /\ UNCHANGED <<eof, finished>>

(* At end of input fgets fails at once, each time round the loop.          *)
ReadNothing ==
  /\ pc = "read" /\ stdin = << >> /\ eof
  /\ pc' = "check"
  /\ UNCHANGED <<stdin, eof, argv, finished>>

(* free_argv, and the next line.                                           *)
KeepArgv == pc' = "check" /\ argv' = argv
Done     == pc' = "check" /\ argv' = << >>

(* call_command: "stop"; a "list", a "register" without its two arguments, *)
(* a word that is no command, none of which changes anything.              *)
CallStop ==
  /\ pc = "call" /\ argv[1] = StopWord
  /\ finished' = TRUE
  /\ Done
  /\ UNCHANGED <<stdin, eof>>

Registers(words) == Len(words) = 3 /\ words[1] = RegisterWord

CallOther ==
  /\ pc = "call" /\ argv[1] # StopWord /\ ~Registers(argv)
  /\ Done
  /\ UNCHANGED <<stdin, eof, finished>>

(* The pieces of a line that a buffer of this size takes.                  *)
Pieces(l) ==
  {SubSeq(l, k + 1, Min({k + BufferSize - 1, Len(l)})) :
     k \in {c * (BufferSize - 1) : c \in 0..Len(l)} \cap 0..(Len(l) - 1)}
==============================================================================
