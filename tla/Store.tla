-------------------------------- MODULE Store --------------------------------
(***************************************************************************)
(* The registrations of dns_map.c in memory and, byte by byte, in the file *)
(* domain2token.data: a length of four bytes before each string, a domain  *)
(* and a token in a row, appended through a stdio buffer that nothing      *)
(* flushes.  A crash leaves any part of the buffer in the file; so does a  *)
(* write to a full disk, whose result the caller ignores.                  *)
(***************************************************************************)
EXTENDS Naturals, Sequences

VARIABLES
  links,      \* map->domain_to_token
  tokens,     \* keys of map->tokens
  disk, buf,  \* bytes of domain2token.data; bytes in its stdio buffer
  (* history *)
  log,        \* the registrations put in the map, in order
  sure,       \* how many of them are in the file behind nothing else
  tail        \* what follows them there: see Journal

svars == <<links, tokens, disk, buf, log, sure, tail>>

(* int32_t, little end first.                                              *)
Int32(n)    == <<n % 256, (n \div 256) % 256, ((n \div 256) \div 256) % 256,
                 (((n \div 256) \div 256) \div 256) % 256>>
Int32At(f, at) == f[at+1] + 256 * (f[at+2] + 256 * (f[at+3] + 256 * f[at+4]))

(* write_domain_token_entry: the four fwrites, and the bytes they add.     *)
Writes(r) == <<Int32(Len(r[1])), r[1], Int32(Len(r[2])), r[2]>>

(* What read_string makes of the bytes behind the first `at`: whether all  *)
(* of the string is there, the string, and where it ends.  No string is as *)
(* long as a length of 2^31 or more, which is negative in the code.        *)
Negative(f, at)   == f[at+4] >= 128
AllOfIt(f, at, n) == at + n <= Len(f)
ReadString(f, at) ==
  IF at + 4 > Len(f) \/ Negative(f, at) THEN [ok |-> FALSE]
  ELSE LET n   == Int32At(f, at)
           end == IF at + 4 + n <= Len(f) THEN at + 4 + n ELSE Len(f)
       IN [ok |-> AllOfIt(f, at + 4, n), str |-> SubSeq(f, at + 5, end), at |-> end]

(* read_files: one entry; the entries up to the first that is not all      *)
(* there, and how many bytes they take.                                    *)
ReadEntry(f, at) ==
  LET d == ReadString(f, at)
      t == IF d.ok THEN ReadString(f, d.at) ELSE d
  IN IF t.ok THEN [ok |-> TRUE, entry |-> <<d.str, t.str>>, at |-> t.at]
             ELSE [ok |-> FALSE]

ReadFrom(f) ==
  LET from[at \in 0..Len(f)] ==
        LET e == ReadEntry(f, at) IN
        IF e.ok THEN [entries |-> <<e.entry>> \o from[e.at].entries, at |-> from[e.at].at]
                ELSE [entries |-> << >>, at |-> at]
  IN from

ReadFile(f) == ReadFrom(f)[0]

Entries(f) == ReadFile(f).entries
Whole(f)   == ReadFile(f).at = Len(f)

(* Reading stops at a negative length with more bytes behind it.  malloc   *)
(* has nothing for such a length, or a block of no size, and that is where *)
(* the bytes go.                                                           *)
Overruns(f) ==
  LET at   == ReadFile(f).at
      d    == ReadString(f, at)
      last == IF d.ok THEN d.at ELSE at
  IN last + 4 < Len(f) /\ Negative(f, last)

(* hash_map_put, one entry after another.                                  *)
LastOf(r, d) == CHOOSE n \in DOMAIN r :
                  r[n][1] = d /\ \A m \in DOMAIN r : r[m][1] = d => m <= n
Linked(r)    == [d \in {r[n][1] : n \in DOMAIN r} |-> r[LastOf(r, d)][2]]

SInit ==
  /\ links = Linked(<< >>) /\ tokens = {} /\ disk = << >> /\ buf = << >>
  /\ log = << >> /\ sure = 0 /\ tail = "whole"
-----------------------------------------------------------------------------
(* dns_map_put_token with flag_update 1: the map, the file, the tokens.    *)

PutLink(r) ==
  /\ links' = [d \in DOMAIN links \cup {r[1]} |-> IF d = r[1] THEN r[2] ELSE links[d]]
  /\ log' = Append(log, r)
  /\ UNCHANGED <<tokens, disk, buf, sure, tail>>

Write(bytes) ==
  /\ buf' = buf \o bytes
  /\ UNCHANGED <<links, tokens, disk, log, sure, tail>>

PutToken(t) ==
  /\ tokens' = tokens \cup {t}
  /\ UNCHANGED <<links, disk, buf, log, sure, tail>>

(* Bytes reach the end of the file, which is open to append.              *)
Land(bytes) ==
  /\ disk' = disk \o bytes /\ buf' = << >>
  /\ sure' = IF tail = "whole" THEN Len(Entries(disk')) ELSE sure
  /\ UNCHANGED <<links, tokens, log>>

TailAfter(bytes) ==
  CASE tail = "whole"                   -> IF Whole(disk') THEN "whole" ELSE "torn"
    [] tail # "whole" /\ bytes = << >>  -> tail
    [] OTHER                            -> "mixed"

Parts(bytes) == {SubSeq(bytes, 1, n) : n \in 0..Len(bytes)}

(* fwrite fails: a part of buffer and bytes is written, the rest is gone.  *)
WriteFails(bytes) ==
  /\ \E b \in Parts(buf \o bytes) : Land(b)
  /\ tail' = "mixed"

(* fclose.                                                                 *)
CloseFile == Land(buf) /\ tail' = TailAfter(buf)

(* The process ends before it, or the disk is full even then.              *)
LoseBuffer == \E b \in Parts(buf) : Land(b) /\ tail' = TailAfter(b)

(* main opens the file, to read, and to append to what it holds.           *)
OpenAnew(f)     == << >>
OpenToAppend(f) == f

(* create_dns_map: the entries are put one by one, tokens too.             *)
Load ==
  LET found == Entries(disk') IN
  /\ disk' = OpenToAppend(disk)
  /\ links' = Linked(found)
  /\ tokens' = {found[n][2] : n \in DOMAIN found}
  /\ log' = found
  /\ UNCHANGED <<buf, sure, tail>>
==============================================================================
