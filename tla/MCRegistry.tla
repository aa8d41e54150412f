------------------------------ MODULE MCRegistry -----------------------------
(* Registry with one-letter commands, a buffer of eight bytes and tokens   *)
(* of two: lines that fit the buffer, that fill it to the last byte, and   *)
(* that go on behind it with another command.  One domain has bytes above  *)
(* 127, which a file out of step turns into a negative length.             *)
EXTENDS Registry

MCRegister == <<114>>
MCStop     == <<115>>

FillsBuffer == <<114, 32, 97, 32, 120, 121, 122, 10>>   \* "r a xyz\n"
Fits        == <<114, 32, 195, 169, 32, 120, 10>>   \* "r e x\n", the e with an accent, in UTF-8
StopBehind  == <<114, 32, 32, 97, 32, 120, 32, 115, 10>>   \* "r  a x s\n"
Padded      == <<32, 32, 108, 32, 0, 115, 10>>   \* "  l \0s\n"

MCLine == {FillsBuffer, Fits, StopBehind, Padded}
==============================================================================
