------------------------------- MODULE RotCopy -------------------------------
(***************************************************************************)
(* translate() of chapter_14/14.5.3.c and 14.5.3.2.c, on the byte values,  *)
(* and what both programs promise: block by block, in any order, each      *)
(* block of the input is put, translated, at its place in the output, and  *)
(* success is reported only for a complete output.                         *)
(***************************************************************************)
EXTENDS Integers

CONSTANT Inputs    \* the possible input files
VARIABLES
  block,           \* the input file: the byte that stands for each block
  output,          \* output[b]: what the output holds for block b
  status           \* "running", "exited" (status 0) or "failed"

vars == <<block, output, status>>

Byte == 0 .. 255
Upper == 65 .. 90      \* 'A' .. 'Z'
Lower == 97 .. 122     \* 'a' .. 'z'

\* isalpha() in the C locale
isalpha(c) == c \in Upper \union Lower

translate(c) ==
  IF ~isalpha(c) THEN c
  ELSE IF c >= 110 THEN c - 13      \* 'n'
  ELSE IF c >= 97 THEN c + 13       \* 'a'
  ELSE IF c >= 78 THEN c - 13       \* 'N'
  ELSE c + 13

Hole == 256        \* nothing written there yet
Expected == [b \in DOMAIN block |-> translate(block[b])]

Init ==
  /\ block \in Inputs
  /\ output = [b \in DOMAIN block |-> Hole]
  /\ status = "running"

CopyBlock(b) ==
  /\ status = "running"
  /\ output[b] = Hole
  /\ output' = [output EXCEPT ![b] = Expected[b]]
  /\ UNCHANGED <<block, status>>

Finish ==
  /\ status = "running"
  /\ \/ status' = "exited" /\ output = Expected
     \/ status' = "failed"
  /\ UNCHANGED <<block, output>>

Next == Finish \/ \E b \in DOMAIN block : CopyBlock(b)

Spec == Init /\ [][Next]_vars
=============================================================================
