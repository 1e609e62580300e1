------------------------------- MODULE SyncRot -------------------------------
(***************************************************************************)
(* chapter_14/14.5.3.c: rot13 with blocking read and write, one block at a *)
(* time.  A read error ends the loop like the end of the file does.        *)
(***************************************************************************)
EXTENDS Integers, Sequences

CONSTANT Inputs     \* the input files, each the sequence of its blocks' bytes

VARIABLES
  input,       \* the input file
  pc,          \* "read", "write", "exited" or "failed"
  pos,         \* blocks read so far
  buf,         \* the buffer, a byte that stands for it, translated
  output,      \* the output file, per block
  readFailed   \* history: read() has returned -1

vars == <<input, pc, pos, buf, output, readFailed>>

(* The program as a RotCopy, whose translate it uses. *)
R == INSTANCE RotCopy WITH block <- input,
       status <- IF pc = "failed" \/ readFailed THEN "failed"
                 ELSE IF pc = "exited" THEN "exited" ELSE "running"

Hole == 256

Init ==
  /\ input \in Inputs
  /\ pc = "read" /\ pos = 0 /\ buf = Hole /\ readFailed = FALSE
  /\ output = [b \in DOMAIN input |-> Hole]

(* n > 0: the block is translated in place. *)
Read ==
  /\ pc = "read" /\ pos < Len(input)
  /\ pos' = pos + 1
  /\ buf' = R!translate(input[pos + 1])
  /\ pc' = "write"
  /\ UNCHANGED <<input, output, readFailed>>

(* n = 0 at the end of the file, n = -1 anywhere: fsync and exit(0). *)
LeaveLoop ==
  /\ pc = "read"
  /\ \/ pos = Len(input) /\ UNCHANGED readFailed
     \/ readFailed' = TRUE
  /\ pc' = "exited"
  /\ UNCHANGED <<input, pos, buf, output>>

\* Mutant: a write error is ignored.
WriteIgnoresError ==
  /\ pc = "write"
  /\ pc' = "read"
  /\ \/ output' = [output EXCEPT ![pos] = buf]
     \/ UNCHANGED output
  /\ UNCHANGED <<input, pos, buf, readFailed>>

(* write: complete, or an error or a short write that ends the program. *)
Write ==
  /\ pc = "write"
  /\ \/ output' = [output EXCEPT ![pos] = buf] /\ pc' = "read"
     \/ pc' = "failed" /\ UNCHANGED output
  /\ UNCHANGED <<input, pos, buf, readFailed>>

Next == Read \/ LeaveLoop \/ Write

Spec == Init /\ [][Next]_vars

-----------------------------------------------------------------------------
(* The output is that of RotCopy, provided that a read error counts as a   *)
(* failure; the program itself reports it as success (exit status 0).      *)
CopiesUnlessReadFails == R!Spec
=============================================================================
