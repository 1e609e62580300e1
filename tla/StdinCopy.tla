------------------------------ MODULE StdinCopy ------------------------------
(***************************************************************************)
(* 3.9: a copy loop that writes to the descriptor it reads from,           *)
(* STDIN_FILENO.  What becomes of the data depends on what the descriptor  *)
(* is: a stream (a terminal, a socket) echoes its input, a regular file    *)
(* open for both has one offset, which read and write both move, and one   *)
(* open for reading only refuses the write.  Block b of the input holds b. *)
(***************************************************************************)
EXTENDS Integers

CONSTANTS
  MaxBlocks,  \* bound: size of the input
  BUFFSIZE    \* blocks in the buffer
Bounds == MaxBlocks \in Nat /\ BUFFSIZE \in Nat \ {0}

VARIABLES
  stdin,     \* what descriptor 0 is
  ipc,       \* the next statement
  content,   \* the file or the stream's input, block by block
  length,    \* its length
  position,  \* the offset of the descriptor; on a stream, blocks received
  chunk,     \* buf
  nread,     \* n, what read returned
  echoed,    \* blocks sent on a stream
  original   \* history: length at the start

vars == <<stdin, ipc, content, length, position, chunk, nread, echoed, original>>

Gone == {"exit_0", "exit_1", "SIGPIPE"}

Init ==
  /\ stdin \in {"input", "file", "stream"} /\ length \in 0 .. MaxBlocks
  /\ content = [b \in 0 .. length - 1 |-> b] /\ original = length
  /\ ipc = "read" /\ position = 0 /\ echoed = 0 /\ nread = 0 /\ chunk = <<>>

-----------------------------------------------------------------------------
Goto(here, there) == ipc = here /\ ipc' = there /\ UNCHANGED <<stdin, original>>

(* What a read may take at offset at of n blocks. *)
Most(at, n) == IF n - at < BUFFSIZE THEN n - at ELSE BUFFSIZE

(* A regular file gives all there is, a stream may give less. *)
Read ==
  /\ Goto("read", "write")
  /\ nread' \in 1 .. Most(position, length)
  /\ stdin = "file" => nread' = Most(position, length)
  /\ chunk' = [k \in 0 .. nread' - 1 |-> content[position + k]]
  /\ position' = position + nread'
  /\ UNCHANGED <<content, length, echoed>>

ReadEnds ==
  /\ \/ position = length /\ Goto("read", "exit_0")
     \/ Goto("read", "exit_1")
  /\ UNCHANGED <<content, length, position, chunk, nread, echoed>>

(* write, to descriptor 0: m blocks, and the end if that is not all of n. *)
Overwrite(m) ==
  /\ stdin = "file" /\ position' = position + m
  /\ length' = IF position + m > length THEN position + m ELSE length
  /\ content' = [b \in 0 .. length' - 1 |->
                   IF b \in position .. position + m - 1 THEN chunk[b - position]
                   ELSE content[b]]
  /\ UNCHANGED echoed

Echo(m) == stdin = "stream" /\ echoed' = echoed + m /\ UNCHANGED <<content, length, position>>

Refuse == stdin = "input" /\ UNCHANGED <<content, length, position, echoed>>

Write ==
  /\ \/ Goto("write", "read") /\ (Overwrite(nread) \/ Echo(nread))
     \/ Goto("write", "exit_1") /\ \E m \in 0 .. nread - 1 : Overwrite(m) \/ Echo(m)
     \/ Goto("write", "exit_1") /\ Refuse
     \/ Goto("write", "SIGPIPE") /\ Echo(0)
  /\ UNCHANGED <<chunk, nread>>

Next == Read \/ ReadEnds \/ Write

-----------------------------------------------------------------------------
TypeOK ==
  /\ stdin \in {"input", "file", "stream"} /\ ipc \in {"read", "write"} \union Gone
  /\ original \in 0 .. MaxBlocks /\ length \in original .. original + BUFFSIZE
  /\ content \in [0 .. length - 1 -> 0 .. original - 1]
  /\ position \in 0 .. length /\ nread \in 0 .. BUFFSIZE /\ echoed \in 0 .. original

(* The offset at which the round of the loop that handles block b starts,  *)
(* on a file open for both: each round reads a buffer and overwrites the   *)
(* next one.                                                               *)
Round(b) == 2 * BUFFSIZE * (b \div (2 * BUFFSIZE))

Shuffled(b) ==
  IF b - Round(b) < Most(Round(b), original) THEN b ELSE b - Most(Round(b), original)

(* Status 0 stands for a copy on a stream only.  On a file open for both   *)
(* every other buffer is lost under a copy of the one before it, and the   *)
(* file may grow; one open for reading gives status 0 only if it is empty. *)
Inv ==
  /\ TypeOK
  /\ ipc = "exit_0" =>
       \/ stdin = "input" /\ length = 0
       \/ stdin = "stream" /\ echoed = original
       \/ stdin = "file" /\ \A b \in 0 .. length - 1 : content[b] = Shuffled(b)
  /\ stdin # "file" => length = original /\ content = [b \in 0 .. length - 1 |-> b]

Ended == ipc \in Gone
=============================================================================
