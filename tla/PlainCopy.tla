------------------------------ MODULE PlainCopy ------------------------------
(***************************************************************************)
(* The programs that copy one file to another as it is, in blocks:         *)
(* 1.5.3 with read and write, 1.5.4 with getc and putc, 14.2 with writes   *)
(* that do not block, 14.8 through mapped memory.  Which of them may exit  *)
(* with status 0 and an incomplete copy?  Blocks are counted.              *)
(***************************************************************************)
EXTENDS Integers, FiniteSetsExt

CONSTANTS
  MaxBlocks,  \* bound: size of the file
  BUFFSIZE    \* blocks in a buffer or a mapping: BUFFSIZE, sizeof(buf), COPYINCR
Bounds == MaxBlocks \in Nat /\ BUFFSIZE \in Nat \ {0}

VARIABLES
  tool,     \* which of the programs runs
  tpc,      \* its next statement
  st_size,  \* size of the input
  fsz,      \* blocks read so far
  held,     \* blocks read and not yet written
  copied,   \* blocks in the output
  full,     \* the pipe that 14.2 writes to is full
  silent    \* history: a read, flush or write failed and the program goes on

vars == <<tool, tpc, st_size, fsz, held, copied, full, silent>>

Tools == {"1.5.3", "1.5.4", "14.2", "14.8"}
Gone == {"exit_0", "exit_1", "SIGPIPE"}

Init ==
  /\ tool \in Tools /\ st_size \in 0 .. MaxBlocks
  /\ tpc = "read" /\ fsz = 0 /\ held = 0 /\ copied = 0 /\ full = FALSE /\ silent = FALSE

-----------------------------------------------------------------------------
Goto(here, there) == tpc = here /\ tpc' = there /\ UNCHANGED <<tool, st_size>>

(* Up to n blocks of what is left of the input. *)
Take(n) ==
  /\ n > 0 /\ fsz + n <= st_size
  /\ fsz' = fsz + n /\ held' = held + n
Put(n) == copied' = copied + n /\ held' = held - n

ReadFails == Goto("read", "exit_1") /\ UNCHANGED <<fsz, held, copied, full, silent>>

EndOfFile == fsz = st_size /\ Goto("read", "exit_0") /\ UNCHANGED <<fsz, held, copied, full, silent>>

Read ==
  /\ \E n \in 1 .. BUFFSIZE : Take(n)
  /\ Goto("read", "write") /\ UNCHANGED <<copied, full, silent>>

(* write: all of it, or some and the end. *)
Write ==
  /\ \/ Goto("write", "read") /\ Put(held)
     \/ Goto("write", "exit_1") /\ \E n \in 0 .. held - 1 : Put(n)
  /\ UNCHANGED <<fsz, full, silent>>

Unbuf == tool = "1.5.3" /\ (Read \/ Write \/ ReadFails \/ EndOfFile)

(* getc and putc: the output waits in the buffer of stdio.  exit, which    *)
(* err_sys calls too, flushes it and does not tell if that fails.          *)
Putc ==
  /\ held < BUFFSIZE /\ Take(1)
  /\ Goto("read", "read") /\ UNCHANGED <<copied, full, silent>>

Flush ==
  /\ held = BUFFSIZE
  /\ \/ Goto("read", "read") /\ Put(held)
     \/ Goto("read", "exit_1") /\ UNCHANGED <<held, copied>>
  /\ UNCHANGED <<fsz, full, silent>>

Exit ==
  /\ \/ fsz = st_size /\ Goto("read", "exit_0")
     \/ Goto("read", "exit_1")
  /\ \/ Put(held) /\ UNCHANGED silent
     \/ held > 0 /\ silent' = TRUE /\ UNCHANGED <<held, copied>>
  /\ UNCHANGED <<fsz, full>>

Stdio == tool = "1.5.4" /\ (Putc \/ Flush \/ Exit)

(* 14.2: one read; then write, again and again, what is left.  An error is *)
(* printed like EAGAIN, and does not end the loop.                         *)
ReadOnce ==
  /\ Goto("read", "write")
  /\ \/ (\E n \in 1 .. BUFFSIZE : Take(n)) /\ UNCHANGED silent
     \/ st_size = 0 /\ UNCHANGED <<fsz, held, silent>>
     \/ silent' = TRUE /\ UNCHANGED <<fsz, held>>
  /\ UNCHANGED <<copied, full>>

WriteSome ==
  /\ ~full /\ full' \in BOOLEAN
  /\ (\E n \in 1 .. held : Put(n)) /\ Goto("write", "write")
  /\ UNCHANGED <<fsz, silent>>

WriteBroken ==
  /\ held > 0 /\ Goto("write", "broken") /\ silent' = TRUE
  /\ UNCHANGED <<fsz, held, copied, full>>

ReaderGone == held > 0 /\ Goto("write", "SIGPIPE") /\ UNCHANGED <<fsz, held, copied, full, silent>>

WrittenAll == held = 0 /\ Goto("write", "exit_0") /\ UNCHANGED <<fsz, held, copied, full, silent>>

NonBlocking == tool = "14.2" /\ (ReadOnce \/ WriteSome \/ WriteBroken \/ ReaderGone \/ WrittenAll)

(* Whoever reads the pipe makes room. *)
Drain == full /\ full' = FALSE /\ UNCHANGED <<tool, tpc, st_size, fsz, held, copied, silent>>

(* 14.8: ftruncate has given the output its size; then mapping by mapping. *)
Map ==
  /\ fsz < st_size
  /\ Goto("read", "write") /\ Take(Min({BUFFSIZE, st_size - fsz}))
  /\ UNCHANGED <<copied, full, silent>>

Memcpy == Goto("write", "read") /\ Put(held) /\ UNCHANGED <<fsz, full, silent>>

Mapped == tool = "14.8" /\ (Map \/ Memcpy \/ ReadFails \/ EndOfFile)

Copy == Unbuf \/ Stdio \/ NonBlocking \/ Mapped

Next == Copy \/ Drain

(* The program runs, and the reader of its pipe reads. *)
Fairness == WF_vars(Copy) /\ WF_vars(Drain)

-----------------------------------------------------------------------------
TypeOK ==
  /\ tool \in Tools /\ tpc \in {"read", "write", "broken"} \union Gone
  /\ st_size \in 0 .. MaxBlocks /\ fsz \in 0 .. st_size
  /\ held \in 0 .. BUFFSIZE /\ copied \in 0 .. st_size
  /\ {full, silent} \subseteq BOOLEAN

(* Status 0 stands for a complete copy, except in 1.5.4 when the last      *)
(* flush fails, and in 14.2 when its one read fails or does not take all.  *)
Inv ==
  /\ TypeOK /\ copied + held = fsz
  /\ tpc = "exit_0" /\ ~silent =>
       copied = IF tool = "14.2" THEN fsz ELSE st_size
  /\ silent => tool \in {"1.5.4", "14.2"}

(* The program has ended, or every write of 14.2 fails from now on. *)
Ended == tpc \in Gone \union {"broken"}
=============================================================================
