-------------------------------- MODULE Pipes --------------------------------
(***************************************************************************)
(* chapter_15: programs with one pipe.  15.2.c sends a line to its child;  *)
(* 15.2.2.c means to page a file but has no fork: the junk in pid decides  *)
(* whether it runs the parent's branch or the child's; 15.3.c pages it     *)
(* through popen; 15.3.2.c prompts and reads from the filter 15.3.1.c.     *)
(* Lines are counted: a pipe keeps their order.                            *)
(***************************************************************************)
EXTENDS Integers

CONSTANTS
  MaxLines,   \* bound: lines of the file, or typed at 15.3.1
  StdioMax,   \* lines that the stdio buffer of 15.3 holds
  PipeMax     \* lines that the pipe holds, at least one

Bounds == MaxLines \in Nat /\ StdioMax \in Nat /\ PipeMax \in Nat \ {0}

VARIABLES
  job,       \* which program runs
  w,         \* the process that writes: its next statement
  r,         \* the process that reads: its next statement
  rends,     \* which of the two have the pipe's read end open
  wends,     \* which have its write end open
  typed,     \* lines in the file, or that will be typed
  taken,     \* lines that w has read from it
  stdio,     \* lines in the stdio buffer of w
  pipe,      \* lines in the pipe
  output,    \* lines that r has written out
  prompts    \* prompts of 15.3.2

vars == <<job, w, r, rends, wends, typed, taken, stdio, pipe, output, prompts>>

Jobs == {"15.2", "15.2.2", "15.3", "15.3.2"}
Gone == {"exit_0", "exit_1", "SIGPIPE", "unborn"}

(* After fork or popen (popen closes what its caller does not use); of     *)
(* 15.2.2 only one branch ever runs, in the one process.                   *)
Init ==
  /\ job \in Jobs /\ typed \in 0 .. MaxLines /\ (job = "15.2" => typed = 1)
  /\ taken = 0 /\ stdio = 0 /\ pipe = 0 /\ output = 0 /\ prompts = 0
  /\ \/ job = "15.2" /\ w = "close" /\ r = "close"
        /\ rends = {"w", "r"} /\ wends = {"w", "r"}
     \/ job = "15.2.2" /\ w = "close" /\ r = "unborn" /\ rends = {"w"} /\ wends = {"w"}
     \/ job = "15.2.2" /\ w = "unborn" /\ r = "close" /\ rends = {"r"} /\ wends = {"r"}
     \/ job \in {"15.3", "15.3.2"} /\ w = "gets" /\ rends = {"r"} /\ wends = {"w"}
        /\ r = IF job = "15.3" THEN "read" ELSE "prompt"

W(here, there) == w = here /\ w' = there
R(here, there) == r = here /\ r' = there

-----------------------------------------------------------------------------
(* The writer. *)
CloseRead ==
  /\ W("close", "gets") /\ rends' = rends \ {"w"}
  /\ UNCHANGED <<job, r, wends, typed, taken, stdio, pipe, output, prompts>>

\* Mutant: what is left in the buffer of stdio is not flushed.
GetsUnflushed ==
  /\ \/ /\ taken < typed /\ taken' = taken + 1 /\ stdio' = stdio + 1
        /\ W("gets", IF job = "15.3" /\ stdio' < StdioMax THEN "gets" ELSE "write")
     \/ taken = typed /\ W("gets", "finish") /\ UNCHANGED <<taken, stdio>>
  /\ UNCHANGED <<job, r, rends, wends, typed, pipe, output, prompts>>

(* fgets or getchar: a line, into the buffer of stdio in 15.3; or the end. *)
Gets ==
  /\ \/ /\ taken < typed /\ taken' = taken + 1 /\ stdio' = stdio + 1
        /\ W("gets", IF job = "15.3" /\ stdio' < StdioMax THEN "gets" ELSE "write")
     \/ /\ taken = typed /\ UNCHANGED <<taken, stdio>>
        /\ W("gets", IF stdio > 0 THEN "last" ELSE "finish")
  /\ UNCHANGED <<job, r, rends, wends, typed, pipe, output, prompts>>

(* write to the pipe, also by pclose; SIGPIPE when nobody can read it.     *)
Write ==
  /\ w \in {"write", "last"}
  /\ \/ /\ rends # {} /\ pipe < PipeMax
        /\ pipe' = pipe + 1 /\ stdio' = stdio - 1
        /\ w' = IF stdio' > 0 THEN w ELSE IF w = "write" THEN "gets" ELSE "finish"
        /\ UNCHANGED wends
     \/ rends = {} /\ w' = "SIGPIPE" /\ wends' = wends \ {"w"} /\ UNCHANGED <<pipe, stdio>>
  /\ UNCHANGED <<job, r, rends, typed, taken, output, prompts>>

\* Mutant: pclose does not close the stream before it waits.
FinishOpen ==
  /\ W("finish", IF job = "15.3" THEN "pclose"
                 ELSE IF job = "15.2.2" THEN "exit_1" ELSE "exit_0")
  /\ wends' = IF w' = "pclose" THEN wends ELSE wends \ {"w"}
  /\ UNCHANGED <<job, r, rends, typed, taken, stdio, pipe, output, prompts>>

(* close(fd[1]), pclose or the end.  15.2.2 then waits for the process     *)
(* pid, which is no child of it.                                           *)
Finish ==
  /\ W("finish", IF job = "15.3" THEN "pclose"
                 ELSE IF job = "15.2.2" THEN "exit_1" ELSE "exit_0")
  /\ wends' = wends \ {"w"}
  /\ UNCHANGED <<job, r, rends, typed, taken, stdio, pipe, output, prompts>>

Pclose ==
  /\ \/ W("pclose", "exit_0") /\ r \in Gone /\ UNCHANGED r
     \/ R("pclose", "exit_0") /\ w \in Gone /\ UNCHANGED w
  /\ UNCHANGED <<job, rends, wends, typed, taken, stdio, pipe, output, prompts>>

Writer == CloseRead \/ Gets \/ Write \/ Finish

-----------------------------------------------------------------------------
(* The reader: 15.2's child, the pager, or 15.3.2. *)
CloseWrite ==
  /\ R("close", "read") /\ wends' = wends \ {"r"}
  /\ UNCHANGED <<job, w, rends, typed, taken, stdio, pipe, output, prompts>>

Prompt ==
  /\ R("prompt", "read") /\ prompts' = prompts + 1
  /\ UNCHANGED <<job, w, rends, wends, typed, taken, stdio, pipe, output>>

(* A line is put out; 15.2 reads only once.  At the end of the file pclose *)
(* of 15.3.2 waits for the filter.                                         *)
Read ==
  /\ \/ /\ pipe > 0 /\ pipe' = pipe - 1 /\ output' = output + 1
        /\ R("read", IF job = "15.2" THEN "exit_0"
                     ELSE IF job = "15.3.2" THEN "prompt" ELSE "read")
     \/ /\ pipe = 0 /\ wends = {} /\ UNCHANGED <<pipe, output>>
        /\ R("read", IF job = "15.3.2" THEN "pclose" ELSE "exit_0")
  /\ rends' = IF r' \in {"exit_0", "pclose"} THEN rends \ {"r"} ELSE rends
  /\ UNCHANGED <<job, w, wends, typed, taken, stdio, prompts>>

(* The pager cannot be executed or its user leaves it, or 15.3.2 cannot    *)
(* write a line out.                                                       *)
Quit ==
  /\ job \in {"15.2.2", "15.3", "15.3.2"} /\ R("read", "exit_1") /\ rends' = rends \ {"r"}
  /\ (job = "15.3.2" => pipe > 0)
  /\ UNCHANGED <<job, w, wends, typed, taken, stdio, pipe, output, prompts>>

(* The shell that popen starts finds no filter to execute. *)
NoFilter ==
  /\ job = "15.3.2" /\ taken = 0 /\ W("gets", "exit_1") /\ wends' = wends \ {"w"}
  /\ UNCHANGED <<job, r, rends, typed, taken, stdio, pipe, output, prompts>>

Reader == CloseWrite \/ Prompt \/ Read

Next == Writer \/ Reader \/ Pclose \/ Quit \/ NoFilter

(* Both processes run; no program need be missing and no user leave. *)
Fairness == WF_vars(Writer) /\ WF_vars(Reader) /\ WF_vars(Pclose)

Spec == Init /\ [][Next]_vars

-----------------------------------------------------------------------------
(* No line is lost between the writer's input and the reader's output but  *)
(* by a quit, or if there is no filter, which 15.3.2 does not notice.  A   *)
(* process is killed by SIGPIPE only after a quit, or in 15.2.2, where no  *)
(* line is ever paged and the parent's branch always ends in an error.     *)
(* 15.3.2 prompts once for each line and once for the end.                 *)
Inv ==
  /\ taken = stdio + pipe + output
  /\ r = "exit_0" /\ job # "15.2.2" => output = typed \/ (w = "exit_1" /\ output = 0)
  /\ w = "exit_1" => job \in {"15.2.2", "15.3.2"}
  /\ w = "exit_0" /\ job = "15.3" => output = typed \/ r = "exit_1"
  /\ w = "SIGPIPE" => r = "exit_1" \/ job = "15.2.2"
  /\ job = "15.2.2" => output = 0 /\ w # "exit_0" /\ (w = "SIGPIPE" => typed > 0)
  /\ job = "15.3.2" => prompts = output + (IF r = "prompt" THEN 0 ELSE 1)

(* Both processes end: the pipe's end of file comes, and a full pipe whose *)
(* reader has gone does not hold the writer.                               *)
BothEnd == <>(w \in Gone /\ r \in Gone)
=============================================================================
