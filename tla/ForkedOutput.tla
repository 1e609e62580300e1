---------------------------- MODULE ForkedOutput ----------------------------
(***************************************************************************)
(* 8.3, 8.4 and 8.6 of chapter_08: what is in the buffer of stdout when a  *)
(* process forks is there twice.  On a terminal it is empty, for every     *)
(* line has been written; in a file each exit writes it once more.  The    *)
(* third child of 8.6 does not exit by itself, and runs into the parent's  *)
(* wait.                                                                   *)
(***************************************************************************)
EXTENDS Integers, Sequences

VARIABLES
  demo,      \* which of the programs runs
  tty,       \* stdout is a terminal
  at,        \* next statement of "main" and of its present "child"
  buf,       \* lines in the buffer of each
  out,       \* lines written
  printed,   \* history: lines the statements have printed
  globvar,   \* of each; var goes with it
  statuses   \* the values printed: globvar in 8.3 and 8.4, what pr_exit says in 8.6

vars == <<demo, tty, at, buf, out, printed, globvar, statuses>>

Procs == {"main", "child"}
Gone == {"exited", "_exit", "none"}
Finished == at["main"] \in Gone /\ at["child"] \in Gone

Init ==
  /\ demo \in {"8.3", "8.4", "8.6"} /\ tty \in BOOLEAN
  /\ at = [p \in Procs |-> IF p = "child" THEN "none"
                           ELSE IF demo = "8.6" THEN "fork" ELSE "write"]
  /\ buf = [p \in Procs |-> 0] /\ out = 0 /\ printed = 0
  /\ globvar = [p \in Procs |-> 6] /\ statuses = <<>>

-----------------------------------------------------------------------------
Goto(p, here, there) == at[p] = here /\ at' = [at EXCEPT ![p] = there]

Printf(p) ==
  /\ printed' = printed + 1
  /\ IF tty THEN out' = out + 1 /\ UNCHANGED buf
            ELSE buf' = [buf EXCEPT ![p] = @ + 1] /\ UNCHANGED out
Flush(p) == out' = out + buf[p] /\ buf' = [buf EXCEPT ![p] = 0]

(* write(STDOUT_FILENO), and "before fork". *)
Write ==
  /\ \/ Goto("main", "write", "before_fork") /\ out' = out + 1 /\ printed' = printed + 1
     \/ Goto("main", "write", "exited") /\ UNCHANGED <<out, printed>>
  /\ UNCHANGED <<demo, tty, buf, globvar, statuses>>

BeforeFork ==
  /\ Goto("main", "before_fork", "fork") /\ Printf("main")
  /\ UNCHANGED <<demo, tty, globvar, statuses>>

(* fork copies the memory of the process, its buffer included; a child of  *)
(* vfork keeps main waiting, and has no use of the buffer.                 *)
Fork ==
  /\ at["main"] = "fork"
  /\ at' = [p \in Procs |->
              IF p = "main" THEN IF demo = "8.3" THEN "print" ELSE "wait"
                            ELSE IF demo = "8.6" THEN "end" ELSE "count"]
  /\ buf' = [buf EXCEPT !["child"] = buf["main"]]
  /\ globvar' = [globvar EXCEPT !["child"] = globvar["main"]]
  /\ UNCHANGED <<demo, tty, out, printed, statuses>>

ForkFails ==
  /\ Goto("main", "fork", "exited") /\ Flush("main")
  /\ UNCHANGED <<demo, tty, printed, globvar, statuses>>

(* globvar++ and var++; in 8.4 in the memory of main, or in a copy where   *)
(* vfork is fork.                                                          *)
Count ==
  /\ Goto("child", "count", IF demo = "8.3" THEN "print" ELSE "_exit")
  /\ \/ globvar' = [globvar EXCEPT !["child"] = @ + 1]
     \/ demo = "8.4" /\ globvar' = [p \in Procs |-> globvar["main"] + 1]
  /\ UNCHANGED <<demo, tty, buf, out, printed, statuses>>

PrintVars(p) ==
  /\ Goto(p, "print", "return") /\ Printf(p)
  /\ statuses' = Append(statuses, globvar[p])
  /\ UNCHANGED <<demo, tty, globvar>>

Return(p) ==
  /\ Goto(p, "return", "exited") /\ Flush(p)
  /\ UNCHANGED <<demo, tty, printed, globvar, statuses>>

(* The children of 8.6: exit(7); abort, which flushes or does not; and the *)
(* one whose wait fails with ECHILD, so that err_sys exits.                *)
End ==
  /\ Goto("child", "end", "exited")
  /\ \/ Flush("child")
     \/ Len(statuses) = 1 /\ buf' = [buf EXCEPT !["child"] = 0] /\ UNCHANGED out
  /\ UNCHANGED <<demo, tty, printed, globvar, statuses>>

(* The end of vfork; or wait and pr_exit. *)
Wait ==
  /\ at["child"] \in Gone
  /\ IF demo = "8.4"
       THEN Goto("main", "wait", "print") /\ UNCHANGED <<buf, out, printed, statuses>>
       ELSE /\ Goto("main", "wait", IF Len(statuses) = 2 THEN "return" ELSE "fork")
            /\ Printf("main")
            /\ statuses' = Append(statuses, <<7, "SIGABRT", 1>>[Len(statuses) + 1])
  /\ UNCHANGED <<demo, tty, globvar>>

Step(p) ==
  \/ p = "main" /\ (Write \/ BeforeFork \/ Fork \/ ForkFails \/ Wait)
  \/ p = "child" /\ (Count \/ End)
  \/ PrintVars(p) \/ Return(p)

Next == \E p \in Procs : Step(p)

Fairness == \A p \in Procs : WF_vars(Step(p))

-----------------------------------------------------------------------------
TypeOK ==
  /\ at \in [Procs -> {"write", "before_fork", "fork", "wait", "count", "print",
                       "return", "end"} \union Gone]
  /\ tty \in BOOLEAN /\ buf \in [Procs -> 0 .. 4] /\ globvar \in [Procs -> 6 .. 7]
  /\ out \in Nat /\ printed \in Nat /\ Len(statuses) <= 3

(* On a terminal every line comes once.  In a file the child of 8.3        *)
(* repeats "before fork"; the child of 8.4, which ends with _exit, nothing *)
(* and the third child of 8.6 what pr_exit has printed of the others.      *)
Repeated == out - printed
Inv ==
  /\ TypeOK
  /\ tty => Repeated = 0
  /\ Finished /\ ~tty =>
       /\ demo = "8.3" => Repeated = IF printed = 4 THEN 1 ELSE 0
       /\ demo = "8.4" => Repeated = 0
       /\ demo = "8.6" => Repeated \in <<{0}, {0}, {0, 1}, {2, 3}>>[Len(statuses) + 1]
  /\ demo = "8.3" => globvar["main"] = 6

BothEnd == <>Finished
=============================================================================
