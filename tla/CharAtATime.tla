----------------------------- MODULE CharAtATime -----------------------------
(***************************************************************************)
(* chapter_08/8.9.c, 8.9.2.c and 8.9.3.c: parent and child each write a    *)
(* string to an unbuffered stdout one character at a time.  8.9 does not   *)
(* synchronise them; in 8.9.2 the parent goes first and in 8.9.3 the child *)
(* does, with the TELL_WAIT of TellWait before fork.                       *)
(***************************************************************************)
EXTENDS TellWait

CONSTANTS
  ParentLen,  \* length of the parent's string (19 in the code)
  ChildLen    \* length of the child's string (18 in the code)

VARIABLES
  program,    \* which of the three programs runs
  written     \* written[p]: characters p has put out

vars == <<syncvars, program, written>>

Unsynchronised == "8.9"
ParentFirst == "8.9.2"
ChildFirst == "8.9.3"
Programs == {Unsynchronised, ParentFirst, ChildFirst}
Labels == {"fork", "main", "putc", "tell"}

Len(p) == IF p = Parent THEN ParentLen ELSE ChildLen
GoesFirst(p) == program = (IF p = Parent THEN ParentFirst ELSE ChildFirst)

Init ==
  /\ program \in Programs
  /\ InitSync(IF program = Unsynchronised THEN "fork" ELSE "signal1")
  /\ written = [p \in Procs |-> 0]

Start == Fork("main", "main") /\ UNCHANGED <<program, written>>
StartFails == ForkFails /\ UNCHANGED <<program, written>>

(* The process that goes second waits before it writes. *)
Main(p) ==
  /\ pc[p] = "main"
  /\ IF program = Unsynchronised \/ GoesFirst(p)
       THEN Goto(p, "putc") /\ UNCHANGED ret
       ELSE IF p = Child THEN WAIT_PARENT("putc") ELSE WAIT_CHILD("putc")
  /\ UNCHANGED <<sigvars, program, written>>

(* charatatime: one write() per character, since stdout is unbuffered. *)
Putc(p) ==
  /\ pc[p] = "putc"
  /\ written[p] < Len(p)
  /\ written' = [written EXCEPT ![p] = @ + 1]
  /\ UNCHANGED <<syncvars, program>>

(* The terminating null: the process that goes first tells the other one,  *)
(* the others exit.                                                        *)
Finish(p) ==
  /\ written[p] = Len(p)
  /\ Move(p, "putc", IF GoesFirst(p) THEN "tell" ELSE "exited")
  /\ UNCHANGED <<program, written>>

Tell(p) ==
  /\ pc[p] = "tell"
  /\ IF p = Parent THEN TELL_CHILD("exited") ELSE TELL_PARENT("exited")
  /\ UNCHANGED <<program, written>>

Library(p) == LibraryStep(p) /\ UNCHANGED <<program, written>>

Step(p) == Main(p) \/ Putc(p) \/ Finish(p) \/ Tell(p) \/ Library(p)

Next == Start \/ StartFails \/ \E p \in Procs : Step(p)

Spec == Init /\ [][Next]_vars

-----------------------------------------------------------------------------
TypeOK ==
  /\ SyncTypeOK(Labels)
  /\ program \in Programs
  /\ \A p \in Procs : written[p] \in 0 .. Len(p)

(* The outputs do not mix: the process that goes second writes nothing     *)
(* before the first one has written its whole string.                      *)
OneAfterTheOther ==
  \A p \in Procs :
    GoesFirst(p) /\ written[Peer(p)] > 0 => written[p] = Len(p)

(* A message is never lost: the second process waits only for a signal     *)
(* that is still to be sent or to be delivered, and nobody is killed by it *)
(* although the signal may come before the WAIT.                           *)
WaitIsAnswered ==
  \A p \in Procs :
    /\ pc[p] # "killed"
    /\ pc[p] = "asleep" =>
         /\ sigflag[p] = 0
         /\ \/ pending[p] # {}
            \/ Alive(Peer(p)) /\ pc[Peer(p)] # "asleep"

(* The state is well typed, the outputs do not mix, and no TELL is lost or *)
(* fatal.                                                                  *)
Inv == TypeOK /\ OneAfterTheOther /\ WaitIsAnswered

(* Both strings are written completely and both processes have exited. *)
AllOutput ==
  \/ pc[Parent] = "failed"
  \/ \A p \in Procs : written[p] = Len(p) /\ pc[p] = "exited"
=============================================================================
