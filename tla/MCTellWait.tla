----------------------------- MODULE MCTellWait -----------------------------
(***************************************************************************)
(* The programs of RecordLocks, of CharAtATime and of CounterFile for TLC. *)
(* Init chooses one of the six; the variables of the others stay as they   *)
(* are.                                                                    *)
(***************************************************************************)
EXTENDS RecordLocks

CONSTANTS ParentLen, ChildLen, Limit
ASSUME Lengths == ParentLen \in Nat /\ ChildLen \in Nat /\ Limit \in Nat

VARIABLES written, file, cur
C == INSTANCE CharAtATime
F == INSTANCE CounterFile
p6 == "p6"

NoLocks == owner = [b \in Bytes |-> Nobody] /\ waitsFor = [p \in Procs |-> NoByte]
NoOutput == written = [p \in Procs |-> 0]
NoFile == file = {0} /\ cur = [p \in Procs |-> 0]

MCInit ==
  \/ Init /\ NoOutput /\ NoFile
  \/ C!Init /\ NoLocks /\ NoFile
  \/ program = p6 /\ F!Init /\ NoLocks /\ NoOutput

LockStep == program \in Programs /\ Next /\ UNCHANGED <<written, file, cur>>
CharStep == program \in C!Programs /\ C!Next /\ UNCHANGED <<owner, waitsFor, file, cur>>
FileStep == program = p6 /\ F!Next /\ UNCHANGED <<program, owner, waitsFor, written>>

MCNext == LockStep \/ CharStep \/ FileStep

(* The kernel runs every process that can run and delivers every signal. *)
MCFairness ==
  /\ WF_vars(program \in Programs /\ ParentStep)
  /\ WF_vars(program \in Programs /\ ChildStep)
  /\ \A p \in Procs : WF_vars(program \in Programs /\ Step(p))
  /\ WF_<<syncvars, written>>(program \in C!Programs /\ (C!Start \/ C!StartFails))
  /\ \A p \in Procs : WF_<<syncvars, written>>(program \in C!Programs /\ C!Step(p))
  /\ WF_<<syncvars, file, cur>>(program = p6 /\ (F!Start \/ F!StartFails))
  /\ \A p \in Procs : WF_<<syncvars, file, cur>>(program = p6 /\ F!Step(p))

MCSpec == MCInit /\ [][MCNext]_<<vars, written, file, cur>> /\ MCFairness

(* In 14.3.2 the read lock is refused; in 8.9.2 and 8.9.3 the outputs do   *)
(* not mix and no TELL is lost or fatal; in p6 no wakeup is lost and only  *)
(* the parent can be killed, in its first round.                           *)
ClientsInv ==
  /\ program \in Programs => Inv
  /\ program \in C!Programs => C!Inv
  /\ program = p6 => F!Inv

(* The writes of p6 to its file are the turns of Turns. *)
TakesTurns == F!TakesTurns

(* 14.3.2: both processes exit, unless the parent fails before it tells    *)
(* the child.  8.9, 8.9.2, 8.9.3: both strings are written completely.     *)
(* p6: every number is written, unless the parent is killed.  (14.3 is in  *)
(* DeadlockIsBroken.)                                                      *)
EndsUnlessParentFails ==
  <>( \/ program = Mandatory /\ BothEndOrChildWaits
      \/ program \in C!Programs /\ C!AllOutput
      \/ program = p6 /\ F!CountedOrKilled
      \/ program = Deadlock )

(* The child of p6 is left waiting after its last write. *)
ChildLeftBehind == F!ChildLeftBehind \/ [](program # p6)
=============================================================================
