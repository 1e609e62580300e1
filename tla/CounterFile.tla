----------------------------- MODULE CounterFile -----------------------------
(***************************************************************************)
(* chapter_10/p6.c: parent and child write, in turn, increasing numbers to *)
(* a file.  Each round of each process begins with TELL_WAIT, so the first *)
(* TELL_WAIT of each process runs after fork.                              *)
(***************************************************************************)
EXTENDS TellWait

CONSTANT Limit           \* the loops run while cur < Limit (1000 in the code)

VARIABLES
  file,      \* the numbers in p6.txt: one, or none while it is truncated
  cur        \* cur[p]: the next number p writes

vars == <<syncvars, file, cur>>

Labels == {"fork", "loop", "wait", "fopen", "fclose", "tell", "next"}

(* main has written 0 before it forks. *)
Init ==
  /\ InitSync("fork")
  /\ file = {0}
  /\ cur = [p \in Procs |-> IF p = Child THEN 1 ELSE 2]

Start == Fork("loop", "loop") /\ UNCHANGED <<file, cur>>
StartFails == ForkFails /\ UNCHANGED <<file, cur>>

\* Mutant: cur <= Limit
LoopInclusive(p) ==
  /\ pc[p] = "loop"
  /\ IF cur[p] <= Limit
       THEN TELL_WAIT(p, IF p = Child THEN "fopen" ELSE "wait")
       ELSE Goto(p, "exited") /\ UNCHANGED ret
  /\ UNCHANGED <<sigvars, file, cur>>

(* The loop test and TELL_WAIT.  Then the child writes, the parent waits. *)
Loop(p) ==
  /\ pc[p] = "loop"
  /\ IF cur[p] < Limit
       THEN TELL_WAIT(p, IF p = Child THEN "fopen" ELSE "wait")
       ELSE Goto(p, "exited") /\ UNCHANGED ret
  /\ UNCHANGED <<sigvars, file, cur>>

\* Mutant: nobody waits.
NoWait(p) ==
  /\ Move(p, "wait", IF p = Child THEN "next" ELSE "fopen")
  /\ UNCHANGED <<file, cur>>

(* The parent waits before it writes, the child after it has told. *)
Wait(p) ==
  /\ pc[p] = "wait"
  /\ IF p = Child THEN WAIT_PARENT("next") ELSE WAIT_CHILD("fopen")
  /\ UNCHANGED <<sigvars, file, cur>>

(* writenum(): fopen truncates, the number reaches the file in fclose. *)
writenum(p) ==
  /\ \/ Move(p, "fopen", "fclose") /\ file' = {}
     \/ Move(p, "fclose", "tell") /\ file' = {cur[p]}
  /\ UNCHANGED cur

Tell(p) ==
  /\ pc[p] = "tell"
  /\ IF p = Child THEN TELL_PARENT("wait") ELSE TELL_CHILD("next")
  /\ UNCHANGED <<file, cur>>

(* cur += 2 *)
Increment(p) ==
  /\ Move(p, "next", "loop")
  /\ cur' = [cur EXCEPT ![p] = @ + 2]
  /\ UNCHANGED file

(* p6.c has its own copy of the library. *)
Library(p) == LibraryStep(p) /\ UNCHANGED <<file, cur>>

Step(p) ==
  Loop(p) \/ Wait(p) \/ writenum(p) \/ Tell(p) \/ Increment(p) \/ Library(p)

Next == Start \/ StartFails \/ \E p \in Procs : Step(p)

Spec == Init /\ [][Next]_vars

(* The kernel runs every process that can run and delivers every signal. *)
Fairness ==
  /\ WF_vars(Start \/ StartFails)
  /\ \A p \in Procs : WF_vars(Step(p))

FairSpec == Spec /\ Fairness

-----------------------------------------------------------------------------
TypeOK ==
  /\ SyncTypeOK(Labels)
  /\ file \subseteq Nat
  /\ cur \in [Procs -> Nat]

(* The writes are the turns of Turns: one process at a time has the file   *)
(* open, the child writes the odd numbers and the parent the even ones,    *)
(* and each number follows its predecessor.                                *)
Writer == IF \E p \in Procs : pc[p] = "fclose"
            THEN CHOOSE p \in Procs : pc[p] = "fclose"
            ELSE "nobody"
T == INSTANCE Turns WITH First <- Child, Second <- Parent,
       Limit <- Limit - 1,
       count <- IF file = {} THEN cur[Writer] - 1
                               ELSE CHOOSE n \in file : TRUE,
       busy <- Writer
TakesTurns == T!Spec

(* Every WAIT comes after a TELL_WAIT in the same round, so the signals    *)
(* are blocked from the round's start to its sigsuspend: no wakeup is lost. *)
NoLostWakeup == \A p \in Procs : ~LostWakeup(p)

(* The parent's first TELL_WAIT runs after fork: until it has called       *)
(* signal(SIGUSR2), the child's first SIGUSR2 kills the parent.  No later  *)
(* signal does, and the child is never killed.                             *)
KilledOnlyInFirstRound ==
  /\ pc[Child] # "killed"
  /\ pc[Parent] = "killed" =>
       cur[Parent] = 2 /\ cur[Child] = 1 /\ USR2 \notin caught[Parent]

(* Parent and child never wait for each other: when the child can only     *)
(* wait, the parent is gone.                                               *)
WaitsOnlyForTheGone ==
  \A p \in Procs : pc[p] = "asleep" /\ pending[p] = {} =>
     \/ Alive(Peer(p)) /\ ~(pc[Peer(p)] = "asleep" /\ pending[Peer(p)] = {})
     \/ p = Child /\ pc[Parent] \in {"killed", "exited"}

(* The state is well typed, no wakeup is lost, nobody waits for a process  *)
(* that waits, and the one kill the program is exposed to is the parent's. *)
Inv == TypeOK /\ NoLostWakeup /\ KilledOnlyInFirstRound /\ WaitsOnlyForTheGone

(* The parent was killed (or fork failed) or every number is written. *)
CountedOrKilled == pc[Parent] \in {"killed", "failed"} \/ file = {Limit - 1}

(* For an even Limit the child has one round more than the parent: after   *)
(* its last write nobody is left to tell it, and it sleeps forever.        *)
ChildLeftBehind ==
  Limit % 2 = 0 => <>[](pc[Child] = "asleep" \/ pc[Parent] = "failed")

(* chapter_10/README.md:299: parent and child alternately increase the     *)
(* counter in the file; after the child's 1 comes the parent's 2.          *)
ParentFollowsChild == (file = {1}) ~> (file = {2})
=============================================================================
