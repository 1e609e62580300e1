---------------------------- MODULE SharedCounter ----------------------------
(***************************************************************************)
(* chapter_15/15.9.2.c: parent and child increment, in turn, a long in     *)
(* memory they share (mmap of /dev/zero), synchronised by TellWait.        *)
(* TELL_WAIT is called once, before fork.                                  *)
(***************************************************************************)
EXTENDS TellWait

CONSTANT NLOOPS
ASSUME NLOOPSAssumption == NLOOPS \in Nat

VARIABLES
  area,      \* the shared long
  i,         \* i[p]: p's loop variable
  counter    \* counter[p]: the value p's update() has loaded

vars == <<syncvars, area, i, counter>>

Labels == {"fork", "loop", "load", "store", "test", "tell", "wait", "next"}

Init ==
  /\ InitSync("signal1")
  /\ area = 0
  /\ i = [p \in Procs |-> IF p = Parent THEN 0 ELSE 1]
  /\ counter = [p \in Procs |-> 0]

(* fork() returns: each process is at the head of its own for loop. *)
Start == Fork("loop", "loop") /\ UNCHANGED <<area, i, counter>>
StartFails == ForkFails /\ UNCHANGED <<area, i, counter>>

(* The loop tests.  The parent updates first, the child waits first. *)
ParentLoop ==
  /\ Move(Parent, "loop", IF i[Parent] < NLOOPS THEN "load" ELSE "exited")
  /\ UNCHANGED <<area, i, counter>>

\* Mutant: the child does not wait.
ChildLoopNoWait ==
  /\ Move(Child, "loop", IF i[Child] < NLOOPS + 1 THEN "load" ELSE "exited")
  /\ UNCHANGED <<area, i, counter>>

ChildLoop ==
  /\ pc[Child] = "loop"
  /\ IF i[Child] < NLOOPS + 1
       THEN WAIT_PARENT("load")
       ELSE Goto(Child, "exited") /\ UNCHANGED ret
  /\ UNCHANGED <<sigvars, area, i, counter>>

(* update(): the increment is a load and a store. *)
Load(p) ==
  /\ Move(p, "load", "store")
  /\ counter' = [counter EXCEPT ![p] = area]
  /\ UNCHANGED <<area, i>>

Store(p) ==
  /\ Move(p, "store", "test")
  /\ area' = counter[p] + 1
  /\ UNCHANGED <<i, counter>>

(* counter != i is err_quit. *)
Test(p) ==
  /\ Move(p, "test", IF counter[p] = i[p] THEN "tell" ELSE "failed")
  /\ UNCHANGED <<area, i, counter>>

Tell(p) ==
  /\ pc[p] = "tell"
  /\ IF p = Parent THEN TELL_CHILD("wait") ELSE TELL_PARENT("next")
  /\ UNCHANGED <<area, i, counter>>

ParentWait ==
  /\ pc[Parent] = "wait"
  /\ WAIT_CHILD("next")
  /\ UNCHANGED <<sigvars, area, i, counter>>

(* i += 2 *)
Increment(p) ==
  /\ Move(p, "next", "loop")
  /\ i' = [i EXCEPT ![p] = @ + 2]
  /\ UNCHANGED <<area, counter>>

Library(p) == LibraryStep(p) /\ UNCHANGED <<area, i, counter>>

Step(p) ==
  Load(p) \/ Store(p) \/ Test(p) \/ Tell(p) \/ Increment(p) \/ Library(p)
ParentStep == Start \/ StartFails \/ ParentLoop \/ ParentWait

Next == ParentStep \/ ChildLoop \/ \E p \in Procs : Step(p)

Spec == Init /\ [][Next]_vars

(* The kernel runs every process that can run and delivers every signal. *)
Fairness ==
  /\ WF_vars(ParentStep)
  /\ WF_vars(ChildLoop)
  /\ \A p \in Procs : WF_vars(Step(p))

FairSpec == Spec /\ Fairness

-----------------------------------------------------------------------------
TypeOK ==
  /\ SyncTypeOK(Labels)
  /\ area \in Nat
  /\ i \in [Procs -> Nat]
  /\ counter \in [Procs -> Nat]

(* 15.9.2.c:29-31 and 41-43: the err_quit calls are never reached; a       *)
(* process fails only when fork does.                                      *)
ExpectedCounter ==
  \A p \in Procs : pc[p] = "failed" => p = Parent /\ pc[Child] = "unborn"

(* TELL_WAIT runs before fork, so each process has the signals blocked up  *)
(* to its first sigsuspend: that WAIT cannot lose its wakeup.  From the    *)
(* second on the signals are unblocked (oldmask was restored) and it can.  *)
FirstWaitKeepsWakeup ==
  \A p \in Procs : LostWakeup(p) => i[p] >= 2

(* The right to update is in one place only: with a process that is        *)
(* neither waiting nor finished, in a pending signal, or in a flag.        *)
Working(p) ==
  \/ pc[p] \in {"load", "store", "test", "tell", "restore", "unblocked"}
  \/ p = Parent /\ pc[p] \in {"next", "loop"}
HasBaton(p) == Working(p) \/ pending[p] # {} \/ sigflag[p] = 1
OneBaton ==
  pc[Child] # "unborn" =>
    /\ \A p \in Procs :
         /\ Working(p) => pending[p] = {} /\ sigflag[p] = 0
         /\ pending[p] # {} => sigflag[p] = 0
    /\ ~(HasBaton(Parent) /\ HasBaton(Child))
    /\ ~HasBaton(Parent) /\ ~HasBaton(Child) => pc[Parent] = "exited"

(* The updates are the turns of Turns: they never overlap, the parent has  *)
(* the even ones and the child the odd ones.                               *)
Updater == IF pc[Parent] = "store" THEN Parent
           ELSE IF pc[Child] = "store" THEN Child ELSE "nobody"
T == INSTANCE Turns WITH First <- Parent, Second <- Child,
       Limit <- 2 * ((NLOOPS + 1) \div 2), count <- area, busy <- Updater
TakesTurns == T!Spec

(* The program ends (both processes exit, all turns taken) unless a wakeup *)
(* is lost.                                                                *)
EndsUnlessLost ==
  <>( \/ pc[Parent] = "failed"
      \/ (\A p \in Procs : pc[p] = "exited") /\ area >= NLOOPS
      \/ \E p \in Procs : LostWakeup(p) )

(* A lost wakeup is final: nobody will ever signal that process again. *)
LostForever ==
  \A p \in Procs : [](LostWakeup(p) => []LostWakeup(p))

-----------------------------------------------------------------------------
(* The inductive invariant.  childNext is the child's i once a pending     *)
(* i += 2 is counted.                                                      *)
ParentWaits == {"wait", "check", "suspend", "asleep"}
childNext == IF pc[Child] = "next" THEN i[Child] + 2 ELSE i[Child]

(* Before fork nothing has happened but TELL_WAIT. *)
BeforeFork ==
  /\ pc[Child] = "unborn"
  /\ pc[Parent] \in {"signal1", "signal2", "block", "fork", "failed"}
  /\ ret[Parent] = "fork"
  /\ pc[Parent] # "signal1" => USR1 \in caught[Parent]
  /\ pc[Parent] \notin {"signal1", "signal2"} => USR2 \in caught[Parent]
  /\ \A p \in Procs : pending[p] = {} /\ sigflag[p] = 0
  /\ area = 0 /\ i[Parent] = 0 /\ i[Child] = 1

(* After fork: where each process can be. *)
Located ==
  /\ pc[Parent] \in {"loop", "load", "store", "test", "tell", "clear", "restore",
                     "unblocked", "next", "exited"} \union ParentWaits
  /\ pc[Child] \in {"loop", "load", "store", "test", "tell", "clear", "restore",
                    "unblocked", "next", "exited", "check", "suspend", "asleep"}
  /\ \A p \in Procs : caught[p] = newmask /\ (pc[p] = "clear" => sigflag[p] = 1)
  /\ pending[Parent] \subseteq {USR2} /\ pending[Child] \subseteq {USR1}
  /\ pc[Parent] \in LibraryLabels => ret[Parent] = "next"
  /\ pc[Child] \in LibraryLabels => ret[Child] = "load"
  /\ pc[Parent] \notin {"loop", "exited"} => i[Parent] < NLOOPS
  /\ pc[Parent] = "exited" => i[Parent] >= NLOOPS
  /\ pc[Child] = "exited" => i[Child] >= NLOOPS + 1
  /\ i[Parent] % 2 = 0

(* After fork: the counter, the loop variables and the baton go together. *)
Counted ==
  /\ \A p \in Procs :
       /\ pc[p] = "store" => counter[p] = area
       /\ pc[p] = "test" => counter[p] = i[p]
  /\ pc[Parent] \in {"loop", "load", "store", "exited"} =>
       area = i[Parent] /\ childNext = i[Parent] + 1
  /\ pc[Parent] \in {"test", "tell"} =>
       area = i[Parent] + 1 /\ childNext = i[Parent] + 1
  /\ HasBaton(Parent)
       /\ pc[Parent] \notin {"loop", "load", "store", "test", "tell"} =>
         area = i[Parent] + 2 /\ childNext = i[Parent] + 3
  /\ HasBaton(Child) =>
       /\ pc[Parent] \in ParentWaits
       /\ childNext = i[Parent] + 1
       /\ area = IF pc[Child] \in {"test", "tell"} THEN i[Child] + 1 ELSE childNext

(* Up to the end of its first WAIT a process has the signals blocked.      *)
FirstRound ==
  /\ pc[Parent] = "fork" => mask[Parent] = newmask
  /\ \A p \in Procs : i[p] < 2 /\ pc[Child] # "unborn" =>
       /\ pc[p] \in {"loop", "wait", "check", "suspend", "clear", "restore"}
              \union (IF p = Parent THEN {"load", "store", "test", "tell"} ELSE {})
            => mask[p] = newmask
       /\ pc[p] = "asleep" => suspmask[p] = newmask
       /\ pc[p] \in {"suspend", "asleep"} => sigflag[p] = 0

IInv ==
  /\ TypeOK /\ OneBaton /\ FirstRound
  /\ BeforeFork \/ (Located /\ Counted)
=============================================================================
