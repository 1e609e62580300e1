------------------------------ MODULE TellWait ------------------------------
(***************************************************************************)
(* Parent/child synchronisation with signals: chapter_10/10.16.3.c, the    *)
(* library that chapters 8, 10, 14 and 15 build on.  The module holds the  *)
(* signal state of the two processes and one action per system call or     *)
(* flag access of TELL_WAIT, TELL_x and WAIT_x.  A client module EXTENDS   *)
(* it, adds its own state and places its own labels in pc; it enters a     *)
(* library routine with Call, which remembers in ret where to continue.    *)
(***************************************************************************)
EXTENDS Naturals

VARIABLES
  pc,        \* pc[p]: the next statement of process p
  ret,       \* ret[p]: where p continues when the library routine returns
  caught,    \* caught[p]: signals whose disposition is sig_usr (else SIG_DFL)
  mask,      \* mask[p]: blocked signals
  oldmask,   \* oldmask[p]: the mask saved by TELL_WAIT (static oldmask)
  suspmask,  \* suspmask[p]: the mask sigsuspend restores when it returns
  pending,   \* pending[p]: signals generated for p and not yet delivered
  sigflag    \* sigflag[p]: static volatile sigflag, 0 or 1

sigvars == <<caught, mask, oldmask, suspmask, pending, sigflag>>
syncvars == <<pc, ret, caught, mask, oldmask, suspmask, pending, sigflag>>

Parent == "parent"
Child == "child"
Procs == {Parent, Child}
Peer(p) == IF p = Parent THEN Child ELSE Parent

USR1 == "SIGUSR1"      \* parent to child
USR2 == "SIGUSR2"      \* child to parent
newmask == {USR1, USR2}
zeromask == {}

\* "unborn": not forked yet.  "exited", "failed" (after err_sys or err_quit)
\* and "killed" (by a signal) are the three ways to be gone.
Gone == {"exited", "failed", "killed"}
LibraryLabels ==
  {"signal1", "signal2", "block", "check", "suspend", "asleep", "clear",
   "restore", "unblocked"}

Alive(p) == pc[p] \notin Gone \union {"unborn"}

Goto(p, label) == pc' = [pc EXCEPT ![p] = label]

Call(p, routine, label) ==
  /\ Goto(p, routine)
  /\ ret' = [ret EXCEPT ![p] = label]

Return(p) == Goto(p, ret[p])

\* A statement of a client that does not touch the signal state.
Move(p, here, there) ==
  /\ pc[p] = here
  /\ Goto(p, there)
  /\ UNCHANGED <<ret, sigvars>>

-----------------------------------------------------------------------------
(* The process as exec left it, before main's first statement. *)

InitSync(start) ==
  /\ pc = [p \in Procs |-> IF p = Parent THEN start ELSE "unborn"]
  /\ ret = [p \in Procs |-> "fork"]
  /\ caught = [p \in Procs |-> {}]
  /\ mask = [p \in Procs |-> {}]
  /\ oldmask = [p \in Procs |-> {}]
  /\ suspmask = [p \in Procs |-> {}]
  /\ pending = [p \in Procs |-> {}]
  /\ sigflag = [p \in Procs |-> 0]

(* fork(): the child inherits dispositions, mask and memory, but no pending *)
(* signal.                                                                  *)
Fork(parentNext, childNext) ==
  /\ pc[Parent] = "fork"
  /\ pc' = [p \in Procs |-> IF p = Parent THEN parentNext ELSE childNext]
  /\ caught' = [p \in Procs |-> caught[Parent]]
  /\ mask' = [p \in Procs |-> mask[Parent]]
  /\ oldmask' = [p \in Procs |-> oldmask[Parent]]
  /\ sigflag' = [p \in Procs |-> sigflag[Parent]]
  /\ UNCHANGED <<ret, suspmask, pending>>

(* fork() < 0: err_sys. *)
ForkFails == Move(Parent, "fork", "failed")

-----------------------------------------------------------------------------
(* TELL_WAIT: two signal() calls, then SIG_BLOCK with the old mask saved. *)

Catch(p, signo, here, there) ==
  /\ pc[p] = here
  /\ caught' = [caught EXCEPT ![p] = @ \union {signo}]
  /\ Goto(p, there)
  /\ UNCHANGED <<ret, mask, oldmask, suspmask, pending, sigflag>>

\* Mutant: TELL_WAIT forgets SIG_BLOCK.
NoBlock(p) ==
  /\ pc[p] = "block"
  /\ oldmask' = [oldmask EXCEPT ![p] = mask[p]]
  /\ Return(p)
  /\ UNCHANGED <<ret, caught, mask, suspmask, pending, sigflag>>

Block(p) ==
  /\ pc[p] = "block"
  /\ oldmask' = [oldmask EXCEPT ![p] = mask[p]]
  /\ mask' = [mask EXCEPT ![p] = @ \union newmask]
  /\ Return(p)
  /\ UNCHANGED <<ret, caught, suspmask, pending, sigflag>>

InTellWait(p) ==
  \/ Catch(p, USR1, "signal1", "signal2")
  \/ Catch(p, USR2, "signal2", "block")
  \/ Block(p)

-----------------------------------------------------------------------------
(* TELL_x: kill().  Its result is ignored, so a target that is gone (a     *)
(* zombie child, or for getppid() a parent that has exited) means no       *)
(* effect.                                                                 *)

Kill(q, signo) ==
  pending' = IF Alive(q) THEN [pending EXCEPT ![q] = @ \union {signo}]
                         ELSE pending

\* Mutants: the call of kill is forgotten; it signals the process group.
TELL_CHILDSilent(label) == Goto(Parent, label) /\ UNCHANGED <<ret, sigvars>>
TELL_CHILDGroup(label) ==
  /\ pending' = [p \in Procs |-> IF Alive(p) THEN pending[p] \union {USR1}
                                             ELSE pending[p]]
  /\ Goto(Parent, label)
  /\ UNCHANGED <<ret, caught, mask, oldmask, suspmask, sigflag>>

TELL_CHILD(label) ==
  /\ Kill(Child, USR1)
  /\ Goto(Parent, label)
  /\ UNCHANGED <<ret, caught, mask, oldmask, suspmask, sigflag>>

TELL_PARENT(label) ==
  /\ Kill(Parent, USR2)
  /\ Goto(Child, label)
  /\ UNCHANGED <<ret, caught, mask, oldmask, suspmask, sigflag>>

-----------------------------------------------------------------------------
(* WAIT_x: the flag is tested, sigsuspend is entered, the flag is cleared  *)
(* and the saved mask restored, each in a step of its own.                 *)

CheckFlag(p) ==
  Move(p, "check", IF sigflag[p] = 0 THEN "suspend" ELSE "clear")

(* sigsuspend(&zeromask): replaces the mask and sleeps, atomically. *)
Suspend(p) ==
  /\ pc[p] = "suspend"
  /\ suspmask' = [suspmask EXCEPT ![p] = mask[p]]
  /\ mask' = [mask EXCEPT ![p] = zeromask]
  /\ Goto(p, "asleep")
  /\ UNCHANGED <<ret, caught, oldmask, pending, sigflag>>

\* Mutant: sigflag = 0 is forgotten.
ClearNothing(p) == Move(p, "clear", "restore")

ClearFlag(p) ==
  /\ pc[p] = "clear"
  /\ sigflag' = [sigflag EXCEPT ![p] = 0]
  /\ Goto(p, "restore")
  /\ UNCHANGED <<ret, caught, mask, oldmask, suspmask, pending>>

RestoreMask(p) ==
  /\ pc[p] = "restore"
  /\ mask' = [mask EXCEPT ![p] = oldmask[p]]
  /\ Goto(p, "unblocked")
  /\ UNCHANGED <<ret, caught, oldmask, suspmask, pending, sigflag>>

(* sigprocmask returns only after a pending signal it unblocked has been   *)
(* delivered.                                                              *)
Unblocked(p) ==
  pending[p] \subseteq mask[p] /\ Move(p, "unblocked", ret[p])

-----------------------------------------------------------------------------
(* The kernel delivers a pending, unblocked signal between any two         *)
(* statements of the process.                                              *)

Deliverable(p, s) == Alive(p) /\ s \in pending[p] \ mask[p]

(* SIG_DFL: the process is terminated. *)
Terminate(p) == \E s \in newmask :
  /\ Deliverable(p, s)
  /\ s \notin caught[p]
  /\ Goto(p, "killed")
  /\ pending' = [pending EXCEPT ![p] = {}]
  /\ UNCHANGED <<ret, caught, mask, oldmask, suspmask, sigflag>>

\* Mutant: signal() resets the disposition when the handler runs.
sig_usr_once(p) == \E s \in newmask :
  /\ Deliverable(p, s)
  /\ s \in caught[p]
  /\ sigflag' = [sigflag EXCEPT ![p] = 1]
  /\ pending' = [pending EXCEPT ![p] = @ \ {s}]
  /\ caught' = [caught EXCEPT ![p] = @ \ {s}]
  /\ UNCHANGED <<ret, oldmask, suspmask>>

(* sig_usr runs, either between two statements or in sigsuspend, which     *)
(* then restores the mask and returns.                                     *)
sig_usr(p) == \E s \in newmask :
  /\ Deliverable(p, s)
  /\ s \in caught[p]
  /\ sigflag' = [sigflag EXCEPT ![p] = 1]
  /\ pending' = [pending EXCEPT ![p] = @ \ {s}]
  /\ UNCHANGED <<ret, caught, oldmask, suspmask>>

Interrupt(p) ==
  /\ pc[p] # "asleep"
  /\ sig_usr(p)
  /\ UNCHANGED <<pc, mask>>

WakeUp(p) ==
  /\ pc[p] = "asleep"
  /\ sig_usr(p)
  /\ mask' = [mask EXCEPT ![p] = suspmask[p]]
  /\ Goto(p, "check")

-----------------------------------------------------------------------------
(* The routines as the clients call them, and the steps p takes in them. *)

TELL_WAIT(p, label) == Call(p, "signal1", label)
WAIT_PARENT(label) == Call(Child, "check", label)
WAIT_CHILD(label) == Call(Parent, "check", label)

InWait(p) ==
  CheckFlag(p) \/ Suspend(p) \/ ClearFlag(p) \/ RestoreMask(p) \/ Unblocked(p)
Delivery(p) == Terminate(p) \/ Interrupt(p) \/ WakeUp(p)
LibraryStep(p) == InTellWait(p) \/ InWait(p) \/ Delivery(p)

-----------------------------------------------------------------------------
(* p sleeps in sigsuspend although the signal it waits for has already set *)
(* the flag: the wakeup is lost.                                           *)
LostWakeup(p) == pc[p] = "asleep" /\ sigflag[p] = 1

SyncTypeOK(labels) ==
  /\ pc \in [Procs -> labels \union LibraryLabels \union Gone \union {"unborn"}]
  /\ ret \in [Procs -> labels]
  /\ caught \in [Procs -> SUBSET newmask]
  /\ mask \in [Procs -> SUBSET newmask]
  /\ oldmask \in [Procs -> SUBSET newmask]
  /\ suspmask \in [Procs -> SUBSET newmask]
  /\ pending \in [Procs -> SUBSET newmask]
  /\ sigflag \in [Procs -> {0, 1}]
=============================================================================
