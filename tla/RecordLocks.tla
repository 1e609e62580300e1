----------------------------- MODULE RecordLocks -----------------------------
(***************************************************************************)
(* chapter_14/14.3.c and 14.3.2.c: fcntl record locks of a parent and its  *)
(* child, ordered with the TELL/WAIT of TellWait.  14.3 drives the two     *)
(* into a deadlock on two bytes, which the kernel breaks by failing one    *)
(* request; in 14.3.2 the child asks, without blocking, for a read lock on *)
(* a file the parent has write-locked.  The kernel's lock table is         *)
(* external; the order in which the programs use it is what is modelled.   *)
(***************************************************************************)
EXTENDS TellWait

VARIABLES
  program,   \* which of the two programs runs
  owner,     \* owner[b]: the process that holds a lock on byte b, or Nobody
  waitsFor   \* waitsFor[p]: the byte p sleeps on in F_SETLKW, or NoByte

vars == <<syncvars, program, owner, waitsFor>>

Deadlock == "14.3"
Mandatory == "14.3.2"
Programs == {Deadlock, Mandatory}
Bytes == {0, 1}
Nobody == "nobody"
NoByte == 2
Labels == {"fork", "first", "second", "tell", "wait", "blocked", "write_lock",
           "read_lock", "read", "waitpid", "exit"}

\* Mutant: both begin with byte 0.
FirstByteSame(p) == 0

(* 14.3: the child locks byte 0, then byte 1; the parent the other way     *)
(* round.                                                                  *)
FirstByte(p) == IF p = Child THEN 0 ELSE 1
SecondByte(p) == 1 - FirstByte(p)

Init ==
  /\ program \in Programs
  /\ InitSync("signal1")
  /\ owner = [b \in Bytes |-> Nobody]
  /\ waitsFor = [p \in Procs |-> NoByte]

-----------------------------------------------------------------------------
(* The kernel's lock table. *)

Take(p, bytes) ==
  owner' = [b \in Bytes |-> IF b \in bytes THEN p ELSE owner[b]]

(* exit releases every lock of the process. *)
Release(p) ==
  owner' = [b \in Bytes |-> IF owner[b] = p THEN Nobody ELSE owner[b]]

(* p would wait for a process that waits for p. *)
WouldDeadlock(p, b) ==
  LET q == owner[b] IN
    q # Nobody /\ waitsFor[q] # NoByte /\ owner[waitsFor[q]] = p

(* writew_lock, F_SETLKW: takes the lock, sleeps, or fails with EDEADLK.   *)
(* A failure is err_sys: the process exits.                                *)
Lockw(p, b, label) ==
  \/ /\ owner[b] \in {Nobody, p}
     /\ Take(p, {b})
     /\ Goto(p, label)
     /\ UNCHANGED waitsFor
  \/ /\ owner[b] = Peer(p) /\ ~WouldDeadlock(p, b)
     /\ waitsFor' = [waitsFor EXCEPT ![p] = b]
     /\ Goto(p, "blocked")
     /\ UNCHANGED owner
  \/ /\ owner[b] = Peer(p) /\ WouldDeadlock(p, b)
     /\ Release(p)
     /\ Goto(p, "failed")
     /\ UNCHANGED waitsFor

-----------------------------------------------------------------------------
(* fork() and what the processes have in common. *)

Start ==
  /\ IF program = Deadlock THEN Fork("first", "first")
                           ELSE Fork("write_lock", "wait")
  /\ UNCHANGED <<program, owner, waitsFor>>

StartFails == ForkFails /\ UNCHANGED <<program, owner, waitsFor>>

(* The next statement after WAIT depends on the program. *)
AfterWait == IF program = Deadlock THEN "second" ELSE "read_lock"
AfterTell == IF program = Deadlock THEN "wait" ELSE "waitpid"

Tell(p) ==
  /\ pc[p] = "tell"
  /\ IF p = Parent THEN TELL_CHILD(AfterTell) ELSE TELL_PARENT("wait")
  /\ UNCHANGED <<program, owner, waitsFor>>

\* Mutant: nobody waits.
NoWait(p) ==
  /\ Move(p, "wait", AfterWait)
  /\ UNCHANGED <<program, owner, waitsFor>>

Wait(p) ==
  /\ pc[p] = "wait"
  /\ IF p = Parent THEN WAIT_CHILD("second") ELSE WAIT_PARENT(AfterWait)
  /\ UNCHANGED <<sigvars, program, owner, waitsFor>>

Exit(p) ==
  Move(p, "exit", "exited") /\ Release(p) /\ UNCHANGED <<program, waitsFor>>

Library(p) == LibraryStep(p) /\ UNCHANGED <<program, owner, waitsFor>>

-----------------------------------------------------------------------------
(* 14.3: main takes the first byte, tells and waits, takes the second. *)

LockByte(p) ==
  /\ \/ pc[p] = "first" /\ Lockw(p, FirstByte(p), "tell")
     \/ pc[p] = "second" /\ Lockw(p, SecondByte(p), "exit")
  /\ UNCHANGED <<ret, sigvars, program>>

(* The lock p sleeps for has become free. *)
Granted(p) ==
  /\ Move(p, "blocked", "exit")
  /\ owner[waitsFor[p]] = Nobody
  /\ Take(p, {waitsFor[p]})
  /\ waitsFor' = [waitsFor EXCEPT ![p] = NoByte]
  /\ UNCHANGED program

-----------------------------------------------------------------------------
(* 14.3.2: the lock covers the whole file.  write_lock may fail for want   *)
(* of a lock record (err_sys), and read_lock != -1 is err_sys; the read is *)
(* refused or not, and the child exits either way.                         *)

WriteLock ==
  /\ \/ Move(Parent, "write_lock", "tell") /\ Take(Parent, Bytes)
     \/ Move(Parent, "write_lock", "failed") /\ Release(Parent)
  /\ UNCHANGED <<program, waitsFor>>

ReadLock ==
  /\ Move(Child, "read_lock",
          IF \E b \in Bytes : owner[b] = Parent THEN "read" ELSE "failed")
  /\ UNCHANGED <<program, owner, waitsFor>>

Read == Move(Child, "read", "exit") /\ UNCHANGED <<program, owner, waitsFor>>

\* Mutant: waitpid does not wait.
WaitpidNoHang ==
  Move(Parent, "waitpid", "exit") /\ UNCHANGED <<program, owner, waitsFor>>

Waitpid ==
  /\ Move(Parent, "waitpid", "exit")
  /\ pc[Child] \in Gone
  /\ UNCHANGED <<program, owner, waitsFor>>

-----------------------------------------------------------------------------
Step(p) ==
  \/ Tell(p) \/ Wait(p) \/ Exit(p) \/ LockByte(p)
  \/ Granted(p) \/ Library(p)

ParentStep == Start \/ StartFails \/ WriteLock \/ Waitpid
ChildStep == ReadLock \/ Read

Next == ParentStep \/ ChildStep \/ \E p \in Procs : Step(p)

Spec == Init /\ [][Next]_vars

-----------------------------------------------------------------------------
TypeOK ==
  /\ SyncTypeOK(Labels)
  /\ program \in Programs
  /\ owner \in [Bytes -> Procs \union {Nobody}]
  /\ waitsFor \in [Procs -> Bytes \union {NoByte}]
  /\ \A p \in Procs : waitsFor[p] # NoByte <=> pc[p] = "blocked"

(* 14.3: TELL and WAIT make sure that both processes hold their first byte *)
(* when one asks for its second, so it gets that byte only after the other *)
(* process is gone.                                                        *)
SecondAfterPeerGone ==
  [][\A p \in Procs :
       program = Deadlock /\ owner[SecondByte(p)] # p
         /\ owner'[SecondByte(p)] = p
         => pc[Peer(p)] \in Gone]_vars

(* 14.3: the deadlock always happens and always ends: one process fails    *)
(* and the other one, granted its second byte, exits.                      *)
DeadlockIsBroken ==
  program = Deadlock =>
    <>( \/ pc[Parent] = "failed" /\ pc[Child] = "unborn"
        \/ \E p \in Procs : pc[p] = "failed" /\ pc[Peer(p)] = "exited" )

(* 14.3.2.c:60-63: read_lock is refused, the err_sys is never reached: the *)
(* parent keeps its lock until waitpid has collected the child.            *)
ReadLockRefused ==
  program = Mandatory =>
    /\ pc[Child] # "failed"
    /\ pc[Child] \in {"read_lock", "read", "exit"} =>
         \A b \in Bytes : owner[b] = Parent

(* The state is well typed, and read_lock is refused. *)
Inv == TypeOK /\ ReadLockRefused

(* 14.3.2: both processes have exited, or the parent failed before it told *)
(* the child, which then waits forever.                                    *)
BothEndOrChildWaits ==
  \/ \A p \in Procs : pc[p] = "exited"
  \/ pc[Parent] = "failed" /\ pc[Child] \in {"unborn", "asleep"}
=============================================================================
