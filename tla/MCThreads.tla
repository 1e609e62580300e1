------------------------------ MODULE MCThreads ------------------------------
(***************************************************************************)
(* The threaded programs of chapters 11 to 13, and 8.16, two processes     *)
(* with a clock, for TLC: SigwaitQuit, BarrierSort, Timeout, AtFork,       *)
(* DaemonThread and NiceLoop.  Init chooses one; the variables of the      *)
(* others stay as they are.                                                *)
(***************************************************************************)
EXTENDS SigwaitQuit

CONSTANTS SECTONSEC, Delay, MaxClock, MaxSent, MaxLag, NTHR, TNUM, Numbers
VARIABLES
  program,
  tmain, helper, owner, depth, clock, when, to_wait, wake, ran,
  at, locked,
  dmain, waiter, arrived, total, rereads, ended,
  started, now, end, running, lag, printed,
  pc, i, nums, snums, idx, sidx
timevars == <<tmain, helper, owner, depth, clock, when, to_wait, wake, ran>>
forkvars == <<at, locked>>
daemonvars == <<dmain, waiter, arrived, total, rereads, ended>>
nicevars == <<started, now, end, running, lag, printed>>
sortvars == <<pc, i, nums, snums, idx, sidx>>
mcvars == <<program, vars, timevars, forkvars, daemonvars, nicevars, sortvars>>

T == INSTANCE Timeout WITH main <- tmain
A == INSTANCE AtFork
D == INSTANCE DaemonThread
N == INSTANCE NiceLoop
B == INSTANCE BarrierSort

ASSUME ClockBounds == T!Bounds /\ D!Bounds /\ N!Bounds
ASSUME SortBounds == B!Bounds

MCInit ==
  /\ program \in {"8.16", "11.6.8", "12.4", "12.8", "12.9", "13.6"}
  /\ Init /\ T!Init /\ A!Init /\ D!Init /\ N!Init /\ B!Init
  /\ (program # "12.4" => clock = 0) /\ (program # "8.16" => now = 0)
  /\ (program # "11.6.8" => \A j, k \in B!Index : nums[j] = nums[k])

QuitStep == Next /\ UNCHANGED <<timevars, forkvars, daemonvars, nicevars, sortvars>>
RetryStep == T!Next /\ UNCHANGED <<vars, forkvars, daemonvars, nicevars, sortvars>>
ForkStep == A!Next /\ UNCHANGED <<vars, timevars, daemonvars, nicevars, sortvars>>
DaemonStep == D!Next /\ UNCHANGED <<vars, timevars, forkvars, nicevars, sortvars>>
NiceStep == N!Next /\ UNCHANGED <<vars, timevars, forkvars, daemonvars, sortvars>>
SortStep == B!Next /\ UNCHANGED <<vars, timevars, forkvars, daemonvars, nicevars>>

MCNext ==
  /\ \/ program = "12.8" /\ QuitStep
     \/ program = "12.4" /\ RetryStep
     \/ program = "12.9" /\ ForkStep
     \/ program = "13.6" /\ DaemonStep
     \/ program = "8.16" /\ NiceStep
     \/ program = "11.6.8" /\ SortStep
  /\ UNCHANGED program

(* Every thread and process runs; 12.8's as in SigwaitQuit. *)
MCFairness ==
  /\ WF_vars(program = "12.8" /\ Main) /\ WF_vars(program = "12.8" /\ Thread)
  /\ WF_vars(program = "12.8" /\ Killed) /\ SF_vars(program = "12.8" /\ ThrLock)
  /\ WF_timevars(program = "12.4" /\ T!MainStep)
  /\ WF_forkvars(program = "12.9" /\ A!Next)
  /\ WF_daemonvars(program = "13.6" /\ D!MainStep)
  /\ WF_nicevars(program = "8.16" /\ N!Fork)
  /\ WF_nicevars(program = "8.16" /\ N!Tick)
  /\ \A p \in N!Procs : WF_nicevars(program = "8.16" /\ N!Checktime(p))
  /\ WF_sortvars(program = "11.6.8" /\ B!MainStep)
  /\ \A w \in B!Workers : WF_sortvars(program = "11.6.8" /\ B!thr_fn(w))

MCSpec == MCInit /\ [][MCNext]_mcvars /\ MCFairness

(* In 12.4 retry is not early and takes the mutex alone; in 12.9 fork      *)
(* leaves no lock behind; in 13.6 no signal kills a daemon that waits; in  *)
(* 8.16 nobody stops counting early, and one who goes on too long was away *)
(* while checktime could see it.                                           *)
ThreadsInv == T!Inv /\ A!Inv /\ D!Inv /\ N!Inv

(* In 11.6.8 the barrier keeps main out of nums until the last thread has  *)
(* sorted, and holds every thread until main has come; what merge() puts   *)
(* into snums is at every moment in order and counted right.               *)
BarrierInv == B!Inv

(* 11.6.8 ends with the numbers sorted, unless a thread cannot be created. *)
EndsSorted == program = "11.6.8" => B!EndsSorted

(* 12.4, 12.9 and 13.6 end, signal or no signal: main of 12.4 although it  *)
(* may call retry with the mutex held, both processes of 12.9 although     *)
(* their locks were held in fork, and 13.6, a daemon, because main exits.  *)
(* So do both processes of 8.16, unless they can miss the time to stop.    *)
ThreadsEnd ==
  /\ program = "12.4" => <>(tmain = "exited")
  /\ program = "12.9" => <>(\A p \in A!Procs : at[p] \in {"exited", "none"})
  /\ program = "13.6" => <>(ended # "no")
  /\ program = "8.16" => N!NiceEnds
=============================================================================
