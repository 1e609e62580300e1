----------------------------- MODULE MaskedWaits -----------------------------
(***************************************************************************)
(* chapter_10/10.13.c, 10.16.c and 10.16.2.c: a signal is blocked during a *)
(* critical region.  10.13 sleeps in the region and looks for a pending    *)
(* SIGQUIT, 10.16 waits for a SIGINT with sigsuspend, and 10.16.2 waits    *)
(* with sigsuspend until the handler of SIGQUIT has set quitflag.          *)
(***************************************************************************)
EXTENDS Integers, Sequences, FiniteSets

CONSTANT MaxSent   \* bound: signals sent to the process

Signals == {"INT", "QUIT", "USR1"}

VARIABLES
  program,   \* which of the programs runs
  pc,        \* its next statement
  caught,    \* signals whose disposition is the handler
  mask,      \* blocked signals
  pending,   \* signals generated and not delivered
  quitflag,  \* of 10.16.2
  reported,  \* 10.13: "SIGQUIT pending" has been printed
  sent,      \* signals sent so far
  handled    \* handled[s]: how often the handler has run for s

vars == <<program, pc, caught, mask, pending, quitflag, reported, sent, handled>>

Pending == "10.13"
Once == "10.16"
UntilQuit == "10.16.2"
Final == {"done", "killed"}

(* The signals given to signal(), in this order, and the one blocked.      *)
Handlers ==
  IF program = Pending THEN <<"QUIT">>
  ELSE IF program = Once THEN <<"INT">> ELSE <<"INT", "QUIT">>
newmask == IF program = Once THEN {"INT"} ELSE {"QUIT"}
suspendmask == IF program = Once THEN {"USR1"} ELSE {}

Init ==
  /\ program \in {Pending, Once, UntilQuit}
  /\ pc = "signal"
  /\ caught = {} /\ mask = {} /\ pending = {}
  /\ quitflag = 0
  /\ reported = FALSE
  /\ sent = 0
  /\ handled = [s \in Signals |-> 0]

-----------------------------------------------------------------------------
Move(here, there) ==
  pc = here /\ pc' = there /\ UNCHANGED <<program, pending, sent, handled>>

Signal ==
  /\ pc = "signal"
  /\ LET k == Cardinality(caught) + 1 IN
       /\ caught' = caught \union {Handlers[k]}
       /\ Move("signal", IF k = Len(Handlers) THEN "block" ELSE "signal")
  /\ UNCHANGED <<mask, quitflag, reported>>

Block ==
  /\ Move("block", IF program = Pending THEN "sleep"
                   ELSE IF program = Once THEN "suspend" ELSE "test")
  /\ mask' = newmask
  /\ UNCHANGED <<caught, quitflag, reported>>

(* 10.13: the first sleep(5), then sigpending(). *)
Sleep == Move("sleep", "sigpending") /\ UNCHANGED <<caught, mask, quitflag, reported>>

Sigpending ==
  /\ Move("sigpending", "unblock")
  /\ reported' = ("QUIT" \in pending)
  /\ UNCHANGED <<caught, mask, quitflag>>

(* 10.16.2: while (quitflag == 0), and quitflag = 0 behind the loop. *)
Test ==
  /\ Move("test", IF quitflag = 0 THEN "suspend" ELSE "unblock")
  /\ quitflag' = 0
  /\ UNCHANGED <<caught, mask, reported>>

\* Mutant: the mask is changed in one step and the process sleeps in another.
SuspendLater ==
  /\ \/ Move("suspend", "pause") /\ mask' = suspendmask
     \/ Move("pause", "suspended") /\ UNCHANGED mask
  /\ UNCHANGED <<caught, quitflag, reported>>

(* sigsuspend: one step for the mask and the sleep; it returns after a     *)
(* handler has run (or several), and restores the mask.                    *)
Suspend ==
  /\ Move("suspend", "suspended")
  /\ mask' = suspendmask
  /\ UNCHANGED <<caught, quitflag, reported>>

ReturnFromSuspend ==
  /\ Move("awake", IF program = Once THEN "unblock" ELSE "test")
  /\ mask' = newmask
  /\ UNCHANGED <<caught, quitflag, reported>>

(* sigprocmask(SIG_SETMASK, &oldmask): it returns when what it unblocks    *)
(* has been delivered.                                                     *)
Unblock ==
  /\ Move("unblock", "unblocked")
  /\ mask' = {}
  /\ UNCHANGED <<caught, quitflag, reported>>

(* exit, in 10.13 after a second sleep(5); what was unblocked comes first. *)
Exit ==
  /\ pending = {}
  /\ Move("unblocked", "done")
  /\ UNCHANGED <<caught, mask, quitflag, reported>>

Step ==
  \/ Signal \/ Block \/ Sleep \/ Sigpending \/ Test
  \/ Suspend \/ ReturnFromSuspend \/ Unblock \/ Exit

(* A signal is delivered.  sig_quit of 10.13 restores the default action,  *)
(* sig_int of 10.16.2 sets quitflag for SIGQUIT; the others only print.    *)
Deliver(s) ==
  /\ pc \notin Final /\ s \in pending \ mask
  /\ pending' = pending \ {s}
  /\ IF s \in caught
       THEN /\ pc' = IF pc = "suspended" THEN "awake" ELSE pc
            /\ caught' = IF program = Pending THEN caught \ {s} ELSE caught
            /\ quitflag' = IF program = UntilQuit /\ s = "QUIT" THEN 1 ELSE quitflag
            /\ handled' = [handled EXCEPT ![s] = @ + 1]
       ELSE pc' = "killed" /\ UNCHANGED <<caught, quitflag, handled>>
  /\ UNCHANGED <<program, mask, reported, sent>>

(* Somebody sends a signal; one that is pending already is not queued.     *)
Send(s) ==
  /\ pc \notin Final /\ sent < MaxSent
  /\ sent' = sent + 1
  /\ pending' = pending \union {s}
  /\ UNCHANGED <<program, pc, caught, mask, quitflag, reported, handled>>

Delivery == \E s \in Signals : Deliver(s)

Next == Step \/ Delivery \/ \E s \in Signals : Send(s)

Spec == Init /\ [][Next]_vars

(* The process runs and unblocked signals are delivered. *)
Fairness == WF_vars(Step) /\ \A s \in Signals : WF_vars(Deliver(s))

FairSpec == Spec /\ Fairness

-----------------------------------------------------------------------------
TypeOK ==
  /\ program \in {Pending, Once, UntilQuit}
  /\ pc \in {"signal", "block", "sleep", "sigpending", "test", "suspend", "suspended",
             "awake", "unblock", "unblocked"} \union Final
  /\ {caught, mask, pending} \subseteq SUBSET Signals
  /\ quitflag \in 0 .. 1 /\ reported \in BOOLEAN /\ sent \in 0 .. MaxSent
  /\ handled \in [Signals -> 0 .. MaxSent]

(* 10.13: a SIGQUIT that was reported as pending is caught before the next *)
(* statement, and then the default action is in force again.               *)
ReportedIsCaught ==
  program = Pending =>
    /\ reported /\ pc = "done" => handled["QUIT"] = 1
    /\ handled["QUIT"] <= 1
    /\ handled["QUIT"] = 1 /\ pc # "killed" => caught = {}

(* sigsuspend has not returned without a handler; 10.16.2 leaves its loop  *)
(* only for a SIGQUIT.                                                     *)
NoFalseWakeup ==
  pc \in {"unblock", "unblocked", "done"} =>
    /\ program = Once => handled["INT"] > 0
    /\ program = UntilQuit => handled["QUIT"] > 0

(* In the critical region the handler has not run behind main's back: main *)
(* sleeps in sigsuspend only while quitflag is 0.                          *)
NoSleepAfterQuit == program = UntilQuit /\ pc = "suspended" => quitflag = 0

(* The state is well typed and no signal is missed or made up. *)
Inv == TypeOK /\ ReportedIsCaught /\ NoFalseWakeup /\ NoSleepAfterQuit

(* A signal that the program waits for is not lost: 10.13 ends in any      *)
(* case, 10.16.2 once a SIGQUIT was sent, and 10.16 when a SIGINT is       *)
(* pending in its critical region.                                         *)
SignalEndsWait ==
  /\ program = Pending => <>(pc \in Final)
  /\ program = UntilQuit => ("QUIT" \in pending ~> pc \in Final)
  /\ program = Once => ("INT" \in pending /\ pc = "suspend" ~> pc \in Final)
=============================================================================
