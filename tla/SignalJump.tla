----------------------------- MODULE SignalJump -----------------------------
(***************************************************************************)
(* chapter_10/10.15.c: the handler of SIGUSR1 sets an alarm, waits busily  *)
(* for longer and leaves by siglongjmp.  The handler of SIGALRM interrupts *)
(* it.  canjump keeps it from jumping before sigsetjmp, or a second time.  *)
(***************************************************************************)
EXTENDS Integers

CONSTANT MaxSent   \* bound: times SIGUSR1 is sent

VARIABLES
  pc,        \* main's next statement
  caught,    \* signals whose disposition is a handler
  sig_usr1,  \* next statement of the handler of SIGUSR1, or "idle"
  jmpbuf,    \* sigsetjmp has been called
  canjump,
  mask,      \* blocked signals
  pending,   \* signals generated and not delivered
  alarm,     \* seconds to SIGALRM, 0 if no alarm is set
  waited,    \* time(NULL) - starttime
  jumps,     \* how often siglongjmp was called
  sent       \* SIGUSR1s sent so far

vars == <<pc, caught, sig_usr1, jmpbuf, canjump, mask, pending, alarm, waited, jumps, sent>>

Final == {"done", "killed", "crashed"}
BusyFor == 5

Init ==
  /\ pc = "signal" /\ caught = {} /\ sig_usr1 = "idle"
  /\ jmpbuf = FALSE /\ canjump = 0
  /\ mask = {} /\ pending = {} /\ alarm = 0
  /\ waited = 0 /\ jumps = 0 /\ sent = 0

-----------------------------------------------------------------------------
(* main, which a handler suspends. *)
Main(here, there) ==
  /\ pc = here /\ pc' = there /\ sig_usr1 = "idle"
  /\ UNCHANGED <<sig_usr1, mask, pending, alarm, waited, jumps, sent>>

Signal ==
  /\ \/ Main("signal", "signal2") /\ caught' = {"USR1"}
     \/ Main("signal2", "sigsetjmp") /\ caught' = {"USR1", "ALRM"}
  /\ UNCHANGED <<jmpbuf, canjump>>

Sigsetjmp == Main("sigsetjmp", "canjump") /\ jmpbuf' = TRUE /\ UNCHANGED <<caught, canjump>>

SetCanjump == Main("canjump", "pause") /\ canjump' = 1 /\ UNCHANGED <<caught, jmpbuf>>

(* Behind sigsetjmp: siglongjmp returns when what its mask has unblocked   *)
(* was delivered, and main exits.                                          *)
Exit == pending \ mask = {} /\ Main("jumped", "done") /\ UNCHANGED <<caught, jmpbuf, canjump>>

(* sig_usr1. *)
Handler(here, there) ==
  /\ pc \notin Final
  /\ sig_usr1 = here /\ sig_usr1' = there
  /\ UNCHANGED <<caught, jmpbuf, sent>>

Alarm ==
  /\ Handler("alarm", "time") /\ alarm' = 3
  /\ UNCHANGED <<pc, canjump, mask, pending, waited, jumps>>

StartTime ==
  /\ Handler("time", "busy") /\ waited' = 0
  /\ UNCHANGED <<pc, canjump, mask, pending, alarm, jumps>>

(* A signal that is due comes within the seconds of the loop. *)
Busy ==
  /\ waited > BusyFor /\ pending \ mask = {}
  /\ Handler("busy", "canjump")
  /\ UNCHANGED <<pc, canjump, mask, pending, alarm, waited, jumps>>

ClearCanjump ==
  /\ Handler("canjump", "siglongjmp") /\ canjump' = 0
  /\ UNCHANGED <<pc, mask, pending, alarm, waited, jumps>>

(* sigsetjmp(jmpbuf, 1) has saved the mask of main, in which nothing is    *)
(* blocked.                                                                *)
Siglongjmp ==
  /\ Handler("siglongjmp", "idle")
  /\ pc' = IF jmpbuf THEN "jumped" ELSE "crashed"
  /\ mask' = {} /\ jumps' = jumps + 1
  /\ UNCHANGED <<canjump, pending, alarm, waited>>

Step ==
  \/ Signal \/ Sigsetjmp \/ SetCanjump \/ Exit
  \/ Alarm \/ StartTime \/ Busy \/ ClearCanjump \/ Siglongjmp

(* sig_alrm only prints; sig_usr1 returns at once while canjump is 0.      *)
Deliver(s) ==
  /\ pc \notin Final /\ s \in pending \ mask
  /\ pending' = pending \ {s}
  /\ pc' = IF s \in caught THEN pc ELSE "killed"
  /\ IF s = "USR1" /\ s \in caught /\ canjump = 1
       THEN sig_usr1' = "alarm" /\ mask' = mask \union {s}
       ELSE UNCHANGED <<sig_usr1, mask>>
  /\ UNCHANGED <<caught, jmpbuf, canjump, alarm, waited, jumps, sent>>

Tick ==
  /\ pc \notin Final
  /\ alarm > 0 \/ (sig_usr1 = "busy" /\ waited <= BusyFor)
  /\ alarm' = IF alarm > 0 THEN alarm - 1 ELSE 0
  /\ pending' = IF alarm = 1 THEN pending \union {"ALRM"} ELSE pending
  /\ waited' = IF sig_usr1 = "busy" THEN waited + 1 ELSE waited
  /\ UNCHANGED <<pc, caught, sig_usr1, jmpbuf, canjump, mask, jumps, sent>>

Send ==
  /\ pc \notin Final /\ sent < MaxSent
  /\ sent' = sent + 1 /\ pending' = pending \union {"USR1"}
  /\ UNCHANGED <<pc, caught, sig_usr1, jmpbuf, canjump, mask, alarm, waited, jumps>>

Delivery == \E s \in {"USR1", "ALRM"} : Deliver(s)

Next == Step \/ Delivery \/ Tick \/ Send

(* The process runs, signals are delivered and time passes. *)
Fairness == WF_vars(Step) /\ WF_vars(Delivery) /\ WF_vars(Tick)

-----------------------------------------------------------------------------
TypeOK ==
  /\ pc \in {"signal", "signal2", "sigsetjmp", "canjump", "pause", "jumped"} \union Final
  /\ sig_usr1 \in {"idle", "alarm", "time", "busy", "canjump", "siglongjmp"}
  /\ caught \subseteq {"USR1", "ALRM"} /\ pending \subseteq {"USR1", "ALRM"}
  /\ mask \subseteq {"USR1"} /\ jmpbuf \in BOOLEAN /\ canjump \in 0 .. 1
  /\ alarm \in 0 .. 3 /\ waited \in 0 .. BusyFor + 4
  /\ jumps \in Nat /\ sent \in 0 .. MaxSent

(* The handler jumps once at most and never without a jump buffer, however *)
(* many SIGUSR1s come and when; behind the jump nothing is blocked, and    *)
(* the alarm of the handler is neither due nor pending when main exits.    *)
Inv ==
  /\ TypeOK
  /\ jumps <= 1 /\ pc # "crashed"
  /\ sig_usr1 # "idle" => jmpbuf /\ mask = {"USR1"}
  /\ jumps = 1 => mask = {} /\ canjump = 0
  /\ pc = "done" => alarm = 0 /\ pending \subseteq {"USR1"}

(* Once canjump is set, a SIGUSR1 ends the program. *)
JumpEnds == pending = {"USR1"} /\ canjump = 1 ~> pc = "done"
=============================================================================
