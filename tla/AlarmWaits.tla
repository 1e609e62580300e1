------------------------------ MODULE AlarmWaits ------------------------------
(***************************************************************************)
(* chapter_10/10.10.c to 10.10.5.c and chapter_16/16-19.c: six programs    *)
(* that limit a wait with alarm().  10.10 (sleep1) and 10.10.2 (sleep2)    *)
(* pause, 10.10.3 lets a slow SIGINT handler run meanwhile, 10.10.4 and    *)
(* 10.10.5 read a line, and 16-19 waits for the answer to a datagram.      *)
(* The handler of SIGALRM calls longjmp in 10.10.2, 10.10.3 and 10.10.5    *)
(* and returns in the others: 10.10.4 then restarts its read, while 16-19  *)
(* uses sigaction without SA_RESTART.                                      *)
(***************************************************************************)
EXTENDS Integers

CONSTANTS
  Seconds,   \* the argument of alarm: 3, 5 or 10 in the code
  MaxLag     \* bound: seconds that pass while the program is running code
ASSUME SecondsAssumption == Seconds \in Nat \ {0}
ASSUME MaxLagAssumption == MaxLag \in Nat

VARIABLES
  program,   \* which of the programs runs
  pc,        \* main's next statement
  env_alrm,  \* setjmp has been called and its caller has not returned
  alarm,     \* seconds to SIGALRM, 0 if no alarm is set
  pending,   \* signals generated and not delivered
  sig_int,   \* the SIGINT handler: "idle", "running", "finished", "abandoned"
  line,      \* input, a line or a datagram: "none", "there", "taken", "written"
  unslept,   \* what sleep1 or sleep2 returns
  elapsed,   \* seconds since the alarm was set
  lag,       \* seconds that passed while the program was running code
  missed     \* history: SIGALRM came between alarm() and pause() or read()

vars == <<program, pc, env_alrm, alarm, pending, sig_int, line, unslept, elapsed,
          lag, missed>>

Sleeps == {"10.10", "10.10.2", "10.10.3"}
Reads == {"10.10.4", "10.10.5", "16-19"}
Jumps == {"10.10.2", "10.10.3", "10.10.5"}
Final == {"done", "timeout", "failed", "killed", "crashed"}

Init ==
  /\ program \in Sleeps \union Reads
  /\ pc = "signal"
  /\ env_alrm = FALSE
  /\ alarm = 0
  /\ pending = {}
  /\ sig_int = "idle"
  /\ line = "none"
  /\ unslept = 0
  /\ elapsed = 0
  /\ lag = 0
  /\ missed = FALSE

-----------------------------------------------------------------------------
(* A statement of main; it waits for a handler that is running. *)
Main(here, there) ==
  /\ pc = here /\ pc' = there
  /\ sig_int # "running"
  /\ UNCHANGED <<program, pending, sig_int, lag, missed>>

(* signal() for SIGALRM and, in 10.10.3, for SIGINT.  16-19 then sends its *)
(* datagram, which may fail.                                               *)
Signal ==
  /\ \/ Main("signal", IF program \in Jumps THEN "setjmp" ELSE "alarm")
     \/ program = "16-19" /\ Main("signal", "failed")
  /\ UNCHANGED <<env_alrm, alarm, line, unslept, elapsed>>

\* Mutant: the alarm is set before setjmp (README.md:284).
SetjmpLate ==
  /\ program \in Jumps
  /\ \/ Main("setjmp", "setjmp2") /\ alarm' = Seconds /\ UNCHANGED env_alrm
     \/ Main("setjmp2", "wait") /\ env_alrm' = TRUE /\ UNCHANGED alarm
  /\ UNCHANGED <<line, unslept, elapsed>>

Setjmp ==
  /\ Main("setjmp", "alarm")
  /\ env_alrm' = TRUE
  /\ UNCHANGED <<alarm, line, unslept, elapsed>>

Alarm ==
  /\ Main("alarm", "wait")
  /\ alarm' = Seconds
  /\ elapsed' = 0
  /\ UNCHANGED <<env_alrm, line, unslept>>

(* pause(), read() or recvfrom() is called; a signal that is pending is    *)
(* delivered before the process sleeps.                                    *)
Wait ==
  /\ pending = {}
  /\ Main("wait", IF program \in Sleeps THEN "paused" ELSE "reading")
  /\ UNCHANGED <<env_alrm, alarm, line, unslept, elapsed>>

Read ==
  /\ line = "there"
  /\ Main("reading", "cancel")
  /\ line' = "taken"
  /\ UNCHANGED <<env_alrm, alarm, unslept, elapsed>>

(* An error that no signal causes.  16-19 cancels its alarm first. *)
ReadFails ==
  /\ Main("reading", "failed")
  /\ alarm' = IF program = "16-19" THEN 0 ELSE alarm
  /\ UNCHANGED <<env_alrm, line, unslept, elapsed>>

(* alarm(0).  No system call returns before pending signals are delivered. *)
Cancel ==
  /\ pending = {}
  /\ Main("cancel", IF program \in Sleeps THEN "done" ELSE "write")
  /\ alarm' = 0
  /\ unslept' = IF program \in Sleeps THEN alarm ELSE 0
  /\ env_alrm' = (env_alrm /\ program \in Reads)
  /\ UNCHANGED <<line, elapsed>>

Write ==
  /\ Main("write", "done")
  /\ line' = "written"
  /\ UNCHANGED <<env_alrm, alarm, unslept, elapsed>>

MainStep ==
  Signal \/ Setjmp \/ Alarm \/ Wait \/ Read \/ Cancel \/ Write

-----------------------------------------------------------------------------
(* The handlers.  A handler that returns ends pause(), and recvfrom() with *)
(* EINTR; read() is restarted.                                             *)
Resumed == IF pc = "paused" THEN "cancel"
           ELSE IF pc = "reading" /\ program = "16-19" THEN "timeout"
           ELSE pc

\* Mutant: longjmp is forgotten.
NeverJumps == FALSE

LongJumps == program \in Jumps

(* SIGALRM.  longjmp returns to setjmp, from within sig_int too, which is  *)
(* then never finished; the behaviour is undefined if setjmp's caller is   *)
(* not active.                                                             *)
sig_alrm ==
  /\ "ALRM" \in pending /\ pc \notin Final
  /\ pending' = pending \ {"ALRM"}
  /\ missed' = (missed \/ pc = "wait")
  /\ IF LongJumps
       THEN /\ pc' = IF ~env_alrm THEN "crashed"
                     ELSE IF program \in Reads THEN "timeout" ELSE "cancel"
            /\ sig_int' = IF sig_int = "running" THEN "abandoned" ELSE sig_int
       ELSE /\ pc' = Resumed
            /\ UNCHANGED sig_int
  /\ UNCHANGED <<program, env_alrm, alarm, line, unslept, elapsed, lag>>

(* SIGINT: a long computation in 10.10.3, once its signal() was called;    *)
(* elsewhere it terminates the process.                                    *)
StartSigInt ==
  /\ "INT" \in pending /\ pc \notin Final
  /\ pending' = pending \ {"INT"}
  /\ IF program = "10.10.3" /\ pc # "signal"
       THEN sig_int' = "running" /\ UNCHANGED pc
       ELSE pc' = "killed" /\ UNCHANGED sig_int
  /\ UNCHANGED <<program, env_alrm, alarm, line, unslept, elapsed, lag, missed>>

FinishSigInt ==
  /\ sig_int = "running" /\ pc \notin Final
  /\ sig_int' = "finished"
  /\ pc' = Resumed
  /\ UNCHANGED <<program, env_alrm, alarm, pending, line, unslept, elapsed, lag, missed>>

-----------------------------------------------------------------------------
(* A second passes.  Time passes freely while the process sleeps. *)
Asleep == pc \in {"paused", "reading"} /\ sig_int # "running" /\ pending = {}

Tick ==
  /\ pc \notin Final
  /\ IF Asleep THEN alarm > 0 /\ UNCHANGED lag
               ELSE lag < MaxLag /\ lag' = lag + 1
  /\ elapsed' = elapsed + 1
  /\ alarm' = IF alarm > 0 THEN alarm - 1 ELSE 0
  /\ pending' = IF alarm = 1 THEN pending \union {"ALRM"} ELSE pending
  /\ UNCHANGED <<program, pc, env_alrm, sig_int, line, unslept, missed>>

(* The user types the interrupt character, once, or a line, or the answer  *)
(* to the datagram comes.                                                  *)
Input ==
  /\ pc \notin Final
  /\ \/ /\ sig_int = "idle" /\ "INT" \notin pending
        /\ pending' = pending \union {"INT"} /\ UNCHANGED line
     \/ /\ line = "none" /\ (program = "16-19" => pc # "signal")
        /\ line' = "there" /\ UNCHANGED pending
  /\ UNCHANGED <<program, pc, env_alrm, alarm, sig_int, unslept, elapsed, lag, missed>>

Handlers == sig_alrm \/ StartSigInt \/ FinishSigInt

Next == MainStep \/ ReadFails \/ Handlers \/ Tick \/ Input

Spec == Init /\ [][Next]_vars

(* The program and its handlers run and time passes.  No input need come,  *)
(* and no read need fail.                                                  *)
Fairness == WF_vars(MainStep) /\ WF_vars(Handlers) /\ WF_vars(Tick)

FairSpec == Spec /\ Fairness

-----------------------------------------------------------------------------
TypeOK ==
  /\ program \in Sleeps \union Reads
  /\ pc \in {"signal", "setjmp", "alarm", "wait", "paused", "reading", "cancel",
             "write"} \union Final
  /\ env_alrm \in BOOLEAN /\ missed \in BOOLEAN
  /\ {alarm, unslept} \subseteq 0 .. Seconds /\ elapsed \in Nat /\ lag \in 0 .. MaxLag
  /\ pending \subseteq {"ALRM", "INT"}
  /\ sig_int \in {"idle", "running", "finished", "abandoned"}
  /\ line \in {"none", "there", "taken", "written"}

(* longjmp always finds its frame, a timeout is never early, and a program *)
(* that has ended leaves no alarm behind.                                  *)
SafeJumps ==
  /\ pc # "crashed"
  /\ pc = "timeout" => elapsed >= Seconds
  /\ pc \in {"done", "timeout"} => alarm = 0 /\ "ALRM" \notin pending

(* The sleep takes the time asked for, less what it returns, also when it  *)
(* ends by SIGINT, or by SIGALRM in the middle of the handler of SIGINT.   *)
TimeAccounted ==
  pc = "done" /\ program \in Sleeps =>
    IF unslept > 0 THEN elapsed + unslept = Seconds ELSE elapsed >= Seconds

(* The SIGINT handler is cut short only by longjmp, and of the programs    *)
(* that read only 10.10.5 can lose what it has read to a timeout.          *)
OnlyJumpsCutShort ==
  /\ sig_int = "abandoned" => program = "10.10.3" /\ elapsed >= Seconds
  /\ line = "taken" /\ pc = "timeout" => program = "10.10.5"

(* The state is well typed, jumps are safe, and time is accounted for. *)
Inv == TypeOK /\ SafeJumps /\ TimeAccounted /\ OnlyJumpsCutShort

(* Each program ends, except that sleep1 and 16-19 may miss their signal   *)
(* before they wait, and that 10.10.4 waits for a line however long it     *)
(* takes: its read() is restarted after SIGALRM.                           *)
EndsUnlessMissed ==
  \/ <>(pc \in Final)
  \/ <>(program \in {"10.10", "16-19"} /\ missed)
  \/ [](program = "10.10.4" /\ line = "none")
=============================================================================
