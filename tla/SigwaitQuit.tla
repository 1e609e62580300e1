----------------------------- MODULE SigwaitQuit -----------------------------
(***************************************************************************)
(* chapter_12/12.8.c: main blocks SIGINT and SIGQUIT, starts a thread that *)
(* takes them with sigwait, and waits on a condition variable until the    *)
(* thread has seen SIGQUIT.                                                *)
(***************************************************************************)
EXTENDS Naturals

CONSTANT MaxSignals    \* bound: signals the terminal sends
ASSUME MaxSignalsAssumption == MaxSignals \in Nat

VARIABLES
  main,       \* main's next statement; "asleep" in pthread_cond_wait
  thr,        \* thr_fn's next statement; "unborn" before pthread_create
  lock,       \* the holder of the mutex lock, or "free"
  quitflag,   \* 0 or 1
  blocked,    \* SIGINT and SIGQUIT are blocked in main
  pending,    \* signals pending for the process
  sent        \* signals the terminal has sent

vars == <<main, thr, lock, quitflag, blocked, pending, sent>>

SIGINT == "SIGINT"
SIGQUIT == "SIGQUIT"
Signals == {SIGINT, SIGQUIT}
Gone == {"exited", "failed", "killed"}
Alive == main \notin Gone

Init ==
  /\ main = "block" /\ thr = "unborn"
  /\ lock = "free" /\ quitflag = 0 /\ blocked = FALSE
  /\ pending = {} /\ sent = 0

MainStep(here, there) == main = here /\ main' = there
ThrStep(here, there) == Alive /\ thr = here /\ thr' = there

-----------------------------------------------------------------------------
(* The terminal sends a signal; a second one of the kind is merged. *)
Send(s) ==
  /\ Alive /\ sent < MaxSignals
  /\ pending' = pending \union {s}
  /\ sent' = sent + 1
  /\ UNCHANGED <<main, thr, lock, quitflag, blocked>>

(* A pending signal that main does not block has its default action (the   *)
(* thread created by main blocks both for as long as it lives).            *)
Killed ==
  /\ Alive /\ ~blocked /\ pending # {}
  /\ main' = "killed"
  /\ UNCHANGED <<thr, lock, quitflag, blocked, pending, sent>>

-----------------------------------------------------------------------------
(* main *)

Block ==
  /\ MainStep("block", "create")
  /\ blocked' = TRUE
  /\ UNCHANGED <<thr, lock, quitflag, pending, sent>>

Create ==
  /\ \/ MainStep("create", "lock") /\ thr' = "sigwait"
     \/ MainStep("create", "failed") /\ UNCHANGED thr
  /\ UNCHANGED <<lock, quitflag, blocked, pending, sent>>

\* Mutants: no mutex; the flag is not tested again after the wait.
MainLockFree ==
  /\ \/ MainStep("lock", "test")
     \/ MainStep("relock", "test")
  /\ lock' = "main"
  /\ UNCHANGED <<thr, quitflag, blocked, pending, sent>>
MainLockOnce ==
  /\ \/ MainStep("lock", "test")
     \/ MainStep("relock", "unlock")
  /\ lock = "free"
  /\ lock' = "main"
  /\ UNCHANGED <<thr, quitflag, blocked, pending, sent>>

(* pthread_mutex_lock; and the way back from pthread_cond_wait. *)
MainLock ==
  /\ \/ MainStep("lock", "test")
     \/ MainStep("relock", "test")
  /\ lock = "free"
  /\ lock' = "main"
  /\ UNCHANGED <<thr, quitflag, blocked, pending, sent>>

(* while (quitflag == 0) pthread_cond_wait: releases the mutex and sleeps  *)
(* in one step.                                                            *)
Test ==
  /\ IF quitflag = 0
       THEN MainStep("test", "asleep") /\ lock' = "free"
       ELSE MainStep("test", "unlock") /\ UNCHANGED lock
  /\ UNCHANGED <<thr, quitflag, blocked, pending, sent>>

SpuriousWakeup ==
  /\ MainStep("asleep", "relock")
  /\ UNCHANGED <<thr, lock, quitflag, blocked, pending, sent>>

MainUnlock ==
  /\ MainStep("unlock", "reset")
  /\ lock' = "free"
  /\ UNCHANGED <<thr, quitflag, blocked, pending, sent>>

(* quitflag = 0, without the mutex. *)
Reset ==
  /\ MainStep("reset", "setmask")
  /\ quitflag' = 0
  /\ UNCHANGED <<thr, lock, blocked, pending, sent>>

Unblock ==
  /\ MainStep("setmask", "exit")
  /\ blocked' = FALSE
  /\ UNCHANGED <<thr, lock, quitflag, pending, sent>>

(* sigprocmask has delivered what was pending when it returns. *)
Exit ==
  /\ MainStep("exit", "exited")
  /\ pending = {}
  /\ UNCHANGED <<thr, lock, quitflag, blocked, pending, sent>>

-----------------------------------------------------------------------------
(* thr_fn *)

(* sigwait takes one of the pending signals. *)
Sigwait ==
  /\ \E s \in pending :
       /\ ThrStep("sigwait", IF s = SIGQUIT THEN "lock" ELSE "sigwait")
       /\ pending' = pending \ {s}
  /\ UNCHANGED <<main, lock, quitflag, blocked, sent>>

ThrLock ==
  /\ ThrStep("lock", "set")
  /\ lock = "free"
  /\ lock' = "thr"
  /\ UNCHANGED <<main, quitflag, blocked, pending, sent>>

SetFlag ==
  /\ ThrStep("set", "unlock")
  /\ quitflag' = 1
  /\ UNCHANGED <<main, lock, blocked, pending, sent>>

ThrUnlock ==
  /\ ThrStep("unlock", "signal")
  /\ lock' = "free"
  /\ UNCHANGED <<main, quitflag, blocked, pending, sent>>

\* Mutant: nobody is woken.
NoCondSignal ==
  /\ ThrStep("signal", "returned")
  /\ UNCHANGED <<main, lock, quitflag, blocked, pending, sent>>

(* pthread_cond_signal wakes main if it sleeps; the thread returns. *)
CondSignal ==
  /\ ThrStep("signal", "returned")
  /\ main' = IF main = "asleep" THEN "relock" ELSE main
  /\ UNCHANGED <<lock, quitflag, blocked, pending, sent>>

-----------------------------------------------------------------------------
Main ==
  Block \/ Create \/ MainLock \/ Test \/ MainUnlock \/ Reset \/ Unblock \/ Exit
Thread == Sigwait \/ ThrLock \/ SetFlag \/ ThrUnlock \/ CondSignal

Next ==
  \/ Main \/ Thread \/ Killed \/ SpuriousWakeup
  \/ \E s \in Signals : Send(s)

Spec == Init /\ [][Next]_vars

(* Both threads run, a signal that is not blocked is delivered, and the    *)
(* mutex is not refused to the thread forever however often main takes it  *)
(* after a spurious wakeup.                                                *)
FairSpec ==
  /\ Spec
  /\ WF_vars(Main) /\ WF_vars(Thread) /\ WF_vars(Killed)
  /\ SF_vars(ThrLock)

-----------------------------------------------------------------------------
TypeOK ==
  /\ main \in {"block", "create", "lock", "test", "asleep", "relock", "unlock",
               "reset", "setmask", "exit"} \union Gone
  /\ thr \in {"unborn", "sigwait", "lock", "set", "unlock", "signal", "returned"}
  /\ lock \in {"free", "main", "thr"}
  /\ quitflag \in {0, 1} /\ blocked \in BOOLEAN
  /\ pending \subseteq Signals /\ sent \in 0 .. MaxSignals

(* The mutex is held between lock and unlock and at no other time.  Main   *)
(* cannot die with it: the signals are blocked all the while.              *)
Mutex ==
  /\ lock = "main" <=> main \in {"test", "unlock"}
  /\ lock = "thr" <=> thr \in {"set", "unlock"}
  /\ main \notin {"block", "exit"} \union Gone => blocked
  /\ main \in {"block", "create"} => thr = "unborn"

(* The flag is set only once SIGQUIT has been taken, and before main goes  *)
(* on because of it.                                                       *)
FlagBySIGQUIT ==
  /\ quitflag = 1 => thr \in {"unlock", "signal", "returned"}
  /\ main = "unlock" => quitflag = 1

(* The wakeup is not lost although the condition is signalled after the    *)
(* mutex is released: main sleeps with the flag set only while the signal  *)
(* is still to come.                                                       *)
WakeupToCome ==
  main = "asleep" /\ quitflag = 1 => thr \in {"unlock", "signal"}

(* 12.8.c:58: main writes quitflag without the mutex, but not at a time    *)
(* when the thread may still write it.                                     *)
ResetIsAlone == main = "reset" => thr \in {"signal", "returned"}

(* Main leaves its loop only after the thread has accepted a SIGQUIT.      *)
EndsOnlyByQuit ==
  main \in {"unlock", "reset", "setmask", "exit", "exited"} =>
    thr \in {"unlock", "signal", "returned"}

(* The mutex, the flag, the wakeup and the reset together. *)
Inv == TypeOK /\ Mutex /\ FlagBySIGQUIT /\ WakeupToCome /\ ResetIsAlone

(* A SIGQUIT sent while the process runs ends it. *)
QuitEnds == (SIGQUIT \in pending) ~> ~Alive
=============================================================================
