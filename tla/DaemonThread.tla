---------------------------- MODULE DaemonThread ----------------------------
(***************************************************************************)
(* chapter_13/13.6.c: a daemon that blocks every signal and starts a       *)
(* thread that takes SIGHUP and SIGTERM with sigwait; then its main        *)
(* function calls exit(0), which ends the thread too.  daemonize, which is *)
(* not in the repository, leaves SIGHUP ignored: main restores the default *)
(* and only then blocks it.                                                *)
(***************************************************************************)
EXTENDS Naturals

CONSTANT MaxSent    \* bound: signals sent to the daemon

Bounds == MaxSent \in Nat

VARIABLES
  dmain,      \* main's next statement
  waiter,     \* thr_fn: "none", "sigwait" or the signal it handles
  arrived,    \* signals pending for the process
  total,      \* signals sent
  rereads,    \* how often reread() has been called
  ended       \* what has ended the process: "main", "thread", a signal, or "no"

vars == <<dmain, waiter, arrived, total, rereads, ended>>

Signals == {"SIGHUP", "SIGTERM", "other"}

Init ==
  /\ dmain = "daemonize" /\ waiter = "none" /\ arrived = {} /\ total = 0
  /\ rereads = 0 /\ ended = "no"

(* What the calls of main have made of the disposition and of the mask.    *)
Ignored == dmain \in {"running", "sigaction"}
Blocked == dmain \in {"create", "exit"}
Main(here, there) == ended = "no" /\ dmain = here /\ dmain' = there

Send(s) ==
  /\ ended = "no" /\ total < MaxSent /\ total' = total + 1
  /\ arrived' = arrived \union ({s} \ IF Ignored THEN {"SIGHUP"} ELSE {})
  /\ UNCHANGED <<dmain, waiter, rereads, ended>>

(* The default action of each is to end the process. *)
Killed ==
  /\ ended = "no" /\ ~Blocked
  /\ ended' \in arrived
  /\ UNCHANGED <<dmain, waiter, arrived, total, rereads>>

(* daemonize; already_running, which may end main; sigaction(SIGHUP);      *)
(* pthread_sigmask.                                                        *)
Prepare ==
  /\ \/ /\ Main("daemonize", "running") /\ arrived' = arrived \ {"SIGHUP"}
        /\ UNCHANGED ended
     \/ Main("running", "sigaction") /\ UNCHANGED <<arrived, ended>>
     \/ Main("running", "gone") /\ ended' = "main" /\ UNCHANGED arrived
     \/ Main("sigaction", "block") /\ UNCHANGED <<arrived, ended>>
     \/ Main("block", "create") /\ UNCHANGED <<arrived, ended>>
  /\ UNCHANGED <<waiter, total, rereads>>

Create ==
  /\ \/ Main("create", "exit") /\ waiter' = "sigwait" /\ UNCHANGED ended
     \/ Main("create", "gone") /\ ended' = "main" /\ UNCHANGED waiter
  /\ UNCHANGED <<arrived, total, rereads>>

Exit ==
  /\ Main("exit", "gone") /\ ended' = "main"
  /\ UNCHANGED <<waiter, arrived, total, rereads>>

MainStep == Prepare \/ Create \/ Exit

(* thr_fn: sigwait, and the switch on what it has taken. *)
Sigwait ==
  /\ ended = "no" /\ waiter = "sigwait"
  /\ \E s \in arrived : waiter' = s /\ arrived' = arrived \ {s}
  /\ UNCHANGED <<dmain, total, rereads, ended>>

Switch ==
  /\ ended = "no" /\ waiter \in Signals
  /\ waiter' = "sigwait"
  /\ rereads' = IF waiter = "SIGHUP" THEN rereads + 1 ELSE rereads
  /\ ended' = IF waiter = "SIGTERM" THEN "thread" ELSE "no"
  /\ UNCHANGED <<dmain, arrived, total>>

Next == MainStep \/ Killed \/ Sigwait \/ Switch \/ \E s \in Signals : Send(s)

Spec == Init /\ [][Next]_vars

-----------------------------------------------------------------------------
TypeOK ==
  /\ dmain \in {"daemonize", "running", "sigaction", "block", "create", "exit", "gone"}
  /\ waiter \in {"none", "sigwait"} \union Signals
  /\ arrived \subseteq Signals /\ total \in 0 .. MaxSent /\ rereads <= total
  /\ ended \in {"no", "main", "thread"} \union Signals

(* A signal can kill the daemon only before the mask is set, and SIGHUP    *)
(* only in daemonize and between the restored default and the mask.        *)
KilledBefore ==
  /\ ended \in Signals => waiter = "none"
  /\ ended = "SIGHUP" => dmain \in {"daemonize", "block"}
  /\ rereads > 0 => ended \in {"no", "main", "thread"}

(* The state is well typed and no signal kills the daemon once it waits.   *)
Inv == TypeOK /\ KilledBefore
=============================================================================
