------------------------------- MODULE Orphan -------------------------------
(***************************************************************************)
(* chapter_09/9.10.c (and chapter_08/9.10.c, the same file): a child stops *)
(* itself and its parent exits.  What is left of the process group is then *)
(* orphaned: the kernel sends SIGHUP and SIGCONT to a group with a stopped *)
(* member, lets nobody stop in it by SIGTSTP, and refuses it the terminal. *)
(***************************************************************************)

VARIABLES
  parent,     \* "fork", "sleep", "gone"
  child,      \* next statement of the child
  caught,     \* signals whose disposition is the child's handler
  pending,    \* signals generated for the child and not delivered
  stopped,    \* the child is stopped
  hangups,    \* the child's handler has run
  foreground  \* the group of the two is the terminal's foreground group

vars == <<parent, child, caught, pending, stopped, hangups, foreground>>

Final == {"unborn", "done", "read_error", "killed"}

Init ==
  /\ parent = "fork" /\ child = "unborn"
  /\ caught = {} /\ pending = {} /\ stopped = FALSE /\ hangups = FALSE
  /\ foreground = TRUE

-----------------------------------------------------------------------------
(* fork; its failure ends the parent. *)
Fork ==
  /\ parent = "fork"
  /\ \/ parent' = "sleep" /\ child' = "signal"
     \/ parent' = "gone" /\ UNCHANGED child
  /\ UNCHANGED <<caught, pending, stopped, hangups, foreground>>

(* The parent exits after its sleep(5), wherever the child is by then.     *)
Exit ==
  /\ parent = "sleep" /\ parent' = "gone"
  /\ stopped' = FALSE
  /\ pending' = IF stopped THEN {"HUP"} ELSE pending
  /\ UNCHANGED <<child, caught, hangups, foreground>>

(* The shell, whose job has ended, takes the terminal. *)
TakeTerminal ==
  /\ parent = "gone" /\ foreground /\ foreground' = FALSE
  /\ UNCHANGED <<parent, child, caught, pending, stopped, hangups>>

(* A statement of the child; kill returns when the signal was delivered.   *)
Child(here, there) ==
  /\ child = here /\ child' = there
  /\ ~stopped /\ (child = "pr_ids" => pending = {})
  /\ UNCHANGED <<parent, stopped, hangups, foreground>>

Signal == Child("signal", "kill") /\ caught' = {"HUP"} /\ UNCHANGED pending

Kill == Child("kill", "pr_ids") /\ pending' = pending \union {"TSTP"} /\ UNCHANGED caught

PrIds == Child("pr_ids", "read") /\ UNCHANGED <<caught, pending>>

(* read fails in the background; begun in the foreground, it goes on and   *)
(* gets a character or the end of file.                                    *)
Read ==
  /\ \/ foreground /\ Child("read", "reading")
     \/ ~foreground /\ Child("read", "read_error")
     \/ Child("reading", "done")
  /\ UNCHANGED <<caught, pending>>

Step == Signal \/ Kill \/ PrIds \/ Read

Stop ==
  /\ child \notin Final /\ ~stopped /\ "TSTP" \in pending
  /\ pending' = pending \ {"TSTP"}
  /\ stopped' = (parent # "gone")
  /\ UNCHANGED <<parent, child, caught, hangups, foreground>>

Hangup ==
  /\ child \notin Final /\ ~stopped /\ "HUP" \in pending
  /\ pending' = pending \ {"HUP"}
  /\ IF "HUP" \in caught THEN hangups' = TRUE /\ UNCHANGED child
                         ELSE child' = "killed" /\ UNCHANGED hangups
  /\ UNCHANGED <<parent, caught, stopped, foreground>>

Next == Fork \/ Exit \/ TakeTerminal \/ Step \/ Stop \/ Hangup

(* Both processes run, signals are delivered, the shell sees its job end.  *)
Fairness ==
  WF_vars(Fork) /\ WF_vars(Exit) /\ WF_vars(TakeTerminal) /\ WF_vars(Step) /\ WF_vars(Stop \/ Hangup)

-----------------------------------------------------------------------------
TypeOK ==
  /\ parent \in {"fork", "sleep", "gone"}
  /\ child \in {"signal", "kill", "pr_ids", "read", "reading"} \union Final
  /\ caught \subseteq {"HUP"} /\ pending \subseteq {"TSTP", "HUP"}
  /\ {stopped, hangups, foreground} \subseteq BOOLEAN

(* SIGHUP does not kill the child, whenever the parent exits; the child    *)
(* reads only when the parent is gone, and is not left behind stopped.     *)
Inv ==
  /\ TypeOK
  /\ child # "killed"
  /\ child \in {"read", "reading", "done", "read_error"} => parent = "gone" /\ pending = {}
  /\ stopped => parent = "sleep" /\ "HUP" \in caught
  /\ hangups => parent = "gone"

(* The child ends too. *)
ChildEnds == <>(parent = "gone" /\ child \in Final)
=============================================================================
