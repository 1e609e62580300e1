----------------------------- MODULE JobControl -----------------------------
(***************************************************************************)
(* chapter_10/10.21.c: a copy loop that catches SIGTSTP, unless a shell    *)
(* without job control has it ignored.  The handler stops the process in   *)
(* the end: it unblocks the signal, restores the default action, sends it  *)
(* to itself, and installs itself again when the process is continued.     *)
(***************************************************************************)
EXTENDS Integers, Sequences, FiniteSets

CONSTANTS
  MaxSent,   \* bound: times SIGTSTP is sent by others
  Blocks     \* blocks of input

(* What the constants must be. *)
Bounds == MaxSent \in Nat /\ Blocks \in Nat

VARIABLES
  pc,        \* main's next statement
  inherited, \* the disposition of SIGTSTP that the program was started with
  action,    \* the disposition
  frames,    \* the handler's frames, the innermost last
  mask,      \* blocked signals
  pending,   \* signals generated and not delivered
  stopped,   \* the process is stopped
  stops,     \* how often it was stopped
  left,      \* blocks of input not yet copied
  sent       \* SIGTSTPs sent by others so far

vars == <<pc, inherited, action, frames, mask, pending, stopped, stops, left, sent>>

Final == {"done", "failed"}
TSTP == {"TSTP"}

Init ==
  /\ pc = "ignore" /\ inherited \in {"SIG_DFL", "SIG_IGN"} /\ action = inherited
  /\ frames = <<>> /\ mask = {} /\ pending = {}
  /\ stopped = FALSE /\ stops = 0 /\ left = Blocks /\ sent = 0

-----------------------------------------------------------------------------
(* signal(); to ignore a signal discards it if it is pending. *)
SetAction(a) == action' = a /\ pending' = IF a = "SIG_IGN" THEN {} ELSE pending

Main(here, there) ==
  /\ ~stopped /\ frames = <<>>
  /\ pc = here /\ pc' = there
  /\ UNCHANGED <<inherited, frames, mask, stopped, stops, sent>>

Ignore ==
  /\ Main("ignore", IF action = "SIG_DFL" THEN "catch" ELSE "copy")
  /\ SetAction("SIG_IGN") /\ UNCHANGED left

Catch == Main("catch", "copy") /\ SetAction("sig_tstp") /\ UNCHANGED left

Copy ==
  /\ \/ left > 0 /\ left' = left - 1 /\ Main("copy", "copy")
     \/ left = 0 /\ Main("copy", "done") /\ UNCHANGED left
     \/ Main("copy", "failed") /\ UNCHANGED left
  /\ UNCHANGED <<action, pending>>

(* A statement of the innermost sig_tstp.  sigprocmask and kill return     *)
(* when the signal they let through has been delivered.                    *)
Top == frames[Len(frames)]
Handler(here, there) ==
  /\ ~stopped /\ pc \notin Final /\ pending \ mask = {}
  /\ frames # <<>> /\ Top.at = here
  /\ frames' = [frames EXCEPT ![Len(frames)].at = there]
  /\ UNCHANGED <<pc, inherited, stopped, stops, left, sent>>

Unblock == Handler("unblock", "default") /\ mask' = mask \ TSTP /\ UNCHANGED <<action, pending>>

Default == Handler("default", "kill") /\ SetAction("SIG_DFL") /\ UNCHANGED mask

Kill == Handler("kill", "again") /\ pending' = TSTP /\ UNCHANGED <<action, mask>>

Again == Handler("again", "return") /\ SetAction("sig_tstp") /\ UNCHANGED mask

Return ==
  /\ ~stopped /\ pc \notin Final
  /\ frames # <<>> /\ Top.at = "return"
  /\ frames' = SubSeq(frames, 1, Len(frames) - 1) /\ mask' = Top.mask
  /\ UNCHANGED <<pc, inherited, action, pending, stopped, stops, left, sent>>

Step == Ignore \/ Catch \/ Copy \/ Unblock \/ Default \/ Kill \/ Again \/ Return

Deliver ==
  /\ ~stopped /\ pc \notin Final /\ pending \ mask # {}
  /\ pending' = {}
  /\ \/ action = "SIG_DFL" /\ stopped' = TRUE /\ stops' = stops + 1
        /\ UNCHANGED <<frames, mask>>
     \/ action = "sig_tstp" /\ frames' = Append(frames, [at |-> "unblock", mask |-> mask])
        /\ mask' = TSTP /\ UNCHANGED <<stopped, stops>>
  /\ UNCHANGED <<pc, inherited, action, left, sent>>

(* The terminal, or somebody else, sends SIGTSTP, also to a stopped        *)
(* process, or SIGCONT, which discards a SIGTSTP.                          *)
Send ==
  /\ pc \notin Final /\ sent < MaxSent
  /\ sent' = sent + 1
  /\ pending' = IF action = "SIG_IGN" THEN {} ELSE TSTP
  /\ UNCHANGED <<pc, inherited, action, frames, mask, stopped, stops, left>>

Continue ==
  /\ pc \notin Final
  /\ stopped' = FALSE /\ pending' = {}
  /\ UNCHANGED <<pc, inherited, action, frames, mask, stops, left, sent>>

Next == Step \/ Deliver \/ Send \/ Continue

Spec == Init /\ [][Next]_vars

(* The process runs, signals are delivered, and whoever stops the program  *)
(* continues it in the end.                                                *)
Fairness == WF_vars(Step) /\ WF_vars(Deliver) /\ WF_vars(stopped /\ Continue)

-----------------------------------------------------------------------------
Frame == [at : {"unblock", "default", "kill", "again", "return"}, mask : SUBSET TSTP]
TypeOK ==
  /\ pc \in {"ignore", "catch", "copy"} \union Final
  /\ inherited \in {"SIG_DFL", "SIG_IGN"} /\ action \in {"SIG_DFL", "SIG_IGN", "sig_tstp"}
  /\ frames \in Seq(Frame)
  /\ mask \subseteq TSTP /\ pending \subseteq TSTP /\ stopped \in BOOLEAN
  /\ stops \in Nat /\ left \in 0 .. Blocks /\ sent \in 0 .. MaxSent

(* Whenever main copies, the next SIGTSTP finds the handler installed and  *)
(* not blocked; within the handler, and the handlers it has interrupted,   *)
(* the signal is blocked up to Unblock, and the signal that a handler      *)
(* sends to itself finds the default action.                               *)
Ready ==
  /\ action = "SIG_IGN" => pending = {}
  /\ \A k \in DOMAIN frames : frames[k].mask = {}
  /\ \A k \in 1 .. Len(frames) - 1 : frames[k].at \in {"default", "return"}
  /\ frames = <<>> =>
       /\ mask = {}
       /\ pc = "ignore" => action = inherited
       /\ pc = "catch" => inherited = "SIG_DFL" /\ action = "SIG_IGN"
       /\ pc = "copy" => action = IF inherited = "SIG_DFL" THEN "sig_tstp" ELSE "SIG_IGN"
  /\ frames # <<>> =>
       /\ pc \in {"copy"} \union Final /\ inherited = "SIG_DFL"
       /\ mask = IF Top.at = "unblock" THEN TSTP ELSE {}
       /\ action = IF Top.at \in {"kill", "again"} THEN "SIG_DFL" ELSE "sig_tstp"

(* The process stops once at most for each SIGTSTP it was sent: the rest   *)
(* is owed by a pending signal or a handler that has not sent its own; and *)
(* it never stops if it was started with SIGTSTP ignored.                  *)
Owing == {k \in DOMAIN frames : frames[k].at \in {"unblock", "default", "kill"}}
StopsAsked ==
  /\ stops + Cardinality(pending) + Cardinality(Owing) <= sent
  /\ inherited = "SIG_IGN" => stops = 0

(* The state is well typed; the program stops as it is asked to. *)
Inv == TypeOK /\ Ready /\ StopsAsked

(* The handler does not send the signal to itself for ever, and the copy   *)
(* goes on whenever the process is continued.                              *)
CopyEnds == <>(pc \in Final)
=============================================================================
