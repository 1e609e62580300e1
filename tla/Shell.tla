-------------------------------- MODULE Shell --------------------------------
(***************************************************************************)
(* The shells of chapter 1: 1.6.3, and 1.9, which catches SIGINT.  The     *)
(* terminal sends SIGINT to the shell and to its command.  Between fork    *)
(* and exec the command still has the shell's handler, and a copy of its   *)
(* stdio buffer, in which there are prompts if stdout is not a terminal.   *)
(***************************************************************************)
EXTENDS Integers

CONSTANTS
  MaxSent,   \* bound: SIGINTs sent
  Blocks     \* lines of input

VARIABLES
  program,   \* which of the two runs
  shell,     \* the shell's next statement
  child,     \* the command: "none", "forked", "failed" (to exec), "running", "zombie"
  caught,    \* signals whose disposition is the shell's handler
  pending,   \* processes that have a SIGINT pending
  sent,      \* SIGINTs sent so far
  left,      \* lines of input left
  tty,       \* stdin and stdout are a terminal
  buf,       \* prompts in the shell's stdio buffer
  copy,      \* prompts in the child's
  asked,     \* history: prompts printed
  shown,     \* prompts written
  failed     \* history: a command could not be executed

vars == <<program, shell, child, caught, pending, sent, left, tty, buf, copy, asked, shown, failed>>

Shells == {"1.6.3", "1.9"}
Final == {"exit_0", "exit_1", "killed"}

Init ==
  /\ program \in Shells /\ shell = IF program = "1.9" THEN "signal" ELSE "printf"
  /\ child = "none" /\ caught = {} /\ pending = {} /\ sent = 0 /\ left = Blocks
  /\ tty \in BOOLEAN /\ buf = 0 /\ copy = 0 /\ asked = 0 /\ shown = 0 /\ failed = FALSE

-----------------------------------------------------------------------------
Main(here, there) ==
  /\ shell = here /\ shell' = there
  /\ UNCHANGED <<program, pending, sent, tty, failed>>

Signal ==
  /\ Main("signal", "printf") /\ caught' = {"INT"}
  /\ UNCHANGED <<child, left, buf, copy, asked, shown>>

Printf ==
  /\ Main("printf", "fgets") /\ buf' = buf + 1 /\ asked' = asked + 1
  /\ UNCHANGED <<child, caught, left, copy, shown>>

(* Reading from a terminal writes out what waits for it. *)
Fgets ==
  /\ left > 0 /\ left' = left - 1 /\ Main("fgets", "fork")
  /\ IF tty THEN shown' = shown + buf /\ buf' = 0 ELSE UNCHANGED <<shown, buf>>
  /\ UNCHANGED <<child, caught, copy, asked>>

(* exit, at the end of the input or when fork has failed. *)
Exit ==
  /\ \/ left = 0 /\ Main("fgets", "exit_0")
     \/ Main("fork", "exit_1")
  /\ shown' = shown + buf /\ buf' = 0
  /\ UNCHANGED <<child, caught, left, copy, asked>>

Fork ==
  /\ Main("fork", "waitpid") /\ child' = "forked" /\ copy' = buf
  /\ UNCHANGED <<caught, left, buf, asked, shown>>

(* waitpid goes on when a handler has returned. *)
Waitpid ==
  /\ child = "zombie" /\ child' = "none" /\ Main("waitpid", "printf")
  /\ UNCHANGED <<caught, left, buf, copy, asked, shown>>

Step == Signal \/ Printf \/ Fgets \/ Exit \/ Fork \/ Waitpid

(* The child: execlp, and if it fails err_ret and exit, which write the    *)
(* buffer; the command.  A signal that is pending goes with the process.   *)
Command(here, there) ==
  /\ child = here /\ child' = there
  /\ pending' = IF there = "zombie" THEN pending \ {"child"} ELSE pending
  /\ UNCHANGED <<program, shell, caught, sent, left, tty, buf, asked>>

Execlp ==
  \/ Command("forked", "running") /\ copy' = 0 /\ UNCHANGED <<shown, failed>>
  \/ Command("forked", "failed") /\ failed' = TRUE /\ UNCHANGED <<copy, shown>>

Exits ==
  \/ Command("running", "zombie") /\ UNCHANGED <<copy, shown, failed>>
  \/ Command("failed", "zombie") /\ shown' = shown + copy /\ copy' = 0 /\ UNCHANGED failed

Child == Execlp \/ Exits

-----------------------------------------------------------------------------
(* SIGINT, to all processes of the foreground group. *)
Interrupt ==
  /\ shell \notin Final /\ sent < MaxSent /\ sent' = sent + 1
  /\ pending' = {"shell"} \union (IF child \in {"none", "zombie"} THEN {} ELSE {"child"})
  /\ UNCHANGED <<program, shell, child, caught, left, tty, buf, copy, asked, shown, failed>>

(* sig_int prints.  Before exec it is the child's handler too; behind it   *)
(* the command does with the signal what it likes.                         *)
Deliver(p) ==
  /\ p \in pending /\ pending' = pending \ {p}
  /\ \/ p = "shell" /\ UNCHANGED child
        /\ shell' = IF shell \in Final \/ caught # {} THEN shell ELSE "killed"
     \/ p = "child" /\ UNCHANGED shell
        /\ \/ child' = child /\ (child = "running" \/ caught # {})
           \/ child' = "zombie" /\ (child = "running" \/ caught = {})
  /\ copy' = IF child' = "zombie" THEN 0 ELSE copy
  /\ UNCHANGED <<program, caught, sent, left, tty, buf, asked, shown, failed>>

Delivery == \E p \in {"shell", "child"} : Deliver(p)

Next == Step \/ Child \/ Interrupt \/ Delivery

(* The shell and its commands run and end, signals are delivered. *)
Fairness == WF_vars(Step) /\ WF_vars(Child) /\ WF_vars(Delivery)

-----------------------------------------------------------------------------
TypeOK ==
  /\ program \in Shells
  /\ shell \in {"signal", "printf", "fgets", "fork", "waitpid"} \union Final
  /\ child \in {"none", "forked", "failed", "running", "zombie"}
  /\ caught \subseteq {"INT"} /\ pending \subseteq {"shell", "child"}
  /\ sent \in 0 .. MaxSent /\ left \in 0 .. Blocks /\ {tty, failed} \subseteq BOOLEAN
  /\ {buf, copy, asked, shown} \subseteq Nat

(* The shell never prompts, and never exits, with a command not waited     *)
(* for; once it catches SIGINT it survives it, and so does a command that  *)
(* is not yet executed.  No prompt is lost, and each appears once but for  *)
(* those that a child which cannot exec repeats in a file.                 *)
Inv ==
  /\ TypeOK
  /\ child # "none" => shell \in {"waitpid", "killed"}
  /\ shell = "killed" => caught = {}
  /\ shown + buf >= asked /\ (tty \/ ~failed => shown + buf = asked)
  /\ tty => copy = 0
  /\ "child" \in pending => child \notin {"none", "zombie"}

(* Whatever is interrupted and when, the shell does not wait for good. *)
ShellEnds == <>(shell \in Final)
=============================================================================
