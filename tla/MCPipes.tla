------------------------------- MODULE MCPipes -------------------------------
(***************************************************************************)
(* Programs that fork and have buffers of stdio, for TLC: the coprocess    *)
(* driver with its three filters, the programs with one pipe, and those    *)
(* that share their output.  Init chooses one; the variables of the others *)
(* stay as they are.                                                       *)
(***************************************************************************)
EXTENDS Coprocess

CONSTANTS StdioMax, PipeMax
VARIABLES job, w, r, rends, wends, typed, taken, stdio, pipe, output, prompts
pipevars == <<job, w, r, rends, wends, typed, taken, stdio, pipe, output, prompts>>

P == INSTANCE Pipes

ASSUME PipeBounds == P!Bounds

VARIABLES demo, tty, at, buf, out, printed, globvar, statuses
outputvars == <<demo, tty, at, buf, out, printed, globvar, statuses>>
F == INSTANCE ForkedOutput

VARIABLE family   \* which of the three modules' programs run

MCInit ==
  /\ family \in {"coprocess", "pipe", "output"}
  /\ Init /\ (family = "coprocess" \/ (add2 = Raw /\ lines = 0))
  /\ P!Init /\ (family # "pipe" => job = "15.2.2" /\ w = "close" /\ typed = 0)
  /\ F!Init /\ (family # "output" => demo = "8.3" /\ tty)

MCNext ==
  /\ \/ family = "coprocess" /\ Next /\ UNCHANGED <<pipevars, outputvars>>
     \/ family = "pipe" /\ P!Next /\ UNCHANGED <<vars, outputvars>>
     \/ family = "output" /\ F!Next /\ UNCHANGED <<vars, pipevars>>
  /\ UNCHANGED family

(* Fairness of the three modules, for the one that runs. *)
MCFairness ==
  /\ WF_vars(family = "coprocess" /\ Fork) /\ WF_vars(family = "coprocess" /\ DriverStep)
  /\ WF_vars(family = "coprocess" /\ FilterStep)
  /\ WF_pipevars(family = "pipe" /\ P!Writer) /\ WF_pipevars(family = "pipe" /\ P!Reader)
  /\ WF_pipevars(family = "pipe" /\ P!Pclose)
  /\ \A p \in F!Procs : WF_outputvars(family = "output" /\ F!Step(p))

MCSpec == MCInit /\ [][MCNext]_<<family, vars, pipevars, outputvars>> /\ MCFairness

(* Through one pipe no line is lost but by a quit or a missing filter, and *)
(* SIGPIPE kills only a writer whose reader has quit, or the program that  *)
(* forgets to fork.                                                        *)
(* What fork and exit do to buffers repeats the lines it must repeat.      *)
PipesInv == P!Inv /\ F!Inv

(* The coprocess and its driver end, or wait for each other for good. *)
CoprocessEnds == family = "coprocess" => EndUnlessBuffered

(* Writer and reader of a pipe end, parent and child of 8.3, 8.4 and 8.6.  *)
BothEnd ==
  /\ family = "pipe" => P!BothEnd
  /\ family = "output" => F!BothEnd
=============================================================================
