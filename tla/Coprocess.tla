------------------------------ MODULE Coprocess ------------------------------
(***************************************************************************)
(* chapter_15/15.4.2.c drives the filter add2 as a coprocess: it writes a  *)
(* line to one pipe and reads the answer from another.  add2 is 15.4.c     *)
(* (read and write), 15.4.3.c (stdio, which buffers fully on a pipe) or    *)
(* 15.4.4.c (stdio made line buffered).  Line k is the number k, and so is *)
(* its answer, a sum or "invalid args".                                    *)
(***************************************************************************)
EXTENDS Integers, Sequences

CONSTANT MaxLines  \* bound: lines of input
ASSUME MaxLinesAssumption == MaxLines \in Nat

VARIABLES
  add2,      \* which of the filters was compiled
  lines,     \* number of lines on the driver's standard input
  sent,      \* lines the driver has read, each then written to pipe 1
  answers,   \* what the driver has written to its standard output
  dpc, fpc,  \* next statement of driver and filter
  open,      \* open[e]: the processes that have end e of a pipe open
  pipe1,     \* from the driver to the filter
  pipe2,     \* from the filter to the driver
  inbuf,     \* stdin buffer of the filter
  outbuf,    \* stdout buffer of the filter
  got        \* the line the filter works on

drivervars == <<sent, answers, dpc>>
filtervars == <<fpc, inbuf, outbuf, got>>
vars == <<add2, lines, drivervars, filtervars, open, pipe1, pipe2>>

Raw == "15.4"
FullyBuffered == "15.4.3"
LineBuffered == "15.4.4"

Driver == "driver"
Filter == "filter"
Ends == {"fd1[0]", "fd1[1]", "fd2[0]", "fd2[1]"}
Close(p, ends) == open' = [e \in Ends |-> IF e \in ends THEN open[e] \ {p} ELSE open[e]]

Init ==
  /\ add2 \in {Raw, FullyBuffered, LineBuffered}
  /\ lines \in 0 .. MaxLines
  /\ sent = 0
  /\ answers = <<>>
  /\ dpc = "fork" /\ fpc = "unborn"
  /\ open = [e \in Ends |-> {Driver}]
  /\ pipe1 = <<>> /\ pipe2 = <<>>
  /\ inbuf = <<>> /\ outbuf = <<>> /\ got = 0

-----------------------------------------------------------------------------
(* The driver.  The child has a copy of every descriptor. *)
Fork ==
  /\ dpc = "fork"
  /\ \/ dpc' = "close" /\ fpc' = "close" /\ open' = [e \in Ends |-> {Driver, Filter}]
     \/ dpc' = "exited" /\ Close(Driver, Ends) /\ UNCHANGED fpc
  /\ UNCHANGED <<add2, lines, sent, answers, inbuf, outbuf, got, pipe1, pipe2>>

DriverClose ==
  /\ dpc = "close" /\ dpc' = "gets"
  /\ Close(Driver, {"fd1[0]", "fd2[1]"})
  /\ UNCHANGED <<add2, lines, sent, answers, filtervars, pipe1, pipe2>>

(* fgets; the end of the input ends the driver. *)
Gets ==
  /\ dpc = "gets"
  /\ IF sent < lines
       THEN sent' = sent + 1 /\ dpc' = "write" /\ UNCHANGED open
       ELSE dpc' = "exited" /\ Close(Driver, Ends) /\ UNCHANGED sent
  /\ UNCHANGED <<add2, lines, answers, filtervars, pipe1, pipe2>>

(* write to the pipe; without a reader sig_pipe ends the driver. *)
WriteLine ==
  /\ dpc = "write"
  /\ IF open["fd1[0]"] # {}
       THEN pipe1' = Append(pipe1, sent) /\ dpc' = "read" /\ UNCHANGED open
       ELSE dpc' = "exited" /\ Close(Driver, Ends) /\ UNCHANGED pipe1
  /\ UNCHANGED <<add2, lines, sent, answers, filtervars, pipe2>>

\* Mutant: an empty pipe is not waited for.
ReadAnswerNoWait ==
  /\ dpc = "read" /\ dpc' = "gets"
  /\ answers' = answers \o pipe2 /\ pipe2' = <<>>
  /\ UNCHANGED <<add2, lines, sent, filtervars, open, pipe1>>

(* read returns all there is in the pipe, which is then put out, or 0 when *)
(* no process has its other end open any more.                             *)
ReadAnswer ==
  /\ dpc = "read"
  /\ \/ /\ pipe2 # <<>>
        /\ answers' = answers \o pipe2 /\ pipe2' = <<>> /\ dpc' = "gets"
        /\ UNCHANGED open
     \/ /\ pipe2 = <<>> /\ open["fd2[1]"] = {}
        /\ dpc' = "exited" /\ Close(Driver, Ends)
        /\ UNCHANGED <<answers, pipe2>>
  /\ UNCHANGED <<add2, lines, sent, filtervars, pipe1>>

DriverStep == DriverClose \/ Gets \/ WriteLine \/ ReadAnswer

-----------------------------------------------------------------------------
(* The child, up to execl. *)

\* Mutant: the child keeps its own end for writing of the pipe it reads.
FilterKeepsEnd ==
  /\ fpc = "close" /\ fpc' = "exec"
  /\ Close(Filter, {"fd2[0]"})
  /\ UNCHANGED <<add2, lines, drivervars, inbuf, outbuf, got, pipe1, pipe2>>

FilterClose ==
  /\ fpc = "close" /\ fpc' = "exec"
  /\ Close(Filter, {"fd1[1]", "fd2[0]"})
  /\ UNCHANGED <<add2, lines, drivervars, inbuf, outbuf, got, pipe1, pipe2>>

Exec ==
  /\ fpc = "exec"
  /\ \/ fpc' = "read" /\ UNCHANGED open
     \/ fpc' = "exited" /\ Close(Filter, Ends)
  /\ UNCHANGED <<add2, lines, drivervars, inbuf, outbuf, got, pipe1, pipe2>>

(* The filter's loop.  read() takes everything in the pipe, of which       *)
(* sscanf sees the first line; fgets keeps the rest in its buffer.         *)
TakeLine ==
  /\ fpc = "read" /\ fpc' = "answer"
  /\ LET input == IF inbuf # <<>> THEN inbuf ELSE pipe1 IN
       /\ input # <<>>
       /\ got' = Head(input)
       /\ inbuf' = IF add2 = Raw THEN <<>> ELSE Tail(input)
  /\ pipe1' = IF inbuf # <<>> THEN pipe1 ELSE <<>>
  /\ UNCHANGED <<add2, lines, drivervars, outbuf, open, pipe2>>

EndOfInput ==
  /\ fpc = "read" /\ fpc' = "exit"
  /\ inbuf = <<>> /\ pipe1 = <<>> /\ open["fd1[1]"] = {}
  /\ UNCHANGED <<add2, lines, drivervars, inbuf, outbuf, got, open, pipe1, pipe2>>

(* Writing to a pipe nobody reads is fatal: execl has reset SIGPIPE. *)
Put(answer, next) ==
  IF answer = <<>> \/ open["fd2[0]"] # {}
    THEN pipe2' = pipe2 \o answer /\ fpc' = next
    ELSE fpc' = "killed" /\ UNCHANGED pipe2

(* write() or printf().  A fully buffered stdout holds thousands of        *)
(* answers: it is never full.                                              *)
Answer ==
  /\ fpc = "answer"
  /\ IF add2 = FullyBuffered
       THEN outbuf' = Append(outbuf, got) /\ fpc' = "read" /\ UNCHANGED pipe2
       ELSE Put(<<got>>, "read") /\ UNCHANGED outbuf
  /\ open' = [e \in Ends |-> IF fpc' = "killed" THEN open[e] \ {Filter} ELSE open[e]]
  /\ UNCHANGED <<add2, lines, drivervars, inbuf, got, pipe1>>

(* exit() flushes the buffer. *)
FilterExit ==
  /\ fpc = "exit"
  /\ Put(outbuf, "exited")
  /\ outbuf' = <<>>
  /\ Close(Filter, Ends)
  /\ UNCHANGED <<add2, lines, drivervars, inbuf, got, pipe1>>

FilterStep == FilterClose \/ Exec \/ TakeLine \/ EndOfInput \/ Answer \/ FilterExit

(* Somebody kills the filter. *)
FilterDies ==
  /\ fpc \in {"close", "exec", "read", "answer", "exit"}
  /\ fpc' = "killed"
  /\ Close(Filter, Ends)
  /\ UNCHANGED <<add2, lines, drivervars, inbuf, outbuf, got, pipe1, pipe2>>

Next == Fork \/ DriverStep \/ FilterStep \/ FilterDies

Spec == Init /\ [][Next]_vars

(* Both processes run. *)
FairSpec == Spec /\ WF_vars(Fork) /\ WF_vars(DriverStep) /\ WF_vars(FilterStep)

-----------------------------------------------------------------------------
TypeOK ==
  /\ lines \in 0 .. MaxLines /\ sent \in 0 .. lines /\ got \in 0 .. lines
  /\ dpc \in {"fork", "close", "gets", "write", "read", "exited"}
  /\ fpc \in {"unborn", "close", "exec", "read", "answer", "exit", "exited", "killed"}
  /\ open \in [Ends -> SUBSET {Driver, Filter}]
  /\ {answers, pipe1, pipe2, inbuf, outbuf} \subseteq Seq(1 .. lines)

UpTo(k) == [j \in 1 .. k |-> j]

(* Each line gets its own answer before the next line is read, with every  *)
(* filter, and only the last one can be missing when the driver ends.      *)
InStep ==
  /\ dpc \in {"fork", "close", "gets"} => answers = UpTo(sent)
  /\ dpc \in {"write", "read"} => sent > 0 /\ answers = UpTo(sent - 1)
  /\ dpc = "exited" => answers = UpTo(sent) \/ answers = UpTo(sent - 1)

(* The line being answered is in one place at a time: in a pipe, a buffer  *)
(* or the filter's hands; or it is lost with the filter.                   *)
Nowhere == pipe1 = <<>> /\ outbuf = <<>> /\ pipe2 = <<>> /\ fpc # "answer"
Somewhere ==
  \/ pipe1 = <<sent>> /\ outbuf = <<>> /\ pipe2 = <<>> /\ fpc # "answer"
  \/ pipe1 = <<>> /\ outbuf = <<>> /\ pipe2 = <<>> /\ fpc = "answer" /\ got = sent
  \/ pipe1 = <<>> /\ outbuf = <<sent>> /\ pipe2 = <<>> /\ fpc # "answer"
  \/ pipe1 = <<>> /\ outbuf = <<>> /\ pipe2 = <<sent>> /\ fpc # "answer"
OneInFlight ==
  /\ inbuf = <<>>
  /\ Nowhere \/ (Somewhere /\ sent > 0 /\ dpc \in {"read", "exited"})
  /\ outbuf # <<>> => add2 = FullyBuffered

(* The state is well typed and driver and filter are in step. *)
Inv == TypeOK /\ InStep /\ OneInFlight

(* The answer is in the filter's buffer, the filter waits for more input   *)
(* and the driver for the answer.                                          *)
EachWaits == dpc = "read" /\ fpc = "read" /\ outbuf # <<>>

(* Both processes end, the end of the one's output being the end of the    *)
(* other's input, or with 15.4.3 wait for each other for good.             *)
EndUnlessBuffered ==
  \/ <>(dpc = "exited" /\ fpc \in {"unborn", "exited", "killed"})
  \/ add2 = FullyBuffered /\ <>[]EachWaits
=============================================================================
