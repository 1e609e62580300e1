--------------------------- MODULE MCPipes_proofs ---------------------------
(***************************************************************************)
(* The programs with pipes and buffers for every value of the bounds:      *)
(* driver and filter of 15.4 stay in step, with each of the filters; no    *)
(* line is lost in the pipes of 15.2 and 15.3; and the buffers of 8.3, 8.4 *)
(* and 8.6 repeat what they must.                                          *)
(***************************************************************************)
EXTENDS MCPipes, TLAPS

(* The answers to k lines are those to k - 1 lines and one more.           *)
LEMMA UpToNext ==
  ASSUME NEW k \in Nat \ {0}
  PROVE  UpTo(k - 1) \o <<k>> = UpTo(k)
BY DEF UpTo

LEMMA UpToIsSeq ==
  ASSUME NEW n \in Nat, NEW k \in 0 .. n
  PROVE  UpTo(k) \in Seq(1 .. n)
BY DEF UpTo

LEMMA UpToZero == UpTo(0) = <<>>
BY DEF UpTo

(* A pipe or a buffer with one line in it.                                 *)
LEMMA OneLine ==
  ASSUME NEW S, NEW k \in S
  PROVE  /\ <<k>> \in Seq(S) /\ <<k>> # <<>>
         /\ Append(<<>>, k) = <<k>>
         /\ Head(<<k>>) = k /\ Tail(<<k>>) = <<>>
         /\ <<>> \o <<k>> = <<k>> /\ <<k>> \o <<>> = <<k>>
OBVIOUS

LEMMA InitInv == Init => Inv
<1> SUFFICES ASSUME Init PROVE Inv
  OBVIOUS
<1> USE DEF Init
<1>1. TypeOK
  BY MaxLinesAssumption DEF TypeOK, Raw, LineBuffered
<1>2. InStep
  BY UpToZero DEF InStep
<1>3. OneInFlight
  BY DEF OneInFlight, Nowhere
<1> QED BY <1>1, <1>2, <1>3 DEF Inv

LEMMA InvStep == Inv /\ [Next]_vars => Inv'
<1> SUFFICES ASSUME Inv, [Next]_vars PROVE Inv'
  OBVIOUS
<1> USE MaxLinesAssumption
    DEF Inv, TypeOK, InStep, OneInFlight, Nowhere, Somewhere, Close,
        drivervars, filtervars
(* the driver *)
<1>1. CASE Fork
  BY <1>1 DEF Fork
<1>2. CASE DriverClose
  BY <1>2 DEF DriverClose
<1>3. CASE Gets
  BY <1>3 DEF Gets
<1>4. CASE WriteLine
  <2>1. /\ dpc = "write" /\ sent \in 1 .. lines
        /\ pipe1 = <<>> /\ Append(pipe1, sent) = <<sent>> /\ <<sent>> \in Seq(1 .. lines)
    BY <1>4, OneLine DEF WriteLine
  <2>2. TypeOK'
    BY <1>4, <2>1 DEF WriteLine
  <2>3. InStep'
    BY <1>4 DEF WriteLine
  <2>4. OneInFlight'
    BY <1>4, <2>1 DEF WriteLine
  <2> QED BY <2>2, <2>3, <2>4
<1>5. CASE ReadAnswer
  <2>1. dpc = "read" /\ sent \in 1 .. lines
    BY <1>5 DEF ReadAnswer
  <2>2. sent \in Nat \ {0} /\ sent \in 0 .. lines /\ lines \in Nat
    BY <2>1
  <2>3. CASE pipe2 # <<>>
    <3>1. pipe2 = <<sent>> /\ answers = UpTo(sent - 1)
      BY <2>1, <2>3
    <3>2. UpTo(sent - 1) \o <<sent>> = UpTo(sent)
      BY <2>2, UpToNext, Zenon
    <3>3. UpTo(sent) \in Seq(1 .. lines)
      BY <2>2, UpToIsSeq, Zenon
    <3>4. answers' = UpTo(sent) /\ pipe2' = <<>> /\ dpc' = "gets" /\ UNCHANGED open
      BY <1>5, <2>3, <3>1, <3>2 DEF ReadAnswer
    <3> QED BY <1>5, <2>1, <3>1, <3>3, <3>4 DEF ReadAnswer
  <2>4. CASE pipe2 = <<>>
    <3>1. TypeOK'
      BY <1>5, <2>1, <2>4 DEF ReadAnswer
    <3>2. InStep'
      BY <1>5, <2>1, <2>4 DEF ReadAnswer
    <3>3. OneInFlight'
      BY <1>5, <2>1, <2>4 DEF ReadAnswer
    <3> QED BY <3>1, <3>2, <3>3
  <2> QED BY <2>3, <2>4
(* the filter *)
<1>6. CASE FilterClose
  BY <1>6 DEF FilterClose
<1>7. CASE Exec
  BY <1>7 DEF Exec
<1>8. CASE TakeLine
  <2>1. /\ fpc = "read" /\ inbuf = <<>> /\ pipe1 = <<sent>> /\ sent \in 1 .. lines
        /\ outbuf = <<>> /\ pipe2 = <<>> /\ dpc \in {"read", "exited"}
    BY <1>8 DEF TakeLine
  <2>2. Head(pipe1) = sent /\ Tail(pipe1) = <<>>
    BY <2>1, OneLine
  <2>3. fpc' = "answer" /\ got' = sent /\ inbuf' = <<>> /\ pipe1' = <<>>
    BY <1>8, <2>1, <2>2 DEF TakeLine
  <2> QED BY <1>8, <2>1, <2>3 DEF TakeLine
<1>9. CASE EndOfInput
  BY <1>9 DEF EndOfInput
<1>10. CASE Answer
  <2>1. /\ fpc = "answer" /\ got = sent /\ sent \in 1 .. lines
        /\ pipe1 = <<>> /\ outbuf = <<>> /\ pipe2 = <<>> /\ dpc \in {"read", "exited"}
    BY <1>10 DEF Answer
  <2>2. /\ Append(outbuf, got) = <<sent>> /\ pipe2 \o <<got>> = <<sent>>
        /\ <<sent>> \in Seq(1 .. lines)
    BY <2>1, OneLine
  <2>3. \/ fpc' = "read" /\ outbuf' = <<sent>> /\ pipe2' = <<>> /\ add2 = FullyBuffered
        \/ fpc' = "read" /\ outbuf' = <<>> /\ pipe2' = <<sent>>
        \/ fpc' = "killed" /\ outbuf' = <<>> /\ pipe2' = <<>>
    BY <1>10, <2>1, <2>2 DEF Answer, Put
  <2>4. open' \in [Ends -> SUBSET {Driver, Filter}]
    BY <1>10 DEF Answer
  <2>5. UNCHANGED <<add2, lines, drivervars, inbuf, got, pipe1>>
    BY <1>10 DEF Answer
  <2> QED BY <2>1, <2>2, <2>3, <2>4, <2>5
<1>11. CASE FilterExit
  <2>1. fpc = "exit" /\ outbuf' = <<>> /\ fpc' \in {"exited", "killed"}
    BY <1>11 DEF FilterExit, Put
  <2>2. CASE outbuf = <<>>
    <3>1. pipe2' = pipe2
      BY <1>11, <2>2 DEF FilterExit, Put
    <3> QED BY <1>11, <2>1, <2>2, <3>1 DEF FilterExit
  <2>3. CASE outbuf # <<>>
    <3>1. /\ outbuf = <<sent>> /\ pipe2 = <<>> /\ pipe1 = <<>>
          /\ sent \in 1 .. lines /\ dpc \in {"read", "exited"}
      BY <2>1, <2>3
    <3>2. pipe2 \o outbuf = <<sent>> /\ <<sent>> \in Seq(1 .. lines)
      BY <3>1, OneLine
    <3>3. pipe2' \in {<<>>, <<sent>>}
      BY <1>11, <3>1, <3>2 DEF FilterExit, Put
    <3> QED BY <1>11, <2>1, <3>1, <3>2, <3>3 DEF FilterExit
  <2> QED BY <2>2, <2>3
<1>12. CASE FilterDies
  BY <1>12 DEF FilterDies
<1>13. CASE UNCHANGED vars
  BY <1>13 DEF vars
<1> QED
  BY <1>1, <1>2, <1>3, <1>4, <1>5, <1>6, <1>7, <1>8, <1>9, <1>10, <1>11, <1>12, <1>13
     DEF Next, DriverStep, FilterStep

-----------------------------------------------------------------------------
(* 15.2 and 15.3: what the control points of writer and reader say of the  *)
(* ends of the pipe and of the lines.                                      *)

PipeTypes ==
  /\ job \in P!Jobs
  /\ w \in {"close", "gets", "write", "last", "finish", "pclose", "exit_0", "exit_1",
            "SIGPIPE", "unborn"}
  /\ r \in {"close", "prompt", "read", "pclose", "exit_0", "exit_1", "unborn"}
  /\ rends \subseteq {"w", "r"} /\ wends \subseteq {"w", "r"}
  /\ typed \in Nat /\ taken \in 0 .. typed
  /\ stdio \in Nat /\ pipe \in Nat /\ output \in Nat /\ prompts \in Nat

EndsTold ==
  /\ "w" \in rends <=> w = "close"
  /\ "r" \in rends <=> r \in {"close", "prompt", "read"}
  /\ "w" \in wends <=> w \in {"close", "gets", "write", "last", "finish"}
  /\ "r" \in wends <=> r = "close"
  /\ w = "SIGPIPE" => rends = {}

LinesTold ==
  /\ w \in {"write", "last"} => stdio > 0
  /\ w \in {"close", "finish", "pclose", "exit_0", "exit_1", "unborn"} => stdio = 0
  /\ w \in {"last", "finish", "pclose", "exit_0"} => taken = typed
  /\ w = "exit_1" => taken = typed \/ (job = "15.3.2" /\ taken = 0)
  /\ job = "15.2" => typed = 1 /\ (r \in {"close", "read"} => output = 0)
  /\ w = "pclose" => job = "15.3"
  /\ r = "pclose" => job = "15.3.2" /\ (output = typed \/ (w = "exit_1" /\ output = 0))
  /\ r = "prompt" => job = "15.3.2"
  /\ job = "15.2.2" <=> w = "unborn" \/ r = "unborn"
  /\ w = "unborn" => taken = 0
  /\ r = "unborn" => output = 0

PipeInv == PipeTypes /\ EndsTold /\ LinesTold /\ P!Inv

LEMMA PipeInvInit == P!Init => PipeInv
<1> SUFFICES ASSUME P!Init PROVE PipeInv
  OBVIOUS
<1>1. typed \in Nat
  BY PipeBounds DEF P!Init, P!Bounds
<1> QED BY <1>1 DEF P!Init, P!Jobs, PipeInv, PipeTypes, EndsTold, LinesTold, P!Inv

LEMMA PipeInvStep == PipeInv /\ [P!Next]_pipevars => PipeInv'
<1> SUFFICES ASSUME PipeInv, [P!Next]_pipevars PROVE PipeInv'
  OBVIOUS
<1>b. StdioMax \in Nat /\ PipeMax \in Nat
  BY PipeBounds DEF P!Bounds
<1> USE <1>b DEF PipeInv, PipeTypes, EndsTold, LinesTold, P!Inv, P!Jobs, P!Gone, P!W, P!R
<1>1. CASE P!CloseRead
  BY <1>1 DEF P!CloseRead
<1>2. CASE P!Gets
  BY <1>2 DEF P!Gets
<1>3. CASE P!Write
  <2>1. /\ w \in {"write", "last"} /\ stdio > 0
        /\ UNCHANGED <<job, r, rends, typed, taken, output, prompts>>
    BY <1>3 DEF P!Write
  <2>2. CASE /\ rends # {} /\ pipe' = pipe + 1 /\ stdio' = stdio - 1 /\ UNCHANGED wends
             /\ w' = IF stdio' > 0 THEN w ELSE IF w = "write" THEN "gets" ELSE "finish"
    <3>1. w = "last" => taken = typed
      OBVIOUS
    <3> QED BY <2>1, <2>2, <3>1
  <2>3. CASE rends = {} /\ w' = "SIGPIPE" /\ wends' = wends \ {"w"} /\ UNCHANGED <<pipe, stdio>>
    (* A line is still with the writer: the reader has not come to the end. *)
    <3>1. output < typed
      BY <2>1
    <3>2. r \in {"exit_1", "unborn"}
      BY <2>1, <2>3, <3>1
    <3> QED BY <2>1, <2>3, <3>2
  <2> QED BY <1>3, <2>2, <2>3 DEF P!Write
<1>4. CASE P!Finish
  BY <1>4 DEF P!Finish
<1>5. CASE P!Pclose
  BY <1>5 DEF P!Pclose
<1>6. CASE P!CloseWrite
  BY <1>6 DEF P!CloseWrite
<1>7. CASE P!Prompt
  BY <1>7 DEF P!Prompt
<1>8. CASE P!Read
  BY <1>8 DEF P!Read
<1>9. CASE P!Quit
  BY <1>9 DEF P!Quit
<1>11. CASE P!NoFilter
  BY <1>11 DEF P!NoFilter
<1>10. CASE UNCHANGED pipevars
  BY <1>10 DEF pipevars
<1> QED
  BY <1>1, <1>2, <1>3, <1>4, <1>5, <1>6, <1>7, <1>8, <1>9, <1>10, <1>11
  DEF P!Next, P!Writer, P!Reader

-----------------------------------------------------------------------------
(* 8.3, 8.4 and 8.6: how many lines are written or still in a buffer.      *)

Held == out + buf["main"] + buf["child"]
Past(p) == IF at[p] \in {"return", "exited"} THEN 1 ELSE 0

Points == {"write", "before_fork", "fork", "wait", "count", "print", "return", "end",
           "exited", "_exit", "none"}
OutTypes ==
  /\ demo \in {"8.3", "8.4", "8.6"} /\ tty \in BOOLEAN
  /\ at \in [F!Procs -> Points]
  /\ buf \in [F!Procs -> Nat] /\ out \in Nat /\ printed \in Nat
  /\ globvar \in [F!Procs -> 6 .. 7] /\ statuses \in Seq({6, 7, "SIGABRT", 1})
  /\ tty => buf["main"] = 0 /\ buf["child"] = 0 /\ out = printed
  /\ at["main"] = "exited" => buf["main"] = 0
  /\ at["main"] \in {"write", "before_fork"} => buf["main"] = 0
  /\ at["child"] \in {"none", "exited"} => buf["child"] = 0

(* Both processes of 8.3 end with the line that was in the buffer at fork, *)
(* and neither has the other's globvar.                                    *)
Control83 ==
  /\ at["main"] \in {"write", "before_fork", "fork", "print", "return", "exited"}
  /\ at["child"] \in {"none", "count", "print", "return", "exited"}
  /\ at["main"] \in {"write", "before_fork", "fork"} => at["child"] = "none"
  /\ at["main"] \in {"print", "return"} => at["child"] # "none"
Globvar83 == globvar["main"] = 6 /\ (at["child"] = "count" => globvar["child"] = 6)
Lines83 ==
  /\ at["main"] = "write" => printed = 0
  /\ at["main"] = "before_fork" => printed = 1
  /\ at["main"] = "fork" => printed = 2
  /\ at["child"] = "none" => printed <= 2 /\ Len(statuses) = 0
  /\ at["child"] # "none" =>
       printed = 2 + Past("main") + Past("child")
       /\ Len(statuses) = Past("main") + Past("child")
Buffers83 ==
  ~tty => \A p \in F!Procs : /\ at[p] \in {"fork", "count", "print"} => buf[p] = 1
                             /\ at[p] = "return" => buf[p] = 2
Held83 == ~tty => Held = IF at["child"] = "none" THEN printed ELSE printed + 1
In83 == Control83 /\ Globvar83 /\ Lines83 /\ Buffers83 /\ Held83

(* The child of vfork ends without its buffer. *)
Control84 ==
  /\ at["main"] \in {"write", "before_fork", "fork", "wait", "print", "return", "exited"}
  /\ at["child"] \in {"none", "count", "_exit"}
  /\ at["main"] \in {"write", "before_fork", "fork"} => at["child"] = "none"
  /\ at["child"] = "count" => at["main"] = "wait"
Globvar84 ==
  /\ at["child"] # "_exit" => globvar["main"] = 6
  /\ at["child"] = "count" => globvar["child"] = 6
Lines84 ==
  /\ at["main"] \notin {"return", "exited"} => Len(statuses) = 0
  /\ Len(statuses) <= 1
Buffers84 ==
  ~tty => /\ buf["child"] <= 1
          /\ at["main"] \in {"fork", "wait", "print"} => buf["main"] = 1
          /\ at["main"] = "return" => buf["main"] = 2
Held84 == ~tty => out + buf["main"] = printed
In84 == Control84 /\ Globvar84 /\ Lines84 /\ Buffers84 /\ Held84

(* What the children of 8.6 have repeated after k of them have exited.     *)
Repeats(k, n) ==
  \/ k \in {0, 1} /\ n = 0
  \/ k = 2 /\ n \in {0, 1}
  \/ k = 3 /\ n \in {2, 3}

Control86 ==
  /\ at["main"] \in {"fork", "wait", "return", "exited"}
  /\ at["child"] \in {"none", "end", "exited"}
  /\ at["main"] \in {"fork", "return", "exited"} => at["child"] \in {"none", "exited"}
  /\ at["main"] = "wait" => at["child"] # "none"
Globvar86 == globvar["main"] = 6 /\ globvar["child"] = 6
Lines86 ==
  /\ printed = Len(statuses) /\ Len(statuses) <= 3
  /\ at["main"] \in {"fork", "wait"} => Len(statuses) <= 2
  /\ at["main"] = "return" => Len(statuses) = 3
Buffers86 ==
  ~tty => /\ at["main"] # "exited" => buf["main"] = printed
          /\ at["child"] = "end" => buf["child"] = printed
Repeated86 ==
  ~tty =>
    /\ at["child"] = "end" => Repeats(printed, out)
    /\ at["main"] = "wait" /\ at["child"] = "exited" => Repeats(printed + 1, out)
    /\ at["main"] \in {"fork", "return"} => Repeats(printed, out)
    /\ at["main"] = "exited" => Repeats(printed, out - printed)
In86 == Control86 /\ Globvar86 /\ Lines86 /\ Buffers86 /\ Repeated86

OutInv ==
  /\ OutTypes
  /\ demo = "8.3" => In83
  /\ demo = "8.4" => In84
  /\ demo = "8.6" => In86

LEMMA OutInvInit == F!Init => OutInv
<1> SUFFICES ASSUME F!Init PROVE OutInv
  OBVIOUS
<1> USE DEF F!Init, F!Procs
<1>1. /\ at["main"] = IF demo = "8.6" THEN "fork" ELSE "write"
      /\ at["child"] = "none" /\ buf["main"] = 0 /\ buf["child"] = 0
      /\ globvar["main"] = 6 /\ globvar["child"] = 6 /\ Len(statuses) = 0
  OBVIOUS
<1>0. /\ at \in [F!Procs -> Points] /\ out = 0 /\ printed = 0
  BY DEF Points
<1>2. OutTypes
  <2>1. buf \in [F!Procs -> Nat] /\ globvar \in [F!Procs -> 6 .. 7]
    OBVIOUS
  <2>2. statuses \in Seq({6, 7, "SIGABRT", 1})
    OBVIOUS
  <2>3. demo \in {"8.3", "8.4", "8.6"} /\ tty \in BOOLEAN
    OBVIOUS
  <2>4. /\ tty => buf["main"] = 0 /\ buf["child"] = 0 /\ out = printed
        /\ at["main"] = "exited" => buf["main"] = 0
        /\ at["main"] \in {"write", "before_fork"} => buf["main"] = 0
        /\ at["child"] \in {"none", "exited"} => buf["child"] = 0
    BY <1>1, <1>0
  <2>5. out \in Nat /\ printed \in Nat
    BY <1>0
  <2> QED BY ONLY <2>1, <2>2, <2>3, <2>4, <2>5, <1>0, Zenon DEF OutTypes
<1>3. demo = "8.3" => In83
  BY <1>1, <1>0 DEF In83, Control83, Globvar83, Lines83, Buffers83, Held83, Held
<1>4. demo = "8.4" => In84
  BY <1>1, <1>0 DEF In84, Control84, Globvar84, Lines84, Buffers84, Held84
<1>5. demo = "8.6" => In86
  BY <1>1, <1>0 DEF In86, Control86, Globvar86, Lines86, Buffers86, Repeated86, Repeats
<1> QED BY <1>2, <1>3, <1>4, <1>5 DEF OutInv

LEMMA OutInvSafe == OutInv => F!Inv
<1> SUFFICES ASSUME OutInv PROVE F!Inv
  OBVIOUS
<1> USE DEF OutInv, OutTypes, Points, F!Procs, F!Gone, F!Repeated
<1>1. Len(statuses) \in Nat
  OBVIOUS
<1>2. CASE demo = "8.3"
  BY <1>1, <1>2
  DEF In83, Control83, Globvar83, Lines83, Buffers83, Held83, Held, Past, F!Inv, F!TypeOK, F!Finished
<1>3. CASE demo = "8.4"
  BY <1>1, <1>3
  DEF In84, Control84, Globvar84, Lines84, Buffers84, Held84, F!Inv, F!TypeOK, F!Finished
<1>4. CASE demo = "8.6"
  BY <1>1, <1>4
  DEF In86, Control86, Globvar86, Lines86, Buffers86, Repeated86, Repeats, F!Inv, F!TypeOK, F!Finished
<1> QED BY <1>2, <1>3, <1>4

(* What a step does to main and child: it moves one of the two, or forks.  *)
LEMMA Moves ==
  ASSUME OutTypes, NEW p \in F!Procs, NEW here, NEW there \in Points, F!Goto(p, here, there)
  PROVE  /\ at[p] = here /\ at' \in [F!Procs -> Points] /\ at'[p] = there
         /\ \A q \in F!Procs : q # p => at'[q] = at[q]
  BY DEF OutTypes, F!Goto

LEMMA Prints ==
  ASSUME OutTypes, NEW p \in F!Procs, F!Printf(p)
  PROVE  /\ printed' = printed + 1 /\ buf' \in [F!Procs -> Nat] /\ out' \in Nat
         /\ \A q \in F!Procs : q # p => buf'[q] = buf[q]
         /\ tty => out' = out + 1 /\ buf'[p] = buf[p]
         /\ ~tty => out' = out /\ buf'[p] = buf[p] + 1
  BY DEF OutTypes, F!Printf

LEMMA Flushes ==
  ASSUME OutTypes, NEW p \in F!Procs, F!Flush(p)
  PROVE  /\ buf' \in [F!Procs -> Nat] /\ out' = out + buf[p] /\ buf'[p] = 0 /\ out' \in Nat
         /\ \A q \in F!Procs : q # p => buf'[q] = buf[q]
  BY DEF OutTypes, F!Flush

LEMMA OneMore ==
  ASSUME NEW S, NEW t \in Seq(S), NEW e \in S
  PROVE  Append(t, e) \in Seq(S) /\ Len(Append(t, e)) = Len(t) + 1 /\ Len(t) \in Nat
OBVIOUS

LEMMA Scalars ==
  ASSUME OutTypes
  PROVE  /\ Len(statuses) \in Nat /\ out \in Nat /\ printed \in Nat
         /\ buf["main"] \in Nat /\ buf["child"] \in Nat
BY DEF OutTypes, F!Procs

(* What each statement does to the two processes. *)
LEMMA ByWrite ==
  ASSUME OutTypes, F!Write
  PROVE  /\ at["main"] = "write" /\ at'["child"] = at["child"]
         /\ \/ at'["main"] = "before_fork" /\ out' = out + 1 /\ printed' = printed + 1
            \/ at'["main"] = "exited" /\ out' = out /\ printed' = printed
         /\ UNCHANGED <<demo, tty, buf, globvar, statuses>> /\ OutTypes'
<1>1. /\ at["main"] = "write" /\ at' \in [F!Procs -> Points] /\ at'["child"] = at["child"]
      /\ \/ at'["main"] = "before_fork" /\ out' = out + 1 /\ printed' = printed + 1
         \/ at'["main"] = "exited" /\ UNCHANGED <<out, printed>>
      /\ UNCHANGED <<demo, tty, buf, globvar, statuses>>
  BY Moves DEF F!Write, Points, F!Procs
<1>2. OutTypes'
  BY <1>1 DEF OutTypes
<1> QED BY <1>1, <1>2

LEMMA ByBeforeFork ==
  ASSUME OutTypes, F!BeforeFork
  PROVE  /\ at["main"] = "before_fork" /\ at'["main"] = "fork" /\ at'["child"] = at["child"]
         /\ printed' = printed + 1 /\ buf'["child"] = buf["child"]
         /\ ~tty => out' = out /\ buf'["main"] = buf["main"] + 1
         /\ UNCHANGED <<demo, tty, globvar, statuses>> /\ OutTypes'
<1>1. /\ at["main"] = "before_fork" /\ at' \in [F!Procs -> Points]
      /\ at'["main"] = "fork" /\ at'["child"] = at["child"] /\ F!Printf("main")
      /\ UNCHANGED <<demo, tty, globvar, statuses>>
  BY Moves DEF F!BeforeFork, Points, F!Procs
<1>2. /\ printed' = printed + 1 /\ buf' \in [F!Procs -> Nat] /\ out' \in Nat
      /\ buf'["child"] = buf["child"]
      /\ tty => out' = out + 1 /\ buf'["main"] = buf["main"]
      /\ ~tty => out' = out /\ buf'["main"] = buf["main"] + 1
  BY <1>1, Prints DEF F!Procs
<1>3. OutTypes'
  BY <1>1, <1>2 DEF OutTypes
<1> QED BY <1>1, <1>2, <1>3

LEMMA ByFork ==
  ASSUME OutTypes, F!Fork
  PROVE  /\ at["main"] = "fork"
         /\ at'["main"] = IF demo = "8.3" THEN "print" ELSE "wait"
         /\ at'["child"] = IF demo = "8.6" THEN "end" ELSE "count"
         /\ buf'["main"] = buf["main"] /\ buf'["child"] = buf["main"]
         /\ globvar'["main"] = globvar["main"] /\ globvar'["child"] = globvar["main"]
         /\ UNCHANGED <<demo, tty, out, printed, statuses>> /\ OutTypes'
<1>1. /\ at["main"] = "fork" /\ at' \in [F!Procs -> Points]
      /\ at'["main"] = IF demo = "8.3" THEN "print" ELSE "wait"
      /\ at'["child"] = IF demo = "8.6" THEN "end" ELSE "count"
  BY DEF F!Fork, Points, F!Procs
<1>2. /\ buf' \in [F!Procs -> Nat] /\ buf'["main"] = buf["main"] /\ buf'["child"] = buf["main"]
      /\ globvar' \in [F!Procs -> 6 .. 7]
      /\ globvar'["main"] = globvar["main"] /\ globvar'["child"] = globvar["main"]
      /\ UNCHANGED <<demo, tty, out, printed, statuses>>
  BY DEF F!Fork, OutTypes, F!Procs
<1>3. OutTypes'
  BY <1>1, <1>2 DEF OutTypes
<1> QED BY <1>1, <1>2, <1>3

LEMMA ByForkFails ==
  ASSUME OutTypes, F!ForkFails
  PROVE  /\ at["main"] = "fork" /\ at'["main"] = "exited" /\ at'["child"] = at["child"]
         /\ out' = out + buf["main"] /\ buf'["main"] = 0 /\ buf'["child"] = buf["child"]
         /\ UNCHANGED <<demo, tty, printed, globvar, statuses>> /\ OutTypes'
<1>1. /\ at["main"] = "fork" /\ at' \in [F!Procs -> Points]
      /\ at'["main"] = "exited" /\ at'["child"] = at["child"] /\ F!Flush("main")
      /\ UNCHANGED <<demo, tty, printed, globvar, statuses>>
  BY Moves DEF F!ForkFails, Points, F!Procs
<1>2. /\ buf' \in [F!Procs -> Nat] /\ out' = out + buf["main"] /\ out' \in Nat
      /\ buf'["main"] = 0 /\ buf'["child"] = buf["child"]
  BY <1>1, Flushes DEF F!Procs
<1>3. OutTypes'
  BY <1>1, <1>2, Scalars DEF OutTypes
<1> QED BY <1>1, <1>2, <1>3

LEMMA ByCount ==
  ASSUME OutTypes, F!Count, globvar["main"] = 6, globvar["child"] = 6
  PROVE  /\ at["child"] = "count" /\ at'["main"] = at["main"]
         /\ at'["child"] = IF demo = "8.3" THEN "print" ELSE "_exit"
         /\ demo = "8.4" \/ globvar'["main"] = globvar["main"]
         /\ UNCHANGED <<demo, tty, buf, out, printed, statuses>> /\ OutTypes'
<1>1. /\ at["child"] = "count" /\ at' \in [F!Procs -> Points] /\ at'["main"] = at["main"]
      /\ at'["child"] = IF demo = "8.3" THEN "print" ELSE "_exit"
      /\ UNCHANGED <<demo, tty, buf, out, printed, statuses>>
  BY Moves DEF F!Count, Points, F!Procs
<1>2. globvar' \in [F!Procs -> 6 .. 7] /\ (demo = "8.4" \/ globvar'["main"] = globvar["main"])
  BY DEF F!Count, OutTypes, F!Procs
<1>3. OutTypes'
  BY <1>1, <1>2 DEF OutTypes
<1> QED BY <1>1, <1>2, <1>3

LEMMA ByPrintVars ==
  ASSUME OutTypes, NEW p \in F!Procs, F!PrintVars(p)
  PROVE  /\ at[p] = "print" /\ at'[p] = "return" /\ (\A q \in F!Procs : q # p => at'[q] = at[q])
         /\ printed' = printed + 1 /\ Len(statuses') = Len(statuses) + 1
         /\ \A q \in F!Procs : q # p => buf'[q] = buf[q]
         /\ ~tty => out' = out /\ buf'[p] = buf[p] + 1
         /\ UNCHANGED <<demo, tty, globvar>> /\ OutTypes'
<1>1. /\ at[p] = "print" /\ at' \in [F!Procs -> Points] /\ at'[p] = "return"
      /\ (\A q \in F!Procs : q # p => at'[q] = at[q])
      /\ F!Printf(p) /\ statuses' = Append(statuses, globvar[p])
      /\ UNCHANGED <<demo, tty, globvar>>
  BY Moves DEF F!PrintVars, Points
<1>2. /\ printed' = printed + 1 /\ buf' \in [F!Procs -> Nat] /\ out' \in Nat
      /\ \A q \in F!Procs : q # p => buf'[q] = buf[q]
      /\ tty => out' = out + 1 /\ buf'[p] = buf[p]
      /\ ~tty => out' = out /\ buf'[p] = buf[p] + 1
  BY <1>1, Prints
<1>3. statuses' \in Seq({6, 7, "SIGABRT", 1}) /\ Len(statuses') = Len(statuses) + 1
  <2>1. globvar[p] \in {6, 7, "SIGABRT", 1}
    BY DEF OutTypes
  <2> QED BY <1>1, <2>1, OneMore DEF OutTypes
<1>4. OutTypes'
  BY <1>1, <1>2, <1>3 DEF OutTypes, F!Procs
<1> QED BY <1>1, <1>2, <1>3, <1>4

LEMMA ByReturn ==
  ASSUME OutTypes, NEW p \in F!Procs, F!Return(p)
  PROVE  /\ at[p] = "return" /\ at'[p] = "exited" /\ (\A q \in F!Procs : q # p => at'[q] = at[q])
         /\ out' = out + buf[p] /\ buf'[p] = 0
         /\ \A q \in F!Procs : q # p => buf'[q] = buf[q]
         /\ UNCHANGED <<demo, tty, printed, globvar, statuses>> /\ OutTypes'
<1>1. /\ at[p] = "return" /\ at' \in [F!Procs -> Points] /\ at'[p] = "exited"
      /\ (\A q \in F!Procs : q # p => at'[q] = at[q]) /\ F!Flush(p)
      /\ UNCHANGED <<demo, tty, printed, globvar, statuses>>
  BY Moves DEF F!Return, Points
<1>2. /\ buf' \in [F!Procs -> Nat] /\ out' = out + buf[p] /\ out' \in Nat
      /\ buf'[p] = 0 /\ (\A q \in F!Procs : q # p => buf'[q] = buf[q])
  BY <1>1, Flushes
<1>3. OutTypes'
  BY <1>1, <1>2, Scalars DEF OutTypes, F!Procs
<1> QED BY <1>1, <1>2, <1>3

LEMMA ByEnd ==
  ASSUME OutTypes, F!End
  PROVE  /\ at["child"] = "end" /\ at'["child"] = "exited" /\ at'["main"] = at["main"]
         /\ out' = out + buf["child"] \/ (Len(statuses) = 1 /\ out' = out)
         /\ buf'["child"] = 0 /\ buf'["main"] = buf["main"]
         /\ UNCHANGED <<demo, tty, printed, globvar, statuses>> /\ OutTypes'
<1>1. /\ at["child"] = "end" /\ at' \in [F!Procs -> Points]
      /\ at'["child"] = "exited" /\ at'["main"] = at["main"]
      /\ UNCHANGED <<demo, tty, printed, globvar, statuses>>
  BY Moves DEF F!End, Points, F!Procs
<1>2. /\ buf' \in [F!Procs -> Nat] /\ out' \in Nat /\ buf'["child"] = 0 /\ buf'["main"] = buf["main"]
      /\ out' = out + buf["child"] \/ (Len(statuses) = 1 /\ out' = out)
  <2>1. CASE F!Flush("child")
    BY <2>1, Flushes DEF F!Procs
  <2>2. CASE Len(statuses) = 1 /\ buf' = [buf EXCEPT !["child"] = 0] /\ UNCHANGED out
    BY <2>2 DEF OutTypes, F!Procs
  <2> QED BY <2>1, <2>2 DEF F!End
<1>3. OutTypes'
  BY <1>1, <1>2, Scalars DEF OutTypes
<1> QED BY <1>1, <1>2, <1>3

LEMMA Step83 ==
  ASSUME OutTypes, In83, demo = "8.3", F!Next
  PROVE  OutTypes' /\ In83'
<1> USE DEF F!Procs
<1>0. Control83 /\ Globvar83 /\ Lines83 /\ Buffers83 /\ Held83
  BY DEF In83
<1>s. /\ Len(statuses) \in Nat /\ out \in Nat /\ printed \in Nat
      /\ buf["main"] \in Nat /\ buf["child"] \in Nat
  BY Scalars
<1>e. /\ at["main"] \in {"write", "before_fork", "exited"} => buf["main"] = 0
      /\ at["child"] \in {"none", "exited"} => buf["child"] = 0
  BY DEF OutTypes
<1>1. CASE F!Write
  <2>1. OutTypes' /\ UNCHANGED <<demo, tty>>
    BY <1>0, <1>1, ByWrite
  <2>2. Control83'
    BY <1>0, <1>1, ByWrite, <1>s DEF Control83
  <2>3. Globvar83'
    BY <1>0, <1>1, ByWrite, <1>s DEF Globvar83, Control83
  <2>4. Lines83'
    BY <1>0, <1>1, ByWrite, <1>s DEF Lines83, Control83, Past
  <2>5. Buffers83'
    BY <1>0, <1>1, ByWrite, <1>s, <1>e DEF Buffers83, Control83
  <2>6. Held83'
    BY <1>0, <1>1, ByWrite, <1>s, <1>e DEF Held83, Held, Buffers83, Control83
  <2> QED BY <2>1, <2>2, <2>3, <2>4, <2>5, <2>6 DEF In83
<1>2. CASE F!BeforeFork
  <2>1. OutTypes' /\ UNCHANGED <<demo, tty>>
    BY <1>0, <1>2, ByBeforeFork
  <2>2. Control83'
    BY <1>0, <1>2, ByBeforeFork, <1>s DEF Control83
  <2>3. Globvar83'
    BY <1>0, <1>2, ByBeforeFork, <1>s DEF Globvar83, Control83
  <2>4. Lines83'
    BY <1>0, <1>2, ByBeforeFork, <1>s DEF Lines83, Control83, Past
  <2>5. Buffers83'
    BY <1>0, <1>2, ByBeforeFork, <1>s, <1>e DEF Buffers83, Control83
  <2>6. Held83'
    BY SMTT(30), <1>0, <1>2, ByBeforeFork, <1>s, <1>e DEF Held83, Held, Buffers83, Control83
  <2> QED BY <2>1, <2>2, <2>3, <2>4, <2>5, <2>6 DEF In83
<1>3. CASE F!Fork
  <2>1. OutTypes' /\ UNCHANGED <<demo, tty>>
    BY <1>0, <1>3, ByFork
  <2>2. Control83'
    BY <1>0, <1>3, ByFork, <1>s DEF Control83
  <2>3. Globvar83'
    BY <1>0, <1>3, ByFork, <1>s DEF Globvar83, Control83
  <2>4. Lines83'
    BY <1>0, <1>3, ByFork, <1>s DEF Lines83, Control83, Past
  <2>5. Buffers83'
    BY <1>0, <1>3, ByFork, <1>s, <1>e DEF Buffers83, Control83
  <2>6. Held83'
    BY <1>0, <1>3, ByFork, <1>s, <1>e DEF Held83, Held, Buffers83, Control83
  <2> QED BY <2>1, <2>2, <2>3, <2>4, <2>5, <2>6 DEF In83
<1>4. CASE F!ForkFails
  <2>1. OutTypes' /\ UNCHANGED <<demo, tty>>
    BY <1>0, <1>4, ByForkFails
  <2>2. Control83'
    BY <1>0, <1>4, ByForkFails, <1>s DEF Control83
  <2>3. Globvar83'
    BY <1>0, <1>4, ByForkFails, <1>s DEF Globvar83, Control83
  <2>4. Lines83'
    BY <1>0, <1>4, ByForkFails, <1>s DEF Lines83, Control83, Past
  <2>5. Buffers83'
    BY <1>0, <1>4, ByForkFails, <1>s, <1>e DEF Buffers83, Control83
  <2>6. Held83'
    BY <1>0, <1>4, ByForkFails, <1>s, <1>e DEF Held83, Held, Buffers83, Control83
  <2> QED BY <2>1, <2>2, <2>3, <2>4, <2>5, <2>6 DEF In83
<1>5. CASE F!Count
  <2>0. /\ at["child"] = "count" /\ at'["main"] = at["main"] /\ at'["child"] = "print"
        /\ globvar'["main"] = globvar["main"]
        /\ UNCHANGED <<demo, tty, buf, out, printed, statuses>> /\ OutTypes'
    <3>1. at["child"] = "count"
      BY <1>5 DEF F!Count, F!Goto
    <3>2. globvar["main"] = 6 /\ globvar["child"] = 6
      BY <1>0, <3>1 DEF Globvar83
    <3> QED BY <1>5, <3>2, ByCount
  <2>1. OutTypes' /\ UNCHANGED <<demo, tty>>
    BY <1>0, <2>0, <1>5, ByCount DEF Globvar83
  <2>2. Control83'
    BY <1>0, <2>0, <1>s DEF Control83
  <2>3. Globvar83'
    BY <1>0, <2>0, <1>s DEF Globvar83, Control83
  <2>4. Lines83'
    BY <1>0, <2>0, <1>s DEF Lines83, Control83, Past
  <2>5. Buffers83'
    BY <1>0, <2>0, <1>s, <1>e DEF Buffers83, Control83
  <2>6. Held83'
    BY <1>0, <2>0, <1>s, <1>e DEF Held83, Held, Buffers83, Control83
  <2> QED BY <2>1, <2>2, <2>3, <2>4, <2>5, <2>6 DEF In83
<1>6. CASE F!PrintVars("main")
  <2>0. /\ at["main"] = "print" /\ at'["main"] = "return" /\ at'["child"] = at["child"]
        /\ printed' = printed + 1 /\ Len(statuses') = Len(statuses) + 1
        /\ buf'["child"] = buf["child"] /\ (~tty => out' = out /\ buf'["main"] = buf["main"] + 1)
        /\ UNCHANGED <<demo, tty, globvar>>
    BY <1>6, ByPrintVars
  <2>1. OutTypes' /\ UNCHANGED <<demo, tty>>
    BY <1>0, <2>0, <1>6, ByPrintVars
  <2>2. Control83'
    BY <1>0, <2>0, <1>s DEF Control83
  <2>3. Globvar83'
    BY <1>0, <2>0, <1>s DEF Globvar83, Control83
  <2>4. Lines83'
    <3>1. /\ Past("main") = 0 /\ Past("main")' = 1
          /\ Past("child") \in {0, 1} /\ Past("child")' = Past("child")
      BY <2>0 DEF Past
    <3>2. /\ at["child"] # "none" /\ printed = 2 + 0 + Past("child")
          /\ Len(statuses) = 0 + Past("child")
      BY <1>0, <2>0, <3>1 DEF Control83, Lines83
    <3>3. at["main"] \notin {"write", "before_fork", "fork"}
      BY <1>0, <3>2 DEF Control83
    <3> QED BY <2>0, <3>1, <3>2, <3>3 DEF Lines83
  <2>5. Buffers83'
    BY <1>0, <2>0, <1>s, <1>e DEF Buffers83, Control83
  <2>6. Held83'
    BY SMTT(30), <1>0, <2>0, <1>s, <1>e DEF Held83, Held, Buffers83, Control83
  <2> QED BY <2>1, <2>2, <2>3, <2>4, <2>5, <2>6 DEF In83
<1>7. CASE F!PrintVars("child")
  <2>0. /\ at["child"] = "print" /\ at'["child"] = "return" /\ at'["main"] = at["main"]
        /\ printed' = printed + 1 /\ Len(statuses') = Len(statuses) + 1
        /\ buf'["main"] = buf["main"] /\ (~tty => out' = out /\ buf'["child"] = buf["child"] + 1)
        /\ UNCHANGED <<demo, tty, globvar>>
    BY <1>7, ByPrintVars
  <2>1. OutTypes' /\ UNCHANGED <<demo, tty>>
    BY <1>0, <2>0, <1>7, ByPrintVars
  <2>2. Control83'
    BY <1>0, <2>0, <1>s DEF Control83
  <2>3. Globvar83'
    BY <1>0, <2>0, <1>s DEF Globvar83, Control83
  <2>4. Lines83'
    <3>1. /\ Past("child") = 0 /\ Past("child")' = 1
          /\ Past("main") \in {0, 1} /\ Past("main")' = Past("main")
      BY <2>0 DEF Past
    <3>2. /\ at["child"] # "none" /\ printed = 2 + 0 + Past("main")
          /\ Len(statuses) = 0 + Past("main")
      BY <1>0, <2>0, <3>1 DEF Control83, Lines83
    <3>3. at["main"] \notin {"write", "before_fork", "fork"}
      BY <1>0, <3>2 DEF Control83
    <3> QED BY <2>0, <3>1, <3>2, <3>3 DEF Lines83
  <2>5. Buffers83'
    BY <1>0, <2>0, <1>s, <1>e DEF Buffers83, Control83
  <2>6. Held83'
    BY SMTT(30), <1>0, <2>0, <1>s, <1>e DEF Held83, Held, Buffers83, Control83
  <2> QED BY <2>1, <2>2, <2>3, <2>4, <2>5, <2>6 DEF In83
<1>8. CASE F!Return("main")
  <2>0. /\ at["main"] = "return" /\ at'["main"] = "exited" /\ at'["child"] = at["child"]
        /\ out' = out + buf["main"] /\ buf'["main"] = 0 /\ buf'["child"] = buf["child"]
        /\ UNCHANGED <<demo, tty, printed, globvar, statuses>>
    BY <1>8, ByReturn
  <2>1. OutTypes' /\ UNCHANGED <<demo, tty>>
    BY <1>0, <2>0, <1>8, ByReturn
  <2>2. Control83'
    BY <1>0, <2>0, <1>s DEF Control83
  <2>3. Globvar83'
    BY <1>0, <2>0, <1>s DEF Globvar83, Control83
  <2>4. Lines83'
    <3>1. /\ Past("main") = 1 /\ Past("main")' = 1
          /\ Past("child") \in {0, 1} /\ Past("child")' = Past("child")
      BY <2>0 DEF Past
    <3>2. /\ at["child"] # "none" /\ printed = 2 + 1 + Past("child")
          /\ Len(statuses) = 1 + Past("child")
      BY <1>0, <2>0, <3>1 DEF Control83, Lines83
    <3>3. at["main"] \notin {"write", "before_fork", "fork"}
      BY <1>0, <3>2 DEF Control83
    <3> QED BY <2>0, <3>1, <3>2, <3>3 DEF Lines83
  <2>5. Buffers83'
    BY <1>0, <2>0, <1>s, <1>e DEF Buffers83, Control83
  <2>6. Held83'
    BY <1>0, <2>0, <1>s, <1>e DEF Held83, Held, Buffers83, Control83
  <2> QED BY <2>1, <2>2, <2>3, <2>4, <2>5, <2>6 DEF In83
<1>9. CASE F!Return("child")
  <2>0. /\ at["child"] = "return" /\ at'["child"] = "exited" /\ at'["main"] = at["main"]
        /\ out' = out + buf["child"] /\ buf'["child"] = 0 /\ buf'["main"] = buf["main"]
        /\ UNCHANGED <<demo, tty, printed, globvar, statuses>>
    BY <1>9, ByReturn
  <2>1. OutTypes' /\ UNCHANGED <<demo, tty>>
    BY <1>0, <2>0, <1>9, ByReturn
  <2>2. Control83'
    BY <1>0, <2>0, <1>s DEF Control83
  <2>3. Globvar83'
    BY <1>0, <2>0, <1>s DEF Globvar83, Control83
  <2>4. Lines83'
    <3>1. /\ Past("child") = 1 /\ Past("child")' = 1
          /\ Past("main") \in {0, 1} /\ Past("main")' = Past("main")
      BY <2>0 DEF Past
    <3>2. /\ at["child"] # "none" /\ printed = 2 + 1 + Past("main")
          /\ Len(statuses) = 1 + Past("main")
      BY <1>0, <2>0, <3>1 DEF Control83, Lines83
    <3>3. at["main"] \notin {"write", "before_fork", "fork"}
      BY <1>0, <3>2 DEF Control83
    <3> QED BY <2>0, <3>1, <3>2, <3>3 DEF Lines83
  <2>5. Buffers83'
    BY <1>0, <2>0, <1>s, <1>e DEF Buffers83, Control83
  <2>6. Held83'
    BY <1>0, <2>0, <1>s, <1>e DEF Held83, Held, Buffers83, Control83
  <2> QED BY <2>1, <2>2, <2>3, <2>4, <2>5, <2>6 DEF In83
<1>10. ~F!End /\ ~F!Wait
  BY <1>0 DEF Control83, F!End, F!Wait, F!Goto
<1> QED BY <1>1, <1>2, <1>3, <1>4, <1>5, <1>6, <1>7, <1>8, <1>9, <1>10 DEF F!Next, F!Step, F!Procs

LEMMA ByWait ==
  ASSUME OutTypes, F!Wait, Len(statuses) \in 0 .. 2
  PROVE  /\ at["main"] = "wait" /\ at["child"] \in F!Gone /\ at'["child"] = at["child"]
         /\ UNCHANGED <<demo, tty, globvar>> /\ buf'["child"] = buf["child"] /\ OutTypes'
         /\ demo = "8.4" => at'["main"] = "print" /\ UNCHANGED <<buf, out, printed, statuses>>
         /\ demo # "8.4" =>
              /\ at'["main"] = IF Len(statuses) = 2 THEN "return" ELSE "fork"
              /\ printed' = printed + 1 /\ Len(statuses') = Len(statuses) + 1
              /\ ~tty => out' = out /\ buf'["main"] = buf["main"] + 1
<1> USE DEF F!Procs
<1>1. CASE demo = "8.4"
  <2>1. /\ at["main"] = "wait" /\ at["child"] \in F!Gone /\ at' \in [F!Procs -> Points]
        /\ at'["main"] = "print" /\ at'["child"] = at["child"]
        /\ UNCHANGED <<demo, tty, buf, out, printed, globvar, statuses>>
    BY <1>1, Moves DEF F!Wait, Points
  <2>2. OutTypes'
    BY <2>1 DEF OutTypes
  <2> QED BY <1>1, <2>1, <2>2
<1>2. CASE demo # "8.4"
  <2>1. /\ at["main"] = "wait" /\ at["child"] \in F!Gone /\ at' \in [F!Procs -> Points]
        /\ at'["main"] = IF Len(statuses) = 2 THEN "return" ELSE "fork"
        /\ at'["child"] = at["child"] /\ F!Printf("main")
        /\ statuses' = Append(statuses, <<7, "SIGABRT", 1>>[Len(statuses) + 1])
        /\ UNCHANGED <<demo, tty, globvar>>
    BY <1>2, Moves DEF F!Wait, Points
  <2>2. /\ printed' = printed + 1 /\ buf' \in [F!Procs -> Nat] /\ out' \in Nat
        /\ buf'["child"] = buf["child"]
        /\ tty => out' = out + 1 /\ buf'["main"] = buf["main"]
        /\ ~tty => out' = out /\ buf'["main"] = buf["main"] + 1
    BY <2>1, Prints
  <2>3. statuses' \in Seq({6, 7, "SIGABRT", 1}) /\ Len(statuses') = Len(statuses) + 1
    <3>1. <<7, "SIGABRT", 1>>[Len(statuses) + 1] \in {6, 7, "SIGABRT", 1}
      <4>1. CASE Len(statuses) = 0
        BY <4>1
      <4>2. CASE Len(statuses) = 1
        BY <4>2
      <4>3. CASE Len(statuses) = 2
        BY <4>3
      <4> QED BY <4>1, <4>2, <4>3
    <3> QED BY <2>1, <3>1, OneMore DEF OutTypes
  <2>4. OutTypes'
    BY <2>1, <2>2, <2>3 DEF OutTypes
  <2> QED BY <1>2, <2>1, <2>2, <2>3, <2>4
<1> QED BY <1>1, <1>2

LEMMA Step84 ==
  ASSUME OutTypes, In84, demo = "8.4", F!Next
  PROVE  OutTypes' /\ In84'
<1> USE DEF F!Procs
<1>0. Control84 /\ Globvar84 /\ Lines84 /\ Buffers84 /\ Held84
  BY DEF In84
<1>s. /\ Len(statuses) \in Nat /\ out \in Nat /\ printed \in Nat
      /\ buf["main"] \in Nat /\ buf["child"] \in Nat
  BY Scalars
<1>e. /\ at["main"] \in {"write", "before_fork", "exited"} => buf["main"] = 0
      /\ at["child"] \in {"none", "exited"} => buf["child"] = 0
  BY DEF OutTypes
<1>1. CASE F!Write
  <2>0. /\ at["main"] = "write" /\ at'["child"] = at["child"]
        /\ \/ at'["main"] = "before_fork" /\ out' = out + 1 /\ printed' = printed + 1
           \/ at'["main"] = "exited" /\ out' = out /\ printed' = printed
        /\ UNCHANGED <<demo, tty, buf, globvar, statuses>>
    BY <1>1, ByWrite
  <2>1. OutTypes' /\ UNCHANGED <<demo, tty>>
    BY <1>1, ByWrite
  <2>2. Control84'
    BY <1>0, <2>0, <1>s, <1>e DEF Control84, F!Gone
  <2>3. Globvar84'
    BY <1>0, <2>0, <1>s, <1>e DEF Globvar84, Control84
  <2>4. Lines84'
    BY <1>0, <2>0, <1>s, <1>e DEF Lines84, Control84
  <2>5. Buffers84'
    BY <1>0, <2>0, <1>s, <1>e DEF Buffers84, Control84
  <2>6. Held84'
    BY <1>0, <2>0, <1>s, <1>e DEF Held84, Buffers84, Control84
  <2> QED BY <2>1, <2>2, <2>3, <2>4, <2>5, <2>6 DEF In84
<1>2. CASE F!BeforeFork
  <2>0. /\ at["main"] = "before_fork" /\ at'["main"] = "fork" /\ at'["child"] = at["child"]
        /\ printed' = printed + 1 /\ buf'["child"] = buf["child"]
        /\ ~tty => out' = out /\ buf'["main"] = buf["main"] + 1
        /\ UNCHANGED <<demo, tty, globvar, statuses>>
    BY <1>2, ByBeforeFork
  <2>1. OutTypes' /\ UNCHANGED <<demo, tty>>
    BY <1>2, ByBeforeFork
  <2>2. Control84'
    BY <1>0, <2>0, <1>s, <1>e DEF Control84, F!Gone
  <2>3. Globvar84'
    BY <1>0, <2>0, <1>s, <1>e DEF Globvar84, Control84
  <2>4. Lines84'
    BY <1>0, <2>0, <1>s, <1>e DEF Lines84, Control84
  <2>5. Buffers84'
    BY <1>0, <2>0, <1>s, <1>e DEF Buffers84, Control84
  <2>6. Held84'
    BY <1>0, <2>0, <1>s, <1>e DEF Held84, Buffers84, Control84
  <2> QED BY <2>1, <2>2, <2>3, <2>4, <2>5, <2>6 DEF In84
<1>3. CASE F!Fork
  <2>0. /\ at["main"] = "fork" /\ at'["main"] = "wait" /\ at'["child"] = "count"
        /\ buf'["main"] = buf["main"] /\ buf'["child"] = buf["main"]
        /\ globvar'["main"] = globvar["main"] /\ globvar'["child"] = globvar["main"]
        /\ UNCHANGED <<demo, tty, out, printed, statuses>>
    BY <1>3, ByFork
  <2>1. OutTypes' /\ UNCHANGED <<demo, tty>>
    BY <1>3, ByFork
  <2>2. Control84'
    BY <1>0, <2>0, <1>s, <1>e DEF Control84, F!Gone
  <2>3. Globvar84'
    BY <1>0, <2>0, <1>s, <1>e DEF Globvar84, Control84
  <2>4. Lines84'
    BY <1>0, <2>0, <1>s, <1>e DEF Lines84, Control84
  <2>5. Buffers84'
    BY <1>0, <2>0, <1>s, <1>e DEF Buffers84, Control84
  <2>6. Held84'
    BY <1>0, <2>0, <1>s, <1>e DEF Held84, Buffers84, Control84
  <2> QED BY <2>1, <2>2, <2>3, <2>4, <2>5, <2>6 DEF In84
<1>4. CASE F!ForkFails
  <2>0. /\ at["main"] = "fork" /\ at'["main"] = "exited" /\ at'["child"] = at["child"]
        /\ out' = out + buf["main"] /\ buf'["main"] = 0 /\ buf'["child"] = buf["child"]
        /\ UNCHANGED <<demo, tty, printed, globvar, statuses>>
    BY <1>4, ByForkFails
  <2>1. OutTypes' /\ UNCHANGED <<demo, tty>>
    BY <1>4, ByForkFails
  <2>2. Control84'
    BY <1>0, <2>0, <1>s, <1>e DEF Control84, F!Gone
  <2>3. Globvar84'
    BY <1>0, <2>0, <1>s, <1>e DEF Globvar84, Control84
  <2>4. Lines84'
    BY <1>0, <2>0, <1>s, <1>e DEF Lines84, Control84
  <2>5. Buffers84'
    BY <1>0, <2>0, <1>s, <1>e DEF Buffers84, Control84
  <2>6. Held84'
    BY <1>0, <2>0, <1>s, <1>e DEF Held84, Buffers84, Control84
  <2> QED BY <2>1, <2>2, <2>3, <2>4, <2>5, <2>6 DEF In84
<1>5. CASE F!Count
  <2>0. /\ at["child"] = "count" /\ at'["main"] = at["main"] /\ at'["child"] = "_exit"
        /\ UNCHANGED <<demo, tty, buf, out, printed, statuses>> /\ OutTypes'
    <3>1. at["child"] = "count"
      BY <1>5 DEF F!Count, F!Goto
    <3>2. globvar["main"] = 6 /\ globvar["child"] = 6
      BY <1>0, <3>1 DEF Globvar84, Control84
    <3> QED BY <1>5, <3>2, ByCount
  <2>1. OutTypes' /\ UNCHANGED <<demo, tty>>
    BY <2>0
  <2>2. Control84'
    BY <1>0, <2>0, <1>s, <1>e DEF Control84, F!Gone
  <2>3. Globvar84'
    BY <1>0, <2>0, <1>s, <1>e DEF Globvar84, Control84
  <2>4. Lines84'
    BY <1>0, <2>0, <1>s, <1>e DEF Lines84, Control84
  <2>5. Buffers84'
    BY <1>0, <2>0, <1>s, <1>e DEF Buffers84, Control84
  <2>6. Held84'
    BY <1>0, <2>0, <1>s, <1>e DEF Held84, Buffers84, Control84
  <2> QED BY <2>1, <2>2, <2>3, <2>4, <2>5, <2>6 DEF In84
<1>6. CASE F!Wait
  <2>0. /\ at["main"] = "wait" /\ at["child"] \in F!Gone /\ at'["main"] = "print"
        /\ at'["child"] = at["child"]
        /\ UNCHANGED <<demo, tty, buf, out, printed, globvar, statuses>>
        /\ OutTypes'
    <3>0. at["main"] = "wait"
      BY <1>6 DEF F!Wait, F!Goto
    <3>1. Len(statuses) \in 0 .. 2
      BY <1>0, <1>s, <3>0 DEF Lines84
    <3> QED BY <1>0, <1>6, <3>1, ByWait DEF Control84, F!Gone
  <2>1. OutTypes' /\ UNCHANGED <<demo, tty>>
    BY <2>0
  <2>2. Control84'
    BY <1>0, <2>0, <1>s, <1>e DEF Control84, F!Gone
  <2>3. Globvar84'
    BY <1>0, <2>0, <1>s, <1>e DEF Globvar84, Control84
  <2>4. Lines84'
    BY <1>0, <2>0, <1>s, <1>e DEF Lines84, Control84
  <2>5. Buffers84'
    BY <1>0, <2>0, <1>s, <1>e DEF Buffers84, Control84
  <2>6. Held84'
    BY <1>0, <2>0, <1>s, <1>e DEF Held84, Buffers84, Control84
  <2> QED BY <2>1, <2>2, <2>3, <2>4, <2>5, <2>6 DEF In84
<1>7. CASE F!PrintVars("main")
  <2>0. /\ at["main"] = "print" /\ at'["main"] = "return" /\ at'["child"] = at["child"]
        /\ printed' = printed + 1 /\ Len(statuses') = Len(statuses) + 1
        /\ buf'["child"] = buf["child"] /\ (~tty => out' = out /\ buf'["main"] = buf["main"] + 1)
        /\ UNCHANGED <<demo, tty, globvar>>
    BY <1>7, ByPrintVars
  <2>1. OutTypes' /\ UNCHANGED <<demo, tty>>
    BY <1>7, ByPrintVars
  <2>2. Control84'
    BY <1>0, <2>0, <1>s, <1>e DEF Control84, F!Gone
  <2>3. Globvar84'
    BY <1>0, <2>0, <1>s, <1>e DEF Globvar84, Control84
  <2>4. Lines84'
    BY <1>0, <2>0, <1>s, <1>e DEF Lines84, Control84
  <2>5. Buffers84'
    BY <1>0, <2>0, <1>s, <1>e DEF Buffers84, Control84
  <2>6. Held84'
    BY <1>0, <2>0, <1>s, <1>e DEF Held84, Buffers84, Control84
  <2> QED BY <2>1, <2>2, <2>3, <2>4, <2>5, <2>6 DEF In84
<1>8. CASE F!Return("main")
  <2>0. /\ at["main"] = "return" /\ at'["main"] = "exited" /\ at'["child"] = at["child"]
        /\ out' = out + buf["main"] /\ buf'["main"] = 0 /\ buf'["child"] = buf["child"]
        /\ UNCHANGED <<demo, tty, printed, globvar, statuses>>
    BY <1>8, ByReturn
  <2>1. OutTypes' /\ UNCHANGED <<demo, tty>>
    BY <1>8, ByReturn
  <2>2. Control84'
    BY <1>0, <2>0, <1>s, <1>e DEF Control84, F!Gone
  <2>3. Globvar84'
    BY <1>0, <2>0, <1>s, <1>e DEF Globvar84, Control84
  <2>4. Lines84'
    BY <1>0, <2>0, <1>s, <1>e DEF Lines84, Control84
  <2>5. Buffers84'
    BY <1>0, <2>0, <1>s, <1>e DEF Buffers84, Control84
  <2>6. Held84'
    BY <1>0, <2>0, <1>s, <1>e DEF Held84, Buffers84, Control84
  <2> QED BY <2>1, <2>2, <2>3, <2>4, <2>5, <2>6 DEF In84
<1>9. ~F!End /\ ~F!PrintVars("child") /\ ~F!Return("child")
  BY <1>0 DEF Control84, F!End, F!PrintVars, F!Return, F!Goto
<1> QED BY <1>1, <1>2, <1>3, <1>4, <1>5, <1>6, <1>7, <1>8, <1>9 DEF F!Next, F!Step

LEMMA Step86 ==
  ASSUME OutTypes, In86, demo = "8.6", F!Next
  PROVE  OutTypes' /\ In86'
<1> USE DEF F!Procs
<1>0. Control86 /\ Globvar86 /\ Lines86 /\ Buffers86 /\ Repeated86
  BY DEF In86
<1>s. /\ Len(statuses) \in Nat /\ out \in Nat /\ printed \in Nat
      /\ buf["main"] \in Nat /\ buf["child"] \in Nat
  BY Scalars
<1>e. /\ at["main"] \in {"write", "before_fork", "exited"} => buf["main"] = 0
      /\ at["child"] \in {"none", "exited"} => buf["child"] = 0
  BY DEF OutTypes
<1>1. CASE F!Fork
  <2>0. /\ at["main"] = "fork" /\ at'["main"] = "wait" /\ at'["child"] = "end"
        /\ buf'["main"] = buf["main"] /\ buf'["child"] = buf["main"]
        /\ globvar'["main"] = globvar["main"] /\ globvar'["child"] = globvar["main"]
        /\ UNCHANGED <<demo, tty, out, printed, statuses>>
    BY <1>1, ByFork
  <2>1. OutTypes' /\ UNCHANGED <<demo, tty>>
    BY <1>1, ByFork
  <2>2. Control86'
    BY <1>0, <2>0, <1>s, <1>e DEF Control86
  <2>3. Globvar86'
    BY <1>0, <2>0, <1>s, <1>e DEF Globvar86, Control86
  <2>4. Lines86'
    BY <1>0, <2>0, <1>s, <1>e DEF Lines86, Control86
  <2>5. Buffers86'
    BY <1>0, <2>0, <1>s, <1>e DEF Buffers86, Control86, Lines86
  <2>6. Repeated86'
    BY <1>0, <2>0 DEF Repeated86
  <2> QED BY <2>1, <2>2, <2>3, <2>4, <2>5, <2>6 DEF In86
<1>2. CASE F!ForkFails
  <2>0. /\ at["main"] = "fork" /\ at'["main"] = "exited" /\ at'["child"] = at["child"]
        /\ out' = out + buf["main"] /\ buf'["main"] = 0 /\ buf'["child"] = buf["child"]
        /\ UNCHANGED <<demo, tty, printed, globvar, statuses>>
    BY <1>2, ByForkFails
  <2>1. OutTypes' /\ UNCHANGED <<demo, tty>>
    BY <1>2, ByForkFails
  <2>2. Control86'
    BY <1>0, <2>0, <1>s, <1>e DEF Control86
  <2>3. Globvar86'
    BY <1>0, <2>0, <1>s, <1>e DEF Globvar86, Control86
  <2>4. Lines86'
    BY <1>0, <2>0, <1>s, <1>e DEF Lines86, Control86
  <2>5. Buffers86'
    BY <1>0, <2>0, <1>s, <1>e DEF Buffers86, Control86, Lines86
  <2>6. Repeated86'
    <3>1. ~tty => Repeats(printed, out) /\ buf["main"] = printed
      BY <1>0, <2>0 DEF Repeated86, Buffers86
    <3>2. ~tty => out' - printed' = out /\ printed' = printed
      BY <2>0, <3>1, <1>s
    <3>3. ~tty => Repeats(printed', out' - printed')
      BY <3>1, <3>2
    <3>4. at'["child"] # "end" /\ at'["main"] = "exited"
      BY <1>0, <2>0 DEF Control86
    <3> QED BY <2>1, <3>3, <3>4 DEF Repeated86
  <2> QED BY <2>1, <2>2, <2>3, <2>4, <2>5, <2>6 DEF In86
<1>3. CASE F!End
  <2>0. /\ at["child"] = "end" /\ at'["child"] = "exited" /\ at'["main"] = at["main"]
        /\ out' = out + buf["child"] \/ (Len(statuses) = 1 /\ out' = out)
        /\ buf'["child"] = 0 /\ buf'["main"] = buf["main"]
        /\ UNCHANGED <<demo, tty, printed, globvar, statuses>>
    BY <1>3, ByEnd
  <2>1. OutTypes' /\ UNCHANGED <<demo, tty>>
    BY <1>3, ByEnd
  <2>2. Control86'
    BY <1>0, <2>0, <1>s, <1>e DEF Control86
  <2>3. Globvar86'
    BY <1>0, <2>0, <1>s, <1>e DEF Globvar86, Control86
  <2>4. Lines86'
    BY <1>0, <2>0, <1>s, <1>e DEF Lines86, Control86
  <2>5. Buffers86'
    BY <1>0, <2>0, <1>s, <1>e DEF Buffers86, Control86, Lines86
  <2>6. Repeated86'
    <3>1. at["main"] = "wait" /\ printed = Len(statuses) /\ printed <= 2
      BY <1>0, <2>0 DEF Control86, Lines86
    <3>2. ~tty => Repeats(printed, out) /\ buf["child"] = printed
      BY <1>0, <2>0 DEF Repeated86, Buffers86
    <3>3. ~tty => out' = out + printed \/ (printed = 1 /\ out' = out)
      BY <2>0, <3>1, <3>2
    <3>4. ~tty => Repeats(printed + 1, out')
      <4>1. CASE printed = 0
        BY <4>1, <1>s, <3>2, <3>3 DEF Repeats
      <4>2. CASE printed = 1
        BY <4>2, <1>s, <3>2, <3>3 DEF Repeats
      <4>3. CASE printed = 2
        BY <4>3, <1>s, <3>2, <3>3 DEF Repeats
      <4> QED BY <1>s, <3>1, <4>1, <4>2, <4>3
    <3> QED BY <2>0, <3>1, <3>4 DEF Repeated86
  <2> QED BY <2>1, <2>2, <2>3, <2>4, <2>5, <2>6 DEF In86
<1>4. CASE F!Wait
  <2>0. /\ at["main"] = "wait" /\ at["child"] = "exited" /\ at'["child"] = "exited"
        /\ at'["main"] = IF Len(statuses) = 2 THEN "return" ELSE "fork"
        /\ printed' = printed + 1 /\ Len(statuses') = Len(statuses) + 1
        /\ buf'["child"] = buf["child"] /\ (~tty => out' = out /\ buf'["main"] = buf["main"] + 1)
        /\ UNCHANGED <<demo, tty, globvar>>
        /\ OutTypes'
    <3>0. at["main"] = "wait"
      BY <1>4 DEF F!Wait, F!Goto
    <3>1. Len(statuses) \in 0 .. 2
      BY <1>0, <3>0, <1>s DEF Lines86
    <3> QED BY <1>0, <1>4, <3>1, ByWait DEF Control86, F!Gone
  <2>1. OutTypes' /\ UNCHANGED <<demo, tty>>
    BY <2>0
  <2>2. Control86'
    BY <1>0, <2>0, <1>s, <1>e DEF Control86
  <2>3. Globvar86'
    BY <1>0, <2>0, <1>s, <1>e DEF Globvar86, Control86
  <2>4. Lines86'
    BY <1>0, <2>0, <1>s, <1>e DEF Lines86, Control86
  <2>5. Buffers86'
    BY <1>0, <2>0, <1>s, <1>e DEF Buffers86, Control86, Lines86
  <2>6. Repeated86'
    BY <1>0, <2>0, <1>s, <1>e DEF Repeated86, Buffers86, Repeats, Control86, Lines86
  <2> QED BY <2>1, <2>2, <2>3, <2>4, <2>5, <2>6 DEF In86
<1>5. CASE F!Return("main")
  <2>0. /\ at["main"] = "return" /\ at'["main"] = "exited" /\ at'["child"] = at["child"]
        /\ out' = out + buf["main"] /\ buf'["main"] = 0 /\ buf'["child"] = buf["child"]
        /\ UNCHANGED <<demo, tty, printed, globvar, statuses>>
    BY <1>5, ByReturn
  <2>1. OutTypes' /\ UNCHANGED <<demo, tty>>
    BY <1>5, ByReturn
  <2>2. Control86'
    BY <1>0, <2>0, <1>s, <1>e DEF Control86
  <2>3. Globvar86'
    BY <1>0, <2>0, <1>s, <1>e DEF Globvar86, Control86
  <2>4. Lines86'
    BY <1>0, <2>0, <1>s, <1>e DEF Lines86, Control86
  <2>5. Buffers86'
    BY <1>0, <2>0, <1>s, <1>e DEF Buffers86, Control86, Lines86
  <2>6. Repeated86'
    <3>1. ~tty => Repeats(printed, out) /\ buf["main"] = printed
      BY <1>0, <2>0 DEF Repeated86, Buffers86
    <3>2. ~tty => out' - printed' = out /\ printed' = printed
      BY <2>0, <3>1, <1>s
    <3>3. ~tty => Repeats(printed', out' - printed')
      BY <3>1, <3>2
    <3>4. at'["child"] # "end" /\ at'["main"] = "exited"
      BY <1>0, <2>0 DEF Control86
    <3> QED BY <2>1, <3>3, <3>4 DEF Repeated86
  <2> QED BY <2>1, <2>2, <2>3, <2>4, <2>5, <2>6 DEF In86
<1>6. /\ ~F!Write /\ ~F!BeforeFork /\ ~F!Count /\ ~F!Return("child")
      /\ ~F!PrintVars("main") /\ ~F!PrintVars("child")
  BY <1>0 DEF Control86, F!Write, F!BeforeFork, F!Count, F!PrintVars, F!Return, F!Goto
<1> QED BY <1>1, <1>2, <1>3, <1>4, <1>5, <1>6 DEF F!Next, F!Step

LEMMA OutInvStep == OutInv /\ [F!Next]_outputvars => OutInv'
<1> SUFFICES ASSUME OutInv, [F!Next]_outputvars PROVE OutInv'
  OBVIOUS
<1>1. CASE UNCHANGED outputvars
  BY <1>1
  DEF outputvars, OutInv, OutTypes, In83, Control83, Globvar83, Lines83, Buffers83, Held83, Held,
      Past, In84, Control84, Globvar84, Lines84, Buffers84, Held84, In86, Control86, Globvar86,
      Lines86, Buffers86, Repeated86, Repeats
<1>2. CASE F!Next
  <2>1. UNCHANGED demo
    BY <1>2 DEF F!Next, F!Step, F!Write, F!BeforeFork, F!Fork, F!ForkFails, F!Count, F!PrintVars,
                F!Return, F!End, F!Wait
  <2>2. CASE demo = "8.3"
    BY <1>2, <2>1, <2>2, Step83, Zenon DEF OutInv
  <2>3. CASE demo = "8.4"
    BY <1>2, <2>1, <2>3, Step84, Zenon DEF OutInv
  <2>4. CASE demo = "8.6"
    BY <1>2, <2>1, <2>4, Step86, Zenon DEF OutInv
  <2> QED BY <2>2, <2>3, <2>4 DEF OutInv, OutTypes
<1> QED BY <1>1, <1>2

-----------------------------------------------------------------------------
(* The three together: a step of the composition is one of each or leaves  *)
(* it alone.                                                               *)
LEMMA StepOfEach ==
  [MCNext]_<<family, vars, pipevars, outputvars>>
    => [Next]_vars /\ [P!Next]_pipevars /\ [F!Next]_outputvars
BY Zenon DEF MCNext

(* Every answer the driver prints is the answer to the line it sent before *)
(* it, in the order sent: the coprocess neither loses nor swaps a line.    *)
THEOREM EachLineAnswered == MCSpec => []Inv
<1>1. MCInit => Init
  BY DEF MCInit
<1> QED BY <1>1, InitInv, InvStep, StepOfEach, PTL DEF MCSpec

(* Through the one pipe of 15.2, 15.2.2, 15.3 and 15.3.2 no line is lost   *)
(* but by a quit or a missing filter, and SIGPIPE kills only a writer      *)
(* whose reader is gone; of the lines 8.3, 8.4 and 8.6 print, exactly      *)
(* those come twice that were in a buffer at a fork whose child writes it. *)
THEOREM PipesSafe == MCSpec => []PipesInv
<1>1. MCInit => P!Init /\ F!Init
  BY DEF MCInit
<1>2. PipeInv /\ OutInv => PipesInv
  BY OutInvSafe DEF PipesInv, PipeInv
<1> QED
  BY <1>1, <1>2, PipeInvInit, PipeInvStep, OutInvInit, OutInvStep, StepOfEach, PTL DEF MCSpec
=============================================================================
