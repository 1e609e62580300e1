--------------------------- MODULE MCSignals_proofs ---------------------------
(***************************************************************************)
(* The programs that wait for signals, stop, jump or survive them, for     *)
(* every value of the bounds: any number of signals and of seconds, and,   *)
(* in 10.21, handlers that interrupt each other to any depth.              *)
(***************************************************************************)
EXTENDS MCSignals, SequenceTheorems, FiniteSetTheorems, TLAPS

-----------------------------------------------------------------------------
(* AlarmWaits: while the alarm is set, it and the time since then make up  *)
(* the seconds asked for; when it is not, they have passed.                *)
Waiting == {"wait", "paused", "reading", "cancel"}

Timed ==
  /\ pc \in Waiting => IF alarm > 0 THEN elapsed + alarm = Seconds ELSE elapsed >= Seconds
  /\ "ALRM" \in pending => alarm = 0 /\ elapsed >= Seconds
  /\ pc \in {"signal", "setjmp", "alarm", "write", "done", "timeout"} =>
       alarm = 0 /\ "ALRM" \notin pending

Frames ==
  /\ LongJumps /\ pc \in Waiting \union {"alarm"} => env_alrm
  /\ "ALRM" \in pending => pc \in Waiting \union {"killed", "failed"}
  /\ pc \in {"reading", "write"} => program \in Reads
  /\ sig_int = "running" => program = "10.10.3"
  /\ sig_int = "abandoned" => pc \notin {"signal", "setjmp", "alarm"}
  /\ line = "taken" => program \in Reads /\ pc \in {"cancel", "write", "timeout", "killed"}

AlarmInv == Inv /\ Timed /\ Frames

(* MaskedWaits: what is caught, blocked, pending and handled at each       *)
(* statement.                                                              *)
Sent == \A s \in M!Signals : handled[s] + (IF s \in pending THEN 1 ELSE 0) <= sent

Caught ==
  /\ pc = "signal" => caught = {} \/ (program = M!UntilQuit /\ caught = {"INT"})
  /\ program = M!Once => caught \subseteq {"INT"}
  /\ program = M!Pending => /\ pc = "signal" => handled["QUIT"] = 0
                            /\ caught = {} \/ (caught = {"QUIT"} /\ handled["QUIT"] = 0)

Blocked ==
  /\ pc \in {"sleep", "sigpending"} => program = M!Pending
  /\ pc = "test" => program = M!UntilQuit
  /\ pc \in {"suspend", "suspended", "awake"} => program # M!Pending
  /\ program = M!Pending =>
       /\ pc \in {"sleep", "sigpending", "unblock"} => mask = {"QUIT"}
       /\ reported => \/ pc = "unblock" /\ "QUIT" \in pending
                      \/ pc = "unblocked" /\ ("QUIT" \in pending \/ handled["QUIT"] = 1)
                      \/ pc = "done" /\ handled["QUIT"] = 1
                      \/ pc = "killed"
  /\ program = M!Once /\ pc = "awake" => handled["INT"] > 0
  /\ program = M!UntilQuit =>
       /\ pc \in {"test", "suspend"} => mask = {"QUIT"}
       /\ pc \in {"suspend", "suspended"} => quitflag = 0
       /\ quitflag = 1 => handled["QUIT"] > 0

MaskedInv == M!Inv /\ Sent /\ Caught /\ Blocked

(* SignalJump: where main and the handler are, and the handler's alarm,    *)
(* which comes within its busy loop.                                       *)
JumpReady ==
  /\ pc \in {"canjump", "pause", "jumped"} => jmpbuf
  /\ pc \in {"sigsetjmp", "canjump", "pause", "jumped"} => caught = {"USR1", "ALRM"}
  /\ canjump = 1 => pc = "pause"
  /\ sig_usr1 # "idle" => pc = "pause" /\ jumps = 0
  /\ sig_usr1 \in {"alarm", "time", "busy", "canjump"} => canjump = 1
  /\ sig_usr1 = "siglongjmp" => canjump = 0
  /\ sig_usr1 = "idle" => mask = {}
  /\ jumps = 1 <=> pc \in {"jumped", "done"}

AlarmOfHandler ==
  /\ (sig_usr1 = "idle" /\ jumps = 0) \/ sig_usr1 \in {"alarm", "canjump", "siglongjmp"} \/ jumps = 1
       => alarm = 0 /\ "ALRM" \notin pending
  /\ sig_usr1 = "busy" /\ alarm > 0 => alarm + waited <= 3
  /\ waited <= J!BusyFor + 1

JumpInv == J!Inv /\ JumpReady /\ AlarmOfHandler

(* Orphan: the child is stopped, or about to be, while its parent sleeps.  *)
OrphanInv ==
  /\ O!Inv
  /\ parent = "fork" => child = "unborn"
  /\ child \in {"unborn", "signal", "kill"} => pending = {} /\ ~stopped
  /\ child \in {"kill", "pr_ids", "read", "reading"} => caught = {"HUP"}
  /\ "HUP" \in pending => parent = "gone"
  /\ parent = "sleep" /\ child = "pr_ids" => stopped \/ "TSTP" \in pending

(* Shell: on a terminal the buffer is empty whenever there is a child.     *)
ShellInv ==
  /\ S!Inv
  /\ child = "failed" => failed
  /\ tty /\ shell \in {"fork", "waitpid"} => buf = 0

-----------------------------------------------------------------------------
(* JobControl, step by step.                                              *)
Places == {"unblock", "default", "kill", "again", "return"}

(* The instance of JobControl counts with a Cardinality of its own. *)
LEMMA SameCardinality == \A set : T!Cardinality(set) = Cardinality(set)
BY DEF T!Cardinality, Cardinality

(* SIGTSTP is pending or it is not. *)
LEMMA PendingCount ==
  ASSUME pending \subseteq T!TSTP
  PROVE  \/ pending = {} /\ Cardinality(pending) = 0
         \/ pending = T!TSTP /\ Cardinality(pending) = 1
<1>1. pending = {} \/ pending = T!TSTP
  BY DEF T!TSTP
<1> QED BY <1>1, FS_EmptySet, FS_Singleton DEF T!TSTP

LEMMA FramesAreFinite ==
  ASSUME T!TypeOK
  PROVE  /\ Len(frames) \in Nat /\ DOMAIN frames = 1 .. Len(frames)
         /\ \A k \in 1 .. Len(frames) : frames[k] \in T!Frame
         /\ frames # <<>> => Len(frames) \in 1 .. Len(frames)
         /\ IsFiniteSet(T!Owing) /\ Cardinality(T!Owing) \in Nat
<1>1. /\ Len(frames) \in Nat /\ DOMAIN frames = 1 .. Len(frames)
      /\ \A k \in 1 .. Len(frames) : frames[k] \in T!Frame
  BY LenProperties, ElementOfSeq DEF T!TypeOK
<1>2. frames # <<>> => Len(frames) \in 1 .. Len(frames)
  BY <1>1, EmptySeq DEF T!TypeOK
<1>3. IsFiniteSet(1 .. Len(frames)) /\ T!Owing \in SUBSET (1 .. Len(frames))
  BY <1>1, FS_Interval DEF T!Owing
<1>4. IsFiniteSet(T!Owing)
  BY <1>3, FS_Subset
<1> QED BY <1>1, <1>2, <1>4, FS_CardinalityType

(* A statement of the innermost handler moves its frame and no other.      *)
LEMMA TopMoves ==
  ASSUME T!TypeOK, NEW here \in Places, NEW there \in Places, T!Handler(here, there)
  PROVE  /\ Len(frames) \in Nat \ {0} /\ T!Top.at = here
         /\ frames' \in Seq(T!Frame) /\ frames' # <<>> /\ Len(frames') = Len(frames)
         /\ DOMAIN frames' = 1 .. Len(frames) /\ DOMAIN frames = 1 .. Len(frames)
         /\ frames'[Len(frames)].at = there
         /\ frames'[Len(frames)].mask = frames[Len(frames)].mask
         /\ \A k \in 1 .. Len(frames) - 1 : frames'[k] = frames[k]
<1>1. /\ Len(frames) \in Nat \ {0} /\ DOMAIN frames = 1 .. Len(frames)
      /\ frames[Len(frames)] \in T!Frame /\ frames \in Seq(T!Frame)
      /\ Len(frames) \in 1 .. Len(frames)
  BY FramesAreFinite DEF T!Handler, T!TypeOK
<1> DEFINE f == [frames[Len(frames)] EXCEPT !.at = there]
<1>2. f \in T!Frame /\ f.at = there /\ f.mask = frames[Len(frames)].mask
  BY <1>1 DEF T!Frame, Places
<1>3. frames' = [frames EXCEPT ![Len(frames)] = f] /\ T!Top.at = here
  BY DEF T!Handler
<1> HIDE DEF f
<1>4. /\ frames' \in Seq(T!Frame) /\ Len(frames') = Len(frames)
      /\ \A k \in 1 .. Len(frames) : frames'[k] = IF k = Len(frames) THEN f ELSE frames[k]
  BY <1>1, <1>2, <1>3, ExceptSeq
<1>5. frames' # <<>> /\ DOMAIN frames' = 1 .. Len(frames)
  BY <1>1, <1>4, LenProperties, EmptySeq
<1>6. \A k \in 1 .. Len(frames) - 1 : k \in 1 .. Len(frames) /\ k # Len(frames)
  <2>1. \A n \in Nat : \A k \in 1 .. n - 1 : k \in 1 .. n /\ k # n
    OBVIOUS
  <2>2. Len(frames) \in Nat
    BY <1>1
  <2> QED BY <2>1, <2>2
<1>7. \A k \in 1 .. Len(frames) - 1 : frames'[k] = frames[k]
  BY <1>4, <1>6
<1>8. frames'[Len(frames)] = f
  BY <1>1, <1>4
<1> QED BY <1>1, <1>2, <1>3, <1>4, <1>5, <1>7, <1>8

LEMMA StopInit == T!Init => T!Inv
<1> SUFFICES ASSUME T!Init PROVE T!Inv
  OBVIOUS
<1>1. T!TypeOK
  <2>1. frames \in Seq(T!Frame)
    BY EmptySeq DEF T!Init
  <2>2. mask \subseteq T!TSTP /\ pending \subseteq T!TSTP
    BY DEF T!Init
  <2>3. left \in 0 .. Blocks /\ sent \in 0 .. MaxSent /\ stops \in Nat
    BY JobBounds DEF T!Init, T!Bounds
  <2>4. pc \in {"ignore", "catch", "copy"} \union T!Final /\ stopped \in BOOLEAN
    BY DEF T!Init
  <2>5. /\ inherited \in {"SIG_DFL", "SIG_IGN"}
        /\ action \in {"SIG_DFL", "SIG_IGN", "sig_tstp"}
    BY DEF T!Init
  <2> QED BY <2>1, <2>2, <2>3, <2>4, <2>5 DEF T!TypeOK
<1>2. T!Ready
  BY EmptySeq DEF T!Init, T!Ready
<1>3. T!StopsAsked
  <2>1. T!Owing = {} /\ pending = {}
    BY EmptySeq DEF T!Init, T!Owing
  <2> QED BY <2>1, FS_EmptySet, SameCardinality DEF T!Init, T!StopsAsked
<1> QED BY <1>1, <1>2, <1>3 DEF T!Inv

(* What each kind of step leaves as it is, and the type of what it changes. *)
LEMMA StopTypes == ASSUME T!Bounds, T!TypeOK, [T!Next]_(T!vars) PROVE T!TypeOK'
<1> USE DEF T!TypeOK, T!Final
<1>1. CASE T!Ignore \/ T!Catch
  BY <1>1 DEF T!Ignore, T!Catch, T!Main, T!SetAction
<1>2. CASE T!Copy
  BY <1>2 DEF T!Copy, T!Main, T!Bounds
<1>3. ASSUME NEW here \in Places, NEW there \in Places, T!Handler(here, there),
             mask' \in SUBSET mask, action' \in {"SIG_DFL", "sig_tstp", action},
             pending' \subseteq T!TSTP
      PROVE  T!TypeOK'
  <2>1. frames' \in Seq(T!Frame)
    BY <1>3, TopMoves
  <2> QED BY <1>3, <2>1 DEF T!Handler
<1>4. CASE T!Unblock
  BY <1>3, <1>4 DEF T!Unblock, Places
<1>5. CASE T!Default
  BY <1>3, <1>5 DEF T!Default, T!SetAction, Places
<1>6. CASE T!Kill
  BY <1>3, <1>6 DEF T!Kill, Places
<1>7. CASE T!Again
  BY <1>3, <1>7 DEF T!Again, T!SetAction, Places
<1>8. CASE T!Return
  <2>1. Len(frames) \in Nat /\ \A k \in 1 .. Len(frames) - 1 : frames[k] \in T!Frame
    BY FramesAreFinite
  <2>2. frames' \in Seq(T!Frame)
    BY <1>8, <2>1, SubSeqProperties DEF T!Return
  <2>3. T!Top \in T!Frame
    BY <1>8, FramesAreFinite DEF T!Return, T!Top
  <2> QED BY <1>8, <2>2, <2>3 DEF T!Return, T!Frame
<1>9. CASE T!Deliver
  <2>1. [at |-> "unblock", mask |-> mask] \in T!Frame
    BY DEF T!Frame
  <2>2. /\ frames \in Seq(T!Frame)
        /\ Append(frames, [at |-> "unblock", mask |-> mask]) \in Seq(T!Frame)
    BY <2>1, AppendProperties
  <2>3. frames' \in Seq(T!Frame)
    <3> DEFINE pushed == Append(frames, [at |-> "unblock", mask |-> mask])
    <3>1. frames' = frames \/ frames' = pushed
      BY <1>9 DEF T!Deliver
    <3> HIDE DEF pushed
    <3>2. frames \in Seq(T!Frame) /\ pushed \in Seq(T!Frame)
      BY <2>2 DEF pushed
    <3> QED BY <3>1, <3>2
  <2>4. mask' \subseteq T!TSTP /\ pending' \subseteq T!TSTP
    BY <1>9 DEF T!Deliver
  <2>5. stops' \in Nat /\ stopped' \in BOOLEAN
    <3>1. \/ stops' = stops + 1 /\ stopped' = TRUE
          \/ stops' = stops /\ stopped' = stopped
      BY <1>9 DEF T!Deliver
    <3>2. stops' \in Nat
      <4> HIDE DEF T!TypeOK
      <4>1. stops' = stops + 1 \/ stops' = stops
        BY <3>1
      <4> QED BY <4>1 DEF T!TypeOK
    <3>3. stopped' \in BOOLEAN
      <4>1. stopped' = TRUE \/ stopped' = stopped
        BY <3>1
      <4> QED BY <4>1
    <3> QED BY <3>2, <3>3
  <2>6. UNCHANGED <<pc, inherited, action, left, sent>>
    BY <1>9 DEF T!Deliver
  <2> QED BY <2>3, <2>4, <2>5, <2>6
<1>10. CASE T!Send
  BY <1>10 DEF T!Send, T!Bounds
<1>11. CASE T!Continue
  BY <1>11 DEF T!Continue
<1>12. CASE UNCHANGED T!vars
  BY <1>12 DEF T!vars
<1> QED BY <1>1, <1>2, <1>4, <1>5, <1>6, <1>7, <1>8, <1>9, <1>10, <1>11, <1>12
        DEF T!Next, T!Step

(* When SIGTSTP is delivered with a handler installed, a new frame comes   *)
(* on top of the others.                                                   *)
LEMMA TopIsAdded ==
  ASSUME T!TypeOK, frames' = Append(frames, [at |-> "unblock", mask |-> mask])
  PROVE  /\ frames' # <<>> /\ Len(frames) \in Nat /\ Len(frames') = Len(frames) + 1
         /\ DOMAIN frames = 1 .. Len(frames) /\ DOMAIN frames' = 1 .. Len(frames) + 1
         /\ \A k \in 1 .. Len(frames) : frames'[k] = frames[k]
         /\ frames'[Len(frames) + 1].at = "unblock"
         /\ frames'[Len(frames) + 1].mask = mask
<1> DEFINE f == [at |-> "unblock", mask |-> mask]
<1>1. f \in T!Frame /\ f.at = "unblock" /\ f.mask = mask
  BY DEF T!Frame, T!TypeOK
<1>2. frames \in Seq(T!Frame) /\ frames' = Append(frames, f)
  BY DEF T!TypeOK
<1> HIDE DEF f
<1>3. /\ frames' \in Seq(T!Frame) /\ frames' # <<>> /\ Len(frames') = Len(frames) + 1
      /\ \A k \in 1 .. Len(frames) : frames'[k] = frames[k]
      /\ frames'[Len(frames) + 1] = f
  BY <1>1, <1>2, AppendProperties
<1>4. Len(frames) \in Nat /\ DOMAIN frames = 1 .. Len(frames)
  BY <1>2, LenProperties
<1>5. DOMAIN frames' = 1 .. Len(frames) + 1
  BY <1>3, <1>4, LenProperties
<1> QED BY <1>1, <1>3, <1>4, <1>5

(* A handler that returns takes the top frame with it. *)
LEMMA TopIsRemoved ==
  ASSUME T!TypeOK, frames # <<>>, frames' = SubSeq(frames, 1, Len(frames) - 1)
  PROVE  /\ Len(frames) \in Nat \ {0} /\ Len(frames') = Len(frames) - 1
         /\ DOMAIN frames = 1 .. Len(frames) /\ DOMAIN frames' = 1 .. Len(frames) - 1
         /\ \A k \in 1 .. Len(frames) - 1 : frames'[k] = frames[k]
<1>1. /\ Len(frames) \in Nat \ {0} /\ DOMAIN frames = 1 .. Len(frames)
      /\ \A k \in 1 .. Len(frames) - 1 : frames[k] \in T!Frame
  BY FramesAreFinite
<1>2. /\ frames' \in Seq(T!Frame) /\ Len(frames') = Len(frames) - 1
      /\ \A k \in 1 .. Len(frames) - 1 : frames'[k] = frames[k]
  <2>1. \A n \in Nat \ {0} : /\ 1 <= n - 1 \/ n - 1 = 0
                             /\ n - 1 - 1 + 1 = n - 1
                             /\ \A k \in 1 .. n - 1 : 1 + k - 1 = k
    OBVIOUS
  <2>2. /\ SubSeq(frames, 1, Len(frames) - 1) \in Seq(T!Frame)
        /\ Len(SubSeq(frames, 1, Len(frames) - 1))
             = IF 1 <= Len(frames) - 1 THEN Len(frames) - 1 - 1 + 1 ELSE 0
        /\ \A k \in 1 .. Len(frames) - 1 - 1 + 1 :
             SubSeq(frames, 1, Len(frames) - 1)[k] = frames[1 + k - 1]
    BY <1>1, SubSeqProperties
  <2> QED BY <1>1, <2>1, <2>2
<1>3. DOMAIN frames' = 1 .. Len(frames) - 1
  BY <1>2, LenProperties
<1> QED BY <1>1, <1>2, <1>3

(* The statements of the innermost handler keep Ready: what the mask and   *)
(* the action are follows from the statement that comes next.              *)
LEMMA ReadyInHandler ==
  ASSUME T!TypeOK, T!Ready, NEW here \in Places, NEW there \in Places \ {"unblock"},
         T!Handler(here, there), mask' = {},
         action' = IF there \in {"kill", "again"} THEN "SIG_DFL" ELSE "sig_tstp"
  PROVE  T!Ready'
<1>1. /\ Len(frames) \in Nat \ {0} /\ T!Top.at = here
      /\ frames' # <<>> /\ Len(frames') = Len(frames)
      /\ DOMAIN frames' = 1 .. Len(frames) /\ DOMAIN frames = 1 .. Len(frames)
      /\ frames'[Len(frames)].at = there
      /\ frames'[Len(frames)].mask = frames[Len(frames)].mask
      /\ \A k \in 1 .. Len(frames) - 1 : frames'[k] = frames[k]
  BY TopMoves
<1>2. /\ frames # <<>> /\ UNCHANGED <<pc, inherited>>
      /\ pc \in {"copy"} \union T!Final /\ inherited = "SIG_DFL"
  BY DEF T!Handler, T!Ready
<1>3. \A k \in DOMAIN frames' : frames'[k].mask = {}
  <2> TAKE k \in DOMAIN frames'
  <2>1. CASE k = Len(frames)
    BY <1>1, <2>1 DEF T!Ready
  <2>2. CASE k # Len(frames)
    BY <1>1, <2>2 DEF T!Ready
  <2> QED BY <2>1, <2>2
<1>4. \A k \in 1 .. Len(frames') - 1 : frames'[k].at \in {"default", "return"}
  BY <1>1 DEF T!Ready
<1>5. T!Top'.at = there
  BY <1>1 DEF T!Top
<1>6. action' # "SIG_IGN"
  OBVIOUS
<1>7. /\ mask' = IF T!Top'.at = "unblock" THEN T!TSTP ELSE {}
      /\ action' = IF T!Top'.at \in {"kill", "again"} THEN "SIG_DFL" ELSE "sig_tstp"
  BY <1>5
<1> QED BY <1>1, <1>2, <1>3, <1>4, <1>6, <1>7 DEF T!Ready

LEMMA ReadyStep == ASSUME T!TypeOK, T!Ready, [T!Next]_(T!vars) PROVE T!Ready'
<1>1. CASE T!Ignore \/ T!Catch \/ T!Copy
  <2>1. frames = <<>> /\ frames' = <<>> /\ mask' = mask /\ inherited' = inherited
    BY <1>1 DEF T!Ignore, T!Catch, T!Copy, T!Main
  <2>2. mask = {} /\ \A k \in DOMAIN frames : frames[k].mask = {}
    BY <2>1 DEF T!Ready
  <2>3. \A k \in 1 .. Len(frames) - 1 : frames[k].at \in {"default", "return"}
    BY DEF T!Ready
  <2>4. CASE T!Ignore
    BY <2>1, <2>2, <2>3, <2>4 DEF T!Ready, T!Ignore, T!Main, T!SetAction, T!TypeOK
  <2>5. CASE T!Catch
    BY <2>1, <2>2, <2>3, <2>5 DEF T!Ready, T!Catch, T!Main, T!SetAction
  <2>6. CASE T!Copy
    BY <2>1, <2>2, <2>3, <2>6 DEF T!Ready, T!Copy, T!Main
  <2> QED BY <1>1, <2>4, <2>5, <2>6
<1>2. CASE T!Unblock
  <2>1. mask' = {} /\ action' = "sig_tstp" /\ T!Handler("unblock", "default")
    BY <1>2 DEF T!Unblock, T!Handler, T!Ready, T!TypeOK, T!TSTP
  <2> QED BY <2>1, ReadyInHandler DEF Places
<1>3. CASE T!Default
  <2>1. mask' = {} /\ action' = "SIG_DFL" /\ T!Handler("default", "kill")
    BY <1>3 DEF T!Default, T!Handler, T!Ready, T!SetAction
  <2> QED BY <2>1, ReadyInHandler DEF Places
<1>4. CASE T!Kill
  <2>1. mask' = {} /\ action' = "SIG_DFL" /\ T!Handler("kill", "again")
    BY <1>4 DEF T!Kill, T!Handler, T!Ready
  <2> QED BY <2>1, ReadyInHandler DEF Places
<1>5. CASE T!Again
  <2>1. mask' = {} /\ action' = "sig_tstp" /\ T!Handler("again", "return")
    BY <1>5 DEF T!Again, T!Handler, T!Ready, T!SetAction
  <2> QED BY <2>1, ReadyInHandler DEF Places
<1>6. CASE T!Return
  <2>1. /\ Len(frames) \in Nat \ {0} /\ Len(frames') = Len(frames) - 1
        /\ DOMAIN frames = 1 .. Len(frames) /\ DOMAIN frames' = 1 .. Len(frames) - 1
        /\ \A k \in 1 .. Len(frames) - 1 : frames'[k] = frames[k]
    BY <1>6, TopIsRemoved DEF T!Return
  <2>2. /\ frames # <<>> /\ T!Top.at = "return" /\ pc \notin T!Final
        /\ UNCHANGED <<pc, inherited, action, pending>>
    BY <1>6 DEF T!Return
  <2>3. mask' = {}
    BY <1>6, <2>1 DEF T!Return, T!Ready, T!Top
  <2>4. pc' = "copy" /\ inherited' = "SIG_DFL" /\ action' = "sig_tstp"
    BY <2>2 DEF T!Ready
  <2>5. \A k \in DOMAIN frames' : frames'[k].mask = {}
    BY <2>1 DEF T!Ready
  <2>6. \A k \in 1 .. Len(frames) - 1 : frames'[k].at \in {"default", "return"}
    BY <2>1 DEF T!Ready
  <2>7. \A k \in 1 .. Len(frames') - 1 : frames'[k].at \in {"default", "return"}
    BY <2>1, <2>6
  <2>8. frames' # <<>> => T!Top'.at \in {"default", "return"}
    <3> SUFFICES ASSUME frames' # <<>> PROVE T!Top'.at \in {"default", "return"}
      OBVIOUS
    <3>1. frames' \in Seq(T!Frame)
      BY <1>6, TopIsRemoved, <2>1, SubSeqProperties, FramesAreFinite DEF T!Return
    <3>2. Len(frames') \in 1 .. Len(frames) - 1
      BY <2>1, <3>1, EmptySeq
    <3> QED BY <2>6, <3>2 DEF T!Top
  <2> QED BY <2>2, <2>3, <2>4, <2>5, <2>7, <2>8 DEF T!Ready
<1>7. CASE T!Deliver /\ action = "SIG_DFL"
  <2>1. UNCHANGED <<pc, inherited, action, frames, mask>>
    BY <1>7 DEF T!Deliver
  <2>2. action' # "SIG_IGN"
    BY <1>7, <2>1
  <2> QED BY <2>1, <2>2 DEF T!Ready, T!Top
<1>8. CASE T!Deliver /\ action # "SIG_DFL"
  <2>1. /\ frames' = Append(frames, [at |-> "unblock", mask |-> mask])
        /\ action' = "sig_tstp" /\ mask' = T!TSTP /\ UNCHANGED <<pc, inherited>>
        /\ action = "sig_tstp" /\ pc \notin T!Final /\ mask # T!TSTP
    BY <1>8 DEF T!Deliver, T!TypeOK
  <2>2. /\ frames' # <<>> /\ Len(frames) \in Nat /\ Len(frames') = Len(frames) + 1
        /\ DOMAIN frames = 1 .. Len(frames) /\ DOMAIN frames' = 1 .. Len(frames) + 1
        /\ \A k \in 1 .. Len(frames) : frames'[k] = frames[k]
        /\ frames'[Len(frames) + 1].at = "unblock"
        /\ frames'[Len(frames) + 1].mask = mask
    BY <2>1, TopIsAdded
  <2>3. mask = {} /\ (frames # <<>> => T!Top.at \in {"default", "return"})
    <3>1. CASE frames = <<>>
      BY <3>1 DEF T!Ready
    <3>2. CASE frames # <<>>
      <4>1. T!Top.at \in Places
        BY <3>2, FramesAreFinite DEF T!Top, T!Frame, Places
      <4> QED BY <2>1, <3>2, <4>1 DEF T!Ready, Places
    <3> QED BY <3>1, <3>2
  <2>4. pc \in {"copy"} /\ inherited = "SIG_DFL"
    BY <2>1 DEF T!Ready, T!TypeOK, T!Final
  <2>5. \A k \in DOMAIN frames' : frames'[k].mask = {}
    <3> TAKE k \in DOMAIN frames'
    <3>1. CASE k = Len(frames) + 1
      BY <2>2, <2>3, <3>1
    <3>2. CASE k # Len(frames) + 1
      BY <2>2, <3>2 DEF T!Ready
    <3> QED BY <3>1, <3>2
  <2>6. \A k \in 1 .. Len(frames') - 1 : frames'[k].at \in {"default", "return"}
    <3> TAKE k \in 1 .. Len(frames') - 1
    <3>1. k \in 1 .. Len(frames) /\ frames'[k] = frames[k] /\ frames # <<>>
      <4>1. k \in 1 .. Len(frames)
        BY <2>2
      <4>2. frames # <<>>
        BY <4>1, EmptySeq
      <4> QED BY <2>2, <4>1, <4>2
    <3>2. CASE k = Len(frames)
      BY <2>3, <3>1, <3>2 DEF T!Top
    <3>3. CASE k # Len(frames)
      <4>1. k \in 1 .. Len(frames) - 1
        <5>1. Len(frames) \in Nat /\ k \in 1 .. Len(frames)
          BY <2>2, <3>1
        <5>2. \A n \in Nat : \A i \in 1 .. n : i # n => i \in 1 .. n - 1
          OBVIOUS
        <5> QED BY <5>1, <5>2, <3>3
      <4> QED BY <3>1, <4>1 DEF T!Ready
    <3> QED BY <3>2, <3>3
  <2>7. T!Top'.at = "unblock"
    BY <2>2 DEF T!Top
  <2> QED BY <2>1, <2>2, <2>4, <2>5, <2>6, <2>7 DEF T!Ready
<1>9. CASE T!Send \/ T!Continue \/ UNCHANGED T!vars
  <2>1. UNCHANGED <<pc, inherited, action, frames, mask>>
    BY <1>9 DEF T!Send, T!Continue, T!vars
  <2>2. action = "SIG_IGN" => pending' = {}
    BY <1>9 DEF T!Send, T!Continue, T!vars, T!Ready
  <2> QED BY <2>1, <2>2 DEF T!Ready, T!Top
<1> QED BY <1>1, <1>2, <1>3, <1>4, <1>5, <1>6, <1>7, <1>8, <1>9 DEF T!Next, T!Step

(* Who owes a stop when the innermost handler has executed a statement. *)
LEMMA OwingInHandler ==
  ASSUME T!TypeOK, NEW here \in Places, NEW there \in Places, T!Handler(here, there)
  PROVE  T!Owing' = IF there \in {"unblock", "default", "kill"}
                  THEN T!Owing \union {Len(frames)} ELSE T!Owing \ {Len(frames)}
<1>1. /\ Len(frames) \in Nat \ {0}
      /\ DOMAIN frames' = 1 .. Len(frames) /\ DOMAIN frames = 1 .. Len(frames)
      /\ frames'[Len(frames)].at = there
      /\ \A k \in 1 .. Len(frames) - 1 : frames'[k] = frames[k]
  BY TopMoves
<1>2. \A k \in 1 .. Len(frames) : k # Len(frames) => frames'[k] = frames[k]
  <2>1. \A n \in Nat : \A k \in 1 .. n : k # n => k \in 1 .. n - 1
    OBVIOUS
  <2>2. Len(frames) \in Nat
    BY <1>1
  <2>3. \A k \in 1 .. Len(frames) : k # Len(frames) => k \in 1 .. Len(frames) - 1
    BY <2>1, <2>2
  <2> QED BY <1>1, <2>3
<1>3. Len(frames) \in 1 .. Len(frames)
  BY <1>1
<1> QED BY <1>1, <1>2, <1>3 DEF T!Owing

LEMMA StopsStep == ASSUME T!TypeOK, T!Ready, T!StopsAsked, [T!Next]_(T!vars) PROVE T!StopsAsked'
<1>0. /\ stops \in Nat /\ sent \in Nat
      /\ Len(frames) \in Nat /\ DOMAIN frames = 1 .. Len(frames)
      /\ IsFiniteSet(T!Owing) /\ Cardinality(T!Owing) \in Nat /\ Cardinality(pending) \in Nat
      /\ stops + Cardinality(pending) + Cardinality(T!Owing) <= sent
  BY FramesAreFinite, PendingCount, SameCardinality DEF T!TypeOK, T!StopsAsked
<1>1. CASE T!Ignore \/ T!Catch \/ T!Copy
  <2>1. /\ UNCHANGED <<inherited, frames, stops, sent>>
        /\ pending' = pending \/ pending' = {}
    BY <1>1 DEF T!Ignore, T!Catch, T!Copy, T!Main, T!SetAction
  <2>2. T!Owing' = T!Owing
    BY <2>1 DEF T!Owing
  <2>3. Cardinality(pending') <= Cardinality(pending) /\ Cardinality(pending') \in Nat
    <3>1. CASE pending' = pending
      BY <1>0, <3>1
    <3>2. CASE pending' = {}
      <4>1. Cardinality(pending') = 0
        BY <3>2, FS_EmptySet
      <4> QED BY <1>0, <4>1
    <3> QED BY <2>1, <3>1, <3>2
  <2> QED BY <1>0, <2>1, <2>2, <2>3, SameCardinality DEF T!StopsAsked
<1>2. CASE T!Unblock \/ T!Default \/ T!Again
  <2>1. UNCHANGED <<inherited, stops, sent, pending>>
    BY <1>2 DEF T!Unblock, T!Default, T!Again, T!Handler, T!SetAction
  <2>2. T!Owing' = T!Owing
    <3>1. CASE T!Unblock
      <4>1. T!Owing' = T!Owing \union {Len(frames)} /\ frames # <<>> /\ T!Top.at = "unblock"
        BY <3>1, OwingInHandler DEF T!Unblock, T!Handler, Places
      <4> QED BY <4>1, FramesAreFinite DEF T!Owing, T!Top
    <3>2. CASE T!Default
      <4>1. T!Owing' = T!Owing \union {Len(frames)} /\ frames # <<>> /\ T!Top.at = "default"
        BY <3>2, OwingInHandler DEF T!Default, T!Handler, Places
      <4> QED BY <4>1, FramesAreFinite DEF T!Owing, T!Top
    <3>3. CASE T!Again
      <4>1. T!Owing' = T!Owing \ {Len(frames)} /\ T!Top.at = "again"
        BY <3>3, OwingInHandler DEF T!Again, T!Handler, Places
      <4> QED BY <4>1 DEF T!Owing, T!Top
    <3> QED BY <1>2, <3>1, <3>2, <3>3
  <2> QED BY <2>1, <2>2, SameCardinality DEF T!StopsAsked
<1>3. CASE T!Kill
  <2>1. /\ UNCHANGED <<inherited, stops, sent>> /\ pending' = T!TSTP
        /\ T!Owing' = T!Owing \ {Len(frames)}
        /\ frames # <<>> /\ T!Top.at = "kill" /\ pending \ mask = {}
    BY <1>3, OwingInHandler DEF T!Kill, T!Handler, Places
  <2>2. Len(frames) \in T!Owing
    BY <2>1, FramesAreFinite DEF T!Owing, T!Top
  <2>3. pending = {}
    BY <2>1 DEF T!Ready, T!TSTP
  <2>4. /\ Cardinality(pending) = 0 /\ Cardinality(pending') = 1
        /\ Cardinality(T!Owing') = Cardinality(T!Owing) - 1
    BY <1>0, <2>1, <2>2, <2>3, FS_EmptySet, FS_Singleton, FS_RemoveElement DEF T!TSTP
  <2> QED BY <1>0, <2>1, <2>4, SameCardinality DEF T!StopsAsked
<1>4. CASE T!Return
  <2>1. /\ DOMAIN frames' = 1 .. Len(frames) - 1 /\ Len(frames) \in Nat \ {0}
        /\ \A k \in 1 .. Len(frames) - 1 : frames'[k] = frames[k]
    BY <1>4, TopIsRemoved DEF T!Return
  <2>2. T!Top.at = "return" /\ UNCHANGED <<inherited, stops, sent, pending>>
    BY <1>4 DEF T!Return
  <2>3. T!Owing' = T!Owing
    <3>1. Len(frames) \notin T!Owing
      BY <2>2 DEF T!Owing, T!Top
    <3>2. \A k \in 1 .. Len(frames) - 1 : k \in T!Owing' <=> k \in T!Owing
      BY <1>0, <2>1 DEF T!Owing
    <3>3. T!Owing \subseteq 1 .. Len(frames) /\ T!Owing' \subseteq 1 .. Len(frames) - 1
      BY <1>0, <2>1 DEF T!Owing
    <3>4. \A k \in 1 .. Len(frames) : k # Len(frames) => k \in 1 .. Len(frames) - 1
      BY <2>1
    <3> QED BY <2>1, <3>1, <3>2, <3>3, <3>4
  <2> QED BY <2>2, <2>3, SameCardinality DEF T!StopsAsked
<1>5. CASE T!Deliver /\ action = "SIG_DFL"
  <2>1. /\ pending # {} /\ pending' = {} /\ stops' = stops + 1
        /\ UNCHANGED <<inherited, frames, sent>> /\ pc \notin T!Final
    BY <1>5 DEF T!Deliver, T!TypeOK
  <2>2. T!Owing' = T!Owing
    BY <2>1 DEF T!Owing
  <2>3. Cardinality(pending) = 1 /\ Cardinality(pending') = 0
    BY <2>1, PendingCount, FS_EmptySet DEF T!TypeOK
  <2>4. inherited = "SIG_DFL"
    BY <1>5, <2>1 DEF T!Ready, T!TypeOK
  <2> QED BY <1>0, <2>1, <2>2, <2>3, <2>4, SameCardinality DEF T!StopsAsked
<1>6. CASE T!Deliver /\ action # "SIG_DFL"
  <2>1. /\ frames' = Append(frames, [at |-> "unblock", mask |-> mask])
        /\ pending # {} /\ pending' = {} /\ UNCHANGED <<inherited, stops, sent>>
    BY <1>6 DEF T!Deliver, T!TypeOK
  <2>2. /\ Len(frames) \in Nat
        /\ DOMAIN frames' = 1 .. Len(frames) + 1
        /\ \A k \in 1 .. Len(frames) : frames'[k] = frames[k]
        /\ frames'[Len(frames) + 1].at = "unblock"
    BY <2>1, TopIsAdded
  <2>3. T!Owing' = T!Owing \union {Len(frames) + 1}
    <3>1. Len(frames) + 1 \in T!Owing'
      BY <2>2 DEF T!Owing
    <3>2. \A k \in 1 .. Len(frames) : k \in T!Owing' <=> k \in T!Owing
      BY <1>0, <2>2 DEF T!Owing
    <3>3. T!Owing \subseteq 1 .. Len(frames) /\ T!Owing' \subseteq 1 .. Len(frames) + 1
      BY <1>0, <2>2 DEF T!Owing
    <3>4. \A k \in 1 .. Len(frames) + 1 : k # Len(frames) + 1 => k \in 1 .. Len(frames)
      BY <2>2
    <3> QED BY <3>1, <3>2, <3>3, <3>4
  <2>4. Len(frames) + 1 \notin T!Owing
    BY <1>0 DEF T!Owing
  <2>5. Cardinality(T!Owing') = Cardinality(T!Owing) + 1
    BY <1>0, <2>3, <2>4, FS_AddElement
  <2>6. Cardinality(pending) = 1 /\ Cardinality(pending') = 0
    BY <2>1, PendingCount, FS_EmptySet DEF T!TypeOK
  <2> QED BY <1>0, <2>1, <2>5, <2>6, SameCardinality DEF T!StopsAsked
<1>7. CASE T!Send
  <2>1. /\ UNCHANGED <<inherited, frames, stops>> /\ sent' = sent + 1
        /\ pending' \in {{}, T!TSTP}
    BY <1>7 DEF T!Send
  <2>2. T!Owing' = T!Owing
    BY <2>1 DEF T!Owing
  <2>3. Cardinality(pending') \in {0, 1}
    BY <2>1, FS_EmptySet, FS_Singleton DEF T!TSTP
  <2>4. Cardinality(pending') <= Cardinality(pending) + 1
    BY <1>0, <2>3
  <2> QED BY <1>0, <2>1, <2>2, <2>3, <2>4, SameCardinality DEF T!StopsAsked
<1>8. CASE T!Continue \/ UNCHANGED T!vars
  <2>1. UNCHANGED <<inherited, frames, stops, sent>> /\ pending' \in {{}, pending}
    BY <1>8 DEF T!Continue, T!vars
  <2>2. T!Owing' = T!Owing
    BY <2>1 DEF T!Owing
  <2>3. Cardinality(pending') <= Cardinality(pending) /\ Cardinality(pending') \in Nat
    <3>1. CASE pending' = pending
      BY <1>0, <3>1
    <3>2. CASE pending' = {}
      <4>1. Cardinality(pending') = 0
        BY <3>2, FS_EmptySet
      <4> QED BY <1>0, <4>1
    <3> QED BY <2>1, <3>1, <3>2
  <2> QED BY <1>0, <2>1, <2>2, <2>3, SameCardinality DEF T!StopsAsked
<1> QED BY <1>1, <1>2, <1>3, <1>4, <1>5, <1>6, <1>7, <1>8 DEF T!Next, T!Step

-----------------------------------------------------------------------------
(* AlarmWaits, step by step.                                              *)
LEMMA AlarmInit == Init => AlarmInv
<1> SUFFICES ASSUME Init PROVE AlarmInv
  OBVIOUS
<1>1. TypeOK
  <2>1. {alarm, unslept} \subseteq 0 .. Seconds /\ elapsed \in Nat /\ lag \in 0 .. MaxLag
    BY SecondsAssumption, MaxLagAssumption DEF Init
  <2>2. env_alrm \in BOOLEAN /\ missed \in BOOLEAN
    BY Zenon DEF Init
  <2>3. pending \subseteq {"ALRM", "INT"} /\ program \in Sleeps \union Reads
    BY DEF Init
  <2> QED BY <2>1, <2>2, <2>3 DEF Init, TypeOK
<1>2. SafeJumps /\ TimeAccounted /\ OnlyJumpsCutShort
  BY DEF Init, SafeJumps, TimeAccounted, OnlyJumpsCutShort
<1>3. Timed /\ Frames
  BY DEF Init, Timed, Frames, Waiting
<1> QED BY <1>1, <1>2, <1>3 DEF AlarmInv, Inv

LEMMA AlarmStep ==
  ASSUME AlarmInv, [Next]_vars
  PROVE  AlarmInv'
<1> USE SecondsAssumption, MaxLagAssumption DEF Final, Sleeps, Reads, Jumps
<1>0. TypeOK /\ SafeJumps /\ TimeAccounted /\ OnlyJumpsCutShort /\ Timed /\ Frames
  BY DEF AlarmInv, Inv
<1>1. CASE Signal
  <2>1. TypeOK'
    BY <1>0, <1>1 DEF TypeOK, Signal, Main
  <2>2. SafeJumps'
    BY <1>0, <1>1 DEF SafeJumps, Timed, Frames, Waiting, LongJumps, TypeOK, Signal, Main
  <2>3. TimeAccounted'
    BY <1>0, <1>1 DEF TimeAccounted, SafeJumps, Timed, Frames, Waiting, TypeOK, Signal, Main
  <2>4. OnlyJumpsCutShort'
    BY <1>0, <1>1 DEF OnlyJumpsCutShort, Timed, Frames, TypeOK, Signal, Main
  <2>5. Timed'
    BY <1>0, <1>1 DEF Timed, Waiting, SafeJumps, Frames, TypeOK, Signal, Main
  <2>6. Frames'
    BY <1>0, <1>1 DEF Frames, Waiting, LongJumps, TypeOK, Signal, Main
  <2> QED BY <2>1, <2>2, <2>3, <2>4, <2>5, <2>6 DEF AlarmInv, Inv
<1>2. CASE Setjmp
  <2>1. TypeOK'
    BY <1>0, <1>2 DEF TypeOK, Setjmp, Main
  <2>2. SafeJumps'
    BY <1>0, <1>2 DEF SafeJumps, Timed, Frames, Waiting, LongJumps, TypeOK, Setjmp, Main
  <2>3. TimeAccounted'
    BY <1>0, <1>2 DEF TimeAccounted, SafeJumps, Timed, Frames, Waiting, TypeOK, Setjmp, Main
  <2>4. OnlyJumpsCutShort'
    BY <1>0, <1>2 DEF OnlyJumpsCutShort, Timed, Frames, TypeOK, Setjmp, Main
  <2>5. Timed'
    BY <1>0, <1>2 DEF Timed, Waiting, SafeJumps, Frames, TypeOK, Setjmp, Main
  <2>6. Frames'
    BY <1>0, <1>2 DEF Frames, Waiting, LongJumps, TypeOK, Setjmp, Main
  <2> QED BY <2>1, <2>2, <2>3, <2>4, <2>5, <2>6 DEF AlarmInv, Inv
<1>3. CASE Alarm
  <2>1. TypeOK'
    BY <1>0, <1>3 DEF TypeOK, Alarm, Main
  <2>2. SafeJumps'
    BY <1>0, <1>3 DEF SafeJumps, Timed, Frames, Waiting, LongJumps, TypeOK, Alarm, Main
  <2>3. TimeAccounted'
    BY <1>0, <1>3 DEF TimeAccounted, SafeJumps, Timed, Frames, Waiting, TypeOK, Alarm, Main
  <2>4. OnlyJumpsCutShort'
    BY <1>0, <1>3 DEF OnlyJumpsCutShort, Timed, Frames, TypeOK, Alarm, Main
  <2>5. Timed'
    BY <1>0, <1>3 DEF Timed, Waiting, SafeJumps, Frames, TypeOK, Alarm, Main
  <2>6. Frames'
    BY <1>0, <1>3 DEF Frames, Waiting, LongJumps, TypeOK, Alarm, Main
  <2> QED BY <2>1, <2>2, <2>3, <2>4, <2>5, <2>6 DEF AlarmInv, Inv
<1>4. CASE Wait
  <2>1. TypeOK'
    BY <1>0, <1>4 DEF TypeOK, Wait, Main
  <2>2. SafeJumps'
    BY <1>0, <1>4 DEF SafeJumps, Timed, Frames, Waiting, LongJumps, TypeOK, Wait, Main
  <2>3. TimeAccounted'
    BY <1>0, <1>4 DEF TimeAccounted, SafeJumps, Timed, Frames, Waiting, TypeOK, Wait, Main
  <2>4. OnlyJumpsCutShort'
    BY <1>0, <1>4 DEF OnlyJumpsCutShort, Timed, Frames, TypeOK, Wait, Main
  <2>5. Timed'
    BY <1>0, <1>4 DEF Timed, Waiting, SafeJumps, Frames, TypeOK, Wait, Main
  <2>6. Frames'
    BY <1>0, <1>4 DEF Frames, Waiting, LongJumps, TypeOK, Wait, Main
  <2> QED BY <2>1, <2>2, <2>3, <2>4, <2>5, <2>6 DEF AlarmInv, Inv
<1>5. CASE Read
  <2>1. TypeOK'
    BY <1>0, <1>5 DEF TypeOK, Read, Main
  <2>2. SafeJumps'
    BY <1>0, <1>5 DEF SafeJumps, Timed, Frames, Waiting, LongJumps, TypeOK, Read, Main
  <2>3. TimeAccounted'
    BY <1>0, <1>5 DEF TimeAccounted, SafeJumps, Timed, Frames, Waiting, TypeOK, Read, Main
  <2>4. OnlyJumpsCutShort'
    BY <1>0, <1>5 DEF OnlyJumpsCutShort, Timed, Frames, TypeOK, Read, Main
  <2>5. Timed'
    BY <1>0, <1>5 DEF Timed, Waiting, SafeJumps, Frames, TypeOK, Read, Main
  <2>6. Frames'
    BY <1>0, <1>5 DEF Frames, Waiting, LongJumps, TypeOK, Read, Main
  <2> QED BY <2>1, <2>2, <2>3, <2>4, <2>5, <2>6 DEF AlarmInv, Inv
<1>6. CASE Cancel
  <2>1. TypeOK'
    BY <1>0, <1>6 DEF TypeOK, Cancel, Main
  <2>2. SafeJumps'
    BY <1>0, <1>6 DEF SafeJumps, Timed, Frames, Waiting, LongJumps, TypeOK, Cancel, Main
  <2>3. TimeAccounted'
    BY <1>0, <1>6 DEF TimeAccounted, SafeJumps, Timed, Frames, Waiting, TypeOK, Cancel, Main
  <2>4. OnlyJumpsCutShort'
    BY <1>0, <1>6 DEF OnlyJumpsCutShort, Timed, Frames, TypeOK, Cancel, Main
  <2>5. Timed'
    BY <1>0, <1>6 DEF Timed, Waiting, SafeJumps, Frames, TypeOK, Cancel, Main
  <2>6. Frames'
    <3>1. /\ pc' \in {"done", "write"} /\ (pc' = "write" => program \in Reads)
          /\ "ALRM" \notin pending' /\ UNCHANGED <<program, sig_int, line>>
      BY <1>0, <1>6 DEF Cancel, Main, TypeOK
    <3>2. line = "taken" => program \in Reads /\ pc' \in {"cancel", "write", "timeout", "killed"}
      BY <1>0, <1>6 DEF Cancel, Main, Frames, TypeOK
    <3> QED BY <1>0, <3>1, <3>2 DEF Frames, Waiting
  <2> QED BY <2>1, <2>2, <2>3, <2>4, <2>5, <2>6 DEF AlarmInv, Inv
<1>7. CASE Write
  <2>1. TypeOK'
    BY <1>0, <1>7 DEF TypeOK, Write, Main
  <2>2. SafeJumps'
    BY <1>0, <1>7 DEF SafeJumps, Timed, Frames, Waiting, LongJumps, TypeOK, Write, Main
  <2>3. TimeAccounted'
    BY <1>0, <1>7 DEF TimeAccounted, SafeJumps, Timed, Frames, Waiting, TypeOK, Write, Main
  <2>4. OnlyJumpsCutShort'
    BY <1>0, <1>7 DEF OnlyJumpsCutShort, Timed, Frames, TypeOK, Write, Main
  <2>5. Timed'
    BY <1>0, <1>7 DEF Timed, Waiting, SafeJumps, Frames, TypeOK, Write, Main
  <2>6. Frames'
    BY <1>0, <1>7 DEF Frames, Waiting, LongJumps, TypeOK, Write, Main
  <2> QED BY <2>1, <2>2, <2>3, <2>4, <2>5, <2>6 DEF AlarmInv, Inv
<1>8. CASE sig_alrm
  <2>1. TypeOK'
    BY <1>0, <1>8 DEF TypeOK, sig_alrm, LongJumps, Resumed
  <2>2. SafeJumps'
    BY <1>0, <1>8 DEF SafeJumps, Timed, Frames, Waiting, LongJumps, TypeOK, sig_alrm, Resumed
  <2>3. TimeAccounted'
    BY <1>0, <1>8 DEF TimeAccounted, SafeJumps, Timed, Frames, Waiting, TypeOK, sig_alrm, LongJumps, Resumed
  <2>4. OnlyJumpsCutShort'
    BY <1>0, <1>8 DEF OnlyJumpsCutShort, Timed, Frames, TypeOK, sig_alrm, LongJumps, Resumed
  <2>5. Timed'
    BY <1>0, <1>8 DEF Timed, Waiting, SafeJumps, Frames, TypeOK, sig_alrm, LongJumps, Resumed
  <2>6. Frames'
    BY <1>0, <1>8 DEF Frames, Waiting, LongJumps, TypeOK, sig_alrm, Resumed
  <2> QED BY <2>1, <2>2, <2>3, <2>4, <2>5, <2>6 DEF AlarmInv, Inv
<1>9. CASE StartSigInt
  <2>1. TypeOK'
    BY <1>0, <1>9 DEF TypeOK, StartSigInt
  <2>2. SafeJumps'
    BY <1>0, <1>9 DEF SafeJumps, Timed, Frames, Waiting, LongJumps, TypeOK, StartSigInt
  <2>3. TimeAccounted'
    BY <1>0, <1>9 DEF TimeAccounted, SafeJumps, Timed, Frames, Waiting, TypeOK, StartSigInt
  <2>4. OnlyJumpsCutShort'
    BY <1>0, <1>9 DEF OnlyJumpsCutShort, Timed, Frames, TypeOK, StartSigInt
  <2>5. Timed'
    BY <1>0, <1>9 DEF Timed, Waiting, SafeJumps, Frames, TypeOK, StartSigInt
  <2>6. Frames'
    BY <1>0, <1>9 DEF Frames, Waiting, LongJumps, TypeOK, StartSigInt
  <2> QED BY <2>1, <2>2, <2>3, <2>4, <2>5, <2>6 DEF AlarmInv, Inv
<1>10. CASE FinishSigInt
  <2>1. TypeOK'
    BY <1>0, <1>10 DEF TypeOK, FinishSigInt, Resumed
  <2>2. SafeJumps'
    BY <1>0, <1>10 DEF SafeJumps, Timed, Frames, Waiting, LongJumps, TypeOK, FinishSigInt, Resumed
  <2>3. TimeAccounted'
    BY <1>0, <1>10 DEF TimeAccounted, SafeJumps, Timed, Frames, Waiting, TypeOK, FinishSigInt, Resumed
  <2>4. OnlyJumpsCutShort'
    BY <1>0, <1>10 DEF OnlyJumpsCutShort, Timed, Frames, TypeOK, FinishSigInt, Resumed
  <2>5. Timed'
    BY <1>0, <1>10 DEF Timed, Waiting, SafeJumps, Frames, TypeOK, FinishSigInt, Resumed
  <2>6. Frames'
    BY <1>0, <1>10 DEF Frames, Waiting, LongJumps, TypeOK, FinishSigInt, Resumed
  <2> QED BY <2>1, <2>2, <2>3, <2>4, <2>5, <2>6 DEF AlarmInv, Inv
<1>11. CASE Tick
  <2>1. TypeOK'
    BY <1>0, <1>11 DEF TypeOK, Tick, Asleep
  <2>2. SafeJumps'
    BY <1>0, <1>11 DEF SafeJumps, Timed, Frames, Waiting, LongJumps, TypeOK, Tick, Asleep
  <2>3. TimeAccounted'
    BY <1>0, <1>11 DEF TimeAccounted, SafeJumps, Timed, Frames, Waiting, TypeOK, Tick, Asleep
  <2>4. OnlyJumpsCutShort'
    BY <1>0, <1>11 DEF OnlyJumpsCutShort, Timed, Frames, TypeOK, Tick, Asleep
  <2>5. Timed'
    BY <1>0, <1>11 DEF Timed, Waiting, SafeJumps, Frames, TypeOK, Tick, Asleep
  <2>6. Frames'
    BY <1>0, <1>11 DEF Frames, Timed, Waiting, LongJumps, TypeOK, Tick, Asleep
  <2> QED BY <2>1, <2>2, <2>3, <2>4, <2>5, <2>6 DEF AlarmInv, Inv
<1>12. CASE Input
  <2>1. TypeOK'
    BY <1>0, <1>12 DEF TypeOK, Input
  <2>2. SafeJumps'
    BY <1>0, <1>12 DEF SafeJumps, Timed, Frames, Waiting, LongJumps, TypeOK, Input
  <2>3. TimeAccounted'
    BY <1>0, <1>12 DEF TimeAccounted, SafeJumps, Timed, Frames, Waiting, TypeOK, Input
  <2>4. OnlyJumpsCutShort'
    BY <1>0, <1>12 DEF OnlyJumpsCutShort, Timed, Frames, TypeOK, Input
  <2>5. Timed'
    BY <1>0, <1>12 DEF Timed, Waiting, SafeJumps, Frames, TypeOK, Input
  <2>6. Frames'
    BY <1>0, <1>12 DEF Frames, Waiting, LongJumps, TypeOK, Input
  <2> QED BY <2>1, <2>2, <2>3, <2>4, <2>5, <2>6 DEF AlarmInv, Inv
<1>13. CASE UNCHANGED vars
  <2>1. TypeOK'
    BY <1>0, <1>13 DEF TypeOK, vars
  <2>2. SafeJumps'
    BY <1>0, <1>13 DEF SafeJumps, Timed, Frames, Waiting, LongJumps, TypeOK, vars
  <2>3. TimeAccounted'
    BY <1>0, <1>13 DEF TimeAccounted, SafeJumps, Timed, Frames, Waiting, TypeOK, vars
  <2>4. OnlyJumpsCutShort'
    BY <1>0, <1>13 DEF OnlyJumpsCutShort, Timed, Frames, TypeOK, vars
  <2>5. Timed'
    BY <1>0, <1>13 DEF Timed, Waiting, SafeJumps, Frames, TypeOK, vars
  <2>6. Frames'
    BY <1>0, <1>13 DEF Frames, Waiting, LongJumps, TypeOK, vars
  <2> QED BY <2>1, <2>2, <2>3, <2>4, <2>5, <2>6 DEF AlarmInv, Inv
<1>14. CASE ReadFails
  <2>1. TypeOK'
    <3>1. /\ pc' = "failed" /\ (alarm' = 0 \/ alarm' = alarm)
          /\ UNCHANGED <<program, env_alrm, pending, sig_int, line, unslept, elapsed, lag, missed>>
      BY <1>14 DEF ReadFails, Main
    <3>2. pc' \in Final
      BY <3>1 DEF Final
    <3> QED BY <1>0, <3>1, <3>2 DEF TypeOK
  <2>2. SafeJumps'
    BY <1>0, <1>14 DEF SafeJumps, Timed, Frames, Waiting, LongJumps, TypeOK, ReadFails, Main
  <2>3. TimeAccounted'
    BY <1>0, <1>14 DEF TimeAccounted, SafeJumps, Timed, Frames, Waiting, TypeOK, ReadFails, Main
  <2>4. OnlyJumpsCutShort'
    BY <1>0, <1>14 DEF OnlyJumpsCutShort, Timed, Frames, TypeOK, ReadFails, Main
  <2>5. Timed'
    BY <1>0, <1>14 DEF Timed, Waiting, SafeJumps, Frames, TypeOK, ReadFails, Main
  <2>6. Frames'
    BY <1>0, <1>14 DEF Frames, Waiting, LongJumps, TypeOK, ReadFails, Main
  <2> QED BY <2>1, <2>2, <2>3, <2>4, <2>5, <2>6 DEF AlarmInv, Inv
<1> QED BY <1>1, <1>2, <1>3, <1>4, <1>5, <1>6, <1>7, <1>8, <1>9, <1>10, <1>11, <1>12, <1>13, <1>14
        DEF Next, MainStep, Handlers

-----------------------------------------------------------------------------
(* MaskedWaits, step by step.                                             *)
LEMMA MaskedInit == M!Init => MaskedInv
<1> SUFFICES ASSUME M!Init PROVE MaskedInv
  OBVIOUS
<1> USE JobBounds DEF T!Bounds, M!Init
<1>1. M!TypeOK
  <2>1. handled \in [M!Signals -> 0 .. MaxSent] /\ sent \in 0 .. MaxSent
    OBVIOUS
  <2>2. {caught, mask, pending} \subseteq SUBSET M!Signals
    OBVIOUS
  <2>3. reported \in BOOLEAN
    BY Zenon
  <2>4. quitflag \in 0 .. 1
    OBVIOUS
  <2> QED BY <2>1, <2>2, <2>3, <2>4 DEF M!TypeOK
<1>2. M!ReportedIsCaught /\ M!NoFalseWakeup /\ M!NoSleepAfterQuit
  BY DEF M!ReportedIsCaught, M!NoFalseWakeup, M!NoSleepAfterQuit, M!Signals, M!Final
<1>3. Sent /\ Caught /\ Blocked
  BY DEF Sent, Caught, Blocked, M!Signals, M!Pending, M!Once, M!UntilQuit
<1> QED BY <1>1, <1>2, <1>3 DEF MaskedInv, M!Inv

(* A program that has one signal to catch, or two, catches the next one.   *)
LEMMA CatchesNext ==
  ASSUME Caught, M!TypeOK, M!Signal
  PROVE  /\ pc = "signal" /\ UNCHANGED <<program, pending, sent, handled, mask, quitflag, reported>>
         /\ \/ program = M!Pending /\ pc' = "block" /\ caught' = {"QUIT"}
            \/ program = M!Once /\ pc' = "block" /\ caught' = {"INT"}
            \/ program = M!UntilQuit /\ pc' = "signal" /\ caught' = {"INT"}
            \/ program = M!UntilQuit /\ pc' = "block" /\ caught' = {"INT", "QUIT"}
<1>1. \A set : M!Cardinality(set) = Cardinality(set)
  BY DEF M!Cardinality, Cardinality
<1>2. \/ caught = {} /\ M!Cardinality(caught) = 0
      \/ program = M!UntilQuit /\ caught = {"INT"} /\ M!Cardinality(caught) = 1
  BY <1>1, FS_EmptySet, FS_Singleton DEF Caught, M!Signal
<1> QED BY <1>2 DEF M!TypeOK, M!Signal, M!Move, M!Handlers, M!Pending, M!Once, M!UntilQuit


LEMMA MaskedStep ==
  ASSUME MaskedInv, [M!Next]_(M!vars)
  PROVE  MaskedInv'
<1> USE JobBounds DEF T!Bounds, M!Final, M!Signals, M!Pending, M!Once, M!UntilQuit
<1>0. M!TypeOK /\ M!ReportedIsCaught /\ M!NoFalseWakeup /\ M!NoSleepAfterQuit /\ Sent /\ Caught /\ Blocked
  BY DEF MaskedInv, M!Inv
<1>1. CASE M!Signal
  <2>1. M!TypeOK'
    BY <1>0, <1>1, CatchesNext DEF M!TypeOK, Sent
  <2>2. M!ReportedIsCaught'
    BY <1>0, <1>1, CatchesNext DEF M!ReportedIsCaught, Caught, Blocked, M!TypeOK
  <2>3. M!NoFalseWakeup'
    BY <1>0, <1>1, CatchesNext DEF M!NoFalseWakeup, Caught, Blocked, M!TypeOK
  <2>4. M!NoSleepAfterQuit'
    BY <1>0, <1>1, CatchesNext DEF M!NoSleepAfterQuit, Blocked, M!TypeOK
  <2>5. Sent'
    BY <1>0, <1>1, CatchesNext DEF Sent, M!TypeOK
  <2>6. Caught'
    BY <1>0, <1>1, CatchesNext DEF Caught, M!TypeOK
  <2>7. Blocked'
    BY <1>0, <1>1, CatchesNext DEF Blocked, Caught, M!TypeOK
  <2> QED BY <2>1, <2>2, <2>3, <2>4, <2>5, <2>6, <2>7 DEF MaskedInv, M!Inv
<1>2. CASE M!Block
  <2>1. M!TypeOK'
    BY <1>0, <1>2 DEF M!TypeOK, Sent, M!Block, M!Move, M!newmask, M!suspendmask, M!Handlers
  <2>2. M!ReportedIsCaught'
    BY <1>0, <1>2 DEF M!ReportedIsCaught, Caught, Blocked, M!TypeOK, M!Block, M!Move, M!newmask, M!suspendmask, M!Handlers
  <2>3. M!NoFalseWakeup'
    BY <1>0, <1>2 DEF M!NoFalseWakeup, Caught, Blocked, M!TypeOK, M!Block, M!Move, M!newmask, M!suspendmask, M!Handlers
  <2>4. M!NoSleepAfterQuit'
    BY <1>0, <1>2 DEF M!NoSleepAfterQuit, Blocked, M!TypeOK, M!Block, M!Move, M!newmask, M!suspendmask, M!Handlers
  <2>5. Sent'
    BY <1>0, <1>2 DEF Sent, M!TypeOK, M!Block, M!Move, M!newmask, M!suspendmask, M!Handlers
  <2>6. Caught'
    BY <1>0, <1>2 DEF Caught, M!TypeOK, M!Block, M!Move, M!newmask, M!suspendmask, M!Handlers
  <2>7. Blocked'
    BY <1>0, <1>2 DEF Blocked, Caught, M!TypeOK, M!Block, M!Move, M!newmask, M!suspendmask, M!Handlers
  <2> QED BY <2>1, <2>2, <2>3, <2>4, <2>5, <2>6, <2>7 DEF MaskedInv, M!Inv
<1>3. CASE M!Sleep
  <2>1. M!TypeOK'
    BY <1>0, <1>3 DEF M!TypeOK, Sent, M!Sleep, M!Move, M!newmask, M!suspendmask, M!Handlers
  <2>2. M!ReportedIsCaught'
    BY <1>0, <1>3 DEF M!ReportedIsCaught, Caught, Blocked, M!TypeOK, M!Sleep, M!Move, M!newmask, M!suspendmask, M!Handlers
  <2>3. M!NoFalseWakeup'
    BY <1>0, <1>3 DEF M!NoFalseWakeup, Caught, Blocked, M!TypeOK, M!Sleep, M!Move, M!newmask, M!suspendmask, M!Handlers
  <2>4. M!NoSleepAfterQuit'
    BY <1>0, <1>3 DEF M!NoSleepAfterQuit, Blocked, M!TypeOK, M!Sleep, M!Move, M!newmask, M!suspendmask, M!Handlers
  <2>5. Sent'
    BY <1>0, <1>3 DEF Sent, M!TypeOK, M!Sleep, M!Move, M!newmask, M!suspendmask, M!Handlers
  <2>6. Caught'
    BY <1>0, <1>3 DEF Caught, M!TypeOK, M!Sleep, M!Move, M!newmask, M!suspendmask, M!Handlers
  <2>7. Blocked'
    BY <1>0, <1>3 DEF Blocked, Caught, M!TypeOK, M!Sleep, M!Move, M!newmask, M!suspendmask, M!Handlers
  <2> QED BY <2>1, <2>2, <2>3, <2>4, <2>5, <2>6, <2>7 DEF MaskedInv, M!Inv
<1>4. CASE M!Sigpending
  <2>1. M!TypeOK'
    BY <1>0, <1>4 DEF M!TypeOK, Sent, M!Sigpending, M!Move, M!newmask, M!suspendmask, M!Handlers
  <2>2. M!ReportedIsCaught'
    BY <1>0, <1>4 DEF M!ReportedIsCaught, Caught, Blocked, M!TypeOK, M!Sigpending, M!Move, M!newmask, M!suspendmask, M!Handlers
  <2>3. M!NoFalseWakeup'
    BY <1>0, <1>4 DEF M!NoFalseWakeup, Caught, Blocked, M!TypeOK, M!Sigpending, M!Move, M!newmask, M!suspendmask, M!Handlers
  <2>4. M!NoSleepAfterQuit'
    BY <1>0, <1>4 DEF M!NoSleepAfterQuit, Blocked, M!TypeOK, M!Sigpending, M!Move, M!newmask, M!suspendmask, M!Handlers
  <2>5. Sent'
    BY <1>0, <1>4 DEF Sent, M!TypeOK, M!Sigpending, M!Move, M!newmask, M!suspendmask, M!Handlers
  <2>6. Caught'
    BY <1>0, <1>4 DEF Caught, M!TypeOK, M!Sigpending, M!Move, M!newmask, M!suspendmask, M!Handlers
  <2>7. Blocked'
    BY <1>0, <1>4 DEF Blocked, Caught, M!TypeOK, M!Sigpending, M!Move, M!newmask, M!suspendmask, M!Handlers
  <2> QED BY <2>1, <2>2, <2>3, <2>4, <2>5, <2>6, <2>7 DEF MaskedInv, M!Inv
<1>5. CASE M!Test
  <2>1. M!TypeOK'
    BY <1>0, <1>5 DEF M!TypeOK, Sent, M!Test, M!Move, M!newmask, M!suspendmask, M!Handlers
  <2>2. M!ReportedIsCaught'
    BY <1>0, <1>5 DEF M!ReportedIsCaught, Caught, Blocked, M!TypeOK, M!Test, M!Move, M!newmask, M!suspendmask, M!Handlers
  <2>3. M!NoFalseWakeup'
    BY <1>0, <1>5 DEF M!NoFalseWakeup, Caught, Blocked, M!TypeOK, M!Test, M!Move, M!newmask, M!suspendmask, M!Handlers
  <2>4. M!NoSleepAfterQuit'
    BY <1>0, <1>5 DEF M!NoSleepAfterQuit, Blocked, M!TypeOK, M!Test, M!Move, M!newmask, M!suspendmask, M!Handlers
  <2>5. Sent'
    BY <1>0, <1>5 DEF Sent, M!TypeOK, M!Test, M!Move, M!newmask, M!suspendmask, M!Handlers
  <2>6. Caught'
    BY <1>0, <1>5 DEF Caught, M!TypeOK, M!Test, M!Move, M!newmask, M!suspendmask, M!Handlers
  <2>7. Blocked'
    BY <1>0, <1>5 DEF Blocked, Caught, M!TypeOK, M!Test, M!Move, M!newmask, M!suspendmask, M!Handlers
  <2> QED BY <2>1, <2>2, <2>3, <2>4, <2>5, <2>6, <2>7 DEF MaskedInv, M!Inv
<1>6. CASE M!Suspend
  <2>1. M!TypeOK'
    BY <1>0, <1>6 DEF M!TypeOK, Sent, M!Suspend, M!Move, M!newmask, M!suspendmask, M!Handlers
  <2>2. M!ReportedIsCaught'
    BY <1>0, <1>6 DEF M!ReportedIsCaught, Caught, Blocked, M!TypeOK, M!Suspend, M!Move, M!newmask, M!suspendmask, M!Handlers
  <2>3. M!NoFalseWakeup'
    BY <1>0, <1>6 DEF M!NoFalseWakeup, Caught, Blocked, M!TypeOK, M!Suspend, M!Move, M!newmask, M!suspendmask, M!Handlers
  <2>4. M!NoSleepAfterQuit'
    BY <1>0, <1>6 DEF M!NoSleepAfterQuit, Blocked, M!TypeOK, M!Suspend, M!Move, M!newmask, M!suspendmask, M!Handlers
  <2>5. Sent'
    BY <1>0, <1>6 DEF Sent, M!TypeOK, M!Suspend, M!Move, M!newmask, M!suspendmask, M!Handlers
  <2>6. Caught'
    BY <1>0, <1>6 DEF Caught, M!TypeOK, M!Suspend, M!Move, M!newmask, M!suspendmask, M!Handlers
  <2>7. Blocked'
    BY <1>0, <1>6 DEF Blocked, Caught, M!TypeOK, M!Suspend, M!Move, M!newmask, M!suspendmask, M!Handlers
  <2> QED BY <2>1, <2>2, <2>3, <2>4, <2>5, <2>6, <2>7 DEF MaskedInv, M!Inv
<1>7. CASE M!ReturnFromSuspend
  <2>1. M!TypeOK'
    BY <1>0, <1>7 DEF M!TypeOK, Sent, M!ReturnFromSuspend, M!Move, M!newmask, M!suspendmask, M!Handlers
  <2>2. M!ReportedIsCaught'
    BY <1>0, <1>7 DEF M!ReportedIsCaught, Caught, Blocked, M!TypeOK, M!ReturnFromSuspend, M!Move, M!newmask, M!suspendmask, M!Handlers
  <2>3. M!NoFalseWakeup'
    BY <1>0, <1>7 DEF M!NoFalseWakeup, Caught, Blocked, M!TypeOK, M!ReturnFromSuspend, M!Move, M!newmask, M!suspendmask, M!Handlers
  <2>4. M!NoSleepAfterQuit'
    BY <1>0, <1>7 DEF M!NoSleepAfterQuit, Blocked, M!TypeOK, M!ReturnFromSuspend, M!Move, M!newmask, M!suspendmask, M!Handlers
  <2>5. Sent'
    BY <1>0, <1>7 DEF Sent, M!TypeOK, M!ReturnFromSuspend, M!Move, M!newmask, M!suspendmask, M!Handlers
  <2>6. Caught'
    BY <1>0, <1>7 DEF Caught, M!TypeOK, M!ReturnFromSuspend, M!Move, M!newmask, M!suspendmask, M!Handlers
  <2>7. Blocked'
    BY <1>0, <1>7 DEF Blocked, Caught, M!TypeOK, M!ReturnFromSuspend, M!Move, M!newmask, M!suspendmask, M!Handlers
  <2> QED BY <2>1, <2>2, <2>3, <2>4, <2>5, <2>6, <2>7 DEF MaskedInv, M!Inv
<1>8. CASE M!Unblock
  <2>1. M!TypeOK'
    BY <1>0, <1>8 DEF M!TypeOK, Sent, M!Unblock, M!Move, M!newmask, M!suspendmask, M!Handlers
  <2>2. M!ReportedIsCaught'
    BY <1>0, <1>8 DEF M!ReportedIsCaught, Caught, Blocked, M!TypeOK, M!Unblock, M!Move, M!newmask, M!suspendmask, M!Handlers
  <2>3. M!NoFalseWakeup'
    BY <1>0, <1>8 DEF M!NoFalseWakeup, Caught, Blocked, M!TypeOK, M!Unblock, M!Move, M!newmask, M!suspendmask, M!Handlers
  <2>4. M!NoSleepAfterQuit'
    BY <1>0, <1>8 DEF M!NoSleepAfterQuit, Blocked, M!TypeOK, M!Unblock, M!Move, M!newmask, M!suspendmask, M!Handlers
  <2>5. Sent'
    BY <1>0, <1>8 DEF Sent, M!TypeOK, M!Unblock, M!Move, M!newmask, M!suspendmask, M!Handlers
  <2>6. Caught'
    BY <1>0, <1>8 DEF Caught, M!TypeOK, M!Unblock, M!Move, M!newmask, M!suspendmask, M!Handlers
  <2>7. Blocked'
    BY <1>0, <1>8 DEF Blocked, Caught, M!TypeOK, M!Unblock, M!Move, M!newmask, M!suspendmask, M!Handlers
  <2> QED BY <2>1, <2>2, <2>3, <2>4, <2>5, <2>6, <2>7 DEF MaskedInv, M!Inv
<1>9. CASE M!Exit
  <2>1. M!TypeOK'
    BY <1>0, <1>9 DEF M!TypeOK, Sent, M!Exit, M!Move, M!newmask, M!suspendmask, M!Handlers
  <2>2. M!ReportedIsCaught'
    BY <1>0, <1>9 DEF M!ReportedIsCaught, Caught, Blocked, M!TypeOK, M!Exit, M!Move, M!newmask, M!suspendmask, M!Handlers
  <2>3. M!NoFalseWakeup'
    BY <1>0, <1>9 DEF M!NoFalseWakeup, Caught, Blocked, M!TypeOK, M!Exit, M!Move, M!newmask, M!suspendmask, M!Handlers
  <2>4. M!NoSleepAfterQuit'
    BY <1>0, <1>9 DEF M!NoSleepAfterQuit, Blocked, M!TypeOK, M!Exit, M!Move, M!newmask, M!suspendmask, M!Handlers
  <2>5. Sent'
    BY <1>0, <1>9 DEF Sent, M!TypeOK, M!Exit, M!Move, M!newmask, M!suspendmask, M!Handlers
  <2>6. Caught'
    BY <1>0, <1>9 DEF Caught, M!TypeOK, M!Exit, M!Move, M!newmask, M!suspendmask, M!Handlers
  <2>7. Blocked'
    BY <1>0, <1>9 DEF Blocked, Caught, M!TypeOK, M!Exit, M!Move, M!newmask, M!suspendmask, M!Handlers
  <2> QED BY <2>1, <2>2, <2>3, <2>4, <2>5, <2>6, <2>7 DEF MaskedInv, M!Inv
<1>10. ASSUME NEW s \in M!Signals, M!Deliver(s) PROVE MaskedInv'
  <2>1. M!TypeOK'
    BY <1>0, <1>10 DEF M!TypeOK, Sent, M!Deliver
  <2>2. M!ReportedIsCaught'
    BY <1>0, <1>10 DEF M!ReportedIsCaught, Caught, Blocked, M!TypeOK, M!Deliver
  <2>3. M!NoFalseWakeup'
    BY <1>0, <1>10 DEF M!NoFalseWakeup, Caught, Blocked, M!TypeOK, M!Deliver
  <2>4. M!NoSleepAfterQuit'
    BY <1>0, <1>10 DEF M!NoSleepAfterQuit, Blocked, M!TypeOK, M!Deliver
  <2>5. Sent'
    BY <1>0, <1>10 DEF Sent, M!TypeOK, M!Deliver
  <2>6. Caught'
    BY <1>0, <1>10 DEF Caught, M!TypeOK, M!Deliver
  <2>7. Blocked'
    BY <1>0, <1>10 DEF Blocked, Caught, M!TypeOK, M!Deliver
  <2> QED BY <2>1, <2>2, <2>3, <2>4, <2>5, <2>6, <2>7 DEF MaskedInv, M!Inv
<1>11. ASSUME NEW s \in M!Signals, M!Send(s) PROVE MaskedInv'
  <2>1. M!TypeOK'
    BY <1>0, <1>11 DEF M!TypeOK, Sent, M!Send
  <2>2. M!ReportedIsCaught'
    BY <1>0, <1>11 DEF M!ReportedIsCaught, Caught, Blocked, M!TypeOK, M!Send
  <2>3. M!NoFalseWakeup'
    BY <1>0, <1>11 DEF M!NoFalseWakeup, Caught, Blocked, M!TypeOK, M!Send
  <2>4. M!NoSleepAfterQuit'
    BY <1>0, <1>11 DEF M!NoSleepAfterQuit, Blocked, M!TypeOK, M!Send
  <2>5. Sent'
    BY <1>0, <1>11 DEF Sent, M!TypeOK, M!Send
  <2>6. Caught'
    BY <1>0, <1>11 DEF Caught, M!TypeOK, M!Send
  <2>7. Blocked'
    BY <1>0, <1>11 DEF Blocked, Caught, M!TypeOK, M!Send
  <2> QED BY <2>1, <2>2, <2>3, <2>4, <2>5, <2>6, <2>7 DEF MaskedInv, M!Inv
<1>12. CASE UNCHANGED M!vars
  <2>1. M!TypeOK'
    BY <1>0, <1>12 DEF M!TypeOK, Sent, M!vars
  <2>2. M!ReportedIsCaught'
    BY <1>0, <1>12 DEF M!ReportedIsCaught, Caught, Blocked, M!TypeOK, M!vars
  <2>3. M!NoFalseWakeup'
    BY <1>0, <1>12 DEF M!NoFalseWakeup, Caught, Blocked, M!TypeOK, M!vars
  <2>4. M!NoSleepAfterQuit'
    BY <1>0, <1>12 DEF M!NoSleepAfterQuit, Blocked, M!TypeOK, M!vars
  <2>5. Sent'
    BY <1>0, <1>12 DEF Sent, M!TypeOK, M!vars
  <2>6. Caught'
    BY <1>0, <1>12 DEF Caught, M!TypeOK, M!vars
  <2>7. Blocked'
    BY <1>0, <1>12 DEF Blocked, Caught, M!TypeOK, M!vars
  <2> QED BY <2>1, <2>2, <2>3, <2>4, <2>5, <2>6, <2>7 DEF MaskedInv, M!Inv
<1> QED BY <1>1, <1>2, <1>3, <1>4, <1>5, <1>6, <1>7, <1>8, <1>9, <1>10, <1>11, <1>12 DEF M!Next, M!Step, M!Delivery

-----------------------------------------------------------------------------
(* SignalJump, step by step.                                              *)
LEMMA JumpInit == J!Init => JumpInv
<1> SUFFICES ASSUME J!Init PROVE JumpInv
  OBVIOUS
<1> USE JobBounds DEF T!Bounds, J!Init
<1>1. J!TypeOK
  <2>1. jmpbuf \in BOOLEAN
    BY Zenon
  <2> QED BY <2>1 DEF J!TypeOK, J!BusyFor
<1>2. J!Inv
  BY <1>1 DEF J!Inv
<1>3. JumpReady /\ AlarmOfHandler
  BY DEF JumpReady, AlarmOfHandler, J!BusyFor
<1> QED BY <1>2, <1>3 DEF JumpInv

LEMMA JumpStep ==
  ASSUME JumpInv, [J!Next]_(J!vars)
  PROVE  JumpInv'
<1> USE JobBounds DEF T!Bounds, J!Final, J!BusyFor
<1>0. J!Inv /\ JumpReady /\ AlarmOfHandler
  BY DEF JumpInv
<1>1. CASE J!Signal
  <2>1. J!Inv'
    BY <1>0, <1>1 DEF J!Inv, J!TypeOK, JumpReady, AlarmOfHandler, J!Signal, J!Main
  <2>2. JumpReady'
    BY <1>0, <1>1 DEF JumpReady, J!Inv, J!TypeOK, J!Signal, J!Main
  <2>3. AlarmOfHandler'
    BY <1>0, <1>1 DEF AlarmOfHandler, JumpReady, J!Inv, J!TypeOK, J!Signal, J!Main
  <2> QED BY <2>1, <2>2, <2>3 DEF JumpInv
<1>2. CASE J!Sigsetjmp
  <2>1. J!Inv'
    BY <1>0, <1>2 DEF J!Inv, J!TypeOK, JumpReady, AlarmOfHandler, J!Sigsetjmp, J!Main
  <2>2. JumpReady'
    BY <1>0, <1>2 DEF JumpReady, J!Inv, J!TypeOK, J!Sigsetjmp, J!Main
  <2>3. AlarmOfHandler'
    BY <1>0, <1>2 DEF AlarmOfHandler, JumpReady, J!Inv, J!TypeOK, J!Sigsetjmp, J!Main
  <2> QED BY <2>1, <2>2, <2>3 DEF JumpInv
<1>3. CASE J!SetCanjump
  <2>1. J!Inv'
    BY <1>0, <1>3 DEF J!Inv, J!TypeOK, JumpReady, AlarmOfHandler, J!SetCanjump, J!Main
  <2>2. JumpReady'
    BY <1>0, <1>3 DEF JumpReady, J!Inv, J!TypeOK, J!SetCanjump, J!Main
  <2>3. AlarmOfHandler'
    BY <1>0, <1>3 DEF AlarmOfHandler, JumpReady, J!Inv, J!TypeOK, J!SetCanjump, J!Main
  <2> QED BY <2>1, <2>2, <2>3 DEF JumpInv
<1>4. CASE J!Exit
  <2>1. J!Inv'
    BY <1>0, <1>4 DEF J!Inv, J!TypeOK, JumpReady, AlarmOfHandler, J!Exit, J!Main
  <2>2. JumpReady'
    BY <1>0, <1>4 DEF JumpReady, J!Inv, J!TypeOK, J!Exit, J!Main
  <2>3. AlarmOfHandler'
    BY <1>0, <1>4 DEF AlarmOfHandler, JumpReady, J!Inv, J!TypeOK, J!Exit, J!Main
  <2> QED BY <2>1, <2>2, <2>3 DEF JumpInv
<1>5. CASE J!Alarm
  <2>1. J!Inv'
    BY <1>0, <1>5 DEF J!Inv, J!TypeOK, JumpReady, AlarmOfHandler, J!Alarm, J!Handler
  <2>2. JumpReady'
    BY <1>0, <1>5 DEF JumpReady, J!Inv, J!TypeOK, J!Alarm, J!Handler
  <2>3. AlarmOfHandler'
    BY <1>0, <1>5 DEF AlarmOfHandler, JumpReady, J!Inv, J!TypeOK, J!Alarm, J!Handler
  <2> QED BY <2>1, <2>2, <2>3 DEF JumpInv
<1>6. CASE J!StartTime
  <2>1. J!Inv'
    BY <1>0, <1>6 DEF J!Inv, J!TypeOK, JumpReady, AlarmOfHandler, J!StartTime, J!Handler
  <2>2. JumpReady'
    BY <1>0, <1>6 DEF JumpReady, J!Inv, J!TypeOK, J!StartTime, J!Handler
  <2>3. AlarmOfHandler'
    BY <1>0, <1>6 DEF AlarmOfHandler, JumpReady, J!Inv, J!TypeOK, J!StartTime, J!Handler
  <2> QED BY <2>1, <2>2, <2>3 DEF JumpInv
<1>7. CASE J!Busy
  <2>1. J!Inv'
    BY <1>0, <1>7 DEF J!Inv, J!TypeOK, JumpReady, AlarmOfHandler, J!Busy, J!Handler
  <2>2. JumpReady'
    BY <1>0, <1>7 DEF JumpReady, J!Inv, J!TypeOK, J!Busy, J!Handler
  <2>3. AlarmOfHandler'
    BY <1>0, <1>7 DEF AlarmOfHandler, JumpReady, J!Inv, J!TypeOK, J!Busy, J!Handler
  <2> QED BY <2>1, <2>2, <2>3 DEF JumpInv
<1>8. CASE J!ClearCanjump
  <2>1. J!Inv'
    BY <1>0, <1>8 DEF J!Inv, J!TypeOK, JumpReady, AlarmOfHandler, J!ClearCanjump, J!Handler
  <2>2. JumpReady'
    BY <1>0, <1>8 DEF JumpReady, J!Inv, J!TypeOK, J!ClearCanjump, J!Handler
  <2>3. AlarmOfHandler'
    BY <1>0, <1>8 DEF AlarmOfHandler, JumpReady, J!Inv, J!TypeOK, J!ClearCanjump, J!Handler
  <2> QED BY <2>1, <2>2, <2>3 DEF JumpInv
<1>9. CASE J!Siglongjmp
  <2>1. J!Inv'
    BY <1>0, <1>9 DEF J!Inv, J!TypeOK, JumpReady, AlarmOfHandler, J!Siglongjmp, J!Handler
  <2>2. JumpReady'
    BY <1>0, <1>9 DEF JumpReady, J!Inv, J!TypeOK, J!Siglongjmp, J!Handler
  <2>3. AlarmOfHandler'
    BY <1>0, <1>9 DEF AlarmOfHandler, JumpReady, J!Inv, J!TypeOK, J!Siglongjmp, J!Handler
  <2> QED BY <2>1, <2>2, <2>3 DEF JumpInv
<1>10. ASSUME NEW s \in {"USR1", "ALRM"}, J!Deliver(s) PROVE JumpInv'
  <2>1. J!Inv'
    BY <1>0, <1>10 DEF J!Inv, J!TypeOK, JumpReady, AlarmOfHandler, J!Deliver
  <2>2. JumpReady'
    <3>1. /\ jumps \in {0, 1} /\ UNCHANGED <<caught, jmpbuf, canjump, jumps>>
          /\ pc \notin J!Final /\ pc' = IF s \in caught THEN pc ELSE "killed"
      BY <1>0, <1>10 DEF J!Inv, J!TypeOK, J!Deliver
    <3>2. CASE s = "USR1" /\ s \in caught /\ canjump = 1
      <4>1. sig_usr1' = "alarm" /\ pc' = "pause" /\ jumps = 0
        BY <1>0, <1>10, <3>1, <3>2 DEF JumpReady, J!Deliver
      <4> QED BY <1>0, <3>1, <3>2, <4>1 DEF JumpReady
    <3>3. CASE ~(s = "USR1" /\ s \in caught /\ canjump = 1)
      <4>1. UNCHANGED <<sig_usr1, mask>>
        BY <1>10, <3>3 DEF J!Deliver
      <4>2. pc \in {"pause", "jumped"} => s \in caught
        BY <1>0 DEF JumpReady
      <4>3. pc' = pc \/ (pc' = "killed" /\ pc \notin {"pause", "jumped"})
        BY <3>1, <4>2
      <4> QED BY <1>0, <3>1, <4>1, <4>3 DEF JumpReady
    <3> QED BY <3>2, <3>3
  <2>3. AlarmOfHandler'
    BY <1>0, <1>10 DEF AlarmOfHandler, JumpReady, J!Inv, J!TypeOK, J!Deliver
  <2> QED BY <2>1, <2>2, <2>3 DEF JumpInv
<1>11. CASE J!Tick
  <2>1. J!Inv'
    BY <1>0, <1>11 DEF J!Inv, J!TypeOK, JumpReady, AlarmOfHandler, J!Tick
  <2>2. JumpReady'
    BY <1>0, <1>11 DEF JumpReady, J!Inv, J!TypeOK, J!Tick
  <2>3. AlarmOfHandler'
    BY <1>0, <1>11 DEF AlarmOfHandler, JumpReady, J!Inv, J!TypeOK, J!Tick
  <2> QED BY <2>1, <2>2, <2>3 DEF JumpInv
<1>12. CASE J!Send
  <2>1. J!Inv'
    BY <1>0, <1>12 DEF J!Inv, J!TypeOK, JumpReady, AlarmOfHandler, J!Send
  <2>2. JumpReady'
    BY <1>0, <1>12 DEF JumpReady, J!Inv, J!TypeOK, J!Send
  <2>3. AlarmOfHandler'
    BY <1>0, <1>12 DEF AlarmOfHandler, JumpReady, J!Inv, J!TypeOK, J!Send
  <2> QED BY <2>1, <2>2, <2>3 DEF JumpInv
<1>13. CASE UNCHANGED J!vars
  <2>1. J!Inv'
    BY <1>0, <1>13 DEF J!Inv, J!TypeOK, JumpReady, AlarmOfHandler, J!vars
  <2>2. JumpReady'
    BY <1>0, <1>13 DEF JumpReady, J!Inv, J!TypeOK, J!vars
  <2>3. AlarmOfHandler'
    BY <1>0, <1>13 DEF AlarmOfHandler, JumpReady, J!Inv, J!TypeOK, J!vars
  <2> QED BY <2>1, <2>2, <2>3 DEF JumpInv
<1> QED BY <1>1, <1>2, <1>3, <1>4, <1>5, <1>6, <1>7, <1>8, <1>9, <1>10, <1>11, <1>12, <1>13 DEF J!Next, J!Step, J!Delivery

-----------------------------------------------------------------------------
(* Orphan, step by step.                                                  *)
LEMMA OrphanInit == O!Init => OrphanInv
<1> SUFFICES ASSUME O!Init PROVE OrphanInv
  OBVIOUS
<1> USE DEF O!Init
<1>1. {stopped, hangups, foreground} \subseteq BOOLEAN
  BY Zenon
<1>2. O!TypeOK
  BY <1>1 DEF O!TypeOK, O!Final
<1> QED BY <1>2 DEF OrphanInv, O!Inv

LEMMA OrphanStep ==
  ASSUME OrphanInv, [O!Next]_(O!vars)
  PROVE  OrphanInv'
<1>1. CASE O!Signal
  BY <1>1 DEF OrphanInv, O!Inv, O!TypeOK, O!Final, O!Signal, O!Child
<1>2. CASE O!Kill
  BY <1>2 DEF OrphanInv, O!Inv, O!TypeOK, O!Final, O!Kill, O!Child
<1>3. CASE O!PrIds
  BY <1>3 DEF OrphanInv, O!Inv, O!TypeOK, O!Final, O!PrIds, O!Child
<1>4. CASE O!Read
  BY <1>4 DEF OrphanInv, O!Inv, O!TypeOK, O!Final, O!Read, O!Child
<1>5. CASE O!Fork
  BY <1>5 DEF OrphanInv, O!Inv, O!TypeOK, O!Final, O!Fork
<1>6. CASE O!Exit
  BY <1>6 DEF OrphanInv, O!Inv, O!TypeOK, O!Final, O!Exit
<1>7. CASE O!TakeTerminal
  BY <1>7 DEF OrphanInv, O!Inv, O!TypeOK, O!Final, O!TakeTerminal
<1>8. CASE O!Stop
  BY <1>8 DEF OrphanInv, O!Inv, O!TypeOK, O!Final, O!Stop
<1>9. CASE O!Hangup
  BY <1>9 DEF OrphanInv, O!Inv, O!TypeOK, O!Final, O!Hangup
<1>10. CASE UNCHANGED O!vars
  BY <1>10 DEF OrphanInv, O!Inv, O!TypeOK, O!Final, O!vars
<1> QED BY <1>1, <1>2, <1>3, <1>4, <1>5, <1>6, <1>7, <1>8, <1>9, <1>10 DEF O!Next, O!Step

-----------------------------------------------------------------------------
(* Shell, step by step.                                                   *)
LEMMA ShellInit == S!Init => ShellInv
<1> SUFFICES ASSUME S!Init PROVE ShellInv
  OBVIOUS
<1> USE JobBounds DEF T!Bounds, S!Init
<1>1. {tty, failed} \subseteq BOOLEAN
  BY Zenon
<1>2. S!TypeOK
  BY <1>1 DEF S!TypeOK, S!Final, S!Shells
<1> QED BY <1>2 DEF ShellInv, S!Inv

LEMMA ShellStep ==
  ASSUME ShellInv, [S!Next]_(S!vars)
  PROVE  ShellInv'
<1> USE JobBounds DEF T!Bounds, S!Shells
<1>1. CASE S!Signal
  BY <1>1 DEF ShellInv, S!Inv, S!TypeOK, S!Final, S!Signal, S!Main
<1>2. CASE S!Printf
  BY <1>2 DEF ShellInv, S!Inv, S!TypeOK, S!Final, S!Printf, S!Main
<1>3. CASE S!Fgets
  BY <1>3 DEF ShellInv, S!Inv, S!TypeOK, S!Final, S!Fgets, S!Main
<1>4. CASE S!Exit
  <2>1. /\ shell \in {"fgets", "fork"} /\ shell' \in {"exit_0", "exit_1"}
        /\ shown' = shown + buf /\ buf' = 0
        /\ UNCHANGED <<program, child, caught, pending, sent, left, tty, copy, asked, failed>>
    BY <1>4 DEF S!Exit, S!Main
  <2>2. S!TypeOK'
    BY <2>1 DEF ShellInv, S!Inv, S!TypeOK, S!Final
  <2>3. shown' + buf' = shown + buf
    BY <2>1 DEF ShellInv, S!Inv, S!TypeOK
  <2> QED BY <2>1, <2>2, <2>3 DEF ShellInv, S!Inv
<1>5. CASE S!Fork
  BY <1>5 DEF ShellInv, S!Inv, S!TypeOK, S!Final, S!Fork, S!Main
<1>6. CASE S!Waitpid
  BY <1>6 DEF ShellInv, S!Inv, S!TypeOK, S!Final, S!Waitpid, S!Main
<1>7. CASE S!Execlp
  <2>1. /\ child = "forked" /\ pending' = pending
        /\ \/ child' = "running" /\ copy' = 0 /\ UNCHANGED failed
           \/ child' = "failed" /\ failed' = TRUE /\ UNCHANGED copy
        /\ UNCHANGED <<program, shell, caught, sent, left, tty, buf, asked, shown>>
    BY <1>7 DEF S!Execlp, S!Command
  <2>2. S!TypeOK'
    <3>1. failed' \in BOOLEAN
      BY <2>1, Zenon DEF ShellInv, S!Inv, S!TypeOK
    <3> QED BY <2>1, <3>1 DEF ShellInv, S!Inv, S!TypeOK
  <2>3. failed => failed'
    BY <2>1
  <2> QED BY <2>1, <2>2, <2>3 DEF ShellInv, S!Inv
<1>8. CASE S!Exits
  <2>1. /\ child \in {"running", "failed"} /\ child' = "zombie"
        /\ pending' = pending \ {"child"}
        /\ \/ UNCHANGED <<copy, shown>>
           \/ child = "failed" /\ shown' = shown + copy /\ copy' = 0
        /\ UNCHANGED <<program, shell, caught, sent, left, tty, buf, asked, failed>>
    BY <1>8 DEF S!Exits, S!Command
  <2>2. S!TypeOK'
    BY <2>1 DEF ShellInv, S!Inv, S!TypeOK
  <2>3. /\ shown' + buf' >= asked' /\ (tty' => copy' = 0)
        /\ (tty' \/ ~failed' => shown' + buf' = asked')
    BY <2>1 DEF ShellInv, S!Inv, S!TypeOK
  <2> QED BY <2>1, <2>2, <2>3 DEF ShellInv, S!Inv
<1>9. CASE S!Interrupt
  BY <1>9 DEF ShellInv, S!Inv, S!TypeOK, S!Final, S!Interrupt
<1>10. ASSUME NEW p \in {"shell", "child"}, S!Deliver(p) PROVE ShellInv'
  BY <1>10 DEF ShellInv, S!Inv, S!TypeOK, S!Final, S!Deliver
<1>11. CASE UNCHANGED S!vars
  BY <1>11 DEF ShellInv, S!Inv, S!TypeOK, S!Final, S!vars
<1> QED BY <1>1, <1>2, <1>3, <1>4, <1>5, <1>6, <1>7, <1>8, <1>9, <1>10, <1>11 DEF S!Next, S!Step, S!Child, S!Delivery

-----------------------------------------------------------------------------
(* The fourteen programs together. *)
Programs == AlarmPrograms \union MaskedPrograms \union S!Shells \union {"10.15", "10.21", "9.10"}

(* One program runs, and its module's invariant holds. *)
MCInv ==
  /\ program \in Programs
  /\ program \in AlarmPrograms => AlarmInv
  /\ program \in MaskedPrograms => MaskedInv
  /\ program = "10.15" => JumpInv
  /\ program = "10.21" => T!Inv
  /\ program = "9.10" => OrphanInv
  /\ program \in S!Shells => ShellInv

LEMMA Apart ==
  /\ AlarmPrograms = {"10.10", "10.10.2", "10.10.3", "10.10.4", "10.10.5", "16-19"}
  /\ MaskedPrograms = {"10.13", "10.16", "10.16.2"}
  /\ S!Shells = {"1.6.3", "1.9"}
BY DEF AlarmPrograms, Sleeps, Reads, MaskedPrograms, M!Pending, M!Once, M!UntilQuit, S!Shells

LEMMA MCInvInit == MCInit => MCInv
<1> SUFFICES ASSUME MCInit PROVE MCInv
  OBVIOUS
<1> USE Apart DEF MCInv, Programs
<1>1. CASE Init
  BY <1>1, AlarmInit DEF AlarmInv, Inv, TypeOK, AlarmPrograms
<1>2. CASE M!Init
  BY <1>2, MaskedInit DEF M!Init, M!Pending, M!Once, M!UntilQuit
<1>3. CASE program = "10.15" /\ J!Init
  BY <1>3, JumpInit
<1>4. CASE program = "10.21" /\ T!Init
  BY <1>4, StopInit
<1>5. CASE program = "9.10" /\ O!Init
  BY <1>5, OrphanInit
<1>6. CASE S!Init
  BY <1>6, ShellInit DEF S!Init
<1> QED BY <1>1, <1>2, <1>3, <1>4, <1>5, <1>6, Zenon DEF MCInit

LEMMA MCInvStep == MCInv /\ [MCNext]_allvars => MCInv'
<1> SUFFICES ASSUME MCInv, [MCNext]_allvars PROVE MCInv'
  OBVIOUS
<1> USE Apart DEF Programs
<1>1. CASE program \in AlarmPrograms /\ Next
  <2>1. AlarmInv' /\ program' \in AlarmPrograms
    BY <1>1, AlarmStep DEF MCInv, AlarmInv, Inv, TypeOK, AlarmPrograms
  <2>2. program' = program
    BY <1>1 DEF Next, MainStep, Handlers, Signal, Setjmp, Alarm, Wait, Read, ReadFails, Cancel, Write, Main,
                sig_alrm, StartSigInt, FinishSigInt, Tick, Input
  <2> QED BY <1>1, <2>1, <2>2 DEF MCInv
<1>2. CASE program \in MaskedPrograms /\ M!Next
  <2>1. MaskedInv'
    BY <1>2, MaskedStep DEF MCInv
  <2>2. program' \in MaskedPrograms
    BY <2>1 DEF MaskedInv, M!Inv, M!TypeOK, MaskedPrograms
  <2> QED BY <2>1, <2>2 DEF MCInv
<1>3. CASE program = "10.15" /\ J!Next /\ UNCHANGED program
  BY <1>3, JumpStep DEF MCInv
<1>4. CASE program = "10.21" /\ T!Next /\ UNCHANGED program
  BY <1>4, StopTypes, ReadyStep, StopsStep, JobBounds DEF MCInv, T!Inv
<1>5. CASE program = "9.10" /\ O!Next /\ UNCHANGED program
  BY <1>5, OrphanStep DEF MCInv
<1>6. CASE program \in S!Shells /\ S!Next
  <2>1. ShellInv'
    BY <1>6, ShellStep DEF MCInv
  <2>2. program' \in S!Shells
    BY <2>1 DEF ShellInv, S!Inv, S!TypeOK
  <2> QED BY <2>1, <2>2 DEF MCInv
<1>7. CASE UNCHANGED allvars
  <2>1. /\ UNCHANGED vars /\ UNCHANGED M!vars /\ UNCHANGED J!vars /\ UNCHANGED T!vars
        /\ UNCHANGED O!vars /\ UNCHANGED S!vars /\ UNCHANGED program
    BY <1>7 DEF allvars, maskvars, jumpvars, stopvars, orphanvars, shellvars, vars, M!vars, J!vars,
                T!vars, O!vars, S!vars
  <2> QED BY <2>1, AlarmStep, MaskedStep, JumpStep, StopTypes, ReadyStep, StopsStep, OrphanStep,
             ShellStep, JobBounds DEF MCInv, T!Inv
<1> QED BY <1>1, <1>2, <1>3, <1>4, <1>5, <1>6, <1>7, Zenon DEF MCNext

(* For any number of signals and of seconds: a sleep takes the time asked  *)
(* for, less what it returns, and no longjmp goes to a dead frame; no      *)
(* signal that 10.13, 10.16 or 10.16.2 blocks is missed or made up; 10.15  *)
(* jumps once; 10.21 stops at most once for each SIGTSTP that others send  *)
(* it; the child of 9.10 survives SIGHUP; a shell waits for its commands.  *)
THEOREM SignalsSafe == MCSpec => []SignalsInv
<1>1. MCInv => SignalsInv
  BY DEF MCInv, SignalsInv, AlarmInv, MaskedInv, JumpInv, OrphanInv, ShellInv
<1> QED BY <1>1, MCInvInit, MCInvStep, PTL DEF MCSpec
=============================================================================
