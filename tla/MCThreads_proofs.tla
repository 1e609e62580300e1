-------------------------- MODULE MCThreads_proofs --------------------------
(***************************************************************************)
(* The threaded programs for every value of the bounds: the mutex, the     *)
(* flag and the condition variable of 12.8.c; retry of 12.4.c, neither     *)
(* early nor twice; the locks of 12.9.c around fork; the signals of        *)
(* 13.6.c; the checktime of 8.16.c; the barrier and the merge of 11.6.8.c. *)
(***************************************************************************)
EXTENDS MCThreads, Integers, FiniteSetTheorems, TLAPS

QuitInv == Inv /\ EndsOnlyByQuit

LEMMA InitQuitInv == Init => QuitInv
<1> SUFFICES ASSUME Init PROVE QuitInv
  OBVIOUS
<1> USE DEF Init, Gone
<1>1. TypeOK
  <2>1. blocked \in BOOLEAN
    BY Zenon
  <2>2. sent \in 0 .. MaxSignals
    BY MaxSignalsAssumption
  <2> QED BY <2>1, <2>2 DEF TypeOK
<1>2. Mutex /\ FlagBySIGQUIT /\ WakeupToCome /\ ResetIsAlone /\ EndsOnlyByQuit
  BY DEF Mutex, FlagBySIGQUIT, WakeupToCome, ResetIsAlone, EndsOnlyByQuit
<1> QED BY <1>1, <1>2 DEF QuitInv, Inv

LEMMA QuitInvStep == QuitInv /\ [Next]_vars => QuitInv'
<1> SUFFICES ASSUME QuitInv, [Next]_vars PROVE QuitInv'
  OBVIOUS
<1> USE MaxSignalsAssumption
    DEF QuitInv, Inv, TypeOK, Mutex, FlagBySIGQUIT, WakeupToCome, ResetIsAlone,
        EndsOnlyByQuit, Gone, Alive, MainStep, ThrStep
(* main *)
<1>1. CASE Block
  <2>1. blocked' /\ blocked' \in BOOLEAN
    BY <1>1, Zenon DEF Block
  <2>2. main = "block" /\ main' = "create" /\ UNCHANGED <<thr, lock, quitflag, pending, sent>>
    BY <1>1 DEF Block
  <2> QED BY <2>1, <2>2
<1>2. CASE Create
  BY <1>2 DEF Create
<1>3. CASE MainLock
  BY <1>3 DEF MainLock
<1>4. CASE Test
  (* main falls asleep only while the flag is 0. *)
  BY <1>4 DEF Test
<1>5. CASE MainUnlock
  (* The flag is 1 and the mutex was main's: the thread is past both. *)
  BY <1>5 DEF MainUnlock
<1>6. CASE Reset
  BY <1>6 DEF Reset
<1>7. CASE Unblock
  BY <1>7 DEF Unblock
<1>8. CASE Exit
  BY <1>8 DEF Exit
(* thr_fn *)
<1>9. CASE Sigwait
  BY <1>9 DEF Sigwait
<1>10. CASE ThrLock
  BY <1>10 DEF ThrLock
<1>11. CASE SetFlag
  BY <1>11 DEF SetFlag
<1>12. CASE ThrUnlock
  BY <1>12 DEF ThrUnlock
<1>13. CASE CondSignal
  BY <1>13 DEF CondSignal
(* the signals *)
<1>14. CASE Killed
  BY <1>14 DEF Killed
<1>15. CASE SpuriousWakeup
  BY <1>15 DEF SpuriousWakeup
<1>16. ASSUME NEW s \in Signals, Send(s) PROVE QuitInv'
  BY <1>16 DEF Send
<1>17. CASE UNCHANGED vars
  BY <1>17 DEF vars
<1> QED
  BY <1>1, <1>2, <1>3, <1>4, <1>5, <1>6, <1>7, <1>8, <1>9, <1>10, <1>11, <1>12,
     <1>13, <1>14, <1>15, <1>16, <1>17 DEF Next, Main, Thread

-----------------------------------------------------------------------------
(* 12.9.c: what each control point of a process says of the locks in its   *)
(* memory.                                                                 *)

HeldAt(c) ==
  CASE c \in {"none", "atfork", "create", "lock1", "returned", "exited"} -> {}
    [] c = "lock2" -> {1}
    [] c = "unlock2" -> {2}
    [] OTHER -> {1, 2}

ForkInv ==
  /\ at \in [A!Procs -> {"none", "atfork", "create", "lock1", "lock2", "fork",
                         "unlock1", "unlock2", "returned", "exited"}]
  /\ locked = [p \in A!Procs |-> HeldAt(at[p])]

LEMMA ForkInvInit == A!Init => ForkInv
  BY DEF A!Init, ForkInv, HeldAt, A!Procs

LEMMA ForkInvStep == ForkInv /\ [A!Next]_forkvars => ForkInv'
<1> SUFFICES ASSUME ForkInv, [A!Next]_forkvars PROVE ForkInv'
  OBVIOUS
<1> USE DEF ForkInv, HeldAt, A!Procs, A!Step
<1>1. CASE A!Setup
  BY <1>1 DEF A!Setup
<1>2. CASE A!prepare
  BY <1>2 DEF A!prepare
<1>3. CASE A!Fork
  BY <1>3 DEF A!Fork
<1>4. ASSUME NEW p \in A!Procs, A!unlock(p) PROVE ForkInv'
  BY <1>4 DEF A!unlock
<1>5. ASSUME NEW p \in A!Procs, A!Exit(p) PROVE ForkInv'
  BY <1>5 DEF A!Exit
<1>6. CASE UNCHANGED forkvars
  BY <1>6 DEF forkvars
<1> QED BY <1>1, <1>2, <1>3, <1>4, <1>5, <1>6 DEF A!Next

LEMMA ForkInvSafe == ForkInv => A!Inv
  BY DEF ForkInv, HeldAt, A!Inv, A!Procs

-----------------------------------------------------------------------------
(* 13.6.c: every SIGHUP that was reread, is being handled or is pending    *)
(* has been sent; the thread waits only once main has blocked the signals; *)
(* and an ignored SIGHUP is not pending.                                   *)

Hangups ==
  rereads + (IF waiter = "SIGHUP" THEN 1 ELSE 0)
          + (IF "SIGHUP" \in arrived THEN 1 ELSE 0)

DaemonInv ==
  /\ D!Inv
  /\ rereads \in Nat /\ Hangups <= total
  /\ waiter # "none" => dmain \in {"exit", "gone"}
  /\ rereads > 0 => waiter # "none"
  /\ dmain = "gone" => ended # "no"
  /\ D!Ignored => "SIGHUP" \notin arrived

LEMMA DaemonInvInit == D!Init => DaemonInv
  BY ClockBounds
  DEF D!Init, DaemonInv, D!Inv, D!TypeOK, D!KilledBefore, D!Ignored, Hangups,
      D!Bounds, D!Signals

LEMMA DaemonInvStep == DaemonInv /\ [D!Next]_daemonvars => DaemonInv'
<1> SUFFICES ASSUME DaemonInv, [D!Next]_daemonvars PROVE DaemonInv'
  OBVIOUS
<1>0. MaxSent \in Nat
  BY ClockBounds DEF D!Bounds
<1> USE <1>0
    DEF DaemonInv, D!Inv, D!TypeOK, D!KilledBefore, D!Ignored, Hangups, D!Signals,
        D!Main
<1>1. CASE D!Prepare
  <2>1. UNCHANGED <<waiter, total, rereads>> /\ arrived' \in {arrived, arrived \ {"SIGHUP"}}
    BY <1>1, Zenon DEF D!Prepare
  <2>2. \/ dmain = "daemonize" /\ dmain' = "running" /\ UNCHANGED ended
           /\ "SIGHUP" \notin arrived'
        \/ dmain = "running" /\ dmain' = "sigaction" /\ UNCHANGED <<arrived, ended>>
        \/ dmain = "running" /\ dmain' = "gone" /\ ended' = "main"
        \/ dmain = "sigaction" /\ dmain' = "block" /\ UNCHANGED ended
        \/ dmain = "block" /\ dmain' = "create" /\ UNCHANGED ended
    BY <1>1 DEF D!Prepare
  <2>3. ended = "no" /\ waiter = "none" /\ rereads = 0
    BY <2>2, <1>1 DEF D!Prepare
  <2> QED BY <2>1, <2>2, <2>3
<1>2. CASE D!Create
  BY <1>2 DEF D!Create
<1>3. CASE D!Exit
  BY <1>3 DEF D!Exit
<1>4. CASE D!Killed
  (* The mask is not set: main has not yet created the thread. *)
  BY <1>4 DEF D!Killed, D!Blocked
<1>5. CASE D!Sigwait
  BY <1>5 DEF D!Sigwait
<1>6. CASE D!Switch
  BY <1>6 DEF D!Switch
<1>7. ASSUME NEW s \in D!Signals, D!Send(s) PROVE DaemonInv'
  BY <1>7 DEF D!Send
<1>8. CASE UNCHANGED daemonvars
  BY <1>8 DEF daemonvars
<1> QED
  BY <1>1, <1>2, <1>3, <1>4, <1>5, <1>6, <1>7, <1>8 DEF D!Next, D!MainStep

-----------------------------------------------------------------------------
(* 12.4.c: the arithmetic of timespecs.                                    *)

Timespecs == [tv_sec : Nat, tv_nsec : 0 .. SECTONSEC - 1]

LEMMA DivisionFacts ==
  ASSUME NEW t \in Nat, NEW d \in Nat \ {0},
         NEW q, NEW r, q = t \div d, r = t % d
  PROVE  q \in Nat /\ r \in 0 .. d - 1 /\ q * d + r = t
<1>1. q \in Nat
  BY SMTT(30)
<1>2. r \in 0 .. d - 1
  BY SMTT(30)
<1>3. q * d + r = t
  BY <1>1, <1>2, SMTT(30)
<1> QED BY <1>1, <1>2, <1>3

(* A time taken apart into seconds and the rest is put together again.     *)
LEMMA UnitsOfTimespec ==
  ASSUME NEW t \in Nat
  PROVE  T!Timespec(t) \in Timespecs /\ T!Units(T!Timespec(t)) = t
<1>1. SECTONSEC \in Nat \ {0}
  BY ClockBounds DEF T!Bounds
<1> DEFINE q == t \div SECTONSEC
           r == t % SECTONSEC
<1>2. q \in Nat /\ r \in 0 .. SECTONSEC - 1 /\ q * SECTONSEC + r = t
  BY <1>1, DivisionFacts, Zenon
<1>3. T!Timespec(t) = [tv_sec |-> q, tv_nsec |-> r]
  BY DEF T!Timespec
<1> HIDE DEF q, r
<1> QED BY <1>2, <1>3 DEF T!Units, Timespecs

(* The borrow is right: the difference is a timespec, and it is the time   *)
(* that remains.                                                           *)
LEMMA DifferenceIsRest ==
  ASSUME when \in Timespecs, NEW now_ \in Timespecs, T!Later(now_)
  PROVE  /\ T!Difference(now_) \in Timespecs
         /\ T!Units(now_) + T!Units(T!Difference(now_)) = T!Units(when)
<1>1. SECTONSEC \in Nat \ {0}
  BY ClockBounds DEF T!Bounds
<1> DEFINE s == when.tv_sec
           n == when.tv_nsec
           u == now_.tv_sec
           m == now_.tv_nsec
<1>2. s \in Nat /\ u \in Nat /\ n \in 0 .. SECTONSEC - 1 /\ m \in 0 .. SECTONSEC - 1
  BY DEF Timespecs
<1>3. s > u \/ (s = u /\ n > m)
  BY DEF T!Later
<1> HIDE DEF s, n, u, m
<1>4. /\ u * SECTONSEC + (s - u) * SECTONSEC = s * SECTONSEC
      /\ (s - u - 1) * SECTONSEC = (s - u) * SECTONSEC - SECTONSEC
      /\ u * SECTONSEC \in Nat /\ s * SECTONSEC \in Nat /\ (s - u) * SECTONSEC \in Int
  <2>1. u * SECTONSEC + (s - u) * SECTONSEC = s * SECTONSEC
    BY <1>1, <1>2, SMTT(30)
  <2>2. (s - u - 1) * SECTONSEC = (s - u) * SECTONSEC - SECTONSEC
    BY <1>1, <1>2, SMTT(30)
  <2>3. u * SECTONSEC \in Nat /\ s * SECTONSEC \in Nat /\ (s - u) * SECTONSEC \in Int
    BY <1>1, <1>2, SMTT(30)
  <2> QED BY <2>1, <2>2, <2>3
<1>0. T!Units(now_) = u * SECTONSEC + m /\ T!Units(when) = s * SECTONSEC + n
  BY DEF T!Units, s, n, u, m
<1>5. CASE n >= m
  <2>1. T!Difference(now_) = [tv_sec |-> s - u, tv_nsec |-> n - m]
    BY <1>5, Zenon DEF T!Difference, s, n, u, m
  <2>2. s - u \in Nat /\ n - m \in 0 .. SECTONSEC - 1
    BY <1>1, <1>2, <1>3, <1>5
  <2>3. u * SECTONSEC + m + ((s - u) * SECTONSEC + (n - m)) = s * SECTONSEC + n
    BY <1>1, <1>2, <1>4
  <2> QED BY <1>0, <2>1, <2>2, <2>3 DEF T!Units, Timespecs
<1>6. CASE ~(n >= m)
  <2>1. T!Difference(now_) = [tv_sec |-> s - u - 1, tv_nsec |-> SECTONSEC - m + n]
    BY <1>6, Zenon DEF T!Difference, s, n, u, m
  <2>2. s - u - 1 \in Nat /\ SECTONSEC - m + n \in 0 .. SECTONSEC - 1
    BY <1>1, <1>2, <1>3, <1>6
  <2>3. u * SECTONSEC + m + ((s - u - 1) * SECTONSEC + (SECTONSEC - m + n))
          = s * SECTONSEC + n
    BY <1>1, <1>2, <1>4
  <2> QED BY <1>0, <2>1, <2>2, <2>3 DEF T!Units, Timespecs
<1> QED BY <1>5, <1>6

-----------------------------------------------------------------------------
(* What is true from one step of timeout() and its helper to the next: the *)
(* time that is still to be waited reaches at least to when, and the       *)
(* helper lives only after the one call that made it.                      *)

Timed ==
  /\ clock \in Nat /\ wake \in Nat /\ when \in Timespecs /\ to_wait \in Timespecs
  /\ ran \subseteq [thread : {"main", "helper"}, time : Nat]
  /\ helper = "starts" => clock + T!Units(to_wait) >= T!Units(when)
  /\ helper = "sleeps" => wake >= T!Units(when)
  /\ helper \in {"lock", "unlock", "returned"} => clock >= T!Units(when)

OneCall ==
  /\ helper # "none" => tmain \in {"unlock", "exit", "exited"}
  /\ tmain \in {"lock", "condition", "timeout", "func"} => ran = {}
  /\ helper \in {"starts", "sleeps", "lock"} => ran = {}

TimeInv == T!Inv /\ Timed /\ OneCall

LEMMA UnitsAreNat == ASSUME NEW ts \in Timespecs PROVE T!Units(ts) \in Nat
<1>1. SECTONSEC \in Nat /\ ts.tv_sec \in Nat /\ ts.tv_nsec \in Nat
  BY ClockBounds DEF T!Bounds, Timespecs
<1>2. ts.tv_sec * SECTONSEC \in Nat
  BY <1>1
<1> QED BY <1>1, <1>2 DEF T!Units

LEMMA TimeInvInit == T!Init => TimeInv
<1> SUFFICES ASSUME T!Init PROVE TimeInv
  OBVIOUS
<1>1. SECTONSEC \in Nat \ {0}
  BY ClockBounds DEF T!Bounds
<1>2. T!Timespec(0) \in Timespecs
  BY UnitsOfTimespec
<1>3. to_wait.tv_sec \in Nat /\ to_wait.tv_nsec \in 0 .. SECTONSEC - 1
  BY <1>2 DEF T!Init, Timespecs
<1> QED
  BY <1>1, <1>2, <1>3
  DEF T!Init, TimeInv, Timed, OneCall, T!Inv, T!TypeOK, T!Mutex, T!NeverEarly

LEMMA TimeInvStep == TimeInv /\ [T!Next]_timevars => TimeInv'
<1> SUFFICES ASSUME TimeInv, [T!Next]_timevars PROVE TimeInv'
  OBVIOUS
<1>b. SECTONSEC \in Nat \ {0} /\ Delay \in Nat
  BY ClockBounds DEF T!Bounds
<1>u. T!Units(when) \in Nat /\ T!Units(to_wait) \in Nat
  BY UnitsAreNat DEF TimeInv, Timed
<1>v. UNCHANGED <<when, to_wait>> =>
        UNCHANGED <<T!Units(when), T!Units(to_wait)>>
  BY DEF T!Units
<1>w. UNCHANGED <<when, ran>> => T!NeverEarly'
  BY DEF TimeInv, T!Inv, T!NeverEarly, T!Units
<1> USE DEF TimeInv, Timed, OneCall, T!Inv, T!TypeOK, T!Mutex, T!Main, T!Helper
<1>1. CASE T!Tick
  BY <1>1, <1>u, <1>v, <1>w DEF T!Tick
<1>2. CASE T!Begin
  <2>1. depth = 0 /\ depth' = 1 /\ owner = "free" /\ owner' = "main"
    BY <1>2 DEF T!Begin, T!Lock
  <2>2. /\ tmain = "lock" /\ tmain' = "condition"
        /\ UNCHANGED <<helper, clock, when, to_wait, wake, ran>>
    BY <1>2 DEF T!Begin
  <2> QED BY <2>1, <2>2, <1>u, <1>v, <1>w
<1>3. CASE T!Condition
  <2>1. CASE tmain' = "unlock"
    BY <1>3, <2>1, <1>u, <1>v, <1>w DEF T!Condition
  <2>2. CASE tmain' = "timeout"
    (* when is set once, before the helper is there and retry has run. *)
    <3>1. clock + Delay * SECTONSEC \in Nat
      BY <1>b, SMTT(30)
    <3>2. T!Timespec(clock + Delay * SECTONSEC) \in Timespecs
      BY <3>1, UnitsOfTimespec
    <3>3. /\ tmain = "condition" /\ when' \in Timespecs /\ helper = "none"
          /\ UNCHANGED <<helper, owner, depth, clock, to_wait, wake, ran>>
      BY <1>3, <2>2, <3>2 DEF T!Condition
    <3>4. T!NeverEarly'
      BY <3>3 DEF T!NeverEarly
    <3> QED BY <2>2, <3>3, <3>4
  <2> QED BY <1>3, <2>1, <2>2 DEF T!Condition
<1>4. CASE T!CallTimeout
  <2> DEFINE n == T!Timespec(clock)
  <2>1. CASE tmain' = "func"
    BY <1>4, <2>1, <1>u, <1>v, <1>w DEF T!CallTimeout
  <2>2. CASE tmain' = "unlock"
    (* The helper is given what remains at this moment. *)
    <3>1. /\ tmain = "timeout" /\ helper' = "starts" /\ T!Later(n)
          /\ to_wait' = T!Difference(n)
          /\ UNCHANGED <<owner, depth, clock, when, wake, ran>>
      BY <1>4, <2>2 DEF T!CallTimeout
    <3>2. n \in Timespecs /\ T!Units(n) = clock
      BY UnitsOfTimespec
    <3> HIDE DEF n
    <3>3. to_wait' \in Timespecs /\ clock + T!Units(to_wait)' = T!Units(when)
      BY <3>1, <3>2, DifferenceIsRest DEF T!Units
    <3>4. T!Units(when)' = T!Units(when)
      BY <3>1 DEF T!Units
    <3>5. to_wait'.tv_sec \in Nat /\ to_wait'.tv_nsec \in 0 .. SECTONSEC - 1
      BY <3>3 DEF Timespecs
    <3> QED BY <2>2, <3>1, <3>3, <3>4, <3>5, <1>u, <1>w
  <2> QED BY <1>4, <2>1, <2>2 DEF T!CallTimeout
<1>5. CASE T!Func
  <2>1. depth = 1 /\ depth' = 2 /\ owner = "main" /\ owner' = "main"
    BY <1>5 DEF T!Func, T!Lock
  <2>2. /\ tmain = "func" /\ tmain' = "unlock_retry" /\ helper = "none"
        /\ ran' = {[thread |-> "main", time |-> clock]}
        /\ UNCHANGED <<helper, clock, when, to_wait, wake>>
    BY <1>5 DEF T!Func
  <2>3. T!NeverEarly'
    BY <2>2 DEF T!NeverEarly
  <2> QED BY <2>1, <2>2, <2>3, <1>u, <1>v
<1>6. CASE T!FuncReturns
  <2>1. depth' = 1 /\ owner = "main" /\ owner' = "main"
    BY <1>6 DEF T!FuncReturns, T!Unlock
  <2>2. /\ tmain = "unlock_retry" /\ tmain' = "unlock"
        /\ UNCHANGED <<helper, clock, when, to_wait, wake, ran>>
    BY <1>6 DEF T!FuncReturns
  <2> QED BY <2>1, <2>2, <1>u, <1>v, <1>w
<1>7. CASE T!MainUnlock
  BY <1>7, <1>u, <1>v, <1>w DEF T!MainUnlock, T!Unlock
<1>8. CASE T!Exit
  BY <1>8, <1>u, <1>v, <1>w DEF T!Exit
<1>9. CASE T!Nanosleep
  <2>1. CASE helper = "starts"
    <3>1. /\ helper' = "sleeps" /\ wake' = clock + T!Units(to_wait)
          /\ UNCHANGED <<tmain, owner, depth, clock, when, to_wait, ran>>
      BY <1>9, <2>1 DEF T!Nanosleep
    <3> QED BY <2>1, <3>1, <1>u, <1>v, <1>w
  <2>2. CASE helper = "sleeps"
    <3>1. /\ helper' = "lock" /\ clock >= wake
          /\ UNCHANGED <<tmain, owner, depth, clock, when, to_wait, ran, wake>>
      BY <1>9, <2>2 DEF T!Nanosleep
    <3> QED BY <2>2, <3>1, <1>u, <1>v, <1>w
  <2> QED BY <1>9, <2>1, <2>2 DEF T!Nanosleep
<1>10. CASE T!Retry
  <2>1. CASE helper = "lock"
    <3>1. /\ helper' = "unlock" /\ ran' = {[thread |-> "helper", time |-> clock]}
          /\ UNCHANGED <<tmain, clock, when, to_wait, wake>>
      BY <1>10, <2>1 DEF T!Retry
    <3>2. owner = "free" /\ owner' = "helper" /\ depth' = 1
      BY <1>10, <2>1 DEF T!Retry, T!Lock
    <3>3. T!NeverEarly'
      BY <2>1, <3>1, <1>u, <1>v DEF T!NeverEarly
    <3> QED BY <2>1, <3>1, <3>2, <3>3, <1>u, <1>v
  <2>2. CASE helper = "unlock"
    <3>1. /\ helper' = "returned" /\ UNCHANGED <<tmain, clock, when, to_wait, wake, ran>>
      BY <1>10, <2>2 DEF T!Retry
    <3>2. owner' = "free" /\ depth' = 0
      BY <1>10, <2>2 DEF T!Retry, T!Unlock
    <3> QED BY <2>2, <3>1, <3>2, <1>u, <1>v, <1>w
  <2> QED BY <1>10, <2>1, <2>2 DEF T!Retry
<1>11. CASE UNCHANGED timevars
  BY <1>11, <1>u, <1>v, <1>w DEF timevars
<1> QED
  BY <1>1, <1>2, <1>3, <1>4, <1>5, <1>6, <1>7, <1>8, <1>9, <1>10, <1>11
  DEF T!Next, T!MainStep

-----------------------------------------------------------------------------
(* 8.16.c: whoever still counts looked at the clock before end, or can     *)
(* miss what is left of end's second.                                      *)

NiceInv ==
  /\ N!Inv
  /\ ~started => running = {} /\ (\A p \in N!Procs : lag[p] = 0 /\ printed[p] = -1)
  /\ \A p \in running : now - lag[p] < end \/ MaxLag > N!Window

LEMMA NiceBounds ==
  /\ SECTONSEC \in Nat \ {0} /\ Delay \in Nat \ {0} /\ MaxLag \in Nat
  /\ MaxClock \in Nat /\ MaxClock >= SECTONSEC
  BY ClockBounds DEF N!Bounds

LEMMA NiceInvInit == N!Init => NiceInv
<1> SUFFICES ASSUME N!Init PROVE NiceInv
  OBVIOUS
<1>1. \A p \in N!Procs : lag[p] = 0 /\ printed[p] = -1
  BY DEF N!Init
<1>2. now \in 0 .. MaxClock /\ end \in Nat /\ running = {}
  BY NiceBounds DEF N!Init
<1>4. started \in BOOLEAN
  BY Zenon DEF N!Init
<1>3. lag \in [N!Procs -> 0 .. MaxLag] /\ printed \in [N!Procs -> -1 .. MaxClock]
  BY NiceBounds DEF N!Init
<1> QED BY <1>1, <1>2, <1>3, <1>4 DEF NiceInv, N!Inv, N!TypeOK

(* A time that checktime does not take for one behind end, although it is, *)
(* is in a later second.                                                   *)
LEMMA Unrecognised ==
  ASSUME now \in Nat, end \in Nat, now >= end,
         ~(N!Second(now) >= N!Second(end) /\ N!Fraction(now) >= N!Fraction(end))
  PROVE  now >= end + N!Window
<1> DEFINE q1 == now \div SECTONSEC
           r1 == now % SECTONSEC
           q2 == end \div SECTONSEC
           r2 == end % SECTONSEC
<1>1. SECTONSEC \in Nat \ {0}
  BY NiceBounds
<1>2. q1 \in Nat /\ r1 \in 0 .. SECTONSEC - 1 /\ q1 * SECTONSEC + r1 = now
  BY <1>1, DivisionFacts, Zenon
<1>3. q2 \in Nat /\ r2 \in 0 .. SECTONSEC - 1 /\ q2 * SECTONSEC + r2 = end
  BY <1>1, DivisionFacts, Zenon
<1>4. ~(q1 >= q2 /\ r1 >= r2) /\ N!Window = SECTONSEC - r2
  BY DEF N!Second, N!Fraction, N!Window
<1> HIDE DEF q1, r1, q2, r2
<1>5. q1 >= q2
  <2> SUFFICES ASSUME q1 + 1 <= q2 PROVE FALSE
    BY <1>2, <1>3
  <2>1. (q1 + 1) * SECTONSEC <= q2 * SECTONSEC
    BY <1>1, <1>2, <1>3, SMTT(30)
  <2>2. (q1 + 1) * SECTONSEC = q1 * SECTONSEC + SECTONSEC
    BY <1>1, <1>2, SMTT(30)
  <2> QED BY <1>1, <1>2, <1>3, <2>1, <2>2, SMTT(30)
<1>6. q1 >= q2 + 1
  <2> SUFFICES ASSUME q1 = q2 PROVE FALSE
    BY <1>2, <1>3, <1>5
  <2>1. r1 < r2 /\ q1 * SECTONSEC \in Nat
    BY <1>1, <1>2, <1>3, <1>4
  <2> QED BY <1>2, <1>3, <2>1
<1>7. q1 * SECTONSEC >= (q2 + 1) * SECTONSEC
  BY <1>1, <1>2, <1>3, <1>6, SMTT(30)
<1>8. (q2 + 1) * SECTONSEC = q2 * SECTONSEC + SECTONSEC
  BY <1>1, <1>3, SMTT(30)
<1> QED BY <1>1, <1>2, <1>3, <1>4, <1>7, <1>8, SMTT(30)

(* Nobody who prints at a recognised time prints early.                    *)
LEMMA Recognised ==
  ASSUME now \in Nat, end \in Nat,
         N!Second(now) >= N!Second(end), N!Fraction(now) >= N!Fraction(end)
  PROVE  now >= end
<1> DEFINE q1 == now \div SECTONSEC
           r1 == now % SECTONSEC
           q2 == end \div SECTONSEC
           r2 == end % SECTONSEC
<1>1. SECTONSEC \in Nat \ {0}
  BY NiceBounds
<1>2. q1 \in Nat /\ r1 \in 0 .. SECTONSEC - 1 /\ q1 * SECTONSEC + r1 = now
  BY <1>1, DivisionFacts, Zenon
<1>3. q2 \in Nat /\ r2 \in 0 .. SECTONSEC - 1 /\ q2 * SECTONSEC + r2 = end
  BY <1>1, DivisionFacts, Zenon
<1>4. q1 >= q2 /\ r1 >= r2
  BY DEF N!Second, N!Fraction
<1> HIDE DEF q1, r1, q2, r2
<1>5. q1 * SECTONSEC >= q2 * SECTONSEC
  BY <1>1, <1>2, <1>3, <1>4, SMTT(30)
<1> QED BY <1>1, <1>2, <1>3, <1>4, <1>5, SMTT(30)

LEMMA NiceInvStep == NiceInv /\ [N!Next]_nicevars => NiceInv'
<1> SUFFICES ASSUME NiceInv, [N!Next]_nicevars PROVE NiceInv'
  OBVIOUS
<1> USE NiceBounds DEF NiceInv, N!Inv, N!TypeOK
<1>w. N!Window \in Int /\ (end' = end => N!Window' = N!Window)
  BY SMTT(30) DEF N!Window, N!Fraction
<1>1. CASE N!Fork
  (* Everybody starts before end, since Delay is not 0. *)
  <2>1. /\ ~started /\ started' /\ end' = now + Delay * SECTONSEC
        /\ running' \in {{}, {"parent"}, N!Procs} /\ UNCHANGED <<now, lag, printed>>
    BY <1>1 DEF N!Fork
  <2>2. Delay * SECTONSEC \in Nat /\ Delay * SECTONSEC > 0
    BY SMTT(30)
  <2>3. end' \in Nat /\ now < end'
    BY <2>1, <2>2
  <2>4. running' \subseteq N!Procs /\ started' \in BOOLEAN
    BY <2>1 DEF N!Procs
  <2>5. \A p \in N!Procs : lag'[p] = 0 /\ printed'[p] = -1
    BY <2>1
  <2> QED BY <2>1, <2>3, <2>4, <2>5
<1>2. ASSUME NEW p \in N!Procs, N!Checktime(p) PROVE NiceInv'
  <2>1. /\ p \in running /\ lag' = [lag EXCEPT ![p] = 0] /\ UNCHANGED <<started, now, end>>
    BY <1>2 DEF N!Checktime
  <2>2. now - lag[p] < end \/ MaxLag > N!Window
    BY <2>1
  <2>3. CASE N!Second(now) >= N!Second(end) /\ N!Fraction(now) >= N!Fraction(end)
    <3>1. running' = running \ {p} /\ printed' = [printed EXCEPT ![p] = now]
      BY <1>2, <2>3 DEF N!Checktime
    <3>2. now >= end
      BY <2>3, Recognised
    <3> QED BY <1>w, <2>1, <3>1, <3>2
  <2>4. CASE ~(N!Second(now) >= N!Second(end) /\ N!Fraction(now) >= N!Fraction(end))
    <3>1. UNCHANGED <<running, printed>>
      BY <1>2, <2>4, Zenon DEF N!Checktime
    <3>2. now < end \/ MaxLag > N!Window
      <4> SUFFICES ASSUME now >= end PROVE MaxLag > N!Window
        OBVIOUS
      <4>1. now >= end + N!Window
        BY <2>4, Unrecognised
      <4> QED BY <1>w, <2>1, <2>2, <4>1
    <3> QED BY <1>w, <2>1, <3>1, <3>2
  <2> QED BY <2>3, <2>4
<1>3. CASE N!Tick
  <2>1. /\ started /\ now < MaxClock /\ now' = now + 1
        /\ \A p \in running : lag[p] < MaxLag
        /\ lag' = [p \in N!Procs |-> IF p \in running THEN lag[p] + 1 ELSE lag[p]]
        /\ UNCHANGED <<started, end, running, printed>>
    BY <1>3 DEF N!Tick
  <2>2. lag' \in [N!Procs -> 0 .. MaxLag]
    BY <2>1
  <2>3. \A p \in running : now' - lag'[p] = now - lag[p]
    BY <2>1
  <2> QED BY <1>w, <2>1, <2>2, <2>3
<1>4. CASE UNCHANGED nicevars
  BY <1>4, <1>w DEF nicevars
<1> QED BY <1>1, <1>2, <1>3, <1>4 DEF N!Next, N!Check

-----------------------------------------------------------------------------
(* 11.6.8.c: the barrier keeps merge() alone, for every number of threads  *)
(* and of numbers.                                                         *)

LEMMA Sizes == NTHR \in Nat \ {0} /\ TNUM \in Nat \ {0}
BY SortBounds DEF B!Bounds

USE Sizes DEF B!Threads, B!Workers, B!Main

LEMMA SameCardinality == ASSUME NEW S PROVE B!Cardinality(S) = Cardinality(S)
BY DEF B!Cardinality, Cardinality

(* A thread that finds NTHR others at the barrier is the last: all of the  *)
(* NTHR + 1 threads are there.                                             *)
LEMMA LastArrives ==
  ASSUME NEW t \in B!Threads, t \notin B!Waiting,
         Cardinality(B!Waiting) + 1 = B!BarrierCount
  PROVE  B!Waiting \union {t} = B!Threads
<1>1. IsFiniteSet(B!Threads) /\ Cardinality(B!Threads) = NTHR + 1
  <2>1. IsFiniteSet(0 .. NTHR)
    BY FS_Interval
  <2>2. Cardinality(0 .. NTHR) = NTHR + 1
    BY FS_Interval
  <2> QED BY <2>1, <2>2
<1>2. B!Waiting \subseteq B!Threads
  BY DEF B!Waiting
<1>3. IsFiniteSet(B!Waiting)
  BY <1>1, <1>2, FS_Subset
<1> DEFINE W == B!Waiting \union {t}
<1>4. IsFiniteSet(W) /\ Cardinality(W) = Cardinality(B!Waiting) + 1
  BY <1>3, FS_AddElement
<1>5. W \subseteq B!Threads
  BY <1>2
<1>6. Cardinality(W) = Cardinality(B!Threads)
  BY <1>1, <1>4 DEF B!BarrierCount
<1>7. W = B!Threads
  BY <1>1, <1>5, <1>6, FS_Subset
<1> QED BY <1>7

(* NUMNUM is a natural number, though a product of two constants.          *)
LEMMA NUMNUMNat == B!NUMNUM \in Nat
BY DEF B!NUMNUM

(* The part of the invariant that does not look at the numbers.            *)
BarrierPart == B!TypeOK /\ B!MergeAlone /\ B!Located

LEMMA BarrierPartInit == B!Init => BarrierPart
<1> SUFFICES ASSUME B!Init PROVE BarrierPart
  OBVIOUS
<1> USE DEF B!Init
<1>1. B!TypeOK
  BY NUMNUMNat DEF B!TypeOK
<1>2. B!MergeAlone
  BY DEF B!MergeAlone
<1>3. B!Located
  BY DEF B!Located
<1> QED BY <1>1, <1>2, <1>3 DEF BarrierPart

LEMMA BarrierPartStep ==
  BarrierPart /\ [B!Next]_sortvars => BarrierPart'
<1> SUFFICES ASSUME BarrierPart, [B!Next]_sortvars PROVE BarrierPart'
  OBVIOUS
<1> USE DEF BarrierPart
<1>1. CASE B!Create
  BY <1>1 DEF B!Create, B!TypeOK, B!MergeAlone, B!Located
<1>2. CASE B!AllCreated
  BY <1>2 DEF B!AllCreated, B!TypeOK, B!MergeAlone, B!Located
<1>3. ASSUME NEW w \in B!Workers, B!Heapsort(w) PROVE BarrierPart'
  <2>1. B!TypeOK'
    <3> PICK g \in [B!Places(w) -> Numbers] :
               nums' = [k \in B!Index |-> IF k \in B!Places(w) THEN g[k] ELSE nums[k]]
      BY <1>3 DEF B!Heapsort
    <3>1. nums' \in [B!Index -> Numbers]
      BY DEF B!TypeOK
    <3> QED BY <1>3, <3>1 DEF B!Heapsort, B!TypeOK
  <2>2. B!MergeAlone' /\ B!Located'
    BY <1>3 DEF B!Heapsort, B!TypeOK, B!MergeAlone, B!Located
  <2> QED BY <2>1, <2>2
<1>4. ASSUME NEW t \in B!Threads, B!BarrierWait(t) PROVE BarrierPart'
  <2>1. CASE Cardinality(B!Waiting) + 1 = B!BarrierCount
    (* The last one arrives: all pass together. *)
    <3>1. t \notin B!Waiting
      BY <1>4 DEF B!BarrierWait, B!Waiting
    <3>2. B!Waiting \union {t} = B!Threads
      BY <2>1, <3>1, LastArrives
    <3>3. pc' = [u \in B!Threads |-> IF u = B!Main THEN "merge" ELSE "returned"]
      BY <1>4, <2>1, <3>2, SameCardinality DEF B!BarrierWait
    <3>4. UNCHANGED <<i, nums, snums, idx, sidx>>
      BY <1>4 DEF B!BarrierWait
    <3>5. B!TypeOK'
      BY <3>3, <3>4 DEF B!TypeOK
    <3>6. B!MergeAlone' /\ B!Located'
      BY <3>3 DEF B!MergeAlone, B!Located
    <3> QED BY <3>5, <3>6
  <2>2. CASE Cardinality(B!Waiting) + 1 # B!BarrierCount
    <3>1. pc[t] = "barrier" /\ pc' = [pc EXCEPT ![t] = "waiting"]
      BY <1>4, <2>2, SameCardinality DEF B!BarrierWait
    <3>2. UNCHANGED <<i, nums, snums, idx, sidx>>
      BY <1>4 DEF B!BarrierWait
    <3>3. B!TypeOK'
      BY <3>1, <3>2 DEF B!TypeOK
    <3>4. B!MergeAlone' /\ B!Located'
      BY <3>1 DEF B!TypeOK, B!MergeAlone, B!Located
    <3> QED BY <3>3, <3>4
  <2> QED BY <2>1, <2>2
<1>5. CASE B!Merge
  <2>1. sidx' \in 0 .. B!NUMNUM
    BY <1>5, NUMNUMNat DEF B!Merge, B!TypeOK
  <2> QED BY <1>5, <2>1 DEF B!Merge, B!TypeOK, B!MergeAlone, B!Located
<1>6. CASE B!Exit
  BY <1>6 DEF B!Exit, B!TypeOK, B!MergeAlone, B!Located
<1>7. CASE UNCHANGED sortvars
  BY <1>7 DEF sortvars, B!TypeOK, B!MergeAlone, B!Located
<1> QED
  BY <1>1, <1>2, <1>3, <1>4, <1>5, <1>6, <1>7 DEF B!Next, B!MainStep, B!thr_fn

-----------------------------------------------------------------------------
(* merge() of 11.6.8.c gives the sorted array: each of its rounds takes    *)
(* the smallest number that is left.                                       *)

(* The ranges lie one behind the other and cover the array.                *)
LEMMA RangeBounds ==
  ASSUME NEW w \in B!Workers
  PROVE  /\ w * TNUM \in Nat /\ (w + 1) * TNUM = w * TNUM + TNUM
         /\ (w + 1) * TNUM <= B!NUMNUM
BY DEF B!NUMNUM

LEMMA RangesInOrder ==
  ASSUME NEW u \in B!Workers, NEW w \in B!Workers, u < w
  PROVE  (u + 1) * TNUM <= w * TNUM
OBVIOUS

LEMMA RangesDisjoint ==
  ASSUME NEW u \in B!Workers, NEW w \in B!Workers, NEW k \in B!Places(u), k \in B!Places(w)
  PROVE  u = w
<1>1. u < w => FALSE
  BY RangesInOrder, RangeBounds, NUMNUMNat DEF B!Places, B!Index
<1>2. w < u => FALSE
  BY RangesInOrder, RangeBounds, NUMNUMNat DEF B!Places, B!Index
<1> QED BY <1>1, <1>2

LEMMA RangesCover ==
  ASSUME NEW k \in B!Index
  PROVE  \E w \in B!Workers : k \in B!Places(w)
<1> DEFINE w == k \div TNUM
<1>1. k \in Nat /\ k < NTHR * TNUM
  BY NUMNUMNat DEF B!Index, B!NUMNUM
<1>2. w \in Nat /\ w * TNUM <= k /\ k < (w + 1) * TNUM
  BY <1>1
<1>3. w < NTHR
  <2> SUFFICES ASSUME NTHR <= w PROVE FALSE
    BY <1>2
  <2>1. NTHR * TNUM <= w * TNUM
    BY <1>2
  <2> QED BY <1>1, <1>2, <2>1
<1> HIDE DEF w
<1> QED BY <1>2, <1>3 DEF B!Places

(* Counting after one more place.                                          *)
LEMMA CountGrows ==
  ASSUME NEW S, IsFiniteSet(S), NEW x, x \notin S, NEW R, R = S \union {x}, NEW f, NEW g, NEW v,
         \A k \in S : g[k] = f[k]
  PROVE  B!Count(g, R, v) = B!Count(f, S, v) + (IF g[x] = v THEN 1 ELSE 0)
<1> DEFINE F == {k \in S : f[k] = v}
           G == {k \in R : g[k] = v}
<1>1. IsFiniteSet(F) /\ Cardinality(F) \in Nat
  BY FS_Subset, FS_CardinalityType
<1>2. B!Count(f, S, v) = Cardinality(F) /\ B!Count(g, R, v) = Cardinality(G)
  BY SameCardinality DEF B!Count
<1>3. CASE g[x] = v
  <2>1. G = F \union {x} /\ x \notin F
    BY <1>3
  <2> HIDE DEF F, G
  <2>2. Cardinality(F \union {x}) = Cardinality(F) + 1
    BY <1>1, <2>1, FS_AddElement
  <2> QED BY <1>2, <1>3, <2>1, <2>2
<1>4. CASE g[x] # v
  <2>1. G = F
    BY <1>4
  <2> HIDE DEF F, G
  <2> QED BY <1>1, <1>2, <1>4, <2>1
<1> QED BY <1>3, <1>4

LEMMA CountNothing == ASSUME NEW f, NEW v PROVE B!Count(f, {}, v) = 0
<1>1. {k \in {} : f[k] = v} = {}
  OBVIOUS
<1> QED BY <1>1, FS_EmptySet, SameCardinality DEF B!Count

LEMMA MergedFinite == IsFiniteSet(B!Index) /\ B!Merged \subseteq B!Index /\ IsFiniteSet(B!Merged)
<1>1. IsFiniteSet(B!Index)
  BY NUMNUMNat, FS_Interval DEF B!Index
<1>2. B!Merged \subseteq B!Index
  BY DEF B!Merged
<1> QED BY <1>1, <1>2, FS_Subset

SortPart == B!RangesSorted /\ B!InRange /\ B!Merging /\ B!Sorted

LEMMA SortInit == B!Init => SortPart
<1> SUFFICES ASSUME B!Init PROVE SortPart
  OBVIOUS
<1> USE DEF B!Init
<1>1. B!RangesSorted /\ B!Sorted
  BY DEF B!RangesSorted, B!Sorted
<1>2. B!Merged = {}
  <2> SUFFICES ASSUME NEW k \in B!Index, NEW w \in B!Workers, k \in B!Places(w), k < idx[w]
               PROVE  FALSE
    BY DEF B!Merged
  <2>1. idx[w] = w * TNUM /\ w * TNUM <= k
    BY DEF B!Places
  <2> QED BY <2>1, RangeBounds, NUMNUMNat DEF B!Index
<1>3. 0 .. sidx - 1 = {}
  OBVIOUS
<1>4. idx \in [B!Workers -> 0 .. B!NUMNUM] /\ B!InRange
  <2>1. ASSUME NEW w \in B!Workers
        PROVE  /\ idx[w] \in 0 .. B!NUMNUM
               /\ w * TNUM <= idx[w] /\ idx[w] <= (w + 1) * TNUM
    <3>1. idx[w] = w * TNUM
      OBVIOUS
    <3> QED BY <3>1, RangeBounds, NUMNUMNat
  <2>2. idx = [w \in B!Workers |-> idx[w]]
    OBVIOUS
  <2> QED BY <2>1, <2>2 DEF B!InRange
<1>5. snums \in [B!Index -> Nat] /\ sidx = 0
  OBVIOUS
<1>6. B!Cardinality(B!Merged) = 0
  BY <1>2, FS_EmptySet, SameCardinality
<1>7. \A v \in Numbers : B!Count(snums, 0 .. sidx - 1, v) = B!Count(nums, B!Merged, v)
  BY <1>2, <1>3, CountNothing
<1>8. B!Merging
  BY <1>3, <1>4, <1>5, <1>6, <1>7 DEF B!Merging, B!Ascending
<1> QED BY <1>1, <1>4, <1>8 DEF SortPart

(* What merge() has done stands as long as no statement of it runs.        *)
LEMMA MergingStays ==
  ASSUME B!Merging, B!InRange, UNCHANGED <<nums, snums, idx, sidx>>,
         pc'[B!Main] \notin {"merge", "exited"} => sidx = 0
  PROVE  B!Merging' /\ B!InRange'
<1>1. B!Merged' = B!Merged
  BY DEF B!Merged
<1>2. B!Ascending(snums, 0 .. sidx - 1)' /\ B!Cardinality(B!Merged)' = sidx'
  BY <1>1, SameCardinality DEF B!Merging, B!Ascending, B!Cardinality
<1>3. ASSUME NEW v \in Numbers
      PROVE  B!Count(snums, 0 .. sidx - 1, v)' = B!Count(nums, B!Merged, v)'
  <2>1. B!Count(snums', 0 .. sidx' - 1, v) = B!Count(nums', B!Merged', v)
    BY <1>1 DEF B!Merging
  <2> QED BY <2>1 DEF B!Count, B!Cardinality
<1>4. B!InRange'
  BY DEF B!InRange
<1> QED BY <1>1, <1>2, <1>3, <1>4 DEF B!Merging

LEMMA SortedStays ==
  ASSUME UNCHANGED <<nums, snums, idx, sidx>>, sidx = B!NUMNUM,
         B!IsSortOf(snums, nums, B!Index)
  PROVE  B!Sorted'
<1>1. B!Ascending(snums, B!Index)'
  BY DEF B!IsSortOf, B!Ascending, B!Index, B!NUMNUM
<1>2. ASSUME NEW v \in Numbers
      PROVE  B!Count(snums, B!Index, v)' = B!Count(nums, B!Index, v)'
  <2>1. B!Count(snums', B!Index, v) = B!Count(nums', B!Index, v)
    BY DEF B!IsSortOf
  <2> QED BY <2>1 DEF B!Count, B!Cardinality, B!Index, B!NUMNUM
<1> QED BY <1>1, <1>2 DEF B!Sorted, B!IsSortOf, B!NUMNUM

LEMMA HeapsortSorts ==
  ASSUME BarrierPart, SortPart, NEW w \in B!Workers, B!Heapsort(w)
  PROVE  SortPart'
<1> USE DEF BarrierPart, SortPart
<1>1. pc[B!Main] \notin {"merge", "exited"} /\ pc'[B!Main] = pc[B!Main] /\ w # B!Main
      /\ sidx = 0 /\ UNCHANGED <<snums, idx, sidx>>
  BY DEF B!Heapsort, B!MergeAlone, B!Merging, B!TypeOK
<1>2. PICK g \in [B!Places(w) -> Numbers] :
        /\ B!IsSortOf(g, nums, B!Places(w))
        /\ nums' = [k \in B!Index |-> IF k \in B!Places(w) THEN g[k] ELSE nums[k]]
  BY DEF B!Heapsort
<1>3. B!RangesSorted'
  <2> SUFFICES ASSUME NEW u \in B!Workers, pc'[u] \in {"barrier", "waiting", "returned"},
                      NEW j \in B!Places(u), NEW k \in B!Places(u), j < k
               PROVE  nums'[j] <= nums'[k]
    BY DEF B!RangesSorted, B!Ascending
  <2>1. j \in B!Index /\ k \in B!Index
    BY DEF B!Places
  <2>2. CASE u = w
    BY <1>2, <2>1, <2>2 DEF B!IsSortOf, B!Ascending
  <2>3. CASE u # w
    <3>1. j \notin B!Places(w) /\ k \notin B!Places(w)
      BY <2>3, RangesDisjoint
    <3>2. nums'[j] = nums[j] /\ nums'[k] = nums[k]
      BY <1>2, <2>1, <3>1
    <3>3. pc'[u] = pc[u]
      BY <2>3 DEF B!Heapsort, B!TypeOK
    <3> QED BY <3>2, <3>3 DEF B!RangesSorted, B!Ascending
  <2> QED BY <2>2, <2>3
<1>4. B!Merging'
  <2>1. B!Merged = {}
    <3>1. Cardinality(B!Merged) = 0
      BY <1>1, SameCardinality DEF B!Merging
    <3> QED BY <3>1, MergedFinite, FS_EmptySet
  <2>2. B!Merged' = {} /\ B!Cardinality(B!Merged)' = 0 /\ (0 .. sidx - 1)' = {}
    <3>1. B!Merged' = B!Merged
      BY <1>1 DEF B!Merged
    <3>2. Cardinality(B!Merged') = 0
      BY <2>1, <3>1, FS_EmptySet
    <3> QED BY <1>1, <2>1, <3>1, <3>2 DEF B!Cardinality, Cardinality
  <2>3. ASSUME NEW v \in Numbers
        PROVE  B!Count(snums, 0 .. sidx - 1, v)' = B!Count(nums, B!Merged, v)'
    BY <2>2, CountNothing DEF B!Count
  <2> QED BY <1>1, <2>2, <2>3 DEF B!Merging, B!Ascending
<1>5. B!Sorted' /\ B!InRange'
  BY <1>1 DEF B!Sorted, B!InRange
<1> QED BY <1>3, <1>4, <1>5

LEMMA MergeSorts ==
  ASSUME BarrierPart, SortPart, B!Merge
  PROVE  SortPart'
<1> USE DEF BarrierPart, SortPart
<1> PICK w \in B!Workers : /\ B!IsMinidx(w)
                           /\ snums' = [snums EXCEPT ![sidx] = nums[idx[w]]]
                           /\ idx' = [idx EXCEPT ![w] = @ + 1]
  BY DEF B!Merge
<1> DEFINE x == idx[w]
<1>1. pc[B!Main] = "merge" /\ sidx < B!NUMNUM /\ sidx' = sidx + 1 /\ UNCHANGED <<pc, i, nums>>
  BY DEF B!Merge
<1>t. /\ sidx \in Nat /\ sidx \in B!Index /\ B!NUMNUM \in Nat
      /\ nums \in [B!Index -> Numbers] /\ Numbers \subseteq Nat
      /\ snums \in [B!Index -> Nat] /\ idx \in [B!Workers -> 0 .. B!NUMNUM]
  <2>1. B!NUMNUM \in Nat /\ sidx \in 0 .. B!NUMNUM /\ nums \in [B!Index -> Numbers]
    BY NUMNUMNat DEF B!TypeOK
  <2>2. sidx \in Nat /\ sidx \in B!Index
    BY <1>1, <2>1 DEF B!Index
  <2>3. Numbers \subseteq Nat
    BY SortBounds DEF B!Bounds
  <2>4. snums \in [B!Index -> Nat] /\ idx \in [B!Workers -> 0 .. B!NUMNUM]
    BY DEF B!Merging
  <2> QED BY <2>1, <2>2, <2>3, <2>4
<1>2. x \in B!Places(w) /\ x \in B!Index /\ x \in Nat /\ x < (w + 1) * TNUM
  BY <1>t, RangeBounds DEF B!IsMinidx, B!Unmerged, B!InRange, B!Places, B!Index
<1>3. x \notin B!Merged
  BY <1>2, RangesDisjoint DEF B!Merged
<1>4. B!Merged' = B!Merged \union {x}
  <2>1. ASSUME NEW k \in B!Merged' PROVE k \in B!Merged \union {x}
    <3> PICK u \in B!Workers : k \in B!Places(u) /\ k < idx'[u] /\ k \in B!Index
      BY DEF B!Merged
    <3>1. CASE u # w
      BY <3>1, <1>t DEF B!Merged
    <3>2. CASE u = w
      BY <3>2, <1>t DEF B!Merged, B!Index
    <3> QED BY <3>1, <3>2
  <2>2. ASSUME NEW k \in B!Merged PROVE k \in B!Merged'
    <3> PICK u \in B!Workers : k \in B!Places(u) /\ k < idx[u] /\ k \in B!Index
      BY DEF B!Merged
    <3>1. k < idx'[u]
      BY <1>t DEF B!Index
    <3> QED BY <3>1 DEF B!Merged
  <2>3. x \in B!Merged'
    <3>1. x < idx'[w]
      BY <1>t, <1>2
    <3> QED BY <1>2, <3>1 DEF B!Merged
  <2> QED BY <2>1, <2>2, <2>3
<1>5. 0 .. sidx' - 1 = (0 .. sidx - 1) \union {sidx} /\ sidx \notin 0 .. sidx - 1
  BY <1>1, <1>t
<1>6. snums'[sidx] = nums[x] /\ \A j \in 0 .. sidx - 1 : snums'[j] = snums[j]
  BY <1>t DEF B!Index
<1>r. B!RangesSorted'
  BY <1>1 DEF B!RangesSorted, B!Ascending
(* The number of this round is the smallest that is left.                  *)
<1>s. ASSUME NEW k \in B!Index, k \notin B!Merged PROVE nums[x] <= nums[k]
  <2> PICK u \in B!Workers : k \in B!Places(u)
    BY RangesCover
  <2>1. idx[u] <= k
    BY <1>s, <1>t DEF B!Merged, B!Index
  <2>2. idx[u] \in B!Places(u) /\ u \in B!Unmerged
    <3>1. u * TNUM <= idx[u] /\ k < (u + 1) * TNUM /\ k \in B!Index
      BY DEF B!InRange, B!Places
    <3>2. idx[u] \in B!Index
      BY <1>t, <2>1 DEF B!Index
    <3>3. idx[u] < (u + 1) * TNUM
      <4> DEFINE high == (u + 1) * TNUM
      <4>1. high \in Nat /\ k < high
        BY <3>1, RangeBounds
      <4> HIDE DEF high
      <4>2. idx[u] < high
        BY <1>t, <2>1, <4>1 DEF B!Index
      <4> QED BY <4>2 DEF high
    <3> QED BY <3>1, <3>2, <3>3 DEF B!Places, B!Unmerged
  <2>3. nums[x] <= nums[idx[u]]
    BY <2>2 DEF B!IsMinidx
  <2>4. nums[idx[u]] <= nums[k]
    <3>1. pc[u] = "returned"
      BY <1>1 DEF B!MergeAlone
    <3>2. idx[u] < k => nums[idx[u]] <= nums[k]
      BY <2>2, <3>1 DEF B!RangesSorted, B!Ascending
    <3>3. idx[u] = k => nums[idx[u]] <= nums[k]
      <4>1. nums[k] \in Nat
        BY <1>t
      <4> QED BY <4>1
    <3> QED BY <1>t, <2>1, <3>2, <3>3 DEF B!Index
  <2>5. nums[x] \in Nat /\ nums[idx[u]] \in Nat /\ nums[k] \in Nat
    BY <1>t, <1>2, <2>2 DEF B!Places
  <2> QED BY <2>3, <2>4, <2>5
<1>7. snums' \in [B!Index -> Nat] /\ idx' \in [B!Workers -> 0 .. B!NUMNUM]
      /\ B!InRange'
  <2>1. snums' \in [B!Index -> Nat]
    BY <1>t, <1>2
  <2>2. x + 1 <= (w + 1) * TNUM /\ w * TNUM <= x + 1 /\ x + 1 \in 0 .. B!NUMNUM
    BY <1>t, <1>2, RangeBounds DEF B!InRange
  <2>3. idx' \in [B!Workers -> 0 .. B!NUMNUM]
    BY <1>t, <2>2
  <2>4. ASSUME NEW u \in B!Workers PROVE u * TNUM <= idx'[u] /\ idx'[u] <= (u + 1) * TNUM
    <3>1. CASE u = w
      BY <1>t, <2>2, <3>1
    <3>2. CASE u # w
      BY <1>t, <3>2 DEF B!InRange
    <3> QED BY <3>1, <3>2
  <2> QED BY <2>1, <2>3, <2>4 DEF B!InRange
<1>8. B!Ascending(snums', 0 .. sidx' - 1)
  <2> SUFFICES ASSUME NEW j \in 0 .. sidx, NEW k \in 0 .. sidx, j < k
               PROVE  snums'[j] <= snums'[k]
    BY <1>1, <1>t DEF B!Ascending
  <2>1. CASE k # sidx
    <3>1. j \in 0 .. sidx - 1 /\ k \in 0 .. sidx - 1
      BY <1>t, <2>1
    <3>2. snums[j] <= snums[k]
      BY <3>1 DEF B!Merging, B!Ascending
    <3> QED BY <1>6, <3>1, <3>2
  <2>2. CASE k = sidx
    <3>1. j \in 0 .. sidx - 1
      BY <1>t, <2>2
    <3>2. snums[j] <= nums[x]
      BY <1>2, <1>3, <3>1 DEF B!Merging
    <3> QED BY <1>6, <2>2, <3>1, <3>2
  <2> QED BY <2>1, <2>2
<1>9. \A j \in 0 .. sidx' - 1, k \in B!Index \ B!Merged' : snums'[j] <= nums'[k]
  <2> SUFFICES ASSUME NEW j \in 0 .. sidx' - 1, NEW k \in B!Index, k \notin B!Merged'
               PROVE  snums'[j] <= nums[k]
    BY <1>1
  <2>1. k \notin B!Merged
    BY <1>4
  <2>2. CASE j = sidx
    BY <1>6, <1>s, <2>1, <2>2
  <2>3. CASE j # sidx
    BY <1>5, <1>6, <2>1, <2>3 DEF B!Merging
  <2> QED BY <2>2, <2>3
<1>10. Cardinality(B!Merged') = sidx'
  BY <1>1, <1>3, <1>4, MergedFinite, FS_AddElement, SameCardinality DEF B!Merging
<1>11. ASSUME NEW v \in Numbers
       PROVE  B!Count(snums', 0 .. sidx' - 1, v) = B!Count(nums', B!Merged', v)
  <2>1. IsFiniteSet(0 .. sidx - 1)
    BY <1>t, FS_Interval
  <2>2. B!Count(snums', 0 .. sidx' - 1, v)
          = B!Count(snums, 0 .. sidx - 1, v) + (IF nums[x] = v THEN 1 ELSE 0)
    <3> DEFINE S == 0 .. sidx - 1
               U == 0 .. sidx' - 1
               g == snums'
    <3>1. IsFiniteSet(S) /\ sidx \notin S /\ U = S \union {sidx}
          /\ \A j \in S : g[j] = snums[j]
      BY <1>5, <1>6, <2>1
    <3> HIDE DEF S, U, g
    <3>2. B!Count(g, U, v) = B!Count(snums, S, v) + (IF g[sidx] = v THEN 1 ELSE 0)
      BY <3>1, CountGrows
    <3> QED BY <3>2, <1>6 DEF S, U, g
  <2>3. B!Count(nums', B!Merged', v)
          = B!Count(nums, B!Merged, v) + (IF nums[x] = v THEN 1 ELSE 0)
    BY <1>1, <1>3, <1>4, MergedFinite, CountGrows
  <2> QED BY <2>2, <2>3 DEF B!Merging
<1>12. B!Merging'
  BY <1>1, <1>7, <1>8, <1>9, <1>10, <1>11, SameCardinality
  DEF B!Merging, B!Count, B!Ascending, B!Cardinality
<1>13. B!Sorted'
  BY <1>1 DEF B!Sorted
<1> QED BY <1>r, <1>7, <1>12, <1>13

LEMMA ExitSorted ==
  ASSUME BarrierPart, SortPart, B!Exit
  PROVE  SortPart'
<1> USE DEF BarrierPart, SortPart
<1>1. sidx = B!NUMNUM /\ pc' = [pc EXCEPT ![B!Main] = "exited"]
      /\ UNCHANGED <<nums, snums, idx, sidx>>
  BY DEF B!Exit
<1>2. 0 .. sidx - 1 = B!Index
  BY <1>1 DEF B!Index
<1>3. B!Merged = B!Index
  <2>1. Cardinality(B!Index) = B!NUMNUM
    BY NUMNUMNat, FS_Interval DEF B!Index
  <2>2. Cardinality(B!Merged) = B!NUMNUM
    BY <1>1, SameCardinality DEF B!Merging
  <2> QED BY <2>1, <2>2, MergedFinite, FS_Subset
<1>4. B!IsSortOf(snums, nums, B!Index)
  BY <1>2, <1>3 DEF B!Merging, B!IsSortOf
<1>5. B!Sorted'
  BY <1>1, <1>4, SortedStays
<1>6. B!RangesSorted'
  BY <1>1 DEF B!RangesSorted, B!TypeOK, B!Ascending
<1>7. B!Merging' /\ B!InRange'
  <2>1. pc'[B!Main] = "exited"
    BY <1>1 DEF B!TypeOK
  <2> QED BY <1>1, <2>1, MergingStays
<1> QED BY <1>5, <1>6, <1>7

(* The other steps leave the numbers as they are.                          *)
LEMMA OthersSort ==
  ASSUME BarrierPart, SortPart,
         B!Create \/ B!AllCreated \/ (\E t \in B!Threads : B!BarrierWait(t))
         \/ UNCHANGED sortvars
  PROVE  SortPart'
<1> USE DEF BarrierPart, SortPart
<1>1. UNCHANGED <<nums, snums, idx, sidx>>
  BY DEF B!Create, B!AllCreated, B!BarrierWait, sortvars
<1> DEFINE Behind == {"barrier", "waiting", "returned"}
           Calm == /\ pc'[B!Main] \notin {"merge", "exited"} => sidx = 0
                   /\ \A w \in B!Workers : pc'[w] \in Behind => pc[w] \in Behind
                   /\ pc'[B!Main] = "exited" => pc[B!Main] = "exited"
<1>t. /\ pc \in [B!Threads -> {"unborn", "create", "sort", "barrier", "waiting", "merge",
                              "returned", "exited", "failed"}]
      /\ i \in B!Threads
      /\ pc[B!Main] \notin {"merge", "exited"} => sidx = 0
  BY DEF B!TypeOK, B!Merging
<1>2. ASSUME B!Create PROVE Calm
  <2>1. pc[B!Main] = "create" /\ i # B!Main
    BY <1>2 DEF B!Create
  <2>2. CASE pc' = [pc EXCEPT ![i] = "sort"]
    BY <1>t, <2>1, <2>2
  <2>3. CASE pc' = [pc EXCEPT ![B!Main] = "failed"]
    BY <1>t, <2>1, <2>3
  <2> QED BY <1>2, <2>2, <2>3 DEF B!Create
<1>3. ASSUME B!AllCreated PROVE Calm
  BY <1>3, <1>t DEF B!AllCreated
<1>4. ASSUME NEW t \in B!Threads, B!BarrierWait(t) PROVE Calm
  <2>1. pc[t] = "barrier" /\ t \notin B!Waiting
    BY <1>4 DEF B!BarrierWait, B!Waiting
  <2>2. CASE pc' = [pc EXCEPT ![t] = "waiting"]
    BY <1>t, <2>1, <2>2
  <2>3. CASE pc' = [u \in B!Threads |->
                      IF u \notin B!Waiting \union {t} THEN pc[u]
                      ELSE IF u = B!Main THEN "merge" ELSE "returned"]
    <3>1. \A w \in B!Workers : pc'[w] \in Behind => pc[w] \in Behind
      BY <1>t, <2>1, <2>3 DEF B!Waiting
    <3>2. pc'[B!Main] \in {pc[B!Main], "merge"}
      BY <1>t, <2>3
    <3> QED BY <1>t, <3>1, <3>2
  <2> QED BY <1>4, <2>2, <2>3 DEF B!BarrierWait
<1>5. ASSUME UNCHANGED sortvars PROVE Calm
  BY <1>5, <1>t DEF sortvars
<1>6. Calm
  BY <1>2, <1>3, <1>4, <1>5
<1>7. B!RangesSorted'
  BY <1>1, <1>6 DEF B!RangesSorted, B!Ascending
<1>8. B!Merging' /\ B!InRange'
  BY <1>1, <1>6, MergingStays
<1>9. B!Sorted'
  <2> SUFFICES ASSUME pc[B!Main] = "exited" PROVE B!Sorted'
    BY <1>6 DEF B!Sorted
  <2> QED BY <1>1, SortedStays DEF B!Sorted
<1> QED BY <1>7, <1>8, <1>9

LEMMA BarrierInit == B!Init => BarrierInv
BY BarrierPartInit, SortInit DEF BarrierPart, SortPart, BarrierInv, B!Inv

LEMMA BarrierStep == BarrierInv /\ [B!Next]_sortvars => BarrierInv'
<1> SUFFICES ASSUME BarrierPart, SortPart, [B!Next]_sortvars PROVE (BarrierPart /\ SortPart)'
  BY DEF BarrierPart, SortPart, BarrierInv, B!Inv
<1>1. BarrierPart'
  BY BarrierPartStep
<1>2. SortPart'
  BY HeapsortSorts, MergeSorts, ExitSorted, OthersSort DEF B!Next, B!MainStep, B!thr_fn
<1> QED BY <1>1, <1>2

HIDE Sizes DEF B!Threads, B!Workers, B!Main

-----------------------------------------------------------------------------
(* The six programs together: a step of one leaves the others as they are. *)

MCInv == QuitInv /\ TimeInv /\ ForkInv /\ DaemonInv /\ NiceInv /\ BarrierInv

LEMMA MCInvInit == MCInit => MCInv
  BY InitQuitInv, TimeInvInit, ForkInvInit, DaemonInvInit, NiceInvInit, BarrierInit
  DEF MCInit, MCInv

LEMMA StepOfEach ==
  [MCNext]_mcvars =>
    /\ [Next]_vars /\ [T!Next]_timevars /\ [A!Next]_forkvars
    /\ [D!Next]_daemonvars /\ [N!Next]_nicevars /\ [B!Next]_sortvars
  BY Zenon
  DEF MCNext, QuitStep, RetryStep, ForkStep, DaemonStep, NiceStep, SortStep, mcvars

LEMMA MCInvStep == MCInv /\ [MCNext]_mcvars => MCInv'
  BY StepOfEach, QuitInvStep, TimeInvStep, ForkInvStep, DaemonInvStep, NiceInvStep,
     BarrierStep
  DEF MCInv

(* In 12.8 no wakeup is lost, and main's reset of quitflag without the     *)
(* mutex meets no other write.                                             *)
THEOREM NoLostWakeup == MCSpec => []Inv
<1>1. MCInv => Inv
  BY DEF MCInv, QuitInv
<1> QED BY <1>1, MCInvInit, MCInvStep, PTL DEF MCSpec

(* In 12.8 main leaves its loop only after the thread has accepted a       *)
(* SIGQUIT.                                                                *)
THEOREM LeavesByQuitOnly == MCSpec => []EndsOnlyByQuit
<1>1. MCInv => EndsOnlyByQuit
  BY DEF MCInv, QuitInv
<1> QED BY <1>1, MCInvInit, MCInvStep, PTL DEF MCSpec

(* In 12.4 retry is neither early nor run twice, whatever the clock does   *)
(* between two statements; in 12.9 no lock survives fork; in 13.6 no       *)
(* signal kills a daemon that waits; in 8.16 nobody stops counting early,  *)
(* and who goes on too long was away while checktime could see it.         *)
THEOREM ThreadsSafe == MCSpec => []ThreadsInv
<1>1. MCInv => ThreadsInv
  BY ForkInvSafe DEF MCInv, TimeInv, DaemonInv, NiceInv, ThreadsInv
<1> QED BY <1>1, MCInvInit, MCInvStep, PTL DEF MCSpec

(* In 11.6.8 nobody passes the barrier early, and while merge() reads nums *)
(* no thread is going to write it; merge() puts each number into snums     *)
(* once, the smallest that is left first.                                  *)
THEOREM BarrierHolds == MCSpec => []BarrierInv
<1>1. MCInv => BarrierInv
  BY DEF MCInv
<1> QED BY <1>1, MCInvInit, MCInvStep, PTL DEF MCSpec

(* From the barrier on nums is what merge() found.                         *)
THEOREM NumsStay == MCSpec => [][pc[B!Main] = "merge" => nums' = nums]_sortvars
<1>1. MCInv /\ [MCNext]_mcvars => [pc[B!Main] = "merge" => nums' = nums]_sortvars
  <2> SUFFICES ASSUME BarrierInv, [B!Next]_sortvars
               PROVE  [pc[B!Main] = "merge" => nums' = nums]_sortvars
    BY StepOfEach DEF MCInv
  <2> QED
    BY DEF BarrierInv, B!Inv, B!MergeAlone, B!Next, B!MainStep, B!thr_fn, B!Create,
           B!AllCreated, B!Heapsort, B!BarrierWait, B!Merge, B!Exit, sortvars
<1> QED BY <1>1, MCInvInit, MCInvStep, PTL DEF MCSpec

(* When 11.6.8 exits, snums holds the numbers of nums in ascending order.  *)
THEOREM SortIsRight ==
  MCSpec => [](pc[B!Main] = "exited" => B!IsSortOf(snums, nums, B!Index))
<1>1. MCInv => (pc[B!Main] = "exited" => B!IsSortOf(snums, nums, B!Index))
  BY DEF MCInv, BarrierInv, B!Inv, B!Sorted
<1> QED BY <1>1, MCInvInit, MCInvStep, PTL DEF MCSpec
=============================================================================
