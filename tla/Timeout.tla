------------------------------- MODULE Timeout -------------------------------
(***************************************************************************)
(* chapter_12/12.4.c: timeout() calls a function at a given time, from a   *)
(* detached thread that sleeps until then, or at once when that time is    *)
(* past or the thread cannot be had.  main schedules retry for 10 seconds  *)
(* later while it holds the recursive mutex that retry takes, and exits.   *)
(***************************************************************************)
EXTENDS Integers

CONSTANTS
  SECTONSEC,   \* clock units in a second, 1000000000 in the code
  Delay,       \* seconds to the scheduled time, 10 in the code
  MaxClock     \* bound of the clock, in units

Bounds == SECTONSEC \in Nat \ {0} /\ Delay \in Nat /\ MaxClock \in Nat

VARIABLES
  main,      \* main's next statement, those of timeout and retry included
  helper,    \* timeout_helper: "none", "starts", "sleeps", "lock", "unlock", "returned"
  owner,     \* the thread that holds the mutex, or "free"
  depth,     \* how often it has locked it
  clock,     \* CLOCK_REALTIME
  when,      \* main's when
  to_wait,   \* tip->to_wait, a timespec
  wake,      \* when nanosleep returns
  ran        \* history: the times at which retry ran, and in which thread

vars == <<main, helper, owner, depth, clock, when, to_wait, wake, ran>>

Timespec(t) == [tv_sec |-> t \div SECTONSEC, tv_nsec |-> t % SECTONSEC]
Units(ts) == ts.tv_sec * SECTONSEC + ts.tv_nsec

Init ==
  /\ main = "lock" /\ helper = "none" /\ owner = "free" /\ depth = 0
  /\ clock \in 0 .. SECTONSEC - 1
  /\ when = Timespec(0) /\ to_wait = Timespec(0) /\ wake = 0 /\ ran = {}

Tick ==
  /\ main # "exited" /\ clock < MaxClock /\ clock' = clock + 1
  /\ UNCHANGED <<main, helper, owner, depth, when, to_wait, wake, ran>>

Main(here, there) == main = here /\ main' = there

\* Mutant: a mutex that is not recursive.
LockNormal(t) == owner = "free" /\ owner' = t /\ depth' = 1

(* pthread_mutex_lock and pthread_mutex_unlock by thread t. *)
Lock(t) ==
  /\ owner \in {"free", t}
  /\ owner' = t /\ depth' = depth + 1
Unlock ==
  /\ depth' = depth - 1
  /\ owner' = IF depth = 1 THEN "free" ELSE owner

-----------------------------------------------------------------------------
(* main tests condition, which nothing has set: either outcome. *)
Begin ==
  /\ Main("lock", "condition") /\ Lock("main")
  /\ UNCHANGED <<helper, clock, when, to_wait, wake, ran>>

Condition ==
  /\ \/ Main("condition", "timeout")
        /\ when' = Timespec(clock + Delay * SECTONSEC)
     \/ Main("condition", "unlock") /\ UNCHANGED when
  /\ UNCHANGED <<helper, owner, depth, clock, to_wait, wake, ran>>

\* Mutant: the borrow forgets how far the present second has gone.
DifferenceShort(now) ==
  IF when.tv_nsec >= now.tv_nsec
    THEN [tv_sec |-> when.tv_sec - now.tv_sec, tv_nsec |-> when.tv_nsec - now.tv_nsec]
    ELSE [tv_sec |-> when.tv_sec - now.tv_sec - 1, tv_nsec |-> when.tv_nsec]

(* to_wait for the time now: the difference, with a borrow. *)
Difference(now) ==
  IF when.tv_nsec >= now.tv_nsec
    THEN [tv_sec |-> when.tv_sec - now.tv_sec, tv_nsec |-> when.tv_nsec - now.tv_nsec]
    ELSE [tv_sec |-> when.tv_sec - now.tv_sec - 1,
          tv_nsec |-> SECTONSEC - now.tv_nsec + when.tv_nsec]

Later(now) ==
  \/ when.tv_sec > now.tv_sec
  \/ when.tv_sec = now.tv_sec /\ when.tv_nsec > now.tv_nsec

(* timeout: a thread, or the call of func if it is time or malloc or       *)
(* makethread fails.                                                       *)
CallTimeout ==
  LET now == Timespec(clock) IN
  /\ \/ /\ Later(now) /\ Main("timeout", "unlock")
        /\ helper' = "starts" /\ to_wait' = Difference(now)
     \/ Main("timeout", "func") /\ UNCHANGED <<helper, to_wait>>
  /\ UNCHANGED <<owner, depth, clock, when, wake, ran>>

(* retry, called by main. *)
Func ==
  /\ Main("func", "unlock_retry") /\ Lock("main")
  /\ ran' = ran \union {[thread |-> "main", time |-> clock]}
  /\ UNCHANGED <<helper, clock, when, to_wait, wake>>

FuncReturns ==
  /\ Main("unlock_retry", "unlock") /\ Unlock
  /\ UNCHANGED <<helper, clock, when, to_wait, wake, ran>>

MainUnlock ==
  /\ Main("unlock", "exit") /\ Unlock
  /\ UNCHANGED <<helper, clock, when, to_wait, wake, ran>>

(* exit ends the helper too. *)
Exit ==
  /\ Main("exit", "exited")
  /\ UNCHANGED <<helper, owner, depth, clock, when, to_wait, wake, ran>>

MainStep ==
  Begin \/ Condition \/ CallTimeout \/ Func \/ FuncReturns \/ MainUnlock \/ Exit

-----------------------------------------------------------------------------
(* timeout_helper: the sleep, and retry. *)
Helper(here, there) == main # "exited" /\ helper = here /\ helper' = there

Nanosleep ==
  /\ \/ Helper("starts", "sleeps") /\ wake' = clock + Units(to_wait)
     \/ Helper("sleeps", "lock") /\ clock >= wake /\ UNCHANGED wake
  /\ UNCHANGED <<main, owner, depth, clock, when, to_wait, ran>>

Retry ==
  /\ \/ /\ Helper("lock", "unlock") /\ Lock("helper")
        /\ ran' = ran \union {[thread |-> "helper", time |-> clock]}
     \/ Helper("unlock", "returned") /\ Unlock /\ UNCHANGED ran
  /\ UNCHANGED <<main, clock, when, to_wait, wake>>

Next == MainStep \/ Nanosleep \/ Retry \/ Tick

Spec == Init /\ [][Next]_vars

-----------------------------------------------------------------------------
TypeOK ==
  /\ main \in {"lock", "condition", "timeout", "func", "unlock_retry", "unlock",
               "exit", "exited"}
  /\ helper \in {"none", "starts", "sleeps", "lock", "unlock", "returned"}
  /\ owner \in {"free", "main", "helper"} /\ depth \in 0 .. 2
  /\ to_wait.tv_sec \in Nat /\ to_wait.tv_nsec \in 0 .. SECTONSEC - 1

(* Who holds the mutex, and how often, is told by the control points.      *)
Mutex ==
  /\ owner = "free" <=> depth = 0
  /\ owner = "main" <=> main \in {"condition", "timeout", "func", "unlock_retry", "unlock"}
  /\ main = "unlock_retry" <=> depth = 2
  /\ owner = "helper" <=> helper = "unlock"

(* The helper never runs retry early, however long the way from            *)
(* clock_gettime to nanosleep takes: so if main takes less than Delay      *)
(* seconds to its exit, retry never runs.  retry runs at most once.        *)
NeverEarly ==
  /\ \A r \in ran : r.thread = "helper" => r.time >= Units(when)
  /\ \A r, s \in ran : r = s

(* The state is well typed, the mutex excludes and retry is not early.     *)
Inv == TypeOK /\ Mutex /\ NeverEarly
=============================================================================
