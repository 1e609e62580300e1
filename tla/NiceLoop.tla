------------------------------ MODULE NiceLoop ------------------------------
(***************************************************************************)
(* chapter_08/8.16.c: parent and child count for 10 seconds, the child     *)
(* with a lower priority.  Each looks at the clock between two increments; *)
(* checktime compares the seconds and the microseconds of two times one by *)
(* one, so that in every second before the fraction of end is reached, a   *)
(* time behind end is not taken for one.                                   *)
(***************************************************************************)
EXTENDS Integers

CONSTANTS
  SECTONSEC,  \* units of the clock in a second, 1000000 in the code
  Delay,      \* seconds to count, 10 in the code
  MaxLag,     \* units from one look at the clock to the next, at most
  MaxClock    \* bound of the clock, in units

Bounds ==
  /\ SECTONSEC \in Nat \ {0} /\ Delay \in Nat \ {0} /\ MaxLag \in Nat
  /\ MaxClock \in Nat /\ MaxClock >= SECTONSEC

VARIABLES
  started,    \* the loops have begun, or one of their preparations failed
  now,        \* the clock
  end,
  running,    \* the processes in their loops
  lag,        \* units since each has looked at the clock
  printed     \* when each printed its count, or -1

vars == <<started, now, end, running, lag, printed>>

Procs == {"parent", "child"}

Init ==
  /\ started = FALSE /\ now \in 0 .. SECTONSEC - 1 /\ end = 0
  /\ running = {} /\ lag = [p \in Procs |-> 0] /\ printed = [p \in Procs |-> -1]

(* gettimeofday, and the fork, which may fail; nice may fail in the child. *)
Fork ==
  /\ ~started /\ started' = TRUE
  /\ end' = now + Delay * SECTONSEC
  /\ running' \in {{}, {"parent"}, Procs}
  /\ UNCHANGED <<now, lag, printed>>

Second(t) == t \div SECTONSEC
Fraction(t) == t % SECTONSEC

Checktime(p) ==
  /\ p \in running
  /\ lag' = [lag EXCEPT ![p] = 0]
  /\ IF Second(now) >= Second(end) /\ Fraction(now) >= Fraction(end)
       THEN running' = running \ {p} /\ printed' = [printed EXCEPT ![p] = now]
       ELSE UNCHANGED <<running, printed>>
  /\ UNCHANGED <<started, now, end>>

(* Time passes; no process is kept from the processor for too long.        *)
Tick ==
  /\ started /\ now < MaxClock /\ \A p \in running : lag[p] < MaxLag
  /\ now' = now + 1
  /\ lag' = [p \in Procs |-> IF p \in running THEN lag[p] + 1 ELSE lag[p]]
  /\ UNCHANGED <<started, end, running, printed>>

Check == \E p \in Procs : Checktime(p)

Next == Fork \/ Check \/ Tick

(* Time passes, and both processes get the processor. *)
Fairness == WF_vars(Fork) /\ WF_vars(Tick) /\ \A p \in Procs : WF_vars(Checktime(p))

-----------------------------------------------------------------------------
TypeOK ==
  /\ started \in BOOLEAN /\ now \in 0 .. MaxClock /\ end \in Nat
  /\ running \subseteq Procs /\ lag \in [Procs -> 0 .. MaxLag]
  /\ printed \in [Procs -> -1 .. MaxClock]

(* What is left of end's second, in which checktime recognises its time.   *)
Window == SECTONSEC - Fraction(end)

(* Nobody stops early; and a process that still counts when end is over    *)
(* for more than it may go without a look, has missed the window.          *)
Inv ==
  /\ TypeOK
  /\ \A p \in Procs : printed[p] >= 0 => printed[p] >= end
  /\ running # {} /\ now >= end + MaxLag => MaxLag > Window

(* Both stop counting, if none can miss the window. *)
NiceEnds == <>(started /\ (running = {} \/ MaxLag > Window))
=============================================================================
