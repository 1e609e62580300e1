-------------------------------- MODULE Turns --------------------------------
(***************************************************************************)
(* What the TELL/WAIT clients promise: two processes take turns at a shared *)
(* resource.  A turn is begun and ended by the process that is next, turns *)
(* never overlap, and turn number count is the business of one process     *)
(* only.                                                                   *)
(***************************************************************************)
EXTENDS Naturals

CONSTANTS
  First,   \* the process that takes turn 0
  Second,  \* the process that takes turn 1
  Limit    \* the number of turns

VARIABLES
  count,   \* completed turns
  busy     \* the process whose turn is in progress, or Nobody

vars == <<count, busy>>

Nobody == "nobody"
Owner(n) == IF n % 2 = 0 THEN First ELSE Second

Init == count = 0 /\ busy = Nobody

Begin(p) ==
  /\ busy = Nobody
  /\ count < Limit
  /\ p = Owner(count)
  /\ busy' = p
  /\ UNCHANGED count

End(p) ==
  /\ busy = p
  /\ count' = count + 1
  /\ busy' = Nobody

Next == \E p \in {First, Second} : Begin(p) \/ End(p)

Spec == Init /\ [][Next]_vars

(* With fairness the turns do not stop before the last one. *)
FairSpec == Spec /\ WF_vars(Next)
=============================================================================
