------------------------------- MODULE AtFork -------------------------------
(***************************************************************************)
(* chapter_12/12.9.c: handlers around fork that lock both mutexes before   *)
(* it and unlock them, in the parent and in the child's copy, after it.    *)
(***************************************************************************)
VARIABLES
  at,      \* at[p]: next statement of process p
  locked   \* locked[p]: the mutexes that are locked in the memory of p

vars == <<at, locked>>

Procs == {"parent", "child"}

Init ==
  /\ at = [p \in Procs |-> IF p = "parent" THEN "atfork" ELSE "none"]
  /\ locked = [p \in Procs |-> {}]

Step(p, here, there) == at[p] = here /\ at' = [at EXCEPT ![p] = there]

(* pthread_atfork, pthread_create: what fails ends the process.            *)
Setup ==
  /\ \/ Step("parent", "atfork", "create") \/ Step("parent", "atfork", "exited")
     \/ Step("parent", "create", "lock1") \/ Step("parent", "create", "exited")
  /\ UNCHANGED locked

(* The handler prepare, in fork. *)
prepare ==
  \/ /\ Step("parent", "lock1", "lock2") /\ 1 \notin locked["parent"]
     /\ locked' = [locked EXCEPT !["parent"] = @ \union {1}]
  \/ /\ Step("parent", "lock2", "fork") /\ 2 \notin locked["parent"]
     /\ locked' = [locked EXCEPT !["parent"] = @ \union {2}]

(* The child has a copy of the parent's memory; a fork that fails runs the *)
(* handler parent too.                                                     *)
Fork ==
  \/ /\ at["parent"] = "fork"
     /\ at' = [p \in Procs |-> "unlock1"]
     /\ locked' = [locked EXCEPT !["child"] = locked["parent"]]
  \/ Step("parent", "fork", "unlock1") /\ UNCHANGED locked

(* The handlers parent and child. *)
unlock(p) ==
  \/ /\ Step(p, "unlock1", "unlock2")
     /\ locked' = [locked EXCEPT ![p] = @ \ {1}]
  \/ /\ Step(p, "unlock2", "returned")
     /\ locked' = [locked EXCEPT ![p] = @ \ {2}]

Exit(p) == Step(p, "returned", "exited") /\ UNCHANGED locked

Next ==
  \/ Setup \/ prepare \/ Fork
  \/ \E p \in Procs : unlock(p) \/ Exit(p)

Spec == Init /\ [][Next]_vars

-----------------------------------------------------------------------------
(* Whenever a process has returned from fork, no lock of its memory is     *)
(* held, and fork copies only locks that the forking thread holds.         *)
Inv ==
  /\ \A p \in Procs : at[p] \in {"returned", "exited"} => locked[p] = {}
  /\ at["parent"] = "fork" => locked["parent"] = {1, 2}
=============================================================================
