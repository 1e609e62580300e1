----------------------------- MODULE BarrierSort -----------------------------
(***************************************************************************)
(* chapter_11/11.6.8.c: NTHR threads sort one range of nums each and meet  *)
(* main at a barrier; behind it main merges the ranges into snums.         *)
(***************************************************************************)
EXTENDS Integers, FiniteSets

CONSTANTS
  NTHR,      \* number of worker threads (8 in the code)
  TNUM,      \* numbers per thread (1000000 in the code)
  Numbers    \* what random() returns; below LONG_MAX, where long has 64 bits
Bounds == NTHR \in Nat \ {0} /\ TNUM \in Nat \ {0} /\ Numbers \subseteq Nat /\ Numbers # {}

VARIABLES
  pc,        \* pc[t]: the next statement of thread t
  i,         \* main's loop variable: threads created so far
  nums,      \* the numbers to sort
  snums,     \* the result
  idx,       \* merge: idx[w] is the next unmerged number of range w
  sidx       \* merge: the next place in snums

vars == <<pc, i, nums, snums, idx, sidx>>

NUMNUM == NTHR * TNUM
Index == 0 .. NUMNUM - 1
Workers == 0 .. NTHR - 1
Main == NTHR
Threads == 0 .. NTHR
Places(w) == {k \in Index : w * TNUM <= k /\ k < (w + 1) * TNUM}

Init ==
  /\ pc = [t \in Threads |-> IF t = Main THEN "create" ELSE "unborn"]
  /\ i = 0
  /\ nums \in [Index -> Numbers]
  /\ snums = [k \in Index |-> 0]
  /\ idx = [w \in Workers |-> w * TNUM]
  /\ sidx = 0

Alive == pc[Main] \notin {"exited", "failed"}

-----------------------------------------------------------------------------
(* main creates the threads; a failure is err_exit. *)
Create ==
  /\ pc[Main] = "create" /\ i < NTHR
  /\ \/ pc' = [pc EXCEPT ![i] = "sort"] /\ i' = i + 1
     \/ pc' = [pc EXCEPT ![Main] = "failed"] /\ UNCHANGED i
  /\ UNCHANGED <<nums, snums, idx, sidx>>

AllCreated ==
  /\ pc[Main] = "create" /\ i = NTHR
  /\ pc' = [pc EXCEPT ![Main] = "barrier"]
  /\ UNCHANGED <<i, nums, snums, idx, sidx>>

-----------------------------------------------------------------------------
(* heapsort(), which is the library's: range w in ascending order. *)

Ascending(f, S) == \A j, k \in S : j < k => f[j] <= f[k]
Count(f, S, v) == Cardinality({k \in S : f[k] = v})
IsSortOf(g, f, S) ==
  Ascending(g, S) /\ \A v \in Numbers : Count(g, S, v) = Count(f, S, v)

Heapsort(w) ==
  /\ Alive /\ pc[w] = "sort"
  /\ \E g \in [Places(w) -> Numbers] :
       /\ IsSortOf(g, nums, Places(w))
       /\ nums' = [k \in Index |-> IF k \in Places(w) THEN g[k] ELSE nums[k]]
  /\ pc' = [pc EXCEPT ![w] = "barrier"]
  /\ UNCHANGED <<i, snums, idx, sidx>>

-----------------------------------------------------------------------------
(* pthread_barrier_wait: the thread that completes the count releases all  *)
(* that wait.                                                              *)

\* Mutant: main is not counted.
WorkersOnly == NTHR

BarrierCount == NTHR + 1
Waiting == {t \in Threads : pc[t] = "waiting"}

BarrierWait(t) ==
  /\ Alive /\ pc[t] = "barrier"
  /\ pc' = IF Cardinality(Waiting) + 1 = BarrierCount
             THEN [u \in Threads |->
                     IF u \notin Waiting \union {t} THEN pc[u]
                     ELSE IF u = Main THEN "merge" ELSE "returned"]
             ELSE [pc EXCEPT ![t] = "waiting"]
  /\ UNCHANGED <<i, nums, snums, idx, sidx>>

-----------------------------------------------------------------------------
(* merge(): one round of the outer loop.  The inner loop leaves in minidx  *)
(* the first range that is not exhausted and has the smallest number.      *)

Unmerged == {w \in Workers : idx[w] < (w + 1) * TNUM}
IsMinidx(w) ==
  /\ w \in Unmerged
  /\ \A u \in Unmerged :
       /\ nums[idx[w]] <= nums[idx[u]]
       /\ u < w => nums[idx[w]] # nums[idx[u]]

\* Mutant: idx[minidx]++ is forgotten.
MergeSame ==
  /\ pc[Main] = "merge" /\ sidx < NUMNUM
  /\ \E w \in Workers :
       IsMinidx(w) /\ snums' = [snums EXCEPT ![sidx] = nums[idx[w]]]
  /\ sidx' = sidx + 1
  /\ UNCHANGED <<pc, i, nums, idx>>

Merge ==
  /\ pc[Main] = "merge" /\ sidx < NUMNUM
  /\ \E w \in Workers :
       /\ IsMinidx(w)
       /\ snums' = [snums EXCEPT ![sidx] = nums[idx[w]]]
       /\ idx' = [idx EXCEPT ![w] = @ + 1]
  /\ sidx' = sidx + 1
  /\ UNCHANGED <<pc, i, nums>>

(* The time is printed and exit(0) ends the process with all its threads. *)
Exit ==
  /\ pc[Main] = "merge" /\ sidx = NUMNUM
  /\ pc' = [pc EXCEPT ![Main] = "exited"]
  /\ UNCHANGED <<i, nums, snums, idx, sidx>>

-----------------------------------------------------------------------------
MainStep == Create \/ AllCreated \/ BarrierWait(Main) \/ Merge \/ Exit
thr_fn(w) == Heapsort(w) \/ BarrierWait(w)

Next == MainStep \/ \E w \in Workers : thr_fn(w)

Spec == Init /\ [][Next]_vars

(* Every thread runs. *)
FairSpec == Spec /\ WF_vars(MainStep) /\ \A w \in Workers : WF_vars(thr_fn(w))

-----------------------------------------------------------------------------
TypeOK ==
  /\ pc \in [Threads -> {"unborn", "create", "sort", "barrier", "waiting", "merge",
                         "returned", "exited", "failed"}]
  /\ i \in 0 .. NTHR /\ sidx \in 0 .. NUMNUM
  /\ nums \in [Index -> Numbers]

(* merge() reads nums without a lock: by then every thread has sorted its  *)
(* range and none is going to write it (line 108).                         *)
MergeAlone ==
  pc[Main] \in {"merge", "exited"} => \A w \in Workers : pc[w] = "returned"

(* Who is where: nobody passes the barrier before main does.               *)
Located ==
  /\ pc[Main] \in {"create", "barrier", "waiting", "merge", "exited", "failed"}
  /\ \A w \in Workers :
       /\ pc[w] \in {"unborn", "sort", "barrier", "waiting", "returned"}
       /\ pc[w] = "returned" => pc[Main] \in {"merge", "exited"}

(* A thread comes to the barrier with its range in order.                  *)
RangesSorted ==
  \A w \in Workers :
    pc[w] \in {"barrier", "waiting", "returned"} => Ascending(nums, Places(w))

InRange == \A w \in Workers : w * TNUM <= idx[w] /\ idx[w] <= (w + 1) * TNUM

(* What merge() has taken: sidx places, and from them the sidx numbers of  *)
(* snums, in ascending order and none greater than one it has yet to take. *)
Merged == {k \in Index : \E w \in Workers : k \in Places(w) /\ k < idx[w]}

Merging ==
  /\ snums \in [Index -> Nat] /\ idx \in [Workers -> 0 .. NUMNUM]
  /\ pc[Main] \notin {"merge", "exited"} => sidx = 0
  /\ Cardinality(Merged) = sidx
  /\ Ascending(snums, 0 .. sidx - 1)
  /\ \A j \in 0 .. sidx - 1, k \in Index \ Merged : snums[j] <= nums[k]
  /\ \A v \in Numbers : Count(snums, 0 .. sidx - 1, v) = Count(nums, Merged, v)

(* At the end snums is nums in ascending order.                            *)
Sorted == pc[Main] = "exited" => sidx = NUMNUM /\ IsSortOf(snums, nums, Index)

(* The barrier keeps main out of nums until the last thread has sorted,    *)
(* and holds every thread until main has come; merge() then leaves all     *)
(* numbers in snums, in order.                                             *)
Inv ==
  TypeOK /\ MergeAlone /\ Located /\ RangesSorted /\ InRange /\ Merging /\ Sorted

(* Unless a thread cannot be created the program ends, and snums is then   *)
(* nums (which the threads only permuted) in ascending order.              *)
EndsSorted ==
  <>(\/ pc[Main] = "failed"
     \/ pc[Main] = "exited" /\ IsSortOf(snums, nums, Index))
=============================================================================
