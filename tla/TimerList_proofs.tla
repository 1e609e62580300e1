-------------------------- MODULE TimerList_proofs --------------------------
(***************************************************************************)
(* The timers of p5.c for any calls of settimeout: the list stays sorted   *)
(* in every interleaving with the handler, and unless a push is disturbed  *)
(* each timer runs at most once, not early, and late by lag at most.       *)
(***************************************************************************)
EXTENDS TimerList, TLAPS

USE DEF NULL

Labels ==
  {"call", "time", "head", "compare", "link", "sethead", "alarm", "walk",
   "insert", "insert2", "return", "pause", "crashed"}

(* main's arguments; no deadline wraps. *)
Asked ==
  /\ Len(seconds) \in Nat
  /\ seconds \in [Timers -> Nat]
  /\ \A k \in Timers : MaxLag + seconds[k] < UInt

(* Types that TypeOK leaves open, and where main and the clock can be. *)
Placed ==
  /\ pc \in Labels
  /\ hpc \in {"idle", "rearm"}
  /\ \A a \in alarm : a > clock /\ alarm = {a}
  /\ pc = "crashed" => hpc = "idle"
  /\ InPush => n \in Timers /\ seconds[n] > 0
  /\ pc \notin {"pause", "crashed"} => clock = lag
  /\ \A k \in Timers : ended_at[k] < UInt

(* Nothing leads to a node that is not linked yet. *)
Outside(k) == k > n \/ (k = n /\ pc \notin {"alarm", "return"})

Unlinked ==
  pc # "crashed" =>
    \A k \in Timers : Outside(k) =>
      /\ head # k /\ cur # k
      /\ \A j \in Timers : next[j] # k
      /\ pc \in {"call", "time", "head"} \/ k > n => next[k] = NULL

(* Where main stands in the list, even if the handler has removed nodes. *)
Walked ==
  /\ pc = "compare" => head = NULL \/ ended_at[cur] <= ended_at[head]
  /\ pc = "link" => head = NULL \/ ended_at[head] > ended_at[n]
  /\ pc \in {"walk", "insert", "insert2"} => ended_at[cur] <= ended_at[n]
  /\ pc = "insert" => next[cur] = NULL \/ ended_at[n] <= ended_at[next[cur]]

(* Unless a second passed inside a push: the alarm, pending or set, is the *)
(* first node's, and late by lag at most.                                  *)
OnTime ==
  ~slow =>
    /\ InPush => ended_at[n] = clock + seconds[n]
    /\ (InPush /\ pc # "time") => cur_time = clock
    /\ pending => hpc = "idle"
    /\ pending \/ hpc = "rearm" =>
         /\ head # NULL /\ alarm = {}
         /\ ended_at[head] <= clock /\ clock <= ended_at[head] + lag
    /\ \A a \in alarm :
         /\ head # NULL /\ ended_at[head] <= a
         /\ pc # "alarm" => a <= ended_at[head] + lag
    /\ pc = "link" => head # NULL
    /\ pc = "sethead" =>
         next[n] = head /\ (head # NULL => ended_at[head] > ended_at[n])
    /\ pc = "alarm" => head = n

(* The nodes that have not run, up to the new one once it is linked, and   *)
(* the one whose proc has just run.                                        *)
InList(k) ==
  /\ k < n \/ (k = n /\ pc \in {"alarm", "return"})
  /\ fired[k] = 0 \/ (hpc = "rearm" /\ k = head)

(* Without a disturbed push: no timer has run twice, and none that has run *)
(* is the first one, but for the one that is just running.                 *)
FiredOnce ==
  /\ \A k \in Timers : fired[k] <= 1 /\ (k >= n => fired[k] = 0)
  /\ head # NULL => fired[head] = IF hpc = "rearm" THEN 1 ELSE 0
  /\ hpc = "rearm" => head \notin freed
  /\ \A k \in freed : fired[k] = 1

(* The list holds only timers that have not run, each once. *)
ListedOnce ==
  /\ \A k \in Timers : InList(k) /\ next[k] # NULL =>
       fired[next[k]] = 0 /\ next[k] # head
  /\ \A j, k \in Timers :
       InList(j) /\ InList(k) /\ next[j] = next[k] /\ next[j] # NULL => j = k

(* main stands at a node of the list. *)
PushAlone ==
  /\ pc # "crashed"
  /\ InPush => hpc = "idle"
  /\ pc = "compare" => head = cur
  /\ pc \in {"walk", "insert", "insert2"} => fired[cur] = 0 /\ cur < n
  /\ pc = "insert2" => next[n] = next[cur]
  /\ pc \in {"walk", "insert", "insert2", "return"} => head # NULL

Once == ~disturbed => FiredOnce /\ ListedOnce /\ PushAlone

IInv ==
  TypeOK /\ SortedLinks /\ Asked /\ Placed /\ Unlinked /\ Walked /\ OnTime /\ Once

-----------------------------------------------------------------------------
(* unsigned differences. *)
LEMMA Wraps == ASSUME NEW a \in Int PROVE a % UInt \in 0 .. UInt - 1
BY UIntAssumption, MaxLagAssumption DEF UIntAssumption

LEMMA Small == ASSUME NEW d \in Nat, d < UInt PROVE d % UInt = d
BY UIntAssumption

LEMMA RequestsAsked ==
  ASSUME NEW s \in Requests
  PROVE  /\ Len(s) \in Nat
         /\ s \in [1 .. Len(s) -> Nat]
         /\ \A k \in 1 .. Len(s) : MaxLag + s[k] < UInt
<1>1. CASE s = MainCalls
  BY <1>1, UIntAssumption, MaxLagAssumption DEF MainCalls
<1>2. CASE s \in [1 .. Calls -> 0 .. MaxSeconds]
  <2>1. Len(s) = Calls
    BY <1>2, CallsAssumption
  <2> QED BY <1>2, <2>1, CallsAssumption, UIntAssumption, MaxLagAssumption
<1> QED BY <1>1, <1>2 DEF Requests

LEMMA InitInv == Init => IInv
<1> SUFFICES ASSUME Init PROVE IInv
  OBVIOUS
<1> USE DEF Init
<1>1. Asked
  BY RequestsAsked DEF Asked, Timers
<1>2. TypeOK
  BY <1>1, MaxLagAssumption DEF TypeOK, Asked, Timers
<1>3. 0 < UInt
  BY UIntAssumption, MaxLagAssumption
<1>4. Placed
  BY <1>3 DEF Placed, Labels, InPush
<1>5. SortedLinks /\ Unlinked /\ Walked
  BY DEF SortedLinks, Unlinked, Walked, Timers, Outside
<1>6. OnTime
  BY DEF OnTime, InPush
<1>7. Once
  BY <1>1 DEF Once, FiredOnce, ListedOnce, PushAlone, InPush, Timers
<1> QED BY <1>1, <1>2, <1>4, <1>5, <1>6, <1>7 DEF IInv

(* The alarm set is later than the clock, or none. *)
LEMMA AlarmSet ==
  ASSUME TypeOK, NEW a \in Nat, NEW b \in Nat, AlarmFor(a, b)
  PROVE  /\ alarm' \subseteq Nat
         /\ \A c \in alarm' : c > clock /\ alarm' = {c}
         /\ a >= b /\ a - b < UInt => \A c \in alarm' : c = clock + (a - b)
<1> DEFINE secs == (a - b) % UInt
<1>1. secs \in Nat
  BY Wraps, UIntAssumption
<1>2. a >= b /\ a - b < UInt => secs = a - b
  BY Small
<1>3. alarm' = IF secs = 0 THEN {} ELSE {clock + secs}
  BY DEF AlarmFor
<1>4. clock \in Nat
  BY DEF TypeOK
<1> HIDE DEF secs
<1>5. CASE secs = 0
  BY <1>3, <1>5
<1>6. CASE secs # 0
  BY <1>1, <1>2, <1>3, <1>4, <1>6
<1> QED BY <1>5, <1>6

(* Nobody changes the requests. *)
LEMMA Stays == [Next]_vars => seconds' = seconds /\ Timers' = Timers
BY DEF Next, MainStep, RunNow, NewTimer, Pause, ReadTime, ReadHead, Compare, PutFirst,
       Walk, Insert, ReturnPush, Main, Deliver, Rearm, Tick, vars, Timers

LEMMA Ran ==
  ASSUME TypeOK, NEW k \in Timers, RunProc(k)
  PROVE  /\ fired' \in [Timers -> Nat]
         /\ fired'[k] = fired[k] + 1
         /\ \A j \in Timers : j # k => fired'[j] = fired[j]
BY DEF TypeOK, RunProc

-----------------------------------------------------------------------------
(* Types and places. *)
LEMMA TypesStep == IInv /\ [Next]_vars => TypeOK' /\ Asked' /\ Placed'
<1> SUFFICES ASSUME TypeOK, Asked, Placed, SortedLinks, [Next]_vars
             PROVE TypeOK' /\ Placed'
  BY Stays DEF IInv, Asked
<1>t. Timers' = Timers /\ seconds' = seconds
  BY Stays
<1>l. /\ Len(seconds) \in Nat
      /\ \A k \in Timers : k \in Nat /\ k # 0
      /\ \A k \in Int : k \in Timers <=> 1 <= k /\ k <= Len(seconds)
      /\ MaxLag \in Nat /\ UInt \in Nat
  BY MaxLagAssumption, UIntAssumption DEF Asked, Timers
<1> USE <1>t, <1>l DEF TypeOK, Placed, Labels, InPush, Main, MainAt
<1>1. CASE RunNow
  <2>1. n \in Timers /\ n' = n + 1
    BY <1>1 DEF RunNow
  <2>2. fired' \in [Timers -> Nat]
    BY <1>1, <2>1, Ran DEF RunNow
  <2>3. n' \in 1 .. Len(seconds') + 1
    BY <2>1
  <2>4. TypeOK'
    BY <1>1, <2>2, <2>3 DEF RunNow
  <2>5. Placed'
    BY <1>1, <2>1 DEF RunNow
  <2> QED BY <2>4, <2>5
<1>2. CASE NewTimer
  <2>1. n \in Timers /\ seconds[n] \in Nat
    BY <1>2 DEF NewTimer, Asked
  <2>2. clock = lag /\ clock + seconds[n] \in Nat /\ clock + seconds[n] < UInt
    BY <1>2, <2>1 DEF NewTimer, Asked
  <2>3. /\ ended_at' \in [Timers -> Nat]
        /\ \A k \in Timers : ended_at'[k] < UInt
    BY <1>2, <2>2 DEF NewTimer
  <2> QED BY <1>2, <2>1, <2>3 DEF NewTimer
<1>3. CASE Pause \/ ReadTime
  BY <1>3 DEF Pause, ReadTime
<1>4. CASE ReadHead \/ Compare
  BY <1>4 DEF ReadHead, Compare
<1>5. CASE Walk
  BY <1>5 DEF Walk, Goes
<1>6. CASE ReturnPush
  <2>1. n \in Timers /\ hpc = "idle" /\ pc' \in {"call", "crashed"} /\ n' \in {n, n + 1}
    BY <1>6 DEF ReturnPush
  <2>2. n' \in 1 .. Len(seconds') + 1
    BY <2>1
  <2>3. TypeOK'
    BY <1>6, <2>1, <2>2 DEF ReturnPush
  <2>4. Placed'
    BY <1>6, <2>1, <2>2 DEF ReturnPush
  <2> QED BY <2>3, <2>4
<1>7. CASE PutFirst
  <2>1. CASE pc = "alarm"
    BY <1>7, <2>1, AlarmSet DEF PutFirst
  <2> QED BY <1>7, <2>1 DEF PutFirst
<1>8. CASE Insert
  BY <1>8 DEF Insert
<1>9. CASE Deliver
  <2>1. CASE head = NULL
    BY <1>9, <2>1 DEF Deliver
  <2>2. CASE head # NULL
    <3>1. fired' \in [Timers -> Nat]
      BY <1>9, <2>2, Ran DEF Deliver
    <3> QED BY <1>9, <2>2, <3>1 DEF Deliver
  <2> QED BY <2>1, <2>2
<1>10. CASE Rearm
  <2>1. CASE next[head] = NULL
    BY <1>10, <2>1 DEF Rearm
  <2>2. CASE next[head] # NULL
    BY <1>10, <2>2, AlarmSet DEF Rearm
  <2> QED BY <2>1, <2>2
<1>11. CASE Tick
  <2>1. clock' = clock + 1 /\ lag' \in 0 .. MaxLag
    BY <1>11 DEF Tick
  <2>2. pc \notin {"pause", "crashed"} => clock' = lag'
    BY <1>11 DEF Tick, Paused
  <2>3. \A a \in alarm' : a \in alarm /\ a # clock + 1 /\ alarm' = alarm
    BY <1>11 DEF Tick
  <2>4. alarm' \subseteq Nat /\ \A a \in alarm' : a > clock' /\ alarm' = {a}
    <3>1. ASSUME NEW a \in alarm' PROVE a \in Nat /\ a > clock' /\ alarm' = {a}
      <4>1. a \in alarm /\ a # clock + 1 /\ alarm' = alarm
        BY <2>3
      <4>2. a > clock /\ alarm = {a} /\ a \in Nat
        BY <4>1
      <4> QED BY <2>1, <4>1, <4>2
    <3> QED BY <3>1
  <2> QED BY <1>11, <2>1, <2>2, <2>4 DEF Tick
<1>12. CASE UNCHANGED vars
  BY <1>12 DEF vars
<1> QED
  BY <1>1, <1>2, <1>3, <1>4, <1>5, <1>6, <1>7, <1>8, <1>9, <1>10, <1>11, <1>12
     DEF Next, MainStep

(* The order of the list, whatever the handler does to it. *)
LEMMA SortedStep == IInv /\ [Next]_vars => SortedLinks' /\ Unlinked' /\ Walked'
<1> SUFFICES ASSUME TypeOK, Asked, Placed, SortedLinks, Unlinked, Walked, [Next]_vars
             PROVE SortedLinks' /\ Unlinked' /\ Walked'
  BY DEF IInv
<1>t. Timers' = Timers /\ seconds' = seconds
  BY Stays
<1>l. \A k \in Timers : k \in Nat /\ k # 0
  BY DEF Asked, Timers
<1>n. n \in Nat
  BY DEF TypeOK
<1> USE <1>t, <1>l, <1>n DEF TypeOK, Placed, InPush, Main, MainAt, SortedLinks, Unlinked,
            Outside, Walked
<1>1. CASE RunNow
  BY <1>1 DEF RunNow, RunProc
<1>2. CASE NewTimer
  BY <1>2 DEF NewTimer, Asked, Timers
<1>3. CASE Pause \/ ReadTime \/ ReadHead \/ Compare \/ ReturnPush
  <2>1. CASE Pause
    BY <2>1 DEF Pause
  <2>2. CASE ReadTime
    BY <2>2 DEF ReadTime
  <2>3. CASE ReadHead
    BY <2>3 DEF ReadHead
  <2>4. CASE Compare
    BY <2>4 DEF Compare
  <2>5. CASE ReturnPush
    <3>1. UNCHANGED <<cur, ended_at, next, head>> /\ pc' \in {"call", "crashed"}
      BY <2>5 DEF ReturnPush
    <3>2. pc' = "call" => n' = n + 1
      BY <2>5 DEF ReturnPush
    <3>3. pc' = "call" => \A k \in Timers : Outside(k)' => k > n
      BY <3>2
    <3> QED BY <2>5, <3>1, <3>2, <3>3 DEF ReturnPush
  <2> QED BY <1>3, <2>1, <2>2, <2>3, <2>4, <2>5
<1>4. CASE Walk
  BY <1>4 DEF Walk, Goes
<1>5. CASE PutFirst
  <2>0. n \in Timers
    BY <1>5 DEF PutFirst
  <2>1. CASE pc = "link"
    <3>1. next' = [next EXCEPT ![n] = head] /\ UNCHANGED <<n, cur, ended_at, head>>
          /\ pc' = "sethead" /\ hpc = "idle"
      BY <1>5, <2>1 DEF PutFirst
    <3>2. \A k \in Timers : next'[k] = IF k = n THEN head ELSE next[k]
      BY <3>1
    <3> HIDE DEF PutFirst
    <3>3. SortedLinks'
      BY <2>0, <2>1, <3>1, <3>2
    <3>4. Unlinked' /\ Walked'
      BY <2>0, <2>1, <3>1, <3>2
    <3> QED BY <3>3, <3>4
  <2>2. CASE pc = "sethead"
    BY <1>5, <2>0, <2>2 DEF PutFirst
  <2>3. CASE pc = "alarm"
    BY <1>5, <2>0, <2>3 DEF PutFirst
  <2> QED BY <1>5, <2>1, <2>2, <2>3 DEF PutFirst
<1>6. CASE Insert
  <2>0. n \in Timers /\ cur \in Timers /\ cur # n /\ hpc = "idle"
        /\ UNCHANGED <<n, cur, ended_at, head>>
    BY <1>6 DEF Insert
  <2>1. CASE pc = "insert"
    <3>1. next' = [next EXCEPT ![n] = next[cur]] /\ pc' = "insert2"
      BY <1>6, <2>1 DEF Insert
    <3>2. \A k \in Timers : next'[k] = IF k = n THEN next[cur] ELSE next[k]
      BY <3>1
    <3>3. SortedLinks'
      BY <2>0, <2>1, <3>1, <3>2
    <3>4. Unlinked' /\ Walked'
      BY <2>0, <2>1, <3>1, <3>2
    <3> QED BY <3>3, <3>4
  <2>2. CASE pc = "insert2"
    <3>1. next' = [next EXCEPT ![cur] = n] /\ pc' = "return"
      BY <1>6, <2>2 DEF Insert
    <3>2. \A k \in Timers : next'[k] = IF k = cur THEN n ELSE next[k]
      BY <2>0, <3>1
    <3>3. SortedLinks'
      BY <2>0, <2>2, <3>1, <3>2
    <3>4. Unlinked' /\ Walked'
      BY <2>0, <2>2, <3>1, <3>2
    <3> QED BY <3>3, <3>4
  <2> QED BY <1>6, <2>1, <2>2 DEF Insert
<1>7. CASE Deliver
  BY <1>7 DEF Deliver, RunProc
<1>8. CASE Rearm
  BY <1>8 DEF Rearm
<1>9. CASE Tick
  BY <1>9 DEF Tick
<1>10. CASE UNCHANGED vars
  BY <1>10 DEF vars
<1> QED
  BY <1>1, <1>2, <1>3, <1>4, <1>5, <1>6, <1>7, <1>8, <1>9, <1>10 DEF Next, MainStep

(* The alarm goes with the first node. *)
LEMMA OnTimeStep == IInv /\ [Next]_vars => OnTime'
<1> SUFFICES ASSUME TypeOK, Asked, Placed, SortedLinks, Unlinked, Walked, OnTime,
                    [Next]_vars, ~slow'
             PROVE OnTime'
  BY DEF IInv, OnTime
<1>t. Timers' = Timers /\ seconds' = seconds
  BY Stays
<1>l. \A k \in Timers : k \in Nat /\ k # 0
  BY DEF Asked, Timers
<1>s. ~slow
  BY DEF Next, MainStep, RunNow, NewTimer, Pause, ReadTime, ReadHead, Compare, PutFirst,
         Walk, Insert, ReturnPush, Main, Deliver, Rearm, Tick, vars
<1> USE <1>t, <1>l, <1>s DEF TypeOK, Placed, InPush, Main, MainAt, OnTime
<1>1. CASE RunNow
  BY <1>1 DEF RunNow, RunProc
<1>2. CASE NewTimer
  BY <1>2 DEF NewTimer, Unlinked, Outside, Asked, Timers
<1>3. CASE Pause \/ ReadTime \/ ReadHead \/ Compare \/ ReturnPush
  <2>1. CASE Pause
    BY <2>1 DEF Pause
  <2>2. CASE ReadTime
    BY <2>2 DEF ReadTime
  <2>3. CASE ReadHead
    <3>1. n \in Timers /\ next[n] = NULL
      BY <2>3 DEF ReadHead, Unlinked, Outside
    <3> QED BY <2>3, <3>1 DEF ReadHead
  <2>4. CASE Compare
    BY <2>4 DEF Compare
  <2>5. CASE ReturnPush
    BY <2>5 DEF ReturnPush
  <2> QED BY <1>3, <2>1, <2>2, <2>3, <2>4, <2>5
<1>4. CASE Walk
  BY <1>4 DEF Walk, Goes
<1>5. CASE PutFirst
  <2>0. n \in Timers /\ seconds[n] \in Nat /\ hpc = "idle"
    BY <1>5 DEF PutFirst, Asked
  <2>1. CASE pc = "link"
    BY <1>5, <2>0, <2>1 DEF PutFirst, Walked
  <2>2. CASE pc = "sethead"
    <3>1. /\ head # NULL => ended_at[head] > ended_at[n]
          /\ ended_at[n] = clock + seconds[n] /\ seconds[n] > 0
      BY <2>2
    <3>2. ~pending
      BY <2>0, <3>1
    <3>3. \A a \in alarm : ended_at[n] <= a
      BY <2>0, <3>1
    <3>4. /\ head' = n /\ pc' = "alarm"
          /\ UNCHANGED <<n, clock, lag, cur_time, ended_at, alarm, pending, hpc, next>>
      BY <1>5, <2>2 DEF PutFirst
    <3> QED BY <2>0, <2>2, <3>1, <3>2, <3>3, <3>4
  <2>3. CASE pc = "alarm"
    <3>1. /\ head = n /\ cur_time = clock /\ ended_at[n] = clock + seconds[n]
          /\ seconds[n] > 0
      BY <2>3
    <3>2. AlarmFor(ended_at[n], cur_time)
      BY <1>5, <2>3 DEF PutFirst
    <3>3. ended_at[n] >= cur_time /\ ended_at[n] - cur_time < UInt
      BY <2>0, <3>1, MaxLagAssumption, UIntAssumption DEF Asked
    <3>4. \A a \in alarm' : a = clock + (ended_at[n] - cur_time)
      BY <2>0, <3>2, <3>3, AlarmSet
    <3>5. \A a \in alarm' : a = ended_at[n]
      BY <2>0, <3>1, <3>4
    <3> QED BY <1>5, <2>0, <2>3, <3>1, <3>5 DEF PutFirst
  <2> QED BY <1>5, <2>1, <2>2, <2>3 DEF PutFirst
<1>6. CASE Insert
  BY <1>6 DEF Insert
<1>7. CASE Deliver
  BY <1>7 DEF Deliver, RunProc
<1>8. CASE Rearm
  <2>0. /\ head \in Timers /\ alarm = {} /\ ~pending /\ head' = next[head]
        /\ UNCHANGED <<seconds, n, cur_time, ended_at, next, pending, clock, lag>>
        /\ hpc' = "idle" /\ pc' \in {pc, "crashed"}
        /\ ended_at[head] <= clock /\ clock <= ended_at[head] + lag
    BY <1>8 DEF Rearm
  <2>n. pc \notin {"link", "sethead", "alarm"}
    <3>1. n \in Timers /\ InPush => seconds[n] > 0 /\ seconds[n] \in Nat
      BY DEF Asked
    <3> QED BY <2>0, <3>1 DEF Walked
  <2>1. CASE next[head] = NULL
    BY <1>8, <2>0, <2>1, <2>n DEF Rearm
  <2>2. CASE next[head] # NULL
    <3>1. next[head] \in Timers /\ ended_at[head] <= ended_at[next[head]]
      BY <2>0, <2>2 DEF SortedLinks
    <3>2. ended_at[next[head]] - ended_at[head] < UInt
      BY <2>0, <3>1, UIntAssumption
    <3>3. \A a \in alarm' : a = clock + (ended_at[next[head]] - ended_at[head])
      BY <1>8, <2>0, <2>2, <3>1, <3>2, AlarmSet DEF Rearm
    <3>4. \A a \in alarm' :
            ended_at[head'] <= a /\ a <= ended_at[head'] + lag
      BY <2>0, <3>1, <3>3
    <3> QED BY <2>0, <2>2, <2>n, <3>1, <3>4
  <2> QED BY <2>1, <2>2
<1>9. CASE Tick
  <2>1. pc \in {"call", "pause"} /\ clock' = clock + 1 /\ lag' \in {lag, lag + 1}
        /\ UNCHANGED <<pc, n, cur_time, ended_at, head, hpc>>
    BY <1>9 DEF Tick
  <2>2. pending \/ hpc = "rearm" => lag' = lag + 1 /\ alarm = {}
    BY <1>9 DEF Tick, Paused
  <2>3. clock + 1 \in alarm => pending' = TRUE /\ alarm' = {} /\ hpc = "idle"
    BY <1>9 DEF Tick
  <2>4. clock + 1 \notin alarm => pending' = pending /\ alarm' = alarm
    BY <1>9 DEF Tick
  <2>5. CASE clock + 1 \in alarm
    BY <2>1, <2>3, <2>5, MaxLagAssumption
  <2>6. CASE clock + 1 \notin alarm
    <3>1. lag \in Nat /\ lag' \in Nat /\ lag' >= lag
      BY <2>1, MaxLagAssumption
    <3>2. head # NULL => ended_at[head] \in Nat
      OBVIOUS
    <3>3. pending \/ hpc = "rearm" =>
            /\ head # NULL /\ alarm = {}
            /\ ended_at[head] <= clock + 1 /\ clock + 1 <= ended_at[head] + lag'
      BY <2>2, <3>1, <3>2
    <3>4. \A a \in alarm :
            /\ head # NULL /\ ended_at[head] <= a
            /\ a <= ended_at[head] + lag'
      <4> TAKE a \in alarm
      <4>1. head # NULL /\ ended_at[head] <= a /\ a <= ended_at[head] + lag
        BY <2>1
      <4> QED BY <3>1, <3>2, <4>1
    <3>5. alarm' = alarm /\ (pending' => pending)
      BY <2>4, <2>6
    <3> HIDE DEF TypeOK, Placed, Main, MainAt
    <3> QED BY <2>1, <3>3, <3>4, <3>5 DEF OnTime
  <2> QED BY <2>5, <2>6
<1>10. CASE UNCHANGED vars
  BY <1>10 DEF vars
<1> QED
  BY <1>1, <1>2, <1>3, <1>4, <1>5, <1>6, <1>7, <1>8, <1>9, <1>10 DEF Next, MainStep

(* The list holds each waiting timer once. *)
LEMMA OnceStep == IInv /\ [Next]_vars => Once'
<1> SUFFICES ASSUME TypeOK, Asked, Placed, SortedLinks, Unlinked, Walked, OnTime, Once,
                    [Next]_vars, ~disturbed'
             PROVE FiredOnce' /\ ListedOnce' /\ PushAlone'
  BY DEF IInv, Once
<1>t. Timers' = Timers /\ seconds' = seconds
  BY Stays
<1>l. \A k \in Timers : k \in Nat /\ k # 0
  BY DEF Asked, Timers
<1>a. ~slow' /\ ~interrupted'
  BY DEF disturbed
<1>s. ~slow /\ ~interrupted
  <2>1. ~slow
    BY <1>a DEF Next, MainStep, RunNow, NewTimer, Pause, ReadTime, ReadHead, Compare,
           PutFirst, Walk, Insert, ReturnPush, Main, Deliver, Rearm, Tick, vars
  <2>2. ~interrupted
    BY <1>a DEF Next, MainStep, RunNow, NewTimer, Pause, ReadTime, ReadHead, Compare,
           PutFirst, Walk, Insert, ReturnPush, Main, Deliver, Rearm, Tick, vars
  <2> QED BY <2>1, <2>2
<1>o. FiredOnce /\ ListedOnce /\ PushAlone
  BY <1>s DEF Once, disturbed
<1>n. n \in Nat
  BY DEF TypeOK
<1>p. /\ cur \in Timers \union {NULL} /\ head \in Timers \union {NULL}
      /\ freed \subseteq Timers
      /\ fired \in [Timers -> Nat]
      /\ next \in [Timers -> Timers \union {NULL}]
  BY DEF TypeOK
<1> USE <1>t, <1>l, <1>o, <1>n, <1>p
<1>1. CASE RunNow
  <2>1. /\ n \in Timers /\ n' = n + 1 /\ RunProc(n) /\ pc = "call" /\ hpc = "idle"
        /\ UNCHANGED <<pc, hpc, cur, next, head, freed>>
    BY <1>1 DEF RunNow, Asked, Timers, Main, MainAt, TypeOK
  <2>2. /\ fired[n] = 0 /\ fired'[n] = 1
        /\ \A k \in Timers : k # n => fired'[k] = fired[k]
    BY <2>1, Ran DEF FiredOnce
  <2>3. head # n /\ \A k \in Timers : next[k] # n
    BY <2>1 DEF Unlinked, Outside
  <2>4. \A k \in Timers : InList(k)' => InList(k) /\ k # n
    BY <2>1, <2>2 DEF InList
  <2>5. FiredOnce'
    BY <2>1, <2>2, <2>3 DEF FiredOnce
  <2>6. ListedOnce'
    BY <2>1, <2>2, <2>3, <2>4 DEF ListedOnce
  <2>7. PushAlone'
    BY <2>1 DEF PushAlone, InPush
  <2> QED BY <2>5, <2>6, <2>7
<1>2. CASE NewTimer \/ Pause \/ ReadTime \/ ReadHead \/ Compare \/ Walk
  <2>1. /\ hpc = "idle" /\ UNCHANGED <<hpc, n, next, head, freed, fired>>
        /\ pc \in {"call", "time", "head", "compare", "walk"}
    BY <1>2 DEF NewTimer, Pause, ReadTime, ReadHead, Compare, Walk, Main, MainAt
  <2>2. FiredOnce'
    BY <2>1 DEF FiredOnce
  <2>3. pc' \notin {"alarm", "return"}
    BY <1>2 DEF NewTimer, Pause, ReadTime, ReadHead, Compare, Walk, Main
  <2>4. ListedOnce'
    BY <2>1, <2>3 DEF ListedOnce, InList
  <2>5. CASE NewTimer \/ Pause \/ ReadTime
    <3>1. pc' \in {"time", "head", "pause"}
      BY <2>5 DEF NewTimer, Pause, ReadTime, Main
    <3> QED BY <2>1, <2>2, <2>4, <3>1 DEF PushAlone, InPush
  <2>6. CASE ReadHead
    <3>1. pc' \in {"sethead", "compare"} /\ cur' = head
      BY <2>6 DEF ReadHead, Main
    <3> QED BY <2>1, <2>2, <2>4, <3>1 DEF PushAlone, InPush
  <2>7. CASE Compare
    <3>1. /\ hpc = "idle" /\ head = cur /\ head # NULL /\ pc' \in {"link", "walk"}
          /\ UNCHANGED <<n, hpc, head, cur, fired, next>>
      BY <2>7 DEF Compare, PushAlone, Main, MainAt, TypeOK
    <3>2. fired[cur] = 0 /\ cur < n
      BY <2>7, <3>1 DEF FiredOnce, Unlinked, Outside, Compare, Main, MainAt
    <3> QED BY <2>2, <2>4, <3>1, <3>2 DEF PushAlone, InPush
  <2>8. CASE Walk
    <3>1. /\ hpc = "idle" /\ pc = "walk" /\ pc' \in {"walk", "insert"} /\ cur \in Timers
          /\ UNCHANGED <<n, hpc, head, fired, next>>
          /\ cur' = cur \/ (cur' = next[cur] /\ next[cur] # NULL)
      BY <2>8 DEF Walk, Goes, Main, MainAt, TypeOK
    <3>2. fired[cur] = 0 /\ cur < n /\ head # NULL
      BY <3>1 DEF PushAlone
    <3>3. CASE cur' = next[cur] /\ next[cur] # NULL
      <4>1. next[cur] \in Timers
        BY <3>1, <3>3
      <4>2. fired[next[cur]] = 0
        BY <3>1, <3>2, <3>3, <4>1 DEF ListedOnce, InList
      <4>3. next[cur] < n
        BY <3>1, <4>1 DEF Unlinked, Outside
      <4> QED BY <2>2, <2>4, <3>1, <3>2, <3>3, <4>1, <4>2, <4>3 DEF PushAlone, InPush
    <3>4. CASE cur' = cur
      BY <2>2, <2>4, <3>1, <3>2, <3>4 DEF PushAlone, InPush
    <3> QED BY <3>1, <3>3, <3>4
  <2> QED BY <1>2, <2>5, <2>6, <2>7, <2>8
<1>3. CASE ReturnPush
  <2>1. /\ hpc = "idle" /\ pc = "return" /\ head # NULL /\ pc' = "call" /\ n' = n + 1
        /\ UNCHANGED <<hpc, cur, next, head, freed, fired>>
    BY <1>3 DEF ReturnPush, PushAlone, Main, MainAt
  <2>2. \A k \in Timers : InList(k)' => InList(k)
    BY <2>1 DEF InList
  <2>3. FiredOnce'
    BY <2>1 DEF FiredOnce
  <2>4. ListedOnce'
    BY <2>1, <2>2 DEF ListedOnce
  <2> QED BY <2>1, <2>3, <2>4 DEF PushAlone, InPush
<1>4. CASE PutFirst
  <2>1. /\ hpc = "idle" /\ n \in Timers /\ UNCHANGED <<hpc, n, cur, freed, fired>>
    BY <1>4 DEF PutFirst, Placed, InPush, Main, MainAt
  <2>2. fired[n] = 0
    BY <2>1 DEF FiredOnce
  <2>3. CASE pc = "link"
    <3>1. /\ pc' = "sethead" /\ UNCHANGED head
          /\ \A k \in Timers : k # n => next'[k] = next[k]
      BY <1>4, <2>3 DEF PutFirst, Main, MainAt
    <3>2. \A k \in Timers : InList(k)' => InList(k) /\ k # n
      BY <2>1, <2>3, <3>1 DEF InList
    <3>3. ListedOnce'
      BY <2>1, <3>1, <3>2 DEF ListedOnce
    <3>4. FiredOnce' /\ PushAlone'
      BY <2>1, <3>1 DEF FiredOnce, PushAlone, InPush
    <3> QED BY <3>3, <3>4
  <2>4. CASE pc = "sethead"
    <3>1. pc' = "alarm" /\ head' = n /\ UNCHANGED next /\ next[n] = head
      BY <1>4, <1>s, <2>4 DEF PutFirst, OnTime, Main, MainAt
    <3>2. \A k \in Timers : next[k] # n
      BY <2>1, <2>4 DEF Unlinked, Outside
    <3>3. \A k \in Timers : InList(k)' => InList(k) \/ k = n
      BY <2>1, <2>4, <3>1 DEF InList
    <3>4. head # NULL => fired[head] = 0
      BY <2>1 DEF FiredOnce
    <3>5. ListedOnce'
      BY <2>1, <3>1, <3>2, <3>3, <3>4 DEF ListedOnce
    <3>6. FiredOnce'
      BY <2>1, <2>2, <3>1 DEF FiredOnce
    <3>7. PushAlone'
      BY <2>1, <3>1 DEF PushAlone, InPush
    <3> QED BY <3>5, <3>6, <3>7
  <2>5. CASE pc = "alarm"
    <3>1. pc' = "return" /\ head = n /\ UNCHANGED <<head, next>>
      BY <1>4, <1>s, <2>5 DEF PutFirst, OnTime, Main, MainAt
    <3>2. \A k \in Timers : InList(k)' => InList(k)
      BY <2>1, <2>5, <3>1 DEF InList
    <3>3. ListedOnce'
      BY <2>1, <3>1, <3>2 DEF ListedOnce
    <3>4. FiredOnce' /\ PushAlone'
      BY <2>1, <3>1 DEF FiredOnce, PushAlone, InPush
    <3> QED BY <3>3, <3>4
  <2> QED BY <1>4, <2>3, <2>4, <2>5 DEF PutFirst, Main, MainAt
<1>5. CASE Insert
  <2>1. /\ hpc = "idle" /\ n \in Timers /\ cur \in Timers
        /\ UNCHANGED <<hpc, n, cur, head, freed, fired>>
    BY <1>5 DEF Insert, Placed, InPush, Main, MainAt, TypeOK
  <2>2. fired[n] = 0
    BY <2>1 DEF FiredOnce
  <2>3. FiredOnce'
    BY <2>1 DEF FiredOnce
  <2>4. CASE pc = "insert"
    <3>1. /\ pc' = "insert2" /\ next'[n] = next[cur]
          /\ \A k \in Timers : k # n => next'[k] = next[k]
      BY <1>5, <2>1, <2>4 DEF Insert, Main, MainAt
    <3>2. fired[cur] = 0 /\ cur < n /\ head # NULL
      BY <2>4 DEF PushAlone
    <3>3. \A k \in Timers : InList(k)' => InList(k) /\ k # n
      BY <2>1, <2>4, <3>1 DEF InList
    <3>4. ListedOnce'
      BY <2>1, <3>1, <3>3 DEF ListedOnce
    <3>5. PushAlone'
      BY <2>1, <3>1, <3>2 DEF PushAlone, InPush
    <3> QED BY <2>3, <3>4, <3>5
  <2>5. CASE pc = "insert2"
    <3>1. /\ pc' = "return" /\ next'[cur] = n
          /\ \A k \in Timers : k # cur => next'[k] = next[k]
      BY <1>5, <2>1, <2>5 DEF Insert, Main, MainAt
    <3>2. fired[cur] = 0 /\ cur < n /\ head # NULL /\ next[n] = next[cur]
      BY <2>5 DEF PushAlone
    <3>3. head # n /\ \A k \in Timers : next[k] # n
      BY <2>1, <2>5 DEF Unlinked, Outside
    <3>4. \A k \in Timers : InList(k)' => InList(k) \/ k = n
      BY <2>1, <2>5, <3>1 DEF InList
    <3>5. InList(cur)
      BY <3>2 DEF InList
    <3>6. ListedOnce'
      BY <2>1, <2>2, <3>1, <3>2, <3>3, <3>4, <3>5 DEF ListedOnce
    <3>7. PushAlone'
      BY <2>1, <3>1, <3>2 DEF PushAlone, InPush
    <3> QED BY <2>3, <3>6, <3>7
  <2> QED BY <1>5, <2>4, <2>5 DEF Insert, Main, MainAt
<1>6. CASE Deliver
  <2>1. /\ head \in Timers /\ RunProc(head) /\ hpc = "idle" /\ hpc' = "rearm" /\ ~InPush
        /\ UNCHANGED <<pc, n, cur, next, head, freed>>
    BY <1>6, <1>s DEF Deliver, OnTime, disturbed
  <2>2. fired[head] = 0 /\ head \notin freed
    BY <2>1 DEF FiredOnce
  <2>3. fired'[head] = 1 /\ \A k \in Timers : k # head => fired'[k] = fired[k]
    BY <2>1, <2>2, Ran
  <2>4. pc \in {"call", "pause"}
    BY <2>1 DEF InPush, PushAlone
  <2>5. head < n
    BY <2>1, <2>4 DEF Unlinked, Outside
  <2>6. \A k \in Timers : InList(k)' => InList(k)
    BY <2>1, <2>2, <2>3, <2>5 DEF InList
  <2>7. ListedOnce'
    BY <2>1, <2>3, <2>6 DEF ListedOnce
  <2>8. FiredOnce'
    BY <2>1, <2>2, <2>3, <2>5 DEF FiredOnce
  <2>9. PushAlone'
    BY <2>1, <2>4 DEF PushAlone, InPush
  <2> QED BY <2>7, <2>8, <2>9
<1>7. CASE Rearm
  <2>1. /\ head \in Timers /\ hpc = "rearm" /\ hpc' = "idle" /\ head' = next[head]
        /\ UNCHANGED <<n, cur, next, fired>>
        /\ freed' = freed \union {head}
    BY <1>7 DEF Rearm, TypeOK
  <2>2. head \notin freed /\ fired[head] = 1
    BY <2>1 DEF FiredOnce
  <2>3. pc' = pc /\ pc \in {"call", "pause"}
    BY <1>7, <2>1, <2>2 DEF Rearm, PushAlone, InPush
  <2>4. head < n
    BY <2>1, <2>3 DEF Unlinked, Outside
  <2>5. InList(head)
    BY <2>1, <2>4 DEF InList
  <2>6. \A k \in Timers : InList(k)' => InList(k) /\ k # head
    BY <2>1, <2>2, <2>3 DEF InList
  <2>7. ListedOnce'
    BY <2>1, <2>5, <2>6 DEF ListedOnce
  <2>8. next[head] # NULL => fired[next[head]] = 0
    BY <2>1, <2>5 DEF ListedOnce
  <2>9. FiredOnce'
    BY <2>1, <2>2, <2>8 DEF FiredOnce
  <2>10. PushAlone'
    BY <2>1, <2>3 DEF PushAlone, InPush
  <2> QED BY <2>7, <2>9, <2>10
<1>8. CASE Tick \/ UNCHANGED vars
  <2>1. UNCHANGED <<pc, hpc, n, cur, next, head, freed, fired>>
    BY <1>8 DEF Tick, vars
  <2>2. FiredOnce' /\ PushAlone'
    BY <2>1 DEF FiredOnce, PushAlone, InPush
  <2>3. ListedOnce'
    BY <2>1 DEF ListedOnce, InList
  <2> QED BY <2>2, <2>3
<1> QED
  BY <1>1, <1>2, <1>3, <1>4, <1>5, <1>6, <1>7, <1>8 DEF Next, MainStep

LEMMA Invariance == Spec => []IInv
<1>1. IInv /\ [Next]_vars => IInv'
  BY TypesStep, SortedStep, OnTimeStep, OnceStep DEF IInv
<1> QED BY InitInv, <1>1, PTL DEF Spec

(* The list is sorted in every interleaving with the handler, and without  *)
(* a disturbed push nothing crashes and no timer runs twice.               *)
THEOREM TimersSafe == Spec => []Inv
<1>1. IInv => Inv
  BY DEF IInv, Inv, Once, FiredOnce, PushAlone, SafeUndisturbed
<1> QED BY <1>1, Invariance, PTL

(* Only the first timer of the list runs in alarm_proc. *)
LEMMA FiresHead ==
  ASSUME IInv, [Next]_vars, ~slow', NEW k \in Timers, fired'[k] > fired[k], seconds[k] > 0
  PROVE  ended_at[k] <= clock /\ clock <= ended_at[k] + lag
<1> USE DEF IInv, TypeOK, Main, MainAt
<1>1. CASE RunNow
  BY <1>1 DEF RunNow, RunProc
<1>2. CASE Deliver
  <2>1. head \in Timers /\ k = head /\ ~slow /\ pending
    BY <1>2, Ran DEF Deliver
  <2> QED BY <2>1 DEF OnTime
<1>3. CASE UNCHANGED fired
  BY <1>3
<1> QED
  BY <1>1, <1>2, <1>3 DEF Next, MainStep, NewTimer, Pause, ReadTime, ReadHead, Compare,
     PutFirst, Walk, Insert, ReturnPush, Rearm, Tick, vars

(* No timer runs before its deadline unless a second passes inside a push. *)
THEOREM NotEarly == Spec => NeverEarly
<1>1. IInv /\ [Next]_vars =>
        [\A k \in Timers :
           fired'[k] > fired[k] /\ seconds[k] > 0 /\ ~slow' => clock >= ended_at[k]]_vars
  BY FiresHead DEF IInv, TypeOK
<1> QED BY <1>1, Invariance, PTL DEF Spec, NeverEarly

(* A timer is late by the program's own seconds at most. *)
THEOREM LateByLag == Spec => Punctual
<1>1. IInv /\ [Next]_vars =>
        [\A k \in Timers :
           fired'[k] > fired[k] /\ seconds[k] > 0 /\ ~slow'
             => clock <= ended_at[k] + lag]_vars
  BY FiresHead DEF IInv, TypeOK
<1> QED BY <1>1, Invariance, PTL DEF Spec, Punctual
=============================================================================
