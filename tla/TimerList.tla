------------------------------ MODULE TimerList ------------------------------
(***************************************************************************)
(* chapter_10/p5.c: any number of timers on the one alarm clock of a       *)
(* process.  settimeout puts a timer in a list sorted by deadline and arms *)
(* the alarm for the first one; the SIGALRM handler alarm_proc runs the    *)
(* first timer and arms the alarm for the next.  The handler can interrupt *)
(* main between any two statements, and seconds can pass anywhere.         *)
(***************************************************************************)
EXTENDS Integers, Sequences

CONSTANTS
  Calls,      \* besides its own calls, main may make as many as this,
  MaxSeconds, \* each with an argument up to this
  UInt,       \* number of values of an unsigned int, 2^32 in the code
  MaxLag      \* bound: seconds that pass while the program is running code
ASSUME CallsAssumption == Calls \in Nat /\ MaxSeconds \in Nat
ASSUME MaxLagAssumption == MaxLag \in Nat

VARIABLES
  seconds,   \* the arguments of main's settimeout calls
  n,         \* the call being made; its timer is node n of the list
  pc,        \* main's next statement
  cur_time,  \* local of push_to_timer_list
  cur,       \* local of push_to_timer_list, a node
  ended_at,  \* field of each node
  next,      \* field of each node
  head,      \* the first node
  freed,     \* nodes given to free
  hpc,       \* "idle", or "rearm" inside alarm_proc after the timer's proc
  alarm,     \* the second at which SIGALRM is generated, if any
  pending,   \* SIGALRM is pending
  clock,     \* time()
  lag,       \* seconds that passed while the program was running code
  fired,     \* fired[k]: how often proc of node k has run
  slow,      \* history: a second passed inside a push
  interrupted  \* history: a handler ran inside a push

vars == <<seconds, n, pc, cur_time, cur, ended_at, next, head, freed, hpc, alarm,
          pending, clock, lag, fired, slow, interrupted>>

NULL == 0
(* The arguments of main's settimeout calls: its own, or others. *)
MainCalls == <<2, 1, 5, 3>>
Requests == {MainCalls} \union [1 .. Calls -> 0 .. MaxSeconds]

(* A deadline (time() and the argument) fits in an unsigned int. *)
ASSUME UIntAssumption ==
  /\ UInt \in Nat
  /\ \A s \in {MaxSeconds, 2, 1, 5, 3} : MaxLag + s < UInt

Timers == 1 .. Len(seconds)

(* Inside settimeout, from its time() on, up to the end of the push. *)
InPush == pc \notin {"call", "pause", "crashed"}
disturbed == slow \/ interrupted

Init ==
  /\ seconds \in Requests
  /\ n = 1
  /\ pc = "call"
  /\ cur_time = 0
  /\ cur = NULL
  /\ ended_at = [k \in Timers |-> 0]
  /\ next = [k \in Timers |-> NULL]
  /\ head = NULL
  /\ freed = {}
  /\ hpc = "idle"
  /\ alarm = {}
  /\ pending = FALSE
  /\ clock = 0
  /\ lag = 0
  /\ fired = [k \in Timers |-> 0]
  /\ slow = FALSE /\ interrupted = FALSE

-----------------------------------------------------------------------------

(* alarm(a - b): replaces the alarm by one in a - b seconds, the difference *)
(* taken in unsigned int; 0 seconds cancel the alarm.                      *)
AlarmFor(a, b) ==
  LET secs == (a - b) % UInt IN
    alarm' = IF secs = 0 THEN {} ELSE {clock + secs}

RunProc(k) == fired' = [fired EXCEPT ![k] = @ + 1]

-----------------------------------------------------------------------------
(* A statement of main, from label here to label there.  No statement of   *)
(* main changes the second group of variables.                             *)
MainAt(label) == hpc = "idle" /\ pc = label
Main(here, there) ==
  /\ MainAt(here)
  /\ pc' = there
  /\ UNCHANGED <<seconds, hpc, pending, clock, lag, freed, slow, interrupted>>

(* settimeout(0, proc) runs proc at once. *)
RunNow ==
  /\ n <= Len(seconds) /\ seconds[n] = 0
  /\ Main("call", "call")
  /\ RunProc(n)
  /\ n' = n + 1
  /\ UNCHANGED <<cur_time, cur, ended_at, next, head, alarm>>

(* settimeout: malloc, time(&started_at), the node's fields and signal(). *)
NewTimer ==
  /\ n <= Len(seconds) /\ seconds[n] > 0
  /\ Main("call", "time")
  /\ ended_at' = [ended_at EXCEPT ![n] = clock + seconds[n]]
  /\ UNCHANGED <<n, cur_time, cur, next, head, alarm, fired>>

(* All calls made: main pauses forever. *)
Pause ==
  /\ n > Len(seconds)
  /\ Main("call", "pause")
  /\ UNCHANGED <<n, cur_time, cur, ended_at, next, head, alarm, fired>>

(* push_to_timer_list: time(&cur_time), cur = head. *)
ReadTime ==
  /\ Main("time", "head")
  /\ cur_time' = clock
  /\ UNCHANGED <<n, cur, ended_at, next, head, alarm, fired>>

ReadHead ==
  /\ Main("head", IF head = NULL THEN "sethead" ELSE "compare")
  /\ cur' = head
  /\ UNCHANGED <<n, cur_time, ended_at, next, head, alarm, fired>>

(* head->ended_at > node->ended_at reads head again: NULL by now if a      *)
(* handler has emptied the list.                                           *)
Compare ==
  /\ Main("compare",
          IF head = NULL THEN "crashed"
          ELSE IF ended_at[head] > ended_at[n] THEN "link" ELSE "walk")
  /\ UNCHANGED <<n, cur_time, cur, ended_at, next, head, alarm, fired>>

(* The node becomes the first one: node->next = head, head = node, alarm.  *)
PutFirst ==
  /\ \/ Main("link", "sethead") /\ next' = [next EXCEPT ![n] = head]
        /\ UNCHANGED <<head, alarm>>
     \/ Main("sethead", "alarm") /\ head' = n /\ UNCHANGED <<next, alarm>>
     \/ Main("alarm", "return") /\ AlarmFor(ended_at[n], cur_time)
        /\ UNCHANGED <<next, head>>
  /\ UNCHANGED <<n, cur_time, cur, ended_at, fired>>

\* Mutant: the comparison is reversed.
GoesReversed == next[cur] # NULL /\ ended_at[next[cur]] > ended_at[n]

(* while (cur->next && cur->next->ended_at < node->ended_at) *)
Goes == next[cur] # NULL /\ ended_at[next[cur]] < ended_at[n]
Walk ==
  /\ Main("walk", IF Goes THEN "walk" ELSE "insert")
  /\ cur' = IF Goes THEN next[cur] ELSE cur
  /\ UNCHANGED <<n, cur_time, ended_at, next, head, alarm, fired>>

(* node->next = cur->next, then cur->next = node *)
Insert ==
  /\ \/ Main("insert", "insert2") /\ next' = [next EXCEPT ![n] = next[cur]]
     \/ Main("insert2", "return") /\ next' = [next EXCEPT ![cur] = n]
  /\ UNCHANGED <<n, cur_time, cur, ended_at, head, alarm, fired>>

(* The value returned is computed from head (NULL if a handler has emptied *)
(* the list) and then ignored: a build that computes it crashes.           *)
ReturnPush ==
  /\ \/ Main("return", "call") /\ n' = n + 1
     \/ Main("return", "crashed") /\ head = NULL /\ UNCHANGED n
  /\ UNCHANGED <<cur_time, cur, ended_at, next, head, alarm, fired>>

-----------------------------------------------------------------------------
(* alarm_proc.  SIGALRM is delivered: cur = head and cur->proc().  With an *)
(* empty list the dereference of NULL kills the process.                   *)
Deliver ==
  /\ hpc = "idle" /\ pending /\ pc # "crashed"
  /\ pending' = FALSE
  /\ interrupted' = (interrupted \/ InPush)
  /\ IF head = NULL
       THEN pc' = "crashed" /\ UNCHANGED <<hpc, fired>>
       ELSE RunProc(head) /\ hpc' = "rearm" /\ UNCHANGED pc
  /\ UNCHANGED <<seconds, n, cur_time, cur, ended_at, next, head, freed, alarm,
                 clock, lag, slow>>

\* Mutants: head moves on before the difference is taken; the deadline is
\* given to alarm() as it is; no alarm.
RearmHeadFirst ==
  /\ hpc = "rearm" /\ hpc' = "idle"
  /\ head' = next[head]
  /\ IF head' = NULL THEN UNCHANGED alarm
     ELSE IF next[head'] = NULL THEN UNCHANGED alarm
     ELSE AlarmFor(ended_at[next[head']], ended_at[head'])
  /\ UNCHANGED <<seconds, n, pc, cur_time, cur, ended_at, next, freed, pending,
                 clock, lag, fired, slow, interrupted>>
RearmAbsolute ==
  /\ hpc = "rearm" /\ hpc' = "idle"
  /\ IF next[head] = NULL THEN UNCHANGED alarm
                          ELSE AlarmFor(ended_at[next[head]], 0)
  /\ head' = next[head]
  /\ UNCHANGED <<seconds, n, pc, cur_time, cur, ended_at, next, freed, pending,
                 clock, lag, fired, slow, interrupted>>
RearmNoAlarm ==
  /\ hpc = "rearm" /\ hpc' = "idle"
  /\ head' = next[head]
  /\ UNCHANGED <<seconds, n, pc, cur_time, cur, ended_at, next, freed, alarm,
                 pending, clock, lag, fired, slow, interrupted>>

(* alarm() for the next node, free(head), head = cur->next.  The field is  *)
(* read after free: malloc leaves it as it was.  Freeing a node twice      *)
(* aborts.                                                                 *)
Rearm ==
  /\ hpc = "rearm" /\ hpc' = "idle"
  /\ IF next[head] = NULL THEN UNCHANGED alarm
                          ELSE AlarmFor(ended_at[next[head]], ended_at[head])
  /\ pc' = IF head \in freed THEN "crashed" ELSE pc
  /\ freed' = freed \union {head}
  /\ head' = next[head]
  /\ UNCHANGED <<seconds, n, cur_time, cur, ended_at, next, pending, clock,
                 lag, fired, slow, interrupted>>

-----------------------------------------------------------------------------
(* A second passes, and the alarm goes off if it is due.  While main       *)
(* pauses time passes freely (there is nothing to wait for without an      *)
(* alarm); at other times at most MaxLag seconds do.                       *)
Paused == MainAt("pause") /\ ~pending

Tick ==
  /\ pc # "crashed"
  /\ IF Paused THEN alarm # {} /\ UNCHANGED lag
               ELSE lag < MaxLag /\ lag' = lag + 1
  /\ clock' = clock + 1
  /\ IF clock + 1 \in alarm
       THEN pending' = TRUE /\ alarm' = {}
       ELSE UNCHANGED <<pending, alarm>>
  /\ slow' = (slow \/ InPush)
  /\ UNCHANGED <<seconds, n, pc, cur_time, cur, ended_at, next, head, freed, hpc,
                 fired, interrupted>>

MainStep ==
  \/ RunNow \/ NewTimer \/ Pause \/ ReadTime \/ ReadHead \/ Compare
  \/ PutFirst \/ Walk \/ Insert \/ ReturnPush

Next == MainStep \/ Deliver \/ Rearm \/ Tick

Spec == Init /\ [][Next]_vars

(* The program runs, time passes and signals are delivered. *)
FairSpec ==
  /\ Spec
  /\ WF_vars(MainStep)
  /\ WF_vars(Deliver)
  /\ WF_vars(Rearm)
  /\ WF_vars(Tick)

-----------------------------------------------------------------------------
TypeOK ==
  /\ n \in 1 .. Len(seconds) + 1
  /\ cur \in Timers \union {NULL} /\ head \in Timers \union {NULL}
  /\ freed \subseteq Timers
  /\ ended_at \in [Timers -> Nat] /\ fired \in [Timers -> Nat]
  /\ next \in [Timers -> Timers \union {NULL}]
  /\ alarm \subseteq Nat /\ clock \in Nat /\ cur_time \in Nat /\ lag \in 0 .. MaxLag
  /\ hpc = "rearm" => head # NULL
  /\ pc \in {"compare", "walk", "insert", "insert2"} => cur # NULL

(* Two timers of main have the same deadline. *)
SameDeadline ==
  \E j, k \in Timers :
    j # k /\ ended_at[j] = ended_at[k] /\ seconds[j] > 0 /\ seconds[k] > 0
      /\ ended_at[j] > 0

(* No proc runs before its deadline, unless a second passes inside a push: *)
(* the alarm that push sets can then come on top of one already due, and   *)
(* goes off for a timer that is set later.                                 *)
NeverEarly ==
  [][\A k \in Timers :
       fired'[k] > fired[k] /\ seconds[k] > 0 /\ ~slow' => clock >= ended_at[k]]_vars

(* A proc is late by no more than the seconds the program itself has used, *)
(* unless a second passes inside a push: re-arming with a relative alarm   *)
(* accumulates exactly that much.                                          *)
Punctual ==
  [][\A k \in Timers :
       fired'[k] > fired[k] /\ seconds[k] > 0 /\ ~slow'
         => clock <= ended_at[k] + lag]_vars

(* Each link of the list leads to a later deadline, even if a handler      *)
(* changes the list during a push.                                         *)
SortedLinks ==
  \A k \in Timers :
    next[k] # NULL => next[k] # k /\ ended_at[k] <= ended_at[next[k]]

(* A push that is not disturbed neither crashes the program nor makes a    *)
(* timer run twice.                                                        *)
SafeUndisturbed ==
  ~disturbed => pc # "crashed" /\ \A k \in Timers : fired[k] <= 1

(* The state is well typed, the list is sorted, and without a disturbed    *)
(* push nothing crashes or runs twice.                                     *)
Inv == TypeOK /\ SortedLinks /\ SafeUndisturbed

(* Every timer runs, unless a push was disturbed or two deadlines are the  *)
(* same.                                                                   *)
AllRun ==
  <>(disturbed \/ SameDeadline \/ \A k \in Timers : fired[k] = 1)

(* p5.c:52: alarm_proc triggers the event and starts the next timer.  When *)
(* main pauses after undisturbed pushes, and no signal is on its way, a    *)
(* waiting timer has an alarm.                                             *)
StartsNextTimer ==
  MainAt("pause") /\ ~disturbed /\ head # NULL /\ ~pending => alarm # {}
=============================================================================
