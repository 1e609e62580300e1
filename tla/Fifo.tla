-------------------------------- MODULE Fifo --------------------------------
(***************************************************************************)
(* What 17-4.c and 17-3.c promise for message queues: each message sent is *)
(* printed once, in the order of sending.  Only when 17-3 ends are         *)
(* messages lost: some of the oldest that are not yet printed.             *)
(***************************************************************************)
EXTENDS Naturals, Sequences

CONSTANTS Queues, Messages
VARIABLES
  waiting,  \* waiting[q]: messages sent and not printed, the oldest first
  printed,  \* printed[q]: messages printed, in order
  ends      \* how often 17-3 has ended

Init ==
  /\ waiting = [q \in Queues |-> <<>>]
  /\ printed = [q \in Queues |-> <<>>]
  /\ ends = 0

Send(q, m) ==
  /\ waiting' = [waiting EXCEPT ![q] = Append(@, m)]
  /\ UNCHANGED <<printed, ends>>

Output(q) ==
  /\ waiting[q] # <<>>
  /\ printed' = [printed EXCEPT ![q] = Append(@, Head(waiting[q]))]
  /\ waiting' = [waiting EXCEPT ![q] = Tail(@)]
  /\ UNCHANGED ends

Suffixes(s) == {SubSeq(s, k, Len(s)) : k \in 1 .. Len(s) + 1}

End ==
  /\ ends' = ends + 1
  /\ DOMAIN waiting' = Queues
  /\ \A q \in Queues : waiting'[q] \in Suffixes(waiting[q])
  /\ UNCHANGED printed

Next == End \/ \E q \in Queues : Output(q) \/ \E m \in Messages : Send(q, m)

Spec == Init /\ [][Next]_<<waiting, printed, ends>>
=============================================================================
