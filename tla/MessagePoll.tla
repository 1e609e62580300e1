----------------------------- MODULE MessagePoll -----------------------------
(***************************************************************************)
(* chapter_17: 17-3.c polls message queues.  It has a helper thread for    *)
(* each queue, which receives from the queue and writes to one end of a    *)
(* pair of datagram sockets; main polls the other ends.  Any number of     *)
(* processes 17-4.c send one message each.  The queues belong to the       *)
(* kernel and outlive 17-3, which may end (a signal, or err_sys at any of  *)
(* its calls) and be started again; its sockets and threads go with it.    *)
(***************************************************************************)
EXTENDS Integers, Sequences

CONSTANTS
  NQ,        \* number of queues
  MAXMSZ,    \* size of mtext and buf, 512 in the code
  Sends,     \* Sends[s] = [queue, len]: the arguments of the s-th 17-4
  QMax,      \* messages a queue holds
  SockMax,   \* datagrams a socket holds
  MaxEnds    \* bound: how often 17-3 ends

VARIABLES
  exists,    \* the queues that msgget has created
  msgq,      \* msgq[q]: the messages in it
  sender,    \* sender[s]: next statement of the s-th 17-4
  pc,        \* main of 17-3: "down", "setup", "poll", "read"
  i,         \* its local i
  held,      \* held[q]: the message in m of the helper for q, if there is one
  socket,    \* socket[q]: datagrams written and not read
  revents,   \* the sockets for which poll has set POLLIN
  buf,       \* its local buf, an array
  out,       \* out[q]: strings printed for queue q
  ends       \* how often 17-3 has ended

sendvars == <<exists, msgq, sender>>
pollvars == <<pc, i, held, socket, revents, buf, out, ends>>
vars == <<sendvars, pollvars>>

Queues == 0 .. NQ - 1
Senders == DOMAIN Sends
NUL == 0
JUNK == -1

\* Mutant: strncpy(m.mtext, argv[2], MAXMSZ)
MtextFull(s) ==
  [k \in 1 .. IF Sends[s].len < MAXMSZ THEN Sends[s].len ELSE MAXMSZ |-> s]

(* strncpy(m.mtext, argv[2], MAXMSZ - 1) and strlen.  The characters of    *)
(* the s-th message are s.                                                 *)
Mtext(s) ==
  [k \in 1 .. IF Sends[s].len < MAXMSZ THEN Sends[s].len ELSE MAXMSZ - 1 |-> s]

Init ==
  /\ exists = {} /\ msgq = [q \in Queues |-> <<>>]
  /\ sender = [s \in Senders |-> "msgget"]
  /\ pc = "down" /\ i = 0
  /\ held = [q \in Queues |-> <<>>] /\ socket = [q \in Queues |-> <<>>]
  /\ revents = {} /\ buf = [k \in 0 .. MAXMSZ - 1 |-> NUL]
  /\ out = [q \in Queues |-> <<>>] /\ ends = 0

-----------------------------------------------------------------------------
(* 17-4: msgget fails while no 17-3 has created the queue. *)
Msgget(s) ==
  /\ sender[s] = "msgget"
  /\ sender' = [sender EXCEPT ![s] = IF Sends[s].queue \in exists THEN "msgsnd" ELSE "failed"]
  /\ UNCHANGED <<exists, msgq, pollvars>>

(* msgsnd waits while the queue is full. *)
Msgsnd(s) ==
  LET q == Sends[s].queue IN
  /\ sender[s] = "msgsnd" /\ Len(msgq[q]) < QMax
  /\ msgq' = [msgq EXCEPT ![q] = Append(@, Mtext(s))]
  /\ sender' = [sender EXCEPT ![s] = "sent"]
  /\ UNCHANGED <<exists, pollvars>>

Sender(s) == Msgget(s) \/ Msgsnd(s)

-----------------------------------------------------------------------------
(* 17-3 *)
(* A new process finds anything in buf. *)
Start ==
  /\ pc = "down"
  /\ pc' = "setup" /\ i' = 0
  /\ \E c \in {NUL, JUNK} : buf' = [k \in 0 .. MAXMSZ - 1 |-> c]
  /\ UNCHANGED <<sendvars, held, socket, revents, out, ends>>

(* One round of the first loop: msgget, socketpair, pthread_create. *)
Setup ==
  /\ pc = "setup"
  /\ exists' = exists \union {i}
  /\ i' = i + 1
  /\ pc' = IF i' = NQ THEN "poll" ELSE "setup"
  /\ UNCHANGED <<msgq, sender, held, socket, revents, buf, out, ends>>

(* The helper of q, which runs once pthread_create has been called for it. *)
Created(q) == pc \in {"poll", "read"} \/ (pc = "setup" /\ q < i)

Msgrcv(q) ==
  /\ Created(q) /\ held[q] = <<>> /\ msgq[q] # <<>>
  /\ held' = [held EXCEPT ![q] = <<Head(msgq[q])>>]
  /\ msgq' = [msgq EXCEPT ![q] = Tail(@)]
  /\ UNCHANGED <<exists, sender, pc, i, socket, revents, buf, out, ends>>

Write(q) ==
  /\ held[q] # <<>> /\ Len(socket[q]) < SockMax
  /\ socket' = [socket EXCEPT ![q] = @ \o held[q]]
  /\ held' = [held EXCEPT ![q] = <<>>]
  /\ UNCHANGED <<sendvars, pc, i, revents, buf, out, ends>>

Helper(q) == Msgrcv(q) \/ Write(q)

\* Mutant: poll reports every socket.
PollAll ==
  /\ pc = "poll" /\ \E q \in Queues : socket[q] # <<>>
  /\ revents' = Queues /\ i' = 0 /\ pc' = "read"
  /\ UNCHANGED <<sendvars, held, socket, buf, out, ends>>

Poll ==
  /\ pc = "poll"
  /\ revents' = {q \in Queues : socket[q] # <<>>}
  /\ revents' # {}
  /\ i' = 0 /\ pc' = "read"
  /\ UNCHANGED <<sendvars, held, socket, buf, out, ends>>

(* The characters of the array b up to the first NUL. *)
String(b) ==
  LET n == CHOOSE k \in 0 .. MAXMSZ :
             (k = MAXMSZ \/ b[k] = NUL) /\ \A j \in 0 .. k - 1 : b[j] # NUL
  IN [k \in 1 .. n |-> b[k - 1]]

\* Mutant: the string is not terminated.
FilledOpen(m) ==
  [k \in 0 .. MAXMSZ - 1 |-> IF k < Len(m) THEN m[k + 1] ELSE buf[k]]

(* read(pfd[i].fd, buf, sizeof(buf)) of message m, and buf[n] = 0. *)
Filled(m) ==
  [k \in 0 .. MAXMSZ - 1 |->
     IF k < Len(m) THEN m[k + 1] ELSE IF k = Len(m) THEN NUL ELSE buf[k]]

(* One round of the loop over pfd. *)
Read ==
  /\ pc = "read"
  /\ IF i \in revents
       THEN /\ socket[i] # <<>>
            /\ socket' = [socket EXCEPT ![i] = Tail(@)]
            /\ buf' = Filled(Head(socket[i]))
            /\ out' = [out EXCEPT ![i] = Append(@, String(buf'))]
       ELSE UNCHANGED <<socket, buf, out>>
  /\ i' = i + 1
  /\ pc' = IF i' = NQ THEN "poll" ELSE "read"
  /\ UNCHANGED <<sendvars, held, revents, ends>>

Main == Setup \/ Poll \/ Read

(* The end of 17-3; what its helpers and sockets hold is lost.             *)
End ==
  /\ pc # "down" /\ ends < MaxEnds
  /\ pc' = "down" /\ ends' = ends + 1
  /\ held' = [q \in Queues |-> <<>>]
  /\ socket' = [q \in Queues |-> <<>>]
  /\ revents' = {} /\ i' = 0
  /\ buf' = [k \in 0 .. MAXMSZ - 1 |-> NUL]
  /\ UNCHANGED <<sendvars, out>>

Next ==
  \/ \E s \in Senders : Sender(s)
  \/ \E q \in Queues : Helper(q)
  \/ Start \/ Main \/ End

(* Every process and thread runs; nothing starts 17-3, or ends it.         *)
Fairness ==
  /\ WF_vars(Main)
  /\ \A s \in Senders : WF_vars(Sender(s))
  /\ \A q \in Queues : WF_vars(Helper(q))

Spec == Init /\ [][Next]_vars

-----------------------------------------------------------------------------
(* What is assumed of the constants. *)
Arguments ==
  /\ NQ \in Nat \ {0} /\ MAXMSZ \in Nat \ {0} /\ MaxEnds \in Nat
  /\ Sends \in Seq([queue : Queues, len : Nat])

Messages == {Mtext(s) : s \in Senders}

TypeOK ==
  /\ exists \subseteq Queues /\ revents \subseteq Queues
  /\ i \in 0 .. NQ /\ (pc \in {"setup", "read"} => i < NQ)
  /\ sender \in [Senders -> {"msgget", "msgsnd", "sent", "failed"}]
  /\ pc \in {"down", "setup", "poll", "read"}
  /\ msgq \in [Queues -> Seq(Messages)] /\ socket \in [Queues -> Seq(Messages)]
  /\ held \in [Queues -> {<<>>} \union {<<m>> : m \in Messages}]
  /\ out \in [Queues -> Seq(Messages)]
  /\ buf \in [0 .. MAXMSZ - 1 -> Int]
  /\ ends \in 0 .. MaxEnds

(* main's read never waits, so that no queue can hold up another: what     *)
(* poll has reported is there until main reads it.                         *)
ReadNeverWaits ==
  pc = "read" => \A q \in revents : q >= i => socket[q] # <<>>

(* buf[n] = 0 is inside buf, whatever is the length of 17-4's argument. *)
InsideBuf == \A q \in Queues : \A k \in DOMAIN socket[q] : Len(socket[q][k]) < MAXMSZ

(* The state is well typed, no read waits, and buf[n] exists.              *)
Inv == TypeOK /\ ReadNeverWaits /\ InsideBuf

(* Every queue is a Fifo: what is sent is printed unchanged, once and in   *)
(* order, whatever else goes on; only an end of 17-3 loses messages.       *)
Pending(q) == socket[q] \o held[q] \o msgq[q]
F == INSTANCE Fifo WITH
       waiting <- [q \in Queues |-> Pending(q)], printed <- out
QueuesAreFifo == F!Spec

(* Unless 17-3 ends for good, every message in a queue, or that waits for  *)
(* room in one, is printed: no other queue, no sender and no full socket   *)
(* holds it up, and what an end leaves in a queue is printed by the next.  *)
MessagesPrinted ==
  <>[](pc # "down" => /\ \A s \in Senders : sender[s] # "msgsnd"
                      /\ \A q \in Queues : Pending(q) = <<>>)
=============================================================================
