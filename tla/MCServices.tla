----------------------------- MODULE MCServices -----------------------------
(***************************************************************************)
(* The services of chapters 16 and 17 for TLC: Uptime (stream sockets),    *)
(* Datagrams, and MessagePoll.  Init chooses one; the variables of the     *)
(* others stay as they are.                                                *)
(***************************************************************************)
EXTENDS Uptime

CONSTANTS Askers, Nobody, Hosts, MaxCopies, NQ, MAXMSZ, Sends, QMax, SockMax, MaxEnds
VARIABLES
  service,
  dpc, bound, addr, text, kpc, aip, got, missed, net, copies, lost,
  exists, msgq, sender, pc, i, held, socket, revents, buf, out, ends
dgramvars == <<dpc, bound, addr, text, kpc, aip, got, missed, net, copies, lost>>
msgvars == <<exists, msgq, sender, pc, i, held, socket, revents, buf, out, ends>>

(* Three messages for queue 0, one of them too long, and one for queue 1.  *)
MCSends == <<[queue |-> 0, len |-> MAXMSZ + 2], [queue |-> 0, len |-> 1],
             [queue |-> 0, len |-> 2], [queue |-> 1, len |-> 2]>>

D == INSTANCE Datagrams
P == INSTANCE MessagePoll

(* The constants are as 17-3 and 17-4 have them. *)
ASSUME PollArguments == P!Arguments
ASSUME DatagramBounds == D!Bounds

StreamInit == Init
DatagramInit == D!Init
PollInit == P!Init

MCInit ==
  /\ service \in {"stream", "datagram", "messages"}
  /\ StreamInit /\ (service # "stream" => ruptimed = Popen)
  /\ DatagramInit
  /\ PollInit

MCNext ==
  /\ \/ service = "stream" /\ Next /\ UNCHANGED <<dgramvars, msgvars>>
     \/ service = "datagram" /\ D!Next /\ UNCHANGED <<vars, msgvars>>
     \/ service = "messages" /\ P!Next /\ UNCHANGED <<vars, dgramvars>>
  /\ UNCHANGED service

(* Fairness of the three modules, for the one that runs. *)
MCFairness ==
  /\ WF_vars(service = "stream" /\ Daemon) /\ WF_vars(service = "stream" /\ ChildStep)
  /\ \A c \in Clients : WF_vars(service = "stream" /\ Client(c))
  /\ WF_dgramvars(service = "datagram" /\ D!Daemon)
  /\ \A c \in Askers : /\ WF_dgramvars(service = "datagram" /\ D!Asker(c))
                       /\ WF_dgramvars(service = "datagram" /\ D!Sigalrm(c))
  /\ WF_msgvars(service = "messages" /\ P!Main)
  /\ \A s \in P!Senders : WF_msgvars(service = "messages" /\ P!Sender(s))
  /\ \A q \in P!Queues : WF_msgvars(service = "messages" /\ P!Helper(q))

MCSpec == MCInit /\ [][MCNext]_<<service, vars, dgramvars, msgvars>> /\ MCFairness

(* The invariants of the three: the stream service serves one client at a  *)
(* time and completely, no datagram is unaccounted for, and no read of     *)
(* 17-3 waits or fills buf.                                                *)
ServicesInv == Inv /\ D!Inv /\ P!Inv

(* Every stream client ends. *)
ClientsEnd == service = "stream" => StreamClientsEnd

(* Every datagram client ends, but for a missed alarm without an answer.   *)
AskersEnd == service = "datagram" => D!AskersEnd

(* The queues of 17-3 and 17-4 are first-in-first-out, but for its ends.   *)
QueuesAreFifo == P!QueuesAreFifo

(* Messages are printed unless 17-3 ends. *)
MessagesPrinted == service = "messages" => P!MessagesPrinted
=============================================================================
