------------------------------ MODULE Datagrams ------------------------------
(***************************************************************************)
(* chapter_16: the daemon 16-20.c answers the clients 16-19.c, over        *)
(* datagrams that the network may lose, delay, reorder and duplicate.  A   *)
(* client asks once, at the first of the host's addresses for which it     *)
(* gets a socket; only its SIGALRM ends a wait for an answer.  (What       *)
(* SIGALRM does to one such wait, second by second, is in AlarmWaits.)     *)
(***************************************************************************)
EXTENDS Integers

CONSTANTS
  Askers,       \* the clients
  Nobody,       \* none of them
  Hosts,        \* number of addresses of the host: ailist
  MaxCopies     \* bound: datagrams that the network duplicates

Bounds == Hosts \in Nat \ {0} /\ MaxCopies \in Nat /\ Nobody \notin Askers

VARIABLES
  dpc,      \* next statement of the daemon
  bound,    \* its aip, the address it is bound to
  addr,     \* its addr, the client being answered, or Nobody
  text,     \* what of its buf it sends: "none", "uptime" or "error"
  kpc,      \* kpc[c]: next statement of client c
  aip,      \* its aip
  got,      \* the answer it has written out
  missed,   \* history: its SIGALRM came before recvfrom
  net,      \* the datagrams under way
  copies,   \* how many the network has duplicated
  lost      \* history: the clients to whom or from whom a datagram was lost

daemonvars == <<dpc, bound, addr, text>>
askervars == <<kpc, aip, got, missed>>
netvars == <<net, copies, lost>>
vars == <<daemonvars, askervars, netvars>>

Ask(c, a) == [kind |-> "ask", client |-> c, what |-> a]
Answer(c, t) == [kind |-> "answer", client |-> c, what |-> t]

Init ==
  /\ dpc = "initserver" /\ bound = 1 /\ addr = Nobody /\ text = "none"
  /\ kpc = [c \in Askers |-> "socket"] /\ aip = [c \in Askers |-> 1]
  /\ got = [c \in Askers |-> "none"] /\ missed = [c \in Askers |-> FALSE]
  /\ net = {} /\ copies = 0 /\ lost = {}

-----------------------------------------------------------------------------
(* The network delivers d, perhaps for the first of several times.         *)
Deliver(d) ==
  /\ \/ net' = net \ {d} /\ UNCHANGED copies
     \/ net' = net /\ copies < MaxCopies /\ copies' = copies + 1
  /\ UNCHANGED lost

Lose(d) ==
  /\ net' = net \ {d} /\ lost' = lost \union {d.client}
  /\ UNCHANGED <<copies, daemonvars, askervars>>

-----------------------------------------------------------------------------
(* The client: the first address for which there is a socket, or none.     *)
Socket(c) ==
  /\ kpc[c] = "socket"
  /\ \/ kpc' = [kpc EXCEPT ![c] = "sendto"] /\ UNCHANGED aip
     \/ /\ aip' = [aip EXCEPT ![c] = @ + 1]
        /\ kpc' = [kpc EXCEPT ![c] = IF aip[c] < Hosts THEN "socket" ELSE "failed"]
  /\ UNCHANGED <<got, missed, netvars, daemonvars>>

(* sendto and alarm(TIMEOUT) *)
SendAsk(c) ==
  /\ kpc[c] = "sendto"
  /\ \/ kpc' = [kpc EXCEPT ![c] = "recvfrom"] /\ net' = net \union {Ask(c, aip[c])}
     \/ kpc' = [kpc EXCEPT ![c] = "failed"] /\ UNCHANGED net
  /\ UNCHANGED <<aip, got, missed, copies, lost, daemonvars>>

(* The call of recvfrom, whatever has happened to the alarm meanwhile.     *)
CallRecv(c) ==
  /\ kpc[c] = "recvfrom" /\ kpc' = [kpc EXCEPT ![c] = "waiting"]
  /\ UNCHANGED <<aip, got, missed, netvars, daemonvars>>

(* SIGALRM: sigalrm does nothing but interrupt a recvfrom that waits.      *)
Sigalrm(c) ==
  /\ \/ /\ kpc[c] = "recvfrom" /\ ~missed[c]
        /\ missed' = [missed EXCEPT ![c] = TRUE] /\ UNCHANGED kpc
     \/ /\ kpc[c] = "waiting" /\ ~missed[c]
        /\ kpc' = [kpc EXCEPT ![c] = "timeout"] /\ UNCHANGED missed
  /\ UNCHANGED <<aip, got, netvars, daemonvars>>

(* recvfrom returns an answer, to be written out, or fails. *)
RecvAnswer(c) ==
  /\ kpc[c] = "waiting"
  /\ \E d \in net : /\ d.kind = "answer" /\ d.client = c /\ Deliver(d)
                    /\ got' = [got EXCEPT ![c] = d.what]
  /\ kpc' = [kpc EXCEPT ![c] = "done"]
  /\ UNCHANGED <<aip, missed, daemonvars>>

RecvFails(c) ==
  /\ kpc[c] = "waiting" /\ kpc' = [kpc EXCEPT ![c] = "failed"]
  /\ UNCHANGED <<aip, got, missed, netvars, daemonvars>>

Asker(c) == Socket(c) \/ SendAsk(c) \/ CallRecv(c) \/ RecvAnswer(c)

-----------------------------------------------------------------------------
(* The daemon: initserver for each address until one succeeds. *)
Initserver ==
  /\ dpc = "initserver"
  /\ \/ dpc' = "recvfrom" /\ UNCHANGED bound
     \/ /\ bound' = bound + 1
        /\ dpc' = IF bound < Hosts THEN "initserver" ELSE "exited"
  /\ UNCHANGED <<addr, text, netvars, askervars>>

(* serve: a request for the address the daemon is bound to, or an error.   *)
Recvfrom ==
  /\ dpc = "recvfrom" /\ dpc' = "popen"
  /\ \E d \in net : /\ d.kind = "ask" /\ d.what = bound /\ Deliver(d)
                    /\ addr' = d.client
  /\ UNCHANGED <<bound, text, askervars>>

RecvfromFails ==
  /\ dpc = "recvfrom" /\ dpc' = "exited"
  /\ UNCHANGED <<bound, addr, text, askervars, netvars>>

(* popen and fgets: a line, a message about a failed popen, or nothing.    *)
Popen ==
  /\ dpc = "popen"
  /\ \/ text' \in {"uptime", "error"} /\ dpc' = "sendto" /\ UNCHANGED lost
        /\ UNCHANGED addr
     \/ /\ UNCHANGED text /\ dpc' = "recvfrom" /\ lost' = lost \union {addr}
        /\ addr' = Nobody
  /\ UNCHANGED <<bound, net, copies, askervars>>

\* Mutant: a failed popen is not answered.
SendtoLines ==
  /\ dpc = "sendto" /\ dpc' = "recvfrom"
  /\ net' = net \union (IF text = "uptime" THEN {Answer(addr, text)} ELSE {})
  /\ addr' = Nobody /\ text' = "none"
  /\ UNCHANGED <<bound, copies, lost, askervars>>

Sendto ==
  /\ dpc = "sendto" /\ dpc' = "recvfrom"
  /\ net' = net \union {Answer(addr, text)}
  /\ addr' = Nobody /\ text' = "none"
  /\ UNCHANGED <<bound, copies, lost, askervars>>

Daemon == Initserver \/ Recvfrom \/ Popen \/ Sendto

Next ==
  \/ Daemon \/ RecvfromFails \/ \E d \in net : Lose(d)
  \/ \E c \in Askers : Asker(c) \/ RecvFails(c) \/ Sigalrm(c)

(* Daemon and clients run and alarms expire; what is not lost arrives.     *)
Fairness ==
  /\ WF_vars(Daemon)
  /\ \A c \in Askers : WF_vars(Asker(c)) /\ WF_vars(Sigalrm(c))

Spec == Init /\ [][Next]_vars

-----------------------------------------------------------------------------
TypeOK ==
  /\ dpc \in {"initserver", "recvfrom", "popen", "sendto", "exited"}
  /\ bound \in 1 .. Hosts + 1 /\ copies <= MaxCopies
  /\ kpc \in [Askers -> {"socket", "sendto", "recvfrom", "waiting",
                         "done", "timeout", "failed"}]
  /\ dpc \in {"popen", "sendto"} => addr \in Askers

(* Only who has asked is answered, with a text of the daemon; and while    *)
(* the daemon stands, a client whose request it has not taken and that was *)
(* not lost still has it under way.                                        *)
Asked(c) == kpc[c] \notin {"socket", "sendto"}
Answered == \A d \in net : d.kind = "answer" => Asked(d.client) /\ d.what # "none"
Reachable(c) == dpc # "exited" /\ bound = aip[c] /\ c \notin lost
Accounted ==
  \A c \in Askers :
    kpc[c] = "waiting" /\ Reachable(c) =>
      (\E d \in net : d.client = c) \/ (addr = c /\ dpc \in {"popen", "sendto"})

(* The state is well typed; each client that waits and whose datagrams are *)
(* not lost has a request or an answer under way or in the daemon's hands. *)
Inv == TypeOK /\ Answered /\ Accounted

(* Every client ends, answered, timed out or failed, unless its SIGALRM    *)
(* came before recvfrom and it cannot be answered: that one waits forever. *)
AskersEnd ==
  <>[](\A c \in Askers :
         kpc[c] \in {"done", "timeout", "failed"} \/ (missed[c] /\ ~Reachable(c)))
=============================================================================
