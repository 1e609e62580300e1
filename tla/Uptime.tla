------------------------------- MODULE Uptime -------------------------------
(***************************************************************************)
(* chapter_16: the client 16-16.c asks the daemon 16-17.c or 16-18.c for   *)
(* the output of uptime, over a stream socket.  Daemon 16-17 reads the     *)
(* output from popen and sends it line by line; 16-18 forks a child whose  *)
(* standard output is the socket.  Both use initserver, 16-12.c.           *)
(***************************************************************************)
EXTENDS Integers, Sequences, FiniteSets

CONSTANTS
  Clients,
  NoClient,    \* none of them
  Addresses,   \* number of addresses of the host: ailist
  MAXSLEEP,    \* 128 in the code
  QLEN,        \* 10 in the code
  Lines        \* lines that uptime prints
ASSUME ClientsAssumption == NoClient \notin Clients
ASSUME AddressesAssumption == Addresses \in Nat \ {0}
ASSUME MAXSLEEPAssumption == MAXSLEEP \in Nat \ {0}
ASSUME LinesAssumption == Lines \in Nat \ {0} /\ QLEN \in Nat

VARIABLES
  ruptimed,  \* which daemon runs
  spc,       \* next statement of the daemon
  saddr,     \* aip of the daemon, the address it listens at
  queue,     \* connections not yet accepted
  clfd,      \* the client being served
  holders,   \* holders[c]: processes with the daemon's end of c's connection
  child,     \* of 16-18: "none", "dup", "exec", "uptime", "zombie"
  left,      \* lines that uptime still has to print, or of popen to be sent
  stream,    \* stream[c]: lines sent to c and not yet received
  faulty,    \* history: the clients in serving whom popen, fork, dup2 or execl failed
  cpc,       \* cpc[c]: next statement of client c
  caddr,     \* its aip
  numsec,    \* its local of connect_retry
  slept,     \* seconds it has slept in connect_retry
  sockets,   \* sockets it has open
  received   \* lines it has written out

servervars == <<ruptimed, spc, saddr, clfd, child, left, faulty>>
clientvars == <<cpc, caddr, numsec, slept, sockets, received>>
connvars == <<queue, holders, stream>>
vars == <<servervars, clientvars, connvars>>

Popen == "16-17"
Forking == "16-18"

Init ==
  /\ ruptimed \in {Popen, Forking}
  /\ spc = "initserver" /\ saddr = 1
  /\ queue = <<>> /\ clfd = NoClient /\ child = "none" /\ left = 0
  /\ holders = [c \in Clients |-> {}]
  /\ stream = [c \in Clients |-> 0]
  /\ faulty = {}
  /\ cpc = [c \in Clients |-> "socket"]
  /\ caddr = [c \in Clients |-> 1]
  /\ numsec = [c \in Clients |-> 1]
  /\ slept = [c \in Clients |-> 0]
  /\ sockets = [c \in Clients |-> 0]
  /\ received = [c \in Clients |-> 0]

-----------------------------------------------------------------------------
(* The client. *)
Set(f, c, v) == [f EXCEPT ![c] = v]

(* connect_retry has returned -1: the next address or err_exit. *)
NextAddress(c) ==
  /\ cpc' = Set(cpc, c, IF caddr[c] < Addresses THEN "socket" ELSE "failed")
  /\ caddr' = Set(caddr, c, caddr[c] + 1)
  /\ numsec' = Set(numsec, c, 1)
  /\ slept' = Set(slept, c, 0)

Socket(c) ==
  /\ cpc[c] = "socket"
  /\ \/ cpc' = Set(cpc, c, "connect") /\ sockets' = Set(sockets, c, sockets[c] + 1)
        /\ UNCHANGED <<caddr, numsec, slept>>
     \/ NextAddress(c) /\ UNCHANGED sockets
  /\ UNCHANGED <<received, servervars, connvars>>

Listening(a) == spc \notin {"initserver", "exited"} /\ saddr = a

Connect(c) ==
  /\ cpc[c] = "connect"
  /\ \/ /\ Listening(caddr[c]) /\ Len(queue) < QLEN
        /\ queue' = Append(queue, c)
        /\ cpc' = Set(cpc, c, "recv")
     \/ cpc' = Set(cpc, c, "close") /\ UNCHANGED queue
  /\ UNCHANGED <<caddr, numsec, slept, sockets, received, servervars, holders, stream>>

(* close(fd), and sleep(numsec) unless it was the last try. *)
CloseAndSleep(c) ==
  /\ cpc[c] = "close"
  /\ sockets' = Set(sockets, c, sockets[c] - 1)
  /\ \/ /\ numsec[c] <= MAXSLEEP \div 2
        /\ cpc' = Set(cpc, c, "socket")
        /\ slept' = Set(slept, c, slept[c] + numsec[c])
        /\ numsec' = Set(numsec, c, 2 * numsec[c])
        /\ UNCHANGED caddr
     \/ numsec[c] > MAXSLEEP \div 2 /\ NextAddress(c)
  /\ UNCHANGED <<received, servervars, connvars>>

(* print_uptime: the data, then the end of file when no process has the    *)
(* other end open; an error if the daemon ends before it has accepted.     *)
Recv(c) ==
  /\ cpc[c] = "recv"
  /\ \/ /\ stream[c] > 0
        /\ stream' = Set(stream, c, stream[c] - 1)
        /\ received' = Set(received, c, received[c] + 1)
        /\ UNCHANGED cpc
     \/ /\ stream[c] = 0 /\ holders[c] = {}
        /\ c \notin {queue[k] : k \in DOMAIN queue}
        /\ cpc' = Set(cpc, c, "done") /\ UNCHANGED <<stream, received>>
     \/ /\ spc = "exited" /\ c \in {queue[k] : k \in DOMAIN queue}
        /\ cpc' = Set(cpc, c, "failed") /\ UNCHANGED <<stream, received>>
  /\ UNCHANGED <<caddr, numsec, slept, sockets, servervars, queue, holders>>

Client(c) == Socket(c) \/ Connect(c) \/ CloseAndSleep(c) \/ Recv(c)

-----------------------------------------------------------------------------
(* The daemon: initserver for each address until one succeeds. *)
Initserver ==
  /\ spc = "initserver"
  /\ \/ spc' = "accept" /\ UNCHANGED saddr
     \/ /\ spc' = IF saddr < Addresses THEN "initserver" ELSE "exited"
        /\ saddr' = saddr + 1
  /\ UNCHANGED <<ruptimed, clfd, child, left, faulty, clientvars, connvars>>

Accept ==
  /\ spc = "accept"
  /\ queue # <<>>
  /\ clfd' = Head(queue) /\ queue' = Tail(queue)
  /\ holders' = Set(holders, clfd', {"daemon"})
  /\ spc' = IF ruptimed = Popen THEN "popen" ELSE "fork"
  /\ UNCHANGED <<ruptimed, saddr, child, left, faulty, stream, clientvars>>

AcceptFails ==
  /\ spc = "accept" /\ spc' = "exited"
  /\ UNCHANGED <<ruptimed, saddr, clfd, child, left, faulty, clientvars, connvars>>

(* 16-17: popen, or a message about its failure in place of the output.    *)
DaemonPopen ==
  /\ spc = "popen" /\ spc' = "send"
  /\ \/ left' = Lines /\ UNCHANGED faulty
     \/ left' = 1 /\ faulty' = faulty \union {clfd}
  /\ UNCHANGED <<ruptimed, saddr, clfd, child, clientvars, connvars>>

Send ==
  /\ spc = "send" /\ left > 0
  /\ left' = left - 1
  /\ stream' = Set(stream, clfd, stream[clfd] + 1)
  /\ UNCHANGED <<ruptimed, spc, saddr, clfd, child, faulty, clientvars, queue, holders>>

CloseSent ==
  /\ spc = "send" /\ left = 0 /\ spc' = "accept"
  /\ holders' = Set(holders, clfd, holders[clfd] \ {"daemon"})
  /\ UNCHANGED <<ruptimed, saddr, clfd, child, left, faulty, clientvars, queue, stream>>

(* 16-18: fork; its failure ends the daemon. *)
Fork ==
  /\ spc = "fork"
  /\ \/ /\ spc' = "close" /\ child' = "dup"
        /\ holders' = Set(holders, clfd, {"daemon", "child"})
        /\ UNCHANGED faulty
     \/ /\ spc' = "exited" /\ faulty' = faulty \union {clfd}
        /\ holders' = Set(holders, clfd, {}) /\ UNCHANGED child
  /\ UNCHANGED <<ruptimed, saddr, clfd, left, clientvars, queue, stream>>

\* Mutant: the daemon keeps its descriptor of the connection.
KeepOpen ==
  /\ spc = "close" /\ spc' = "waitpid"
  /\ UNCHANGED <<ruptimed, saddr, clfd, child, left, faulty, clientvars, connvars>>

CloseForked ==
  /\ spc = "close" /\ spc' = "waitpid"
  /\ holders' = Set(holders, clfd, holders[clfd] \ {"daemon"})
  /\ UNCHANGED <<ruptimed, saddr, clfd, child, left, faulty, clientvars, queue, stream>>

Waitpid ==
  /\ spc = "waitpid" /\ child = "zombie"
  /\ spc' = "accept" /\ child' = "none"
  /\ UNCHANGED <<ruptimed, saddr, clfd, left, faulty, clientvars, connvars>>

Daemon ==
  \/ Initserver \/ Accept \/ DaemonPopen \/ Send \/ CloseSent
  \/ Fork \/ CloseForked \/ Waitpid

(* The child: dup2 to standard output and execl, either of which may fail; *)
(* then uptime writes to the socket and exits.                             *)
Dup ==
  /\ child = "dup"
  /\ \/ child' = "uptime" /\ left' = Lines /\ UNCHANGED <<faulty, holders>>
     \/ /\ child' = "zombie" /\ faulty' = faulty \union {clfd}
        /\ holders' = Set(holders, clfd, holders[clfd] \ {"child"}) /\ UNCHANGED left
  /\ UNCHANGED <<ruptimed, spc, saddr, clfd, clientvars, queue, stream>>

UptimePrints ==
  /\ child = "uptime"
  /\ \/ /\ left > 0 /\ left' = left - 1
        /\ stream' = Set(stream, clfd, stream[clfd] + 1)
        /\ UNCHANGED <<child, holders>>
     \/ /\ left = 0 /\ child' = "zombie"
        /\ holders' = Set(holders, clfd, holders[clfd] \ {"child"})
        /\ UNCHANGED <<left, stream>>
  /\ UNCHANGED <<ruptimed, spc, saddr, clfd, faulty, clientvars, queue>>

ChildStep == Dup \/ UptimePrints

Next == Daemon \/ AcceptFails \/ ChildStep \/ \E c \in Clients : Client(c)

Spec == Init /\ [][Next]_vars

(* Every process runs; accept need not fail. *)
Fairness ==
  /\ WF_vars(Daemon) /\ WF_vars(ChildStep)
  /\ \A c \in Clients : WF_vars(Client(c))

-----------------------------------------------------------------------------
TypeOK ==
  /\ ruptimed \in {Popen, Forking}
  /\ spc \in {"initserver", "accept", "popen", "send", "fork", "close", "waitpid", "exited"}
  /\ child \in {"none", "dup", "uptime", "zombie"}
  /\ clfd \in Clients \union {NoClient} /\ left \in 0 .. Lines /\ saddr \in Nat
  /\ queue \in Seq(Clients) /\ Len(queue) <= QLEN
  /\ holders \in [Clients -> SUBSET {"daemon", "child"}]
  /\ faulty \subseteq Clients
  /\ stream \in [Clients -> Nat] /\ received \in [Clients -> Nat]
  /\ cpc \in [Clients -> {"socket", "connect", "close", "recv", "done", "failed"}]
  /\ caddr \in [Clients -> Nat] /\ numsec \in [Clients -> Nat]
  /\ slept \in [Clients -> Nat] /\ sockets \in [Clients -> Nat]

(* connect_retry sleeps MAXSLEEP - 1 seconds in all for an address, holds  *)
(* a socket while it tries to connect and none while it sleeps.            *)
Retries ==
  \A c \in Clients :
    /\ numsec[c] > 0 /\ slept[c] = numsec[c] - 1 /\ numsec[c] <= MAXSLEEP
    /\ cpc[c] # "failed" => sockets[c] = IF cpc[c] = "socket" THEN 0 ELSE 1

(* A client is unconnected, in the queue, being served, or behind it; the  *)
(* queue has it once.                                                      *)
QueuedOnce == \A j, k \in DOMAIN queue : queue[j] = queue[k] => j = k
InQueue(c) == \E k \in DOMAIN queue : queue[k] = c
Serves(c) == spc \in {"popen", "send", "fork", "close", "waitpid"} /\ clfd = c
Sent(c) == stream[c] + received[c]
Phase(c) ==
  /\ InQueue(c) => /\ cpc[c] = "recv" \/ (cpc[c] = "failed" /\ spc = "exited")
                   /\ Sent(c) = 0 /\ holders[c] = {} /\ ~Serves(c)
  /\ Serves(c) => cpc[c] \in {"recv", "done"}
  /\ holders[c] # {} => Serves(c) /\ cpc[c] = "recv"
  /\ cpc[c] \in {"socket", "connect", "close", "failed"} => Sent(c) = 0
  /\ cpc[c] \in {"recv", "done"} /\ ~InQueue(c) /\ ~Serves(c) =>
       Sent(c) <= Lines /\ (c \notin faulty => Sent(c) = Lines)
  /\ cpc[c] = "done" => stream[c] = 0 /\ ~InQueue(c)
Phases == QueuedOnce /\ \A c \in Clients : Phase(c)

(* What the daemon has open, and has sent, at each statement of serve.     *)
Service ==
  /\ spc \in {"popen", "send", "fork", "close", "waitpid"} => clfd \in Clients
  /\ child # "none" <=> spc \in {"close", "waitpid"}
  /\ spc \in {"popen", "fork"} => Sent(clfd) = 0 /\ holders[clfd] = {"daemon"}
  /\ spc = "send" => /\ holders[clfd] = {"daemon"} /\ Sent(clfd) + left <= Lines
                     /\ clfd \notin faulty => Sent(clfd) + left = Lines
  /\ spc \in {"close", "waitpid"} =>
       /\ "daemon" \in holders[clfd] <=> spc = "close"
       /\ "child" \in holders[clfd] <=> child # "zombie"
       /\ Sent(clfd) <= Lines
       /\ child = "dup" => Sent(clfd) = 0
       /\ child = "uptime" => Sent(clfd) + left = Lines
       /\ child = "zombie" /\ clfd \notin faulty => Sent(clfd) = Lines

(* A client that ends well has the whole output, unless the daemon's popen *)
(* or the daemon's child failed.                                           *)
Complete ==
  \A c \in Clients : cpc[c] = "done" /\ c \notin faulty => received[c] = Lines

(* One client is served at a time. *)
OneAtATime == Cardinality({c \in Clients : holders[c] # {}}) <= 1

(* The state is well typed, retries are bounded, one client is served at a *)
(* time and gets all of the output.                                        *)
Inv == TypeOK /\ Retries /\ Phases /\ Service /\ Complete /\ OneAtATime

(* Every client ends: it gives up connecting, or it is served to the end.  *)
StreamClientsEnd == <>(\A c \in Clients : cpc[c] \in {"done", "failed"})
=============================================================================
