-------------------------- MODULE MCServices_proofs --------------------------
(***************************************************************************)
(* The services of chapters 16 and 17 for every value of the bounds: 16-16 *)
(* with 16-17 or 16-18, for any number of clients, addresses, lines,       *)
(* length of the backlog and MAXSLEEP; 16-19 with 16-20 over any network;  *)
(* and 17-3 with any list of 17-4, whose proofs are in MessagePoll_proofs. *)
(***************************************************************************)
EXTENDS MCServices, SequenceTheorems, FiniteSetTheorems, TLAPS

(* The backlog when a connection comes to it, and when accept takes one.   *)
LEMMA Connected ==
  ASSUME queue \in Seq(Clients), NEW c \in Clients, QueuedOnce, ~InQueue(c),
         queue' = Append(queue, c)
  PROVE  /\ queue' \in Seq(Clients) /\ Len(queue') = Len(queue) + 1 /\ QueuedOnce'
         /\ \A d \in Clients : InQueue(d)' <=> InQueue(d) \/ d = c
<1>1. /\ Len(queue) \in Nat /\ DOMAIN queue = 1 .. Len(queue)
      /\ queue' \in Seq(Clients) /\ Len(queue') = Len(queue) + 1
      /\ \A k \in 1 .. Len(queue) : queue'[k] = queue[k]
      /\ queue'[Len(queue) + 1] = c
  BY AppendProperties, LenProperties
<1>2. DOMAIN queue' = 1 .. Len(queue) + 1
  BY <1>1, LenProperties
<1>3. QueuedOnce'
  BY <1>1, <1>2 DEF QueuedOnce, InQueue
<1>4. \A d \in Clients : InQueue(d)' <=> InQueue(d) \/ d = c
  BY <1>1, <1>2 DEF InQueue
<1> QED BY <1>1, <1>3, <1>4

LEMMA Accepted ==
  ASSUME queue \in Seq(Clients), queue # <<>>, QueuedOnce, queue' = Tail(queue)
  PROVE  /\ queue' \in Seq(Clients) /\ Len(queue') <= Len(queue) /\ QueuedOnce'
         /\ Head(queue) \in Clients /\ InQueue(Head(queue))
         /\ \A d \in Clients : InQueue(d)' <=> InQueue(d) /\ d # Head(queue)
<1>1. /\ Len(queue) \in Nat \ {0} /\ DOMAIN queue = 1 .. Len(queue)
      /\ queue' \in Seq(Clients) /\ Len(queue') = Len(queue) - 1
      /\ \A k \in 1 .. Len(queue) - 1 : queue'[k] = queue[k + 1]
      /\ Head(queue) = queue[1] /\ Head(queue) \in Clients
  BY HeadTailProperties, LenProperties, EmptySeq
<1>2. DOMAIN queue' = 1 .. Len(queue) - 1
  BY <1>1, LenProperties
<1>3. InQueue(Head(queue))
  BY <1>1 DEF InQueue
<1>4. QueuedOnce'
  BY <1>1, <1>2 DEF QueuedOnce
<1>5. ASSUME NEW d \in Clients PROVE InQueue(d)' <=> InQueue(d) /\ d # Head(queue)
  <2>1. ASSUME InQueue(d)' PROVE InQueue(d) /\ d # Head(queue)
    <3>1. PICK k \in 1 .. Len(queue) - 1 : queue[k + 1] = d
      BY <1>1, <1>2, <2>1 DEF InQueue
    <3> QED BY <1>1, <3>1 DEF InQueue, QueuedOnce
  <2>2. ASSUME InQueue(d), d # Head(queue) PROVE InQueue(d)'
    <3>1. PICK k \in 1 .. Len(queue) : queue[k] = d
      BY <1>1, <2>2 DEF InQueue
    <3>2. k - 1 \in 1 .. Len(queue) - 1 /\ queue'[k - 1] = d
      BY <1>1, <2>2, <3>1
    <3> QED BY <1>2, <3>2 DEF InQueue
  <2> QED BY <2>1, <2>2
<1> QED BY <1>1, <1>3, <1>4, <1>5

LEMMA InitInv == Init => Inv
<1> SUFFICES ASSUME Init PROVE Inv
  OBVIOUS
<1> USE MAXSLEEPAssumption, LinesAssumption DEF Init, Popen, Forking
<1>1. TypeOK
  BY EmptySeq DEF TypeOK
<1>2. Retries
  BY DEF Retries
<1>3. Phases
  BY DEF Phases, Phase, QueuedOnce, InQueue, Serves, Sent
<1>4. Service /\ Complete
  BY DEF Service, Complete
<1>5. OneAtATime
  <2>1. {c \in Clients : holders[c] # {}} = {}
    OBVIOUS
  <2> QED BY SMTT(30), <2>1, FS_EmptySet DEF OneAtATime
<1> QED BY <1>1, <1>2, <1>3, <1>4, <1>5 DEF Inv

(* What follows from the phases of the clients. *)
LEMMA Consequences ==
  ASSUME TypeOK, Phases, Service
  PROVE  Complete /\ OneAtATime
<1>1. Complete
  <2> SUFFICES ASSUME NEW c \in Clients, cpc[c] = "done", c \notin faulty
               PROVE  received[c] = Lines
    BY DEF Complete
  <2>1. stream[c] = 0 /\ ~InQueue(c) /\ holders[c] = {} /\ received[c] \in Nat
    BY DEF Phases, Phase, TypeOK
  <2>2. Sent(c) = received[c]
    BY <2>1 DEF Sent
  <2>3. CASE ~Serves(c)
    BY <2>1, <2>2, <2>3 DEF Phases, Phase
  <2>4. CASE Serves(c)
    BY <2>1, <2>2, <2>4 DEF Serves, Service
  <2> QED BY <2>3, <2>4
<1>2. OneAtATime
  <2>1. {c \in Clients : holders[c] # {}} \subseteq {clfd}
    BY DEF Phases, Phase, Serves
  <2>2. /\ IsFiniteSet({clfd}) /\ Cardinality({clfd}) = 1
    BY FS_Singleton
  <2>3. /\ IsFiniteSet({c \in Clients : holders[c] # {}})
        /\ Cardinality({c \in Clients : holders[c] # {}}) <= 1
    BY <2>1, <2>2, FS_Subset
  <2> QED BY <2>3 DEF OneAtATime
<1> QED BY <1>1, <1>2


-----------------------------------------------------------------------------
LEMMA ClientTypes ==
  ASSUME TypeOK, NEW c \in Clients
  PROVE  /\ numsec[c] \in Nat /\ slept[c] \in Nat /\ sockets[c] \in Nat /\ caddr[c] \in Nat
         /\ stream[c] \in Nat /\ received[c] \in Nat
         /\ holders[c] \in SUBSET {"daemon", "child"}
         /\ cpc[c] \in {"socket", "connect", "close", "recv", "done", "failed"}
BY DEF TypeOK

(* connect_retry begins anew for the next address. *)
LEMMA NextAddressTypes ==
  ASSUME TypeOK, NEW c \in Clients, NextAddress(c)
  PROVE  /\ cpc' \in [Clients -> {"socket", "connect", "close", "recv", "done", "failed"}]
         /\ caddr' \in [Clients -> Nat] /\ numsec' \in [Clients -> Nat]
         /\ slept' \in [Clients -> Nat]
<1>1. caddr[c] + 1 \in Nat
  BY DEF TypeOK
<1>2. (IF caddr[c] < Addresses THEN "socket" ELSE "failed") \in {"socket", "failed"}
  OBVIOUS
<1> QED BY <1>1, <1>2 DEF NextAddress, Set, TypeOK

LEMMA TypeStep ==
  ASSUME Inv, [Next]_vars
  PROVE  TypeOK'
<1> USE LinesAssumption, AddressesAssumption DEF TypeOK
<1>0. TypeOK /\ Retries /\ Phases /\ Service
  BY DEF Inv
(* the clients *)
<1>1. ASSUME NEW c \in Clients, Socket(c) PROVE TypeOK'
  <2>1. UNCHANGED <<received, servervars, connvars>>
    BY <1>1 DEF Socket
  <2>2. CASE NextAddress(c) /\ UNCHANGED sockets
    BY <1>0, <2>1, <2>2, NextAddressTypes DEF servervars, connvars
  <2>3. CASE /\ cpc' = Set(cpc, c, "connect") /\ sockets' = Set(sockets, c, sockets[c] + 1)
             /\ UNCHANGED <<caddr, numsec, slept>>
    <3>1. sockets[c] + 1 \in Nat
      <4>1. sockets[c] \in Nat
        BY <1>0, ClientTypes
      <4> QED BY <4>1
    <3>2. /\ sockets' \in [Clients -> Nat]
          /\ cpc' \in [Clients -> {"socket", "connect", "close", "recv", "done", "failed"}]
      BY <1>0, <2>3, <3>1 DEF Set
    <3> QED BY <1>0, <2>1, <2>3, <3>2 DEF servervars, connvars
  <2> QED BY <1>1, <2>2, <2>3 DEF Socket
<1>2. ASSUME NEW c \in Clients, Connect(c) PROVE TypeOK'
  <2>1. CASE queue' = Append(queue, c) /\ Len(queue) < QLEN /\ cpc' = Set(cpc, c, "recv")
    <3>1. /\ queue' \in Seq(Clients) /\ Len(queue') = Len(queue) + 1 /\ Len(queue) \in Nat
      BY <1>0, <2>1, AppendProperties, LenProperties
    <3>2. Len(queue') <= QLEN
      BY <2>1, <3>1
    <3> QED BY <1>0, <1>2, <2>1, <3>1, <3>2 DEF Connect, Set, servervars
  <2>2. CASE UNCHANGED queue /\ cpc' = Set(cpc, c, "close")
    BY <1>0, <1>2, <2>2 DEF Connect, Set, servervars
  <2> QED BY <1>2, <2>1, <2>2 DEF Connect
<1>3. ASSUME NEW c \in Clients, CloseAndSleep(c) PROVE TypeOK'
  <2>1. sockets[c] = 1
    BY <1>0, <1>3 DEF CloseAndSleep, Retries
  <2>2. /\ UNCHANGED <<received, servervars, connvars>>
        /\ sockets' \in [Clients -> Nat]
    BY <1>0, <1>3, <2>1 DEF CloseAndSleep, Set
  <2>3. CASE NextAddress(c)
    BY <1>0, <2>2, <2>3, NextAddressTypes DEF servervars, connvars
  <2>4. CASE /\ cpc' = Set(cpc, c, "socket") /\ slept' = Set(slept, c, slept[c] + numsec[c])
             /\ numsec' = Set(numsec, c, 2 * numsec[c]) /\ UNCHANGED caddr
    <3>1. slept[c] + numsec[c] \in Nat /\ 2 * numsec[c] \in Nat
      <4>1. slept[c] \in Nat /\ numsec[c] \in Nat
        BY <1>0, ClientTypes
      <4> QED BY <4>1
    <3> QED BY <1>0, <2>2, <2>4, <3>1 DEF Set, servervars, connvars
  <2> QED BY <1>3, <2>3, <2>4 DEF CloseAndSleep
<1>4. ASSUME NEW c \in Clients, Recv(c) PROVE TypeOK'
  <2>1. /\ UNCHANGED <<caddr, numsec, slept, sockets, servervars, queue, holders>>
        /\ cpc' \in [Clients -> {"socket", "connect", "close", "recv", "done", "failed"}]
    BY <1>0, <1>4 DEF Recv, Set
  <2>2. CASE UNCHANGED <<stream, received>>
    BY <1>0, <2>1, <2>2 DEF servervars
  <2>3. CASE /\ stream[c] > 0 /\ stream' = Set(stream, c, stream[c] - 1)
             /\ received' = Set(received, c, received[c] + 1)
    <3>1. stream[c] - 1 \in Nat /\ received[c] + 1 \in Nat
      BY SMTT(30), <1>0, <2>3
    <3>2. stream' \in [Clients -> Nat] /\ received' \in [Clients -> Nat]
      BY <1>0, <2>3, <3>1 DEF Set
    <3> QED BY <1>0, <2>1, <3>2 DEF servervars
  <2> QED BY <1>4, <2>2, <2>3 DEF Recv
(* the daemon *)
<1>5. CASE Initserver
  BY SMTT(30), <1>0, <1>5 DEF Initserver, clientvars, connvars
<1>6. CASE Accept
  <2>1. /\ queue' \in Seq(Clients) /\ Len(queue') <= Len(queue) /\ Head(queue) \in Clients
    BY <1>0, <1>6, Accepted DEF Accept, Phases
  <2>2. Len(queue') <= QLEN
    BY <1>0, <2>1, LenProperties
  <2> QED BY <1>0, <1>6, <2>1, <2>2 DEF Accept, Set, clientvars
<1>7. CASE AcceptFails
  BY <1>0, <1>7 DEF AcceptFails, clientvars, connvars
<1>8. CASE DaemonPopen
  BY SMTT(30), <1>0, <1>8 DEF DaemonPopen, Service, clientvars, connvars
<1>9. CASE Send
  BY SMTT(30), <1>0, <1>9 DEF Send, Service, Set, clientvars
<1>10. CASE CloseSent
  BY <1>0, <1>10 DEF CloseSent, Set, clientvars
<1>11. CASE Fork
  <2>1. /\ clfd \in Clients
        /\ UNCHANGED <<ruptimed, saddr, clfd, left, clientvars, queue, stream>>
    BY <1>0, <1>11 DEF Fork, Service
  <2>2. holders' \in [Clients -> SUBSET {"daemon", "child"}]
    BY <1>0, <1>11, <2>1 DEF Fork, Set
  <2>3. faulty' \subseteq Clients /\ spc' \in {"close", "exited"} /\ child' \in {"none", "dup", "uptime", "zombie"}
    BY <1>0, <1>11, <2>1 DEF Fork
  <2> QED BY <1>0, <2>1, <2>2, <2>3 DEF clientvars
<1>12. CASE CloseForked
  BY <1>0, <1>12 DEF CloseForked, Set, clientvars
<1>13. CASE Waitpid
  BY <1>0, <1>13 DEF Waitpid, clientvars, connvars
(* the child *)
<1>14. CASE Dup
  <2>1. /\ clfd \in Clients
        /\ UNCHANGED <<ruptimed, spc, saddr, clfd, clientvars, queue, stream>>
    BY <1>0, <1>14 DEF Dup, Service
  <2>2. holders' \in [Clients -> SUBSET {"daemon", "child"}]
    <3>1. holders[clfd] \ {"child"} \in SUBSET {"daemon", "child"}
      BY <1>0, <2>1, ClientTypes
    <3>2. UNCHANGED holders \/ holders' = [holders EXCEPT ![clfd] = holders[clfd] \ {"child"}]
      BY <1>14 DEF Dup, Set
    <3> QED BY <1>0, <2>1, <3>1, <3>2
  <2>3. faulty' \subseteq Clients /\ left' \in 0 .. Lines /\ child' \in {"uptime", "zombie"}
    BY <1>0, <1>14, <2>1 DEF Dup
  <2> QED BY <1>0, <2>1, <2>2, <2>3 DEF clientvars
<1>15. CASE UptimePrints
  <2>1. /\ clfd \in Clients
        /\ UNCHANGED <<ruptimed, spc, saddr, clfd, faulty, clientvars, queue>>
    BY <1>0, <1>15 DEF UptimePrints, Service
  <2>2. holders' \in [Clients -> SUBSET {"daemon", "child"}]
    <3>1. holders[clfd] \ {"child"} \in SUBSET {"daemon", "child"}
      BY <1>0, <2>1, ClientTypes
    <3>2. UNCHANGED holders \/ holders' = [holders EXCEPT ![clfd] = holders[clfd] \ {"child"}]
      BY <1>15 DEF UptimePrints, Set
    <3> QED BY <1>0, <2>1, <3>1, <3>2
  <2>3. /\ stream' \in [Clients -> Nat] /\ left' \in 0 .. Lines
        /\ child' \in {"none", "dup", "uptime", "zombie"}
    <3>1. stream[clfd] + 1 \in Nat
      BY <1>0, <2>1, ClientTypes
    <3>2. stream' \in [Clients -> Nat]
      BY <1>0, <1>15, <2>1, <3>1 DEF UptimePrints, Set
    <3>3. left \in 0 .. Lines
      BY <1>0
    <3>4. left' \in 0 .. Lines
      BY <1>15, <3>3 DEF UptimePrints
    <3>5. child' \in {"none", "dup", "uptime", "zombie"}
      BY <1>15 DEF UptimePrints
    <3> QED BY <3>2, <3>4, <3>5
  <2> QED BY <1>0, <2>1, <2>2, <2>3 DEF clientvars
<1>16. CASE UNCHANGED vars
  BY <1>0, <1>16 DEF vars, servervars, clientvars, connvars
<1> QED BY <1>1, <1>2, <1>3, <1>4, <1>5, <1>6, <1>7, <1>8, <1>9, <1>10, <1>11, <1>12, <1>13,
           <1>14, <1>15, <1>16 DEF Next, Daemon, ChildStep, Client

(* Only the client's own steps matter for its retries.                     *)
LEMMA RetriesStep ==
  ASSUME TypeOK, Retries, [Next]_vars
  PROVE  Retries'
<1> USE MAXSLEEPAssumption DEF TypeOK
<1>1. ASSUME UNCHANGED <<cpc, numsec, slept, sockets>> PROVE Retries'
  BY <1>1 DEF Retries
<1>2. ASSUME NEW c \in Clients, Socket(c) PROVE Retries'
  <2>1. CASE NextAddress(c) /\ UNCHANGED sockets
    BY SMTT(30), <1>2, <2>1 DEF Socket, NextAddress, Set, Retries
  <2>2. CASE /\ cpc' = Set(cpc, c, "connect") /\ sockets' = Set(sockets, c, sockets[c] + 1)
             /\ UNCHANGED <<caddr, numsec, slept>>
    BY <1>2, <2>2 DEF Socket, Set, Retries
  <2> QED BY <1>2, <2>1, <2>2 DEF Socket
<1>3. ASSUME NEW c \in Clients, Connect(c) PROVE Retries'
  BY <1>3 DEF Connect, Set, Retries
<1>4. ASSUME NEW c \in Clients, CloseAndSleep(c) PROVE Retries'
  <2>1. /\ sockets[c] = 1 /\ sockets' = Set(sockets, c, 0)
        /\ numsec[c] \in Nat \ {0} /\ slept[c] = numsec[c] - 1
    <3>1. numsec[c] \in Nat /\ cpc[c] = "close" /\ sockets' = Set(sockets, c, sockets[c] - 1)
      BY <1>4, ClientTypes DEF CloseAndSleep
    <3>2. sockets[c] = 1 /\ numsec[c] > 0 /\ slept[c] = numsec[c] - 1
      BY <3>1 DEF Retries
    <3> QED BY <3>1, <3>2
  <2>2. CASE NextAddress(c)
    <3>1. /\ cpc' = [cpc EXCEPT ![c] = IF caddr[c] < Addresses THEN "socket" ELSE "failed"]
          /\ numsec' = [numsec EXCEPT ![c] = 1] /\ slept' = [slept EXCEPT ![c] = 0]
          /\ sockets' = [sockets EXCEPT ![c] = 0]
      BY <2>1, <2>2 DEF NextAddress, Set
    <3>2. /\ cpc'[c] \in {"socket", "failed"} /\ numsec'[c] = 1 /\ slept'[c] = 0
          /\ sockets'[c] = 0
      BY <3>1
    <3>3. \A d \in Clients \ {c} : /\ cpc'[d] = cpc[d] /\ numsec'[d] = numsec[d]
                                  /\ slept'[d] = slept[d] /\ sockets'[d] = sockets[d]
      BY <3>1
    <3> HIDE DEF TypeOK
    <3> QED BY <3>2, <3>3 DEF Retries
  <2>3. CASE /\ numsec[c] <= MAXSLEEP \div 2
             /\ cpc' = Set(cpc, c, "socket") /\ slept' = Set(slept, c, slept[c] + numsec[c])
             /\ numsec' = Set(numsec, c, 2 * numsec[c])
    <3> HIDE DEF TypeOK
    <3>1. 2 * numsec[c] <= MAXSLEEP /\ slept[c] + numsec[c] = 2 * numsec[c] - 1
      BY <2>1, <2>3
    <3> USE DEF TypeOK
    <3> QED BY <2>1, <2>3, <3>1 DEF Set, Retries
  <2> QED BY <1>4, <2>2, <2>3 DEF CloseAndSleep
<1>5. ASSUME NEW c \in Clients, Recv(c) PROVE Retries'
  BY <1>5 DEF Recv, Set, Retries
<1>6. CASE Daemon \/ AcceptFails \/ ChildStep
  BY <1>1, <1>6
     DEF Daemon, ChildStep, Initserver, Accept, AcceptFails, DaemonPopen, Send, CloseSent,
         Fork, CloseForked, Waitpid, Dup, UptimePrints, clientvars
<1>7. CASE UNCHANGED vars
  BY <1>1, <1>7 DEF vars, clientvars
<1> QED BY <1>2, <1>3, <1>4, <1>5, <1>6, <1>7 DEF Next, Client

-----------------------------------------------------------------------------
(* The phases.  A client that a step does not affect stays in its phase.   *)
LEMMA Unaffected ==
  ASSUME NEW d \in Clients, Phase(d), cpc'[d] = cpc[d], stream'[d] = stream[d],
         Sent(d)' = Sent(d), holders'[d] = holders[d], InQueue(d)' <=> InQueue(d),
         Serves(d)' <=> Serves(d), d \in faulty' <=> d \in faulty,
         spc = "exited" => spc' = "exited"
  PROVE  Phase(d)'
BY DEF Phase

LEMMA ClientPhases ==
  ASSUME TypeOK, Phases, NEW c \in Clients, Client(c)
  PROVE  Phases'
<1>0. /\ QueuedOnce /\ Phase(c) /\ queue \in Seq(Clients)
      /\ Sent(c) \in Nat /\ stream[c] \in Nat /\ received[c] \in Nat
      /\ UNCHANGED servervars /\ UNCHANGED holders
  <2>1. QueuedOnce /\ Phase(c) /\ queue \in Seq(Clients)
    BY DEF Phases, TypeOK
  <2>2. Sent(c) \in Nat /\ stream[c] \in Nat /\ received[c] \in Nat
    BY ClientTypes DEF Sent
  <2>3. UNCHANGED servervars /\ UNCHANGED holders
    BY DEF Client, Socket, Connect, CloseAndSleep, Recv, connvars
  <2> QED BY <2>1, <2>2, <2>3
<1>1. /\ spc' = spc /\ faulty' = faulty /\ holders' = holders
      /\ \A d \in Clients : Serves(d)' <=> Serves(d)
  BY <1>0 DEF servervars, Serves
<1>2. ASSUME NEW d \in Clients, d # c
      PROVE  cpc'[d] = cpc[d] /\ stream'[d] = stream[d] /\ Sent(d)' = Sent(d)
  <2>1. cpc'[d] = cpc[d] /\ stream'[d] = stream[d] /\ received'[d] = received[d]
    <3>1. CASE Socket(c)
      BY <1>2, <3>1 DEF Socket, NextAddress, Set, connvars, TypeOK
    <3>2. CASE Connect(c)
      BY <1>2, <3>2 DEF Connect, Set, TypeOK
    <3>3. CASE CloseAndSleep(c)
      BY <1>2, <3>3 DEF CloseAndSleep, NextAddress, Set, connvars, TypeOK
    <3>4. CASE Recv(c)
      BY <1>2, <3>4 DEF Recv, Set, TypeOK
    <3> QED BY <3>1, <3>2, <3>3, <3>4 DEF Client
  <2> QED BY <2>1 DEF Sent
<1>3. ASSUME UNCHANGED queue, Phase(c)' PROVE Phases'
  <2>1. QueuedOnce' /\ \A d \in Clients : InQueue(d)' <=> InQueue(d)
    BY <1>0, <1>3 DEF QueuedOnce, InQueue
  <2>2. \A d \in Clients : d # c => Phase(d)'
    BY <1>1, <1>2, <2>1, Unaffected DEF Phases
  <2> QED BY <1>3, <2>1, <2>2 DEF Phases
(* socket, close, and a connect that fails *)
<1>4. ASSUME cpc[c] \in {"socket", "connect", "close"}, UNCHANGED <<queue, stream, received>>,
             cpc'[c] \in {"socket", "connect", "close", "failed"}
      PROVE  Phases'
  <2>1. Sent(c)' = Sent(c) /\ (InQueue(c)' <=> InQueue(c)) /\ (Serves(c)' <=> Serves(c))
    BY <1>1, <1>4 DEF Sent, InQueue
  <2>2. Phase(c)'
    BY <1>0, <1>1, <1>4, <2>1 DEF Phase
  <2> QED BY <1>3, <1>4, <2>2
<1>5. CASE Socket(c)
  <2>1. /\ cpc[c] = "socket" /\ UNCHANGED <<queue, stream, received>>
        /\ cpc'[c] \in {"connect", "socket", "failed"}
    BY <1>5 DEF Socket, NextAddress, Set, connvars, TypeOK
  <2> QED BY <1>4, <2>1
<1>6. CASE CloseAndSleep(c)
  <2>1. /\ cpc[c] = "close" /\ UNCHANGED <<queue, stream, received>>
        /\ cpc'[c] \in {"socket", "failed"}
    BY <1>6 DEF CloseAndSleep, NextAddress, Set, connvars, TypeOK
  <2> QED BY <1>4, <2>1
<1>7. CASE Connect(c)
  <2>1. cpc[c] = "connect" /\ UNCHANGED <<stream, received>>
    BY <1>7 DEF Connect
  <2>2. CASE cpc' = Set(cpc, c, "close") /\ UNCHANGED queue
    <3>1. cpc'[c] = "close"
      BY <2>2 DEF Set, TypeOK
    <3> QED BY <1>4, <2>1, <2>2, <3>1
  <2>3. CASE /\ Listening(caddr[c]) /\ queue' = Append(queue, c)
             /\ cpc' = Set(cpc, c, "recv")
    <3>1. cpc'[c] = "recv"
      BY <2>3 DEF Set, TypeOK
    <3>2. ~InQueue(c) /\ Sent(c) = 0 /\ holders[c] = {} /\ ~Serves(c)
      BY <1>0, <2>1 DEF Phase
    <3>3. QueuedOnce' /\ \A d \in Clients : InQueue(d)' <=> InQueue(d) \/ d = c
      BY <1>0, <2>3, <3>2, Connected
    <3>4. Sent(c)' = 0
      BY <2>1, <3>2 DEF Sent
    <3>5. Phase(c)'
      BY <1>1, <3>1, <3>2, <3>3, <3>4 DEF Phase
    <3>6. \A d \in Clients : d # c => Phase(d)'
      BY <1>1, <1>2, <3>3, Unaffected DEF Phases
    <3> QED BY <3>3, <3>5, <3>6 DEF Phases
  <2> QED BY <1>7, <2>2, <2>3 DEF Connect
<1>8. CASE Recv(c)
  <2>1. cpc[c] = "recv" /\ UNCHANGED queue /\ (InQueue(c)' <=> InQueue(c))
    BY <1>8 DEF Recv, InQueue
  <2>2. CASE /\ stream[c] > 0 /\ stream' = Set(stream, c, stream[c] - 1)
             /\ received' = Set(received, c, received[c] + 1) /\ UNCHANGED cpc
    <3>1. Sent(c)' = Sent(c)
      BY <1>0, <2>2 DEF Sent, Set, TypeOK
    <3>2. Phase(c)'
      BY <1>0, <1>1, <2>1, <2>2, <3>1 DEF Phase
    <3> QED BY <1>3, <2>1, <3>2
  <2>3. CASE /\ stream[c] = 0 /\ holders[c] = {} /\ ~InQueue(c)
             /\ cpc' = Set(cpc, c, "done") /\ UNCHANGED <<stream, received>>
    <3>1. cpc'[c] = "done" /\ Sent(c)' = Sent(c)
      BY <2>3 DEF Sent, Set, TypeOK
    <3>2. Phase(c)'
      BY <1>0, <1>1, <2>1, <2>3, <3>1 DEF Phase
    <3> QED BY <1>3, <2>1, <3>2
  <2>4. CASE /\ spc = "exited" /\ InQueue(c)
             /\ cpc' = Set(cpc, c, "failed") /\ UNCHANGED <<stream, received>>
    <3>1. cpc'[c] = "failed" /\ Sent(c)' = Sent(c)
      BY <2>4 DEF Sent, Set, TypeOK
    <3>2. Phase(c)'
      BY <1>0, <1>1, <2>1, <2>4, <3>1 DEF Phase
    <3> QED BY <1>3, <2>1, <3>2
  <2>5. c \in {queue[k] : k \in DOMAIN queue} <=> InQueue(c)
    BY DEF InQueue
  <2> QED BY <1>8, <2>2, <2>3, <2>4, <2>5 DEF Recv
<1> QED BY <1>5, <1>6, <1>7, <1>8 DEF Client

(* A step of the daemon or its child affects the client being served only. *)
LEMMA OneServed ==
  ASSUME Phases, NEW b \in Clients, UNCHANGED <<queue, cpc, received>>,
         \A d \in Clients \ {b} : /\ stream'[d] = stream[d] /\ holders'[d] = holders[d]
                                 /\ (d \in faulty' <=> d \in faulty)
                                 /\ (Serves(d)' <=> Serves(d)),
         spc = "exited" => spc' = "exited", Phase(b)'
  PROVE  Phases'
<1>1. QueuedOnce' /\ \A d \in Clients : InQueue(d)' <=> InQueue(d)
  BY DEF Phases, QueuedOnce, InQueue
<1>2. \A d \in Clients : d # b => Sent(d)' = Sent(d)
  BY DEF Sent
<1>3. \A d \in Clients : d # b => Phase(d)'
  BY <1>1, <1>2, Unaffected DEF Phases
<1> QED BY <1>1, <1>3 DEF Phases

LEMMA IdlePhases ==
  ASSUME Phases, UNCHANGED <<clientvars, connvars, faulty>>,
         spc = "exited" => spc' = "exited", \A d \in Clients : Serves(d)' <=> Serves(d)
  PROVE  Phases'
<1>1. QueuedOnce' /\ \A d \in Clients : InQueue(d)' <=> InQueue(d)
  BY DEF Phases, QueuedOnce, InQueue, connvars
<1>2. \A d \in Clients : /\ Sent(d)' = Sent(d) /\ cpc'[d] = cpc[d] /\ stream'[d] = stream[d]
                        /\ holders'[d] = holders[d]
  BY DEF Sent, clientvars, connvars
<1>3. \A d \in Clients : Phase(d)'
  BY <1>1, <1>2, Unaffected DEF Phases
<1> QED BY <1>1, <1>3 DEF Phases

LEMMA DaemonPhases ==
  ASSUME TypeOK, Phases, Service, Daemon \/ AcceptFails
  PROVE  Phases'
<1> USE DEF Set
<1>1. CASE Initserver \/ AcceptFails
  BY <1>1, IdlePhases DEF Initserver, AcceptFails, Serves
<1>2. CASE Accept
  <2>1. /\ spc = "accept" /\ queue # <<>> /\ queue' = Tail(queue) /\ clfd' = Head(queue)
        /\ holders' = [holders EXCEPT ![clfd'] = {"daemon"}]
        /\ spc' \in {"popen", "fork"}
        /\ UNCHANGED <<stream, received, cpc, faulty>>
    BY <1>2 DEF Accept, clientvars
  <2>2. /\ queue \in Seq(Clients) /\ QueuedOnce
    BY DEF TypeOK, Phases
  <2>3. PICK b \in Clients : b = Head(queue)
    BY <2>1, <2>2, Accepted
  <2>4. /\ QueuedOnce' /\ InQueue(b)
        /\ \A d \in Clients : InQueue(d)' <=> InQueue(d) /\ d # b
    BY <2>1, <2>2, <2>3, Accepted
  <2>5. \A d \in Clients : /\ ~Serves(d) /\ (Serves(d)' <=> d = b) /\ Sent(d)' = Sent(d)
    BY <2>1, <2>3 DEF Serves, Sent
  <2>6. cpc[b] = "recv" /\ Sent(b) = 0 /\ ~InQueue(b)'
    BY <2>1, <2>4 DEF Phases, Phase
  <2>7. Phase(b)'
    BY <2>1, <2>5, <2>6 DEF Phase
  <2>8. \A d \in Clients : d # b => Phase(d)'
    <3>1. \A d \in Clients : d # b => holders'[d] = holders[d]
      BY <2>1, <2>3 DEF TypeOK
    <3> QED BY <2>1, <2>4, <2>5, <3>1, Unaffected DEF Phases
  <2> QED BY <2>4, <2>7, <2>8 DEF Phases
(* While a client is served. *)
<1>3. ASSUME spc \in {"popen", "send", "fork", "close", "waitpid"},
             UNCHANGED <<clientvars, queue, clfd>>,
             NEW b \in Clients, b = clfd,
             \A d \in Clients \ {b} : /\ stream'[d] = stream[d] /\ holders'[d] = holders[d]
                                     /\ (d \in faulty' <=> d \in faulty),
             Phase(b)'
      PROVE  Phases'
  BY <1>3, OneServed DEF clientvars, Serves
<1>4. ASSUME NEW b \in Clients, Serves(b)
      PROVE  /\ ~InQueue(b) /\ cpc[b] \in {"recv", "done"} /\ Sent(b) \in Nat
             /\ holders[b] # {} => cpc[b] = "recv"
             /\ cpc[b] = "done" => stream[b] = 0
             /\ UNCHANGED queue => ~InQueue(b)'
  BY <1>4, ClientTypes DEF Phases, Phase, Sent, InQueue
<1>5. CASE DaemonPopen
  <2>1. PICK b \in Clients : b = clfd
    BY <1>5 DEF DaemonPopen, Service
  <2>2. /\ Serves(b) /\ Serves(b)' /\ UNCHANGED <<clientvars, connvars, clfd>>
        /\ holders[b] = {"daemon"} /\ spc = "popen"
        /\ \A d \in Clients \ {b} : d \in faulty' <=> d \in faulty
    BY <1>5, <2>1 DEF DaemonPopen, Serves, Service
  <2>3. Phase(b)'
    BY <1>4, <2>2 DEF Phase, clientvars, connvars
  <2> QED BY <1>3, <2>1, <2>2, <2>3 DEF connvars
<1>6. CASE Send
  <2>1. PICK b \in Clients : b = clfd
    BY <1>6 DEF Send, Service
  <2>2. /\ Serves(b) /\ Serves(b)' /\ UNCHANGED <<clientvars, queue, clfd, holders, faulty>>
        /\ holders[b] = {"daemon"} /\ spc = "send"
        /\ \A d \in Clients \ {b} : stream'[d] = stream[d]
    BY <1>6, <2>1 DEF Send, Serves, Service, TypeOK
  <2>3. Phase(b)'
    BY <1>4, <2>2 DEF Phase, clientvars
  <2> QED BY <1>3, <2>1, <2>2, <2>3
<1>7. CASE CloseSent
  <2>1. PICK b \in Clients : b = clfd
    BY <1>7 DEF CloseSent, Service
  <2>2. /\ Serves(b) /\ ~Serves(b)' /\ UNCHANGED <<clientvars, queue, clfd, stream, faulty>>
        /\ holders[b] = {"daemon"} /\ spc = "send" /\ left = 0
        /\ holders' = [holders EXCEPT ![b] = holders[b] \ {"daemon"}]
    BY <1>7, <2>1 DEF CloseSent, Serves, Service
  <2>3. /\ holders'[b] = {} /\ \A d \in Clients \ {b} : holders'[d] = holders[d]
    BY <2>2 DEF TypeOK
  <2>4. Sent(b) \in Nat /\ Sent(b) <= Lines /\ (b \notin faulty => Sent(b) = Lines)
    BY <1>4, <2>1, <2>2 DEF Service
  <2>5. Sent(b)' = Sent(b) /\ cpc'[b] = "recv" /\ stream'[b] = stream[b] /\ ~InQueue(b)'
    BY <1>4, <2>2 DEF Sent, clientvars
  <2>6. Phase(b)'
    BY <2>2, <2>3, <2>4, <2>5 DEF Phase
  <2> QED BY <1>3, <2>1, <2>2, <2>3, <2>6
<1>8. CASE Fork
  <2>1. PICK b \in Clients : b = clfd
    BY <1>8 DEF Fork, Service
  <2>2. /\ Serves(b) /\ UNCHANGED <<clientvars, queue, clfd, stream>>
        /\ holders[b] = {"daemon"} /\ spc = "fork" /\ Sent(b) = 0
        /\ \A d \in Clients \ {b} : d \in faulty' <=> d \in faulty
    BY <1>8, <2>1 DEF Fork, Serves, Service
  <2>3. \A d \in Clients \ {b} : holders'[d] = holders[d]
    BY <1>8, <2>1 DEF Fork, TypeOK
  <2>4. Sent(b)' = 0 /\ cpc'[b] = "recv" /\ ~InQueue(b)'
    BY <1>4, <2>2 DEF Sent, clientvars
  <2>5. CASE spc' = "close"
    <3>1. Serves(b)'
      BY <2>1, <2>2, <2>5 DEF Serves
    <3>2. Phase(b)'
      BY <2>4, <3>1 DEF Phase
    <3> QED BY <1>3, <2>1, <2>2, <2>3, <3>2
  <2>6. CASE /\ spc' = "exited" /\ faulty' = faulty \union {clfd}
             /\ holders' = [holders EXCEPT ![clfd] = {}]
    <3>1. ~Serves(b)' /\ holders'[b] = {} /\ b \in faulty'
      BY <2>1, <2>6 DEF Serves, TypeOK
    <3>2. Phase(b)'
      BY <2>4, <3>1, LinesAssumption DEF Phase
    <3> QED BY <1>3, <2>1, <2>2, <2>3, <3>2
  <2> QED BY <1>8, <2>5, <2>6 DEF Fork
<1>9. CASE CloseForked
  <2>1. PICK b \in Clients : b = clfd
    BY <1>9 DEF CloseForked, Service
  <2>2. /\ Serves(b) /\ Serves(b)' /\ UNCHANGED <<clientvars, queue, clfd, stream, faulty>>
        /\ spc = "close" /\ holders[b] # {}
        /\ holders' = [holders EXCEPT ![b] = holders[b] \ {"daemon"}]
    BY <1>9, <2>1 DEF CloseForked, Serves, Service
  <2>3. \A d \in Clients \ {b} : holders'[d] = holders[d]
    BY <2>2 DEF TypeOK
  <2>4. cpc'[b] = "recv" /\ ~InQueue(b)'
    BY <1>4, <2>2 DEF clientvars
  <2>5. Phase(b)'
    BY <2>2, <2>4 DEF Phase
  <2> QED BY <1>3, <2>1, <2>2, <2>3, <2>5
<1>10. CASE Waitpid
  <2>1. PICK b \in Clients : b = clfd
    BY <1>10 DEF Waitpid, Service
  <2>2. /\ Serves(b) /\ ~Serves(b)' /\ UNCHANGED <<clientvars, connvars, clfd, faulty>>
        /\ spc = "waitpid" /\ child = "zombie"
    BY <1>10, <2>1 DEF Waitpid, Serves
  <2>3. holders[b] = {}
    BY <2>1, <2>2, ClientTypes DEF Service
  <2>4. Sent(b) <= Lines /\ (b \notin faulty => Sent(b) = Lines)
    BY <2>1, <2>2 DEF Service
  <2>5. /\ Sent(b)' = Sent(b) /\ cpc'[b] = cpc[b] /\ stream'[b] = stream[b] /\ ~InQueue(b)'
        /\ holders'[b] = {} /\ cpc[b] \in {"recv", "done"} /\ (cpc[b] = "done" => stream[b] = 0)
    BY <1>4, <2>2, <2>3 DEF Sent, clientvars, connvars
  <2>6. Phase(b)'
    BY <2>2, <2>4, <2>5 DEF Phase
  <2> QED BY <1>3, <2>1, <2>2, <2>6 DEF connvars
<1> QED BY <1>1, <1>2, <1>5, <1>6, <1>7, <1>8, <1>9, <1>10 DEF Daemon

LEMMA ChildPhases ==
  ASSUME TypeOK, Phases, Service, ChildStep
  PROVE  Phases'
<1> USE DEF Set
<1>1. PICK b \in Clients : b = clfd
  BY DEF ChildStep, Dup, UptimePrints, Service
<1>2. /\ child \in {"dup", "uptime"} /\ spc \in {"close", "waitpid"}
      /\ UNCHANGED <<clientvars, queue, clfd, spc>>
  BY DEF ChildStep, Dup, UptimePrints, Service
<1>3. /\ Serves(b) /\ Serves(b)' /\ holders[b] # {} /\ cpc[b] = "recv" /\ ~InQueue(b)
  BY <1>1, <1>2 DEF Serves, Service, Phases, Phase
<1>4. \A d \in Clients \ {b} : /\ stream'[d] = stream[d] /\ holders'[d] = holders[d]
                              /\ (d \in faulty' <=> d \in faulty)
                              /\ (Serves(d)' <=> Serves(d))
  <2>1. CASE Dup
    BY <1>1, <1>2, <2>1 DEF Dup, Serves, TypeOK
  <2>2. CASE UptimePrints
    BY <1>1, <1>2, <2>2 DEF UptimePrints, Serves, TypeOK
  <2> QED BY <2>1, <2>2 DEF ChildStep
<1>5. cpc'[b] = "recv" /\ ~InQueue(b)'
  BY <1>2, <1>3 DEF clientvars, InQueue
<1>6. Phase(b)'
  BY <1>3, <1>5 DEF Phase
<1> QED BY <1>2, <1>4, <1>6, OneServed DEF clientvars

LEMMA PhasesStep ==
  ASSUME TypeOK, Phases, Service, [Next]_vars
  PROVE  Phases'
<1>1. CASE UNCHANGED vars
  <2>1. UNCHANGED <<clientvars, connvars, faulty, spc, clfd>>
    BY <1>1 DEF vars, servervars
  <2> QED BY <2>1, IdlePhases DEF Serves
<1> QED BY <1>1, DaemonPhases, ChildPhases, ClientPhases DEF Next

-----------------------------------------------------------------------------
(* What the daemon has sent.  A client takes from stream what it adds to   *)
(* received.                                                               *)
LEMMA ClientSent ==
  ASSUME TypeOK, NEW c \in Clients, Client(c), NEW d \in Clients
  PROVE  stream'[d] + received'[d] = stream[d] + received[d]
<1>1. CASE Recv(c)
  <2>1. CASE UNCHANGED <<stream, received>>
    BY <2>1
  <2>2. CASE /\ stream' = [stream EXCEPT ![c] = stream[c] - 1]
             /\ received' = [received EXCEPT ![c] = received[c] + 1]
    <3>1. stream[d] \in Nat /\ received[d] \in Nat
      BY ClientTypes
    <3>2. stream \in [Clients -> Nat] /\ received \in [Clients -> Nat]
      BY DEF TypeOK
    <3>3. /\ stream'[d] = IF d = c THEN stream[d] - 1 ELSE stream[d]
          /\ received'[d] = IF d = c THEN received[d] + 1 ELSE received[d]
      BY <2>2, <3>2
    <3> QED BY <3>1, <3>3
  <2> QED BY <1>1, <2>1, <2>2 DEF Recv, Set
<1>2. CASE Socket(c) \/ Connect(c) \/ CloseAndSleep(c)
  BY <1>2 DEF Socket, Connect, CloseAndSleep, connvars
<1> QED BY <1>1, <1>2 DEF Client

LEMMA ClientService ==
  ASSUME TypeOK, Service, NEW c \in Clients, Client(c)
  PROVE  Service'
<1>1. UNCHANGED servervars /\ UNCHANGED holders
  BY DEF Client, Socket, Connect, CloseAndSleep, Recv, connvars
<1>2. \A d \in Clients : stream'[d] + received'[d] = stream[d] + received[d]
  BY ClientSent
<1> QED BY <1>1, <1>2 DEF Service, Sent, servervars

(* A step that leaves the connection being served alone, with its daemon.  *)
LEMMA DaemonService ==
  ASSUME TypeOK, Phases, Service, Daemon \/ AcceptFails
  PROVE  Service'
<1> USE LinesAssumption DEF Set
<1>1. CASE Initserver \/ AcceptFails
  BY <1>1 DEF Initserver, AcceptFails, Service
<1>2. CASE Accept
  <2>1. /\ spc = "accept" /\ queue # <<>> /\ queue' = Tail(queue) /\ clfd' = Head(queue)
        /\ holders' = [holders EXCEPT ![clfd'] = {"daemon"}]
        /\ spc' \in {"popen", "fork"}
        /\ UNCHANGED <<stream, received, child>>
    BY <1>2 DEF Accept, clientvars
  <2>2. PICK b \in Clients : b = Head(queue) /\ InQueue(b)
    BY <2>1, Accepted DEF TypeOK, Phases
  <2>3. stream[b] + received[b] = 0
    BY <2>2 DEF Phases, Phase, Sent
  <2>4. holders'[b] = {"daemon"} /\ clfd' = b
    BY <2>1, <2>2 DEF TypeOK
  <2>5. child = "none"
    BY <2>1 DEF Service
  <2> QED BY <2>1, <2>3, <2>4, <2>5 DEF Service, Sent
<1>3. ASSUME spc \in {"popen", "send", "fork", "close", "waitpid"}
      PROVE  /\ clfd \in Clients /\ stream[clfd] \in Nat /\ received[clfd] \in Nat
             /\ left \in 0 .. Lines /\ holders[clfd] \in SUBSET {"daemon", "child"}
  BY <1>3, ClientTypes DEF Service, TypeOK
<1>4. CASE DaemonPopen
  <2>1. spc = "popen" /\ spc' = "send" /\ UNCHANGED <<clfd, child, stream, received, holders>>
    BY <1>4 DEF DaemonPopen, clientvars, connvars
  <2>2. stream[clfd] + received[clfd] = 0 /\ holders[clfd] = {"daemon"} /\ child = "none"
    BY <2>1 DEF Service, Sent
  <2>3. \/ left' = Lines
        \/ left' = 1 /\ clfd \in faulty'
    BY <1>4 DEF DaemonPopen
  <2> QED BY <1>3, <2>1, <2>2, <2>3 DEF Service, Sent
<1>5. CASE Send
  <2>1. /\ spc = "send" /\ left > 0 /\ left' = left - 1
        /\ UNCHANGED <<spc, clfd, child, received, holders, faulty>>
        /\ stream' = [stream EXCEPT ![clfd] = stream[clfd] + 1]
    BY <1>5 DEF Send, clientvars
  <2>2. stream'[clfd] = stream[clfd] + 1
    BY <1>3, <2>1 DEF TypeOK
  <2> QED BY <1>3, <2>1, <2>2 DEF Service, Sent
<1>6. CASE CloseSent
  BY <1>6 DEF CloseSent, Service
<1>7. CASE Fork
  <2>1. /\ spc = "fork" /\ UNCHANGED <<clfd, left, stream, received>>
        /\ stream[clfd] + received[clfd] = 0 /\ child = "none"
    BY <1>7 DEF Fork, clientvars, Service, Sent
  <2>2. CASE spc' = "exited" /\ UNCHANGED child
    BY <2>1, <2>2 DEF Service
  <2>3. CASE /\ spc' = "close" /\ child' = "dup"
             /\ holders' = [holders EXCEPT ![clfd] = {"daemon", "child"}]
    <3>1. holders'[clfd] = {"daemon", "child"}
      BY <1>3, <2>1, <2>3 DEF TypeOK
    <3> QED BY <1>3, <2>1, <2>3, <3>1 DEF Service, Sent
  <2> QED BY <1>7, <2>2, <2>3 DEF Fork
<1>8. CASE CloseForked
  <2>1. /\ spc = "close" /\ spc' = "waitpid" /\ UNCHANGED <<clfd, child, left, faulty, stream, received>>
        /\ holders' = [holders EXCEPT ![clfd] = holders[clfd] \ {"daemon"}]
    BY <1>8 DEF CloseForked, clientvars
  <2>2. holders'[clfd] = holders[clfd] \ {"daemon"}
    BY <1>3, <2>1 DEF TypeOK
  <2> QED BY <1>3, <2>1, <2>2 DEF Service, Sent
<1>9. CASE Waitpid
  BY <1>9 DEF Waitpid, Service
<1> QED BY <1>1, <1>2, <1>4, <1>5, <1>6, <1>7, <1>8, <1>9 DEF Daemon

LEMMA ChildService ==
  ASSUME TypeOK, Service, ChildStep
  PROVE  Service'
<1> USE LinesAssumption DEF Set
<1>1. /\ spc \in {"close", "waitpid"} /\ clfd \in Clients
      /\ UNCHANGED <<spc, clfd, received>>
  BY DEF ChildStep, Dup, UptimePrints, Service, clientvars
<1>2. /\ stream[clfd] \in Nat /\ received[clfd] \in Nat /\ left \in 0 .. Lines
      /\ "daemon" \in holders[clfd] <=> spc = "close"
  BY <1>1, ClientTypes DEF Service, TypeOK
<1>3. ASSUME holders' = [holders EXCEPT ![clfd] = holders[clfd] \ {"child"}]
      PROVE  holders'[clfd] = holders[clfd] \ {"child"}
  BY <1>1, <1>3 DEF TypeOK
<1>4. CASE Dup
  <2>1. child = "dup" /\ stream[clfd] + received[clfd] = 0 /\ UNCHANGED stream
    BY <1>1, <1>4 DEF Dup, Service, Sent
  <2>2. CASE child' = "uptime" /\ left' = Lines /\ UNCHANGED holders
    BY <1>1, <1>2, <2>1, <2>2 DEF Service, Sent
  <2>3. CASE /\ child' = "zombie" /\ clfd \in faulty'
             /\ holders' = [holders EXCEPT ![clfd] = holders[clfd] \ {"child"}]
    BY <1>1, <1>2, <1>3, <2>1, <2>3 DEF Service, Sent
  <2> QED BY <1>4, <2>2, <2>3 DEF Dup
<1>5. CASE UptimePrints
  <2>1. /\ child = "uptime" /\ "child" \in holders[clfd] /\ UNCHANGED faulty
        /\ stream[clfd] + received[clfd] + left = Lines
    BY <1>1, <1>5 DEF UptimePrints, Service, Sent
  <2>2. CASE /\ left > 0 /\ left' = left - 1 /\ UNCHANGED <<child, holders>>
             /\ stream' = [stream EXCEPT ![clfd] = stream[clfd] + 1]
    <3>1. stream'[clfd] = stream[clfd] + 1
      BY <1>1, <2>2 DEF TypeOK
    <3> QED BY <1>1, <1>2, <2>1, <2>2, <3>1 DEF Service, Sent
  <2>3. CASE /\ left = 0 /\ child' = "zombie" /\ UNCHANGED <<left, stream>>
             /\ holders' = [holders EXCEPT ![clfd] = holders[clfd] \ {"child"}]
    BY <1>1, <1>2, <1>3, <2>1, <2>3 DEF Service, Sent
  <2> QED BY <1>5, <2>2, <2>3 DEF UptimePrints
<1> QED BY <1>4, <1>5 DEF ChildStep

LEMMA ServiceStep ==
  ASSUME TypeOK, Phases, Service, [Next]_vars
  PROVE  Service'
<1>1. CASE UNCHANGED vars
  BY <1>1 DEF vars, servervars, clientvars, connvars, Service, Sent
<1> QED BY <1>1, DaemonService, ChildService, ClientService DEF Next

LEMMA InvStep == Inv /\ [Next]_vars => Inv'
<1> SUFFICES ASSUME Inv, [Next]_vars PROVE Inv'
  OBVIOUS
<1>1. TypeOK' /\ Retries' /\ Phases' /\ Service'
  BY TypeStep, RetriesStep, PhasesStep, ServiceStep DEF Inv
<1>2. Complete' /\ OneAtATime'
  BY <1>1, Consequences, PTL
<1> QED BY <1>1, <1>2 DEF Inv

-----------------------------------------------------------------------------
(* 16-19 and 16-20: a client that waits, whose datagrams are not lost and  *)
(* whose daemon stands, has its request under way until the daemon that is *)
(* bound to its address takes it, and from then on is in the daemon's      *)
(* hands or has an answer under way.                                       *)

Datagram(d) ==
  \/ d.kind = "ask" /\ d.client \in Askers /\ d = D!Ask(d.client, aip[d.client])
  \/ d.kind = "answer" /\ d.client \in Askers /\ d.what # "none"

InHand(c) == addr = c /\ dpc \in {"popen", "sendto"}
AnswerTo(c) == \E d \in net : d.kind = "answer" /\ d.client = c

Waits(c) ==
  kpc[c] \in {"recvfrom", "waiting"} /\ c \notin lost /\ dpc # "exited" =>
    \/ D!Ask(c, aip[c]) \in net
    \/ bound = aip[c] /\ dpc # "initserver" /\ (InHand(c) \/ AnswerTo(c))

DatagramInv ==
  /\ D!TypeOK /\ copies \in Nat /\ aip \in [Askers -> Nat]
  /\ dpc = "initserver" => bound <= Hosts
  /\ \A d \in net : Datagram(d) /\ D!Asked(d.client)
  /\ dpc \in {"popen", "sendto"} => D!Asked(addr)
  /\ dpc = "sendto" => text # "none"
  /\ \A c \in Askers : Waits(c)

LEMMA DatagramInvInit == D!Init => DatagramInv
<1> SUFFICES ASSUME D!Init PROVE DatagramInv
  OBVIOUS
<1> USE DatagramBounds DEF D!Init, D!Bounds
<1>1. D!TypeOK /\ copies \in Nat /\ aip \in [Askers -> Nat]
  BY DEF D!TypeOK
<1>2. \A c \in Askers : Waits(c)
  BY DEF Waits
<1> QED BY <1>1, <1>2 DEF DatagramInv

LEMMA DatagramInvSafe == DatagramInv => D!Inv
<1> SUFFICES ASSUME DatagramInv PROVE D!Inv
  OBVIOUS
<1>1. D!Answered
  BY DEF DatagramInv, Datagram, D!Ask, D!Answered
<1>2. ASSUME NEW c \in Askers, kpc[c] = "waiting", D!Reachable(c)
      PROVE  (\E d \in net : d.client = c) \/ InHand(c)
  <2>1. D!Ask(c, aip[c]).client = c
    BY DEF D!Ask
  <2> QED BY <1>2, <2>1 DEF DatagramInv, Waits, AnswerTo, D!Reachable
<1> QED BY <1>1, <1>2 DEF DatagramInv, D!Inv, D!Accounted, InHand

(* A step of client c that takes nothing from the network but answers to   *)
(* it, and adds at most its request, keeps what is said of the others.     *)
LEMMA OthersWait ==
  ASSUME DatagramInv, NEW c \in Askers,
         UNCHANGED <<dpc, bound, addr, lost>>,
         \A d \in Askers : d # c => aip'[d] = aip[d] /\ (kpc'[d] = kpc[d]),
         \A d \in net : d \in net' \/ (d.kind = "answer" /\ d.client = c)
  PROVE  \A d \in Askers : d # c => Waits(d)'
<1> SUFFICES ASSUME NEW d \in Askers, d # c, kpc[d] \in {"recvfrom", "waiting"},
                    d \notin lost, dpc # "exited"
             PROVE  \/ D!Ask(d, aip[d]) \in net'
                    \/ bound = aip[d] /\ dpc # "initserver" /\ (InHand(d) \/ AnswerTo(d)')
  BY DEF Waits, InHand
<1>1. D!Ask(d, aip[d]).client = d
  BY DEF D!Ask
<1>2. Waits(d)
  BY DEF DatagramInv
<1> QED BY <1>1, <1>2 DEF Waits, AnswerTo

LEMMA AskerStep ==
  ASSUME DatagramInv, NEW c \in Askers, D!Asker(c) \/ D!RecvFails(c) \/ D!Sigalrm(c)
  PROVE  DatagramInv'
<1> USE DatagramBounds
    DEF DatagramInv, D!TypeOK, D!Asked, D!Bounds, D!askervars, D!daemonvars, D!netvars
<1>1. CASE D!Socket(c)
  <2>1. /\ kpc[c] = "socket" /\ kpc' \in [Askers -> {"socket", "sendto", "recvfrom",
                                  "waiting", "done", "timeout", "failed"}]
        /\ kpc'[c] \in {"socket", "sendto", "failed"} /\ aip' \in [Askers -> Nat]
        /\ \A d \in Askers : d # c => aip'[d] = aip[d] /\ kpc'[d] = kpc[d]
        /\ UNCHANGED <<net, copies, lost, dpc, bound, addr, text>>
    BY <1>1 DEF D!Socket
  <2>2. \A d \in Askers : d # c => Waits(d)'
    BY <2>1, OthersWait
  <2>3. \A d \in net : d.client # c
    BY <2>1
  <2>4. \A d \in net : Datagram(d)' /\ D!Asked(d.client)'
    BY <2>1, <2>3 DEF Datagram
  <2> QED BY <2>1, <2>2, <2>4 DEF Waits
<1>2. CASE D!SendAsk(c)
  <2>1. /\ kpc[c] = "sendto"
        /\ \/ kpc'[c] = "recvfrom" /\ net' = net \union {D!Ask(c, aip[c])}
           \/ kpc'[c] = "failed" /\ UNCHANGED net
        /\ kpc' \in [Askers -> {"socket", "sendto", "recvfrom",
                                "waiting", "done", "timeout", "failed"}]
        /\ \A d \in Askers : d # c => kpc'[d] = kpc[d]
        /\ UNCHANGED <<aip, copies, lost, dpc, bound, addr, text>>
    BY <1>2 DEF D!SendAsk
  <2>2. \A d \in Askers : d # c => Waits(d)'
    BY <2>1, OthersWait
  <2>3. D!Ask(c, aip[c]).kind = "ask" /\ D!Ask(c, aip[c]).client = c
    BY DEF D!Ask
  <2>4. \A d \in net' : Datagram(d)' /\ D!Asked(d.client)'
    BY <2>1, <2>3 DEF Datagram
  <2>5. Waits(c)'
    BY <2>1 DEF Waits
  <2> QED BY <2>1, <2>2, <2>4, <2>5
<1>3. CASE D!CallRecv(c) \/ D!RecvFails(c) \/ D!Sigalrm(c)
  <2>1. /\ kpc[c] \in {"recvfrom", "waiting"}
        /\ kpc'[c] \in {"recvfrom", "waiting", "failed", "timeout"}
        /\ kpc' \in [Askers -> {"socket", "sendto", "recvfrom",
                                "waiting", "done", "timeout", "failed"}]
        /\ \A d \in Askers : d # c => kpc'[d] = kpc[d]
        /\ UNCHANGED <<aip, net, copies, lost, dpc, bound, addr, text>>
    BY <1>3 DEF D!CallRecv, D!RecvFails, D!Sigalrm
  <2>2. \A d \in Askers : d # c => Waits(d)'
    BY <2>1, OthersWait
  <2>3. Waits(c)'
    BY <2>1 DEF Waits, InHand, AnswerTo
  <2>4. \A d \in net : Datagram(d)' /\ D!Asked(d.client)'
    BY <2>1 DEF Datagram
  <2> QED BY <2>1, <2>2, <2>3, <2>4
<1>4. CASE D!RecvAnswer(c)
  <2>1. /\ kpc[c] = "waiting" /\ kpc' = [kpc EXCEPT ![c] = "done"]
        /\ UNCHANGED <<aip, lost, dpc, bound, addr, text>>
    BY <1>4 DEF D!RecvAnswer, D!Deliver
  <2>2. PICK d \in net : d.kind = "answer" /\ d.client = c /\ D!Deliver(d)
    BY <1>4 DEF D!RecvAnswer
  <2>3. /\ net' \in {net, net \ {d}} /\ copies' \in Nat /\ copies' <= MaxCopies
    BY <2>2 DEF D!Deliver
  <2>4. \A e \in Askers : e # c => Waits(e)'
    BY <2>1, <2>2, <2>3, OthersWait
  <2>5. \A e \in net' : Datagram(e)' /\ D!Asked(e.client)'
    BY <2>1, <2>3 DEF Datagram
  <2>6. Waits(c)'
    BY <2>1 DEF Waits
  <2> QED BY <2>1, <2>3, <2>4, <2>5, <2>6
<1> QED BY <1>1, <1>2, <1>3, <1>4 DEF D!Asker

LEMMA NetworkStep ==
  ASSUME DatagramInv, NEW d \in net, D!Lose(d)
  PROVE  DatagramInv'
<1> USE DatagramBounds DEF DatagramInv, D!TypeOK, D!Asked, D!Bounds
<1>1. /\ net' = net \ {d} /\ lost' = lost \union {d.client}
      /\ UNCHANGED <<copies, dpc, bound, addr, text, kpc, aip>>
  BY DEF D!Lose, D!daemonvars, D!askervars
<1>2. ASSUME NEW c \in Askers PROVE Waits(c)'
  <2>1. Waits(c) /\ D!Ask(c, aip[c]).client = c
    BY DEF D!Ask
  <2> QED BY <1>1, <2>1 DEF Waits, InHand, AnswerTo
<1>3. \A e \in net' : Datagram(e)' /\ D!Asked(e.client)'
  BY <1>1 DEF Datagram
<1> QED BY <1>1, <1>2, <1>3

LEMMA DgramDaemonStep ==
  ASSUME DatagramInv, D!Daemon \/ D!RecvfromFails
  PROVE  DatagramInv'
<1> USE DatagramBounds
    DEF DatagramInv, D!TypeOK, D!Asked, D!Bounds, D!askervars, D!netvars
<1>1. ASSUME UNCHANGED <<kpc, aip>>, net' = net
      PROVE  \A d \in net' : Datagram(d)' /\ D!Asked(d.client)'
  BY <1>1 DEF Datagram
<1>2. CASE D!Initserver
  <2>1. /\ dpc = "initserver" /\ dpc' \in {"initserver", "recvfrom", "exited"}
        /\ bound' \in 1 .. Hosts + 1
        /\ UNCHANGED <<addr, text, net, copies, lost, kpc, aip>>
        /\ dpc' = "initserver" => bound' <= Hosts
    BY <1>2 DEF D!Initserver
  <2>2. \A c \in Askers : Waits(c)'
    (* Nobody has been answered: each request is still under way. *)
    BY <2>1 DEF Waits
  <2> QED BY <1>1, <2>1, <2>2
<1>3. CASE D!Recvfrom
  <2>1. PICK d \in net : /\ d.kind = "ask" /\ d.what = bound /\ D!Deliver(d)
                         /\ addr' = d.client
    BY <1>3 DEF D!Recvfrom
  <2>2. /\ dpc = "recvfrom" /\ dpc' = "popen" /\ net' \in {net, net \ {d}}
        /\ copies' \in Nat /\ copies' <= MaxCopies
        /\ UNCHANGED <<bound, text, kpc, aip, lost>>
    BY <1>3, <2>1 DEF D!Recvfrom, D!Deliver
  <2>3. d.client \in Askers /\ d = D!Ask(d.client, aip[d.client])
    BY <2>1 DEF Datagram
  <2>4. bound = aip[d.client]
    BY <2>1, <2>3 DEF D!Ask
  <2>5. ASSUME NEW c \in Askers PROVE Waits(c)'
    <3>1. CASE c = d.client
      BY <2>1, <2>2, <2>4, <3>1 DEF Waits, InHand
    <3>2. CASE c # d.client
      <4>1. Waits(c) /\ D!Ask(c, aip[c]).client = c
        BY DEF D!Ask
      <4>2. ~InHand(c)
        BY <2>2 DEF InHand
      <4>3. AnswerTo(c) => AnswerTo(c)'
        BY <2>1, <2>2 DEF AnswerTo
      <4> QED BY <2>2, <3>2, <4>1, <4>2, <4>3 DEF Waits
    <3> QED BY <3>1, <3>2
  <2>6. \A e \in net' : Datagram(e)' /\ D!Asked(e.client)'
    BY <2>2 DEF Datagram
  <2> QED BY <2>1, <2>2, <2>3, <2>5, <2>6
<1>4. CASE D!RecvfromFails
  <2>1. dpc' = "exited" /\ UNCHANGED <<bound, addr, text, kpc, aip, net, copies, lost>>
    BY <1>4 DEF D!RecvfromFails
  <2>2. \A c \in Askers : Waits(c)'
    BY <2>1 DEF Waits
  <2> QED BY <1>1, <2>1, <2>2
<1>5. CASE D!Popen
  <2>1. /\ dpc = "popen" /\ UNCHANGED <<bound, net, copies, kpc, aip>>
        /\ \/ /\ text' \in {"uptime", "error"} /\ dpc' = "sendto"
              /\ UNCHANGED <<lost, addr>>
           \/ /\ dpc' = "recvfrom" /\ lost' = lost \union {addr}
    BY <1>5 DEF D!Popen
  <2>2. ASSUME NEW c \in Askers PROVE Waits(c)'
    <3>1. Waits(c)
      OBVIOUS
    <3> QED BY <2>1, <3>1 DEF Waits, InHand, AnswerTo
  <2> QED BY <1>1, <2>1, <2>2
<1>6. CASE D!Sendto
  <2> DEFINE a == D!Answer(addr, text)
  <2>1. /\ dpc = "sendto" /\ dpc' = "recvfrom" /\ net' = net \union {a}
        /\ UNCHANGED <<bound, copies, lost, kpc, aip>>
    BY <1>6 DEF D!Sendto
  <2>2. a.kind = "answer" /\ a.client = addr /\ a.what = text
    BY DEF D!Answer
  <2> HIDE DEF a
  <2>3. ASSUME NEW c \in Askers PROVE Waits(c)'
    <3>1. Waits(c)
      OBVIOUS
    <3>2. AnswerTo(c) \/ InHand(c) => AnswerTo(c)'
      BY <2>1, <2>2 DEF AnswerTo, InHand
    <3> QED BY <2>1, <3>1, <3>2 DEF Waits
  <2>4. \A e \in net' : Datagram(e)' /\ D!Asked(e.client)'
    BY <2>1, <2>2 DEF Datagram
  <2> QED BY <2>1, <2>3, <2>4
<1> QED BY <1>2, <1>3, <1>4, <1>5, <1>6 DEF D!Daemon

LEMMA DatagramInvStep == DatagramInv /\ [D!Next]_dgramvars => DatagramInv'
<1> SUFFICES ASSUME DatagramInv, [D!Next]_dgramvars PROVE DatagramInv'
  OBVIOUS
<1>1. CASE UNCHANGED dgramvars
  BY <1>1
  DEF dgramvars, DatagramInv, Datagram, Waits, InHand, AnswerTo, D!TypeOK, D!Asked
<1> QED BY <1>1, AskerStep, NetworkStep, DgramDaemonStep DEF D!Next

-----------------------------------------------------------------------------
(* 17-3 and 17-4 keep what Fifo promises, for any number of queues, any    *)
(* messages and any sizes of the queues and sockets.                       *)

(* A message that was sent fits into buf with its NUL, has no NUL of its   *)
(* own, and is printed as it was sent, whatever was in buf.                *)
LEMMA Printed ==
  ASSUME P!Arguments, NEW m \in P!Messages, buf \in [0 .. MAXMSZ - 1 -> Int]
  PROVE  /\ Len(m) \in 0 .. MAXMSZ - 1
         /\ P!Filled(m) \in [0 .. MAXMSZ - 1 -> Int]
         /\ P!String(P!Filled(m)) = m
<1>1. PICK s \in P!Senders : m = P!Mtext(s)
  BY DEF P!Messages
<1> DEFINE n == IF Sends[s].len < MAXMSZ THEN Sends[s].len ELSE MAXMSZ - 1
<1>2. /\ s \in Nat \ {0} /\ Sends[s].len \in Nat /\ MAXMSZ \in Nat \ {0}
  <2>1. DOMAIN Sends = 1 .. Len(Sends) /\ Len(Sends) \in Nat
    BY LenProperties DEF P!Arguments
  <2>2. Sends[s] \in [queue : P!Queues, len : Nat]
    BY <2>1, ElementOfSeq DEF P!Arguments, P!Senders
  <2> QED BY <2>1, <2>2 DEF P!Arguments, P!Senders
<1>3. n \in 0 .. MAXMSZ - 1
  BY <1>2
<1>4. m = [k \in 1 .. n |-> s]
  BY <1>1 DEF P!Mtext
<1> HIDE DEF n
<1>5. Len(m) = n /\ \A k \in 1 .. n : m[k] = s
  BY <1>3, <1>4
<1> DEFINE b == P!Filled(m)
<1>6. /\ b \in [0 .. MAXMSZ - 1 -> Int]
      /\ b[n] = P!NUL /\ \A k \in 0 .. n - 1 : b[k] = m[k + 1]
  BY <1>2, <1>3, <1>5 DEF P!Filled, P!NUL
<1>7. \A k \in 0 .. n - 1 : b[k] # P!NUL
  BY <1>2, <1>3, <1>5, <1>6 DEF P!NUL
<1> HIDE DEF b
<1> DEFINE First(k) == (k = MAXMSZ \/ b[k] = P!NUL) /\ \A j \in 0 .. k - 1 : b[j] # P!NUL
<1>8. n \in 0 .. MAXMSZ /\ First(n)
  BY <1>2, <1>3, <1>6, <1>7
<1>9. \A k \in 0 .. MAXMSZ : First(k) => k = n
  BY <1>2, <1>3, <1>6, <1>7
<1>10. n = CHOOSE k \in 0 .. MAXMSZ : First(k)
  <2> HIDE DEF First
  <2> QED BY <1>8, <1>9
<1>11. P!String(b) = [k \in 1 .. n |-> b[k - 1]]
  BY <1>10 DEF P!String
<1>12. P!String(b) = m
  BY <1>3, <1>4, <1>5, <1>6, <1>11
<1> QED BY <1>3, <1>5, <1>6, <1>12 DEF b

(* Sequences of messages. *)
LEMMA OneMessage ==
  ASSUME NEW m \in P!Messages
  PROVE  /\ <<m>> \in Seq(P!Messages) /\ <<m>> # <<>> /\ Len(<<m>>) = 1
         /\ Head(<<m>>) = m /\ Tail(<<m>>) = <<>>
OBVIOUS

LEMMA HeldIsSeq ==
  ASSUME P!TypeOK, NEW q \in P!Queues
  PROVE  /\ held[q] \in Seq(P!Messages) /\ socket[q] \in Seq(P!Messages)
         /\ msgq[q] \in Seq(P!Messages) /\ out[q] \in Seq(P!Messages)
         /\ held[q] # <<>> => \E m \in P!Messages : held[q] = <<m>>
<1>1. held[q] \in {<<>>} \union {<<m>> : m \in P!Messages}
  BY DEF P!TypeOK
<1>2. held[q] \in Seq(P!Messages)
  BY <1>1, OneMessage, EmptySeq
<1> QED BY <1>1, <1>2 DEF P!TypeOK

LEMMA HeadAndTail ==
  ASSUME NEW s \in Seq(P!Messages), s # <<>>
  PROVE  /\ Head(s) \in P!Messages /\ Tail(s) \in Seq(P!Messages)
         /\ <<Head(s)>> \in Seq(P!Messages) /\ s = <<Head(s)>> \o Tail(s)
OBVIOUS

LEMMA Associative ==
  ASSUME NEW r \in Seq(P!Messages), NEW s \in Seq(P!Messages), NEW t \in Seq(P!Messages)
  PROVE  (r \o s) \o t = r \o (s \o t)
BY ConcatAssociative

LEMMA PollInvInit == ASSUME P!Arguments PROVE P!Init => P!Inv
<1> SUFFICES ASSUME P!Init PROVE P!Inv
  OBVIOUS
<1>1. P!TypeOK
  BY EmptySeq DEF P!Init, P!TypeOK, P!Arguments, P!NUL, P!Senders
<1>2. P!InsideBuf
  BY DEF P!Init, P!InsideBuf
<1> QED BY <1>1, <1>2 DEF P!Inv, P!Init, P!ReadNeverWaits

(* What was sent is shorter than buf. *)
LEMMA Inside == ASSUME P!Arguments, P!TypeOK PROVE P!InsideBuf
<1> SUFFICES ASSUME NEW q \in P!Queues, NEW k \in DOMAIN socket[q]
             PROVE  Len(socket[q][k]) < MAXMSZ
  BY DEF P!InsideBuf
<1>1. socket[q] \in Seq(P!Messages)
  BY HeldIsSeq
<1>2. socket[q][k] \in P!Messages
  BY <1>1, LenProperties, ElementOfSeq
<1>3. Len(socket[q][k]) \in 0 .. MAXMSZ - 1
  BY <1>2, Printed DEF P!TypeOK
<1> QED BY <1>3 DEF P!Arguments

-----------------------------------------------------------------------------
(* The invariant. *)
LEMMA PollTypeStep ==
  ASSUME P!Arguments, P!TypeOK, [P!Next]_P!vars
  PROVE  P!TypeOK'
<1>0. /\ NQ \in Nat \ {0} /\ MAXMSZ \in Nat \ {0} /\ MaxEnds \in Nat /\ i \in Nat
      /\ P!Queues = 0 .. NQ - 1
  BY DEF P!Arguments, P!TypeOK, P!Queues
<1>1. ASSUME NEW s \in P!Senders, P!Sender(s) PROVE P!TypeOK'
  <2>1. Sends[s].queue \in P!Queues /\ P!Mtext(s) \in P!Messages
    <3>1. Sends[s] \in [queue : P!Queues, len : Nat]
      BY LenProperties, ElementOfSeq DEF P!Arguments, P!Senders
    <3> QED BY <3>1 DEF P!Messages
  <2>2. CASE P!Msgget(s)
    BY <2>2 DEF P!Msgget, P!TypeOK, P!pollvars
  <2>3. CASE P!Msgsnd(s)
    <3>1. Append(msgq[Sends[s].queue], P!Mtext(s)) \in Seq(P!Messages)
      BY <2>1, HeldIsSeq, AppendProperties
    <3> QED BY <2>1, <2>3, <3>1 DEF P!Msgsnd, P!TypeOK, P!pollvars
  <2> QED BY <1>1, <2>2, <2>3 DEF P!Sender
<1>2. ASSUME NEW q \in P!Queues, P!Msgrcv(q) PROVE P!TypeOK'
  <2>1. msgq[q] \in Seq(P!Messages) /\ msgq[q] # <<>>
    BY <1>2, HeldIsSeq DEF P!Msgrcv
  <2>2. Head(msgq[q]) \in P!Messages /\ Tail(msgq[q]) \in Seq(P!Messages)
    BY <2>1, HeadAndTail
  <2> QED BY <1>2, <2>2 DEF P!Msgrcv, P!TypeOK
<1>3. ASSUME NEW q \in P!Queues, P!Write(q) PROVE P!TypeOK'
  <2>1. socket[q] \o held[q] \in Seq(P!Messages)
    BY HeldIsSeq, ConcatProperties
  <2> QED BY <1>3, <2>1 DEF P!Write, P!TypeOK, P!sendvars
<1>4. CASE P!Start
  <2>1. buf' \in [0 .. MAXMSZ - 1 -> Int]
    BY <1>4 DEF P!Start, P!NUL, P!JUNK
  <2> QED BY SMTT(30), <1>0, <1>4, <2>1 DEF P!Start, P!TypeOK, P!sendvars
<1>5. CASE P!Setup
  <2>1. i \in P!Queues /\ i + 1 \in 0 .. NQ /\ (pc' = "setup" => i + 1 < NQ)
    BY <1>0, <1>5 DEF P!Setup, P!TypeOK
  <2> QED BY <1>5, <2>1 DEF P!Setup, P!TypeOK
<1>6. CASE P!Poll
  BY SMTT(30), <1>0, <1>6 DEF P!Poll, P!TypeOK, P!sendvars
<1>7. CASE P!Read
  <2>1. i \in P!Queues /\ i + 1 \in 0 .. NQ /\ (pc' = "read" => i + 1 < NQ)
        /\ pc' \in {"poll", "read"}
    BY <1>0, <1>7 DEF P!Read, P!TypeOK
  <2>2. CASE i \in revents
    <3>1. socket[i] \in Seq(P!Messages) /\ socket[i] # <<>> /\ out[i] \in Seq(P!Messages)
      BY <1>7, <2>1, <2>2, HeldIsSeq DEF P!Read
    <3>2. Head(socket[i]) \in P!Messages /\ Tail(socket[i]) \in Seq(P!Messages)
      BY <3>1, HeadAndTail
    <3>3. /\ P!Filled(Head(socket[i])) \in [0 .. MAXMSZ - 1 -> Int]
          /\ P!String(P!Filled(Head(socket[i]))) = Head(socket[i])
      BY <3>2, Printed DEF P!TypeOK
    <3>4. Append(out[i], Head(socket[i])) \in Seq(P!Messages)
      BY <3>1, <3>2, AppendProperties
    <3>5. /\ socket' = [socket EXCEPT ![i] = Tail(@)]
          /\ buf' = P!Filled(Head(socket[i]))
          /\ out' = [out EXCEPT ![i] = Append(@, Head(socket[i]))]
      BY <1>7, <2>2, <3>3 DEF P!Read
    <3> QED BY <1>7, <2>1, <3>2, <3>3, <3>4, <3>5 DEF P!Read, P!TypeOK, P!sendvars
  <2>3. CASE i \notin revents
    BY <1>7, <2>1, <2>3 DEF P!Read, P!TypeOK, P!sendvars
  <2> QED BY <2>2, <2>3
<1>8. CASE P!End
  <2>1. ends + 1 \in 0 .. MaxEnds /\ <<>> \in Seq(P!Messages)
    BY <1>0, <1>8, EmptySeq DEF P!End, P!TypeOK
  <2> QED BY <1>0, <1>8, <2>1 DEF P!End, P!TypeOK, P!sendvars, P!NUL
<1>9. CASE UNCHANGED P!vars
  BY <1>9 DEF P!vars, P!sendvars, P!pollvars, P!TypeOK
<1> QED BY <1>1, <1>2, <1>3, <1>4, <1>5, <1>6, <1>7, <1>8, <1>9 DEF P!Next, P!Helper, P!Main

(* A socket that poll has reported is emptied by main only. *)
LEMMA ReadStep ==
  ASSUME P!Arguments, P!TypeOK, P!ReadNeverWaits, [P!Next]_P!vars
  PROVE  P!ReadNeverWaits'
<1>1. ASSUME NEW s \in P!Senders, P!Sender(s) PROVE P!ReadNeverWaits'
  BY <1>1 DEF P!Sender, P!Msgget, P!Msgsnd, P!pollvars, P!ReadNeverWaits
<1>2. ASSUME NEW q \in P!Queues, P!Helper(q) PROVE P!ReadNeverWaits'
  <2>1. CASE P!Msgrcv(q)
    BY <2>1 DEF P!Msgrcv, P!ReadNeverWaits
  <2>2. CASE P!Write(q)
    <3>1. socket[q] \o held[q] # <<>>
      BY <2>2, HeldIsSeq, ConcatEmptySeq, ConcatProperties, EmptySeq DEF P!Write
    <3>2. \A r \in P!Queues : socket[r] # <<>> => socket'[r] # <<>>
      BY <2>2, <3>1 DEF P!Write, P!TypeOK
    <3> QED BY <2>2, <3>2 DEF P!Write, P!ReadNeverWaits
  <2> QED BY <1>2, <2>1, <2>2 DEF P!Helper
<1>3. CASE P!Start \/ P!Setup \/ P!End
  BY <1>3 DEF P!Start, P!Setup, P!End, P!ReadNeverWaits
<1>4. CASE P!Poll
  BY <1>4 DEF P!Poll, P!ReadNeverWaits
<1>5. CASE P!Read
  <2>1. i \in Int /\ i' = i + 1 /\ UNCHANGED revents
    BY <1>5 DEF P!Read, P!TypeOK
  <2>2. \A q \in P!Queues : q # i => socket'[q] = socket[q]
    BY <1>5 DEF P!Read, P!TypeOK
  <2> SUFFICES ASSUME pc' = "read", NEW q \in revents, q >= i + 1
               PROVE  socket'[q] # <<>>
    BY <2>1 DEF P!ReadNeverWaits
  <2>3. q \in P!Queues /\ q # i /\ q >= i
    BY <2>1 DEF P!Queues, P!Arguments, P!TypeOK
  <2> QED BY <1>5, <2>2, <2>3 DEF P!ReadNeverWaits, P!Read
<1>6. CASE UNCHANGED P!vars
  BY <1>6 DEF P!vars, P!sendvars, P!pollvars, P!ReadNeverWaits
<1> QED BY <1>1, <1>2, <1>3, <1>4, <1>5, <1>6 DEF P!Next, P!Main

LEMMA PollInvStep == ASSUME P!Arguments PROVE P!Inv /\ [P!Next]_P!vars => P!Inv'
<1> SUFFICES ASSUME P!Inv, [P!Next]_P!vars PROVE P!Inv'
  OBVIOUS
<1>1. P!TypeOK' /\ P!ReadNeverWaits'
  BY PollTypeStep, ReadStep DEF P!Inv
<1>2. P!InsideBuf'
  <2>1. P!TypeOK => P!InsideBuf
    BY Inside
  <2> QED BY <1>1, <2>1, Inside, PTL
<1> QED BY <1>1, <1>2 DEF P!Inv

(* No read of main waits, and buf[n] = 0 is inside buf (17-3.c:66-78).     *)
THEOREM NoReadWaits == P!Spec => []P!Inv
BY PollArguments, PollInvInit, PollInvStep, PTL DEF P!Spec

-----------------------------------------------------------------------------
(* The refinement: what waits for its output is in the socket, with the    *)
(* helper, or in the queue, in this order.                                 *)
LEMMA PendingIsSeq ==
  ASSUME P!TypeOK, NEW q \in P!Queues
  PROVE  /\ P!Pending(q) \in Seq(P!Messages)
         /\ P!Pending(q) = socket[q] \o (held[q] \o msgq[q])
<1>1. socket[q] \in Seq(P!Messages) /\ held[q] \in Seq(P!Messages) /\ msgq[q] \in Seq(P!Messages)
  BY HeldIsSeq
<1>2. socket[q] \o held[q] \in Seq(P!Messages)
  BY <1>1, ConcatProperties
<1> QED BY <1>1, <1>2, ConcatProperties, Associative DEF P!Pending

(* msgsnd is Send. *)
LEMMA SendStep ==
  ASSUME P!Arguments, P!TypeOK, NEW s \in P!Senders, P!Msgsnd(s)
  PROVE  P!F!Next
<1> DEFINE q == Sends[s].queue
           m == P!Mtext(s)
<1>1. q \in P!Queues /\ m \in P!Messages
  <2>1. Sends[s] \in [queue : P!Queues, len : Nat]
    BY LenProperties, ElementOfSeq DEF P!Arguments, P!Senders
  <2> QED BY <2>1 DEF P!Messages
<1>2. /\ UNCHANGED <<socket, held, out, ends>>
      /\ msgq' = [msgq EXCEPT ![q] = Append(@, m)]
  BY DEF P!Msgsnd, P!pollvars
<1> HIDE DEF q, m
<1>3. P!Pending(q)' = Append(P!Pending(q), m)
  <2>1. msgq'[q] = msgq[q] \o <<m>> /\ <<m>> \in Seq(P!Messages)
    BY <1>1, <1>2, HeldIsSeq, AppendIsConcat, OneMessage DEF P!TypeOK
  <2>2. /\ socket[q] \o held[q] \in Seq(P!Messages) /\ msgq[q] \in Seq(P!Messages)
    BY <1>1, HeldIsSeq, ConcatProperties
  <2>3. (socket[q] \o held[q]) \o (msgq[q] \o <<m>>) = P!Pending(q) \o <<m>>
    BY <2>1, <2>2, Associative DEF P!Pending
  <2>4. P!Pending(q) \o <<m>> = Append(P!Pending(q), m)
    BY <1>1, PendingIsSeq, AppendIsConcat
  <2> QED BY <1>2, <2>1, <2>3, <2>4 DEF P!Pending
<1>4. \A r \in P!Queues : r # q => P!Pending(r)' = P!Pending(r)
  BY <1>1, <1>2 DEF P!Pending, P!TypeOK
<1>5. P!F!Send(q, m)
  BY <1>1, <1>2, <1>3, <1>4 DEF P!F!Send
<1> QED BY <1>1, <1>5 DEF P!F!Next

(* read and printf are Output; the rounds without POLLIN stutter.          *)
LEMMA ReadIsOutput ==
  ASSUME P!Arguments, P!TypeOK, P!Read
  PROVE  P!F!Next \/ UNCHANGED <<socket, held, msgq, out, ends>>
<1>1. CASE i \notin revents
  BY <1>1 DEF P!Read, P!sendvars
<1>2. CASE i \in revents
  <2>0. PICK j \in P!Queues : j = i
    BY <1>2 DEF P!TypeOK
  <2>1. j \in P!Queues /\ UNCHANGED <<held, msgq, ends>>
    BY <1>2 DEF P!Read, P!sendvars
  <2>2. /\ socket[j] \in Seq(P!Messages) /\ socket[j] # <<>>
        /\ socket' = [socket EXCEPT ![j] = Tail(@)]
    BY <1>2, <2>0, HeldIsSeq DEF P!Read
  <2> DEFINE m == Head(socket[j])
             rest == held[j] \o msgq[j]
  <2>3. /\ m \in P!Messages /\ Tail(socket[j]) \in Seq(P!Messages)
        /\ <<m>> \in Seq(P!Messages) /\ socket[j] = <<m>> \o Tail(socket[j])
    BY <2>2, HeadAndTail
  <2>4. out' = [out EXCEPT ![j] = Append(@, m)]
    <3>1. P!String(P!Filled(m)) = m
      BY <2>3, Printed DEF P!TypeOK
    <3> QED BY <1>2, <2>0, <3>1 DEF P!Read
  <2>5. rest \in Seq(P!Messages)
    BY <2>1, HeldIsSeq, ConcatProperties
  <2>6. P!Pending(j)' = Tail(socket[j]) \o rest /\ Tail(socket[j]) \o rest \in Seq(P!Messages)
    <3>1. P!Pending(j)' = (Tail(socket[j]) \o held[j]) \o msgq[j]
      BY <2>1, <2>2 DEF P!Pending, P!TypeOK
    <3>2. (Tail(socket[j]) \o held[j]) \o msgq[j] = Tail(socket[j]) \o rest
      BY <2>1, <2>3, HeldIsSeq, Associative
    <3> QED BY <2>3, <2>5, <3>1, <3>2, ConcatProperties
  <2> HIDE DEF m, rest
  <2>7. P!Pending(j) = <<m>> \o P!Pending(j)'
    <3>1. P!Pending(j) = socket[j] \o rest
      BY <2>1, PendingIsSeq DEF rest
    <3>2. (<<m>> \o Tail(socket[j])) \o rest = <<m>> \o (Tail(socket[j]) \o rest)
      BY <2>3, <2>5, Associative
    <3> QED BY <2>3, <2>6, <3>1, <3>2
  <2>8. P!Pending(j) # <<>> /\ Head(P!Pending(j)) = m /\ Tail(P!Pending(j)) = P!Pending(j)'
    <3>1. P!Pending(j)' \in Seq(P!Messages)
      BY <2>6
    <3> HIDE DEF P!Pending
    <3> QED BY <2>3, <2>7, <3>1
  <2>9. \A r \in P!Queues : r # j => P!Pending(r)' = P!Pending(r)
    BY <2>1, <2>2 DEF P!Pending, P!TypeOK
  <2>10. P!F!Output(j)
    BY <2>1, <2>4, <2>8, <2>9 DEF P!F!Output
  <2> QED BY <2>1, <2>10 DEF P!F!Next
<1> QED BY <1>1, <1>2

(* What an end of 17-3 leaves in the queues are the youngest messages.     *)
LEMMA EndStep ==
  ASSUME P!TypeOK, P!End
  PROVE  P!F!Next
<1>1. /\ ends' = ends + 1 /\ UNCHANGED <<msgq, out>>
      /\ \A q \in P!Queues : held'[q] = <<>> /\ socket'[q] = <<>>
  BY DEF P!End, P!sendvars
<1>2. ASSUME NEW q \in P!Queues
      PROVE  P!Pending(q)' \in P!F!Suffixes(P!Pending(q))
  <2> DEFINE front == socket[q] \o held[q]
             k == Len(front) + 1
  <2>1. front \in Seq(P!Messages) /\ msgq[q] \in Seq(P!Messages)
    BY HeldIsSeq, ConcatProperties
  <2>2. P!Pending(q)' = msgq[q]
    <3>1. P!Pending(q)' = (<<>> \o <<>>) \o msgq[q]
      BY <1>1 DEF P!Pending
    <3>2. <<>> \in Seq(P!Messages) /\ <<>> \o <<>> = <<>>
      BY EmptySeq, ConcatEmptySeq
    <3>3. <<>> \o msgq[q] = msgq[q]
      BY <2>1, ConcatEmptySeq
    <3> QED BY <3>1, <3>2, <3>3
  <2>3. P!Pending(q) = front \o msgq[q]
    BY DEF P!Pending
  <2> HIDE DEF front
  <2>4. /\ Len(P!Pending(q)) = Len(front) + Len(msgq[q])
        /\ Len(front) \in Nat /\ Len(msgq[q]) \in Nat
    BY <2>1, <2>3, ConcatProperties, LenProperties
  <2>5. SubSeq(P!Pending(q), k, Len(P!Pending(q))) = msgq[q]
    <3> DEFINE s == SubSeq(P!Pending(q), k, Len(P!Pending(q)))
    <3>1. \A x \in k .. Len(P!Pending(q)) :
             P!Pending(q)[x] = msgq[q][x - Len(front)] /\ P!Pending(q)[x] \in P!Messages
      BY <2>1, <2>3, <2>4, ConcatProperties, ElementOfSeq
    <3>2. /\ s \in Seq(P!Messages)
          /\ Len(s) = IF k <= Len(P!Pending(q)) THEN Len(P!Pending(q)) - k + 1 ELSE 0
          /\ \A x \in 1 .. Len(P!Pending(q)) - k + 1 : s[x] = P!Pending(q)[k + x - 1]
      BY <2>4, <3>1, SubSeqProperties
    <3> HIDE DEF s
    <3>3. Len(s) = Len(msgq[q])
      BY <2>4, <3>2
    <3>4. ASSUME NEW x \in 1 .. Len(s) PROVE s[x] = msgq[q][x]
      <4>1. /\ k + x - 1 \in k .. Len(P!Pending(q)) /\ k + x - 1 - Len(front) = x
            /\ x \in 1 .. Len(P!Pending(q)) - k + 1
        BY <2>4, <3>3
      <4> QED BY <3>1, <3>2, <4>1
    <3>5. s = msgq[q]
      BY <2>1, <3>2, <3>3, <3>4, SeqEqual
    <3> QED BY <3>5 DEF s
  <2>6. k \in 1 .. Len(P!Pending(q)) + 1
    BY <2>4
  <2> HIDE DEF k
  <2> QED BY <2>2, <2>5, <2>6 DEF P!F!Suffixes
<1>3. P!F!End
  BY <1>1, <1>2 DEF P!F!End
<1> QED BY <1>3 DEF P!F!Next

(* msgrcv and write hand a message on, and the rest does not touch any.    *)
LEMMA HelperStutters ==
  ASSUME P!TypeOK, NEW q \in P!Queues, P!Helper(q)
  PROVE  UNCHANGED <<out, ends>> /\ \A r \in P!Queues : P!Pending(r)' = P!Pending(r)
<1>1. CASE P!Msgrcv(q)
  <2>1. /\ held[q] = <<>> /\ msgq[q] # <<>> /\ UNCHANGED <<socket, out, ends>>
        /\ held' = [held EXCEPT ![q] = <<Head(msgq[q])>>]
        /\ msgq' = [msgq EXCEPT ![q] = Tail(@)]
    BY <1>1 DEF P!Msgrcv
  <2>2. /\ socket[q] \in Seq(P!Messages) /\ <<Head(msgq[q])>> \in Seq(P!Messages)
        /\ Tail(msgq[q]) \in Seq(P!Messages) /\ msgq[q] = <<Head(msgq[q])>> \o Tail(msgq[q])
    BY <2>1, HeldIsSeq, HeadAndTail
  <2>3. /\ P!Pending(q) = (socket[q] \o <<>>) \o msgq[q]
        /\ P!Pending(q)' = (socket[q] \o <<Head(msgq[q])>>) \o Tail(msgq[q])
    BY <2>1 DEF P!Pending, P!TypeOK
  <2>4. socket[q] \o <<>> = socket[q]
    BY <2>2, ConcatEmptySeq
  <2>5. (socket[q] \o <<Head(msgq[q])>>) \o Tail(msgq[q])
          = socket[q] \o (<<Head(msgq[q])>> \o Tail(msgq[q]))
    <3> DEFINE h == <<Head(msgq[q])>>
               t == Tail(msgq[q])
    <3>1. socket[q] \in Seq(P!Messages) /\ h \in Seq(P!Messages) /\ t \in Seq(P!Messages)
      BY <2>2
    <3> HIDE DEF h, t
    <3>2. (socket[q] \o h) \o t = socket[q] \o (h \o t)
      BY <3>1, Associative
    <3> QED BY <3>2 DEF h, t
  <2>6. P!Pending(q)' = P!Pending(q)
    BY <2>2, <2>3, <2>4, <2>5
  <2>7. \A r \in P!Queues : r # q => P!Pending(r)' = P!Pending(r)
    BY <2>1 DEF P!Pending, P!TypeOK
  <2> QED BY <2>1, <2>6, <2>7
<1>2. CASE P!Write(q)
  <2>1. /\ UNCHANGED <<msgq, out, ends>>
        /\ socket' = [socket EXCEPT ![q] = @ \o held[q]]
        /\ held' = [held EXCEPT ![q] = <<>>]
    BY <1>2 DEF P!Write, P!sendvars
  <2>2. socket[q] \o held[q] \in Seq(P!Messages)
    BY HeldIsSeq, ConcatProperties
  <2>3. P!Pending(q)' = ((socket[q] \o held[q]) \o <<>>) \o msgq[q]
    BY <2>1 DEF P!Pending, P!TypeOK
  <2>4. (socket[q] \o held[q]) \o <<>> = socket[q] \o held[q]
    BY <2>2, ConcatEmptySeq
  <2>5. P!Pending(q)' = P!Pending(q)
    BY <2>3, <2>4 DEF P!Pending
  <2>6. \A r \in P!Queues : r # q => P!Pending(r)' = P!Pending(r)
    BY <2>1 DEF P!Pending, P!TypeOK
  <2> QED BY <2>1, <2>5, <2>6
<1> QED BY <1>1, <1>2 DEF P!Helper

LEMMA StepIsFifo ==
  ASSUME P!Arguments, P!TypeOK, [P!Next]_P!vars
  PROVE  P!F!Next \/ (UNCHANGED <<out, ends>> /\ \A q \in P!Queues : P!Pending(q)' = P!Pending(q))
<1>1. ASSUME UNCHANGED <<socket, held, msgq, out, ends>>
      PROVE  UNCHANGED <<out, ends>> /\ \A q \in P!Queues : P!Pending(q)' = P!Pending(q)
  BY <1>1 DEF P!Pending
<1>2. ASSUME NEW s \in P!Senders, P!Sender(s)
      PROVE  P!F!Next \/ UNCHANGED <<socket, held, msgq, out, ends>>
  <2>1. CASE P!Msgget(s)
    BY <2>1 DEF P!Msgget, P!pollvars
  <2>2. CASE P!Msgsnd(s)
    BY <2>2, SendStep
  <2> QED BY <1>2, <2>1, <2>2 DEF P!Sender
<1>3. CASE P!Start \/ P!Setup \/ P!Poll
  BY <1>1, <1>3 DEF P!Start, P!Setup, P!Poll, P!sendvars
<1>4. CASE UNCHANGED P!vars
  BY <1>1, <1>4 DEF P!vars, P!sendvars, P!pollvars
<1> QED BY <1>1, <1>2, <1>3, <1>4, HelperStutters, ReadIsOutput, EndStep DEF P!Next, P!Main

LEMMA InitIsFifo == ASSUME P!Arguments PROVE P!Init => P!F!Init
<1> SUFFICES ASSUME P!Init PROVE P!F!Init
  OBVIOUS
<1>1. ASSUME NEW q \in P!Queues PROVE P!Pending(q) = <<>>
  <2>1. P!Pending(q) = (<<>> \o <<>>) \o <<>>
    BY DEF P!Init, P!Pending
  <2> QED BY <2>1
<1> QED BY <1>1 DEF P!Init, P!F!Init

(* Every message sent is printed unchanged, once and in the order of its   *)
(* queue, or lost with an end of 17-3 (17-3.c:21-35 and 65-78, 17-4.c).    *)
THEOREM ImplementsFifo == P!Spec => P!QueuesAreFifo
<1>1. P!TypeOK /\ [P!Next]_P!vars => [P!F!Next]_<<[q \in P!Queues |-> P!Pending(q)], out, ends>>
  <2> SUFFICES ASSUME P!TypeOK, [P!Next]_P!vars
               PROVE  [P!F!Next]_<<[q \in P!Queues |-> P!Pending(q)], out, ends>>
    OBVIOUS
  <2>1. CASE UNCHANGED <<out, ends>> /\ \A q \in P!Queues : P!Pending(q)' = P!Pending(q)
    <3>1. [q \in P!Queues |-> P!Pending(q)]' = [q \in P!Queues |-> P!Pending(q)]
      BY <2>1 DEF P!Queues
    <3> QED BY <2>1, <3>1
  <2> QED BY <2>1, PollArguments, StepIsFifo
<1>2. P!Inv => P!TypeOK
  BY DEF P!Inv
<1> QED BY PollArguments, InitIsFifo, NoReadWaits, <1>1, <1>2, PTL DEF P!Spec, P!QueuesAreFifo, P!F!Spec

-----------------------------------------------------------------------------
(* The three services: a step of one leaves the others as they are.        *)

LEMMA StepOfEach ==
  [MCNext]_<<service, vars, dgramvars, msgvars>> =>
    [Next]_vars /\ [D!Next]_dgramvars /\ [P!Next]_P!vars
<1>1. UNCHANGED msgvars <=> UNCHANGED P!vars
  BY DEF msgvars, P!vars, P!sendvars, P!pollvars
<1> QED BY <1>1, Zenon DEF MCNext

LEMMA PollSpec == MCSpec => P!Spec
<1>1. MCInit => P!Init
  BY DEF MCInit, PollInit
<1> QED BY <1>1, StepOfEach, PTL DEF MCSpec, P!Spec

(* Every client that comes to its end of file has all that uptime printed, *)
(* unless the daemon or its child failed in serving it, and one is served  *)
(* at a time; whoever waits for a datagram has one under way or in the     *)
(* daemon's hands, if none was lost; no read of 17-3 waits or fills buf.   *)
THEOREM ServicesSafe == MCSpec => []ServicesInv
<1>1. MCInit => Inv /\ DatagramInv
  BY InitInv, DatagramInvInit DEF MCInit, StreamInit, DatagramInit
<1>2. Inv /\ DatagramInv /\ [MCNext]_<<service, vars, dgramvars, msgvars>>
        => Inv' /\ DatagramInv'
  BY StepOfEach, InvStep, DatagramInvStep
<1>3. MCSpec => []P!Inv
  BY PollSpec, NoReadWaits, PTL
<1>4. Inv /\ DatagramInv /\ P!Inv => ServicesInv
  BY DatagramInvSafe DEF ServicesInv
<1> QED BY <1>1, <1>2, <1>3, <1>4, PTL DEF MCSpec

(* The queues of 17-3 and 17-4 keep what Fifo promises.                    *)
THEOREM QueuesImplementFifo == MCSpec => QueuesAreFifo
BY PollSpec, ImplementsFifo, PTL DEF QueuesAreFifo
=============================================================================
