------------------------- MODULE MCTellWait_proofs -------------------------
(***************************************************************************)
(* The clients of TELL/WAIT for any lengths of the strings and any limit   *)
(* of the counter: p6, whose signals kill its parent in the first round    *)
(* only and whose writes are turns; 8.9.2 and 8.9.3, whose outputs do not  *)
(* mix; 14.3 and 14.3.2, whose locks are held when the peer asks for them. *)
(***************************************************************************)
EXTENDS MCTellWait, TLAPS

(***************************************************************************)
(* p6.                                                                     *)
(***************************************************************************)
ParentWaits ==
  {"loop", "signal1", "signal2", "block", "wait", "check", "suspend", "asleep", "next"}
ParentWorks == {"restore", "unblocked", "fopen", "fclose", "tell"}
ChildWaits == {"wait", "check", "suspend", "asleep"}
ChildWorks ==
  {"loop", "signal1", "signal2", "block", "fopen", "fclose", "tell", "restore",
   "unblocked", "next"}

(* The right to write is with the process that works, in the signal sent   *)
(* to it, or in its flag.                                                  *)
Works(p) == pc[p] \in IF p = Parent THEN ParentWorks ELSE ChildWorks
HasBaton(p) == Works(p) \/ pending[p] # {} \/ sigflag[p] = 1

(* The numbers the processes write next. *)
parentNext == IF pc[Parent] = "next" THEN cur[Parent] + 2 ELSE cur[Parent]
childNext ==
  IF pc[Child] \in ChildWaits \union {"clear", "restore", "unblocked", "next"}
    THEN cur[Child] + 2 ELSE cur[Child]

(* Before fork. *)
CounterStart ==
  /\ pc[Child] = "unborn" /\ pc[Parent] \in {"fork", "failed"}
  /\ \A p \in Procs : pending[p] = {} /\ sigflag[p] = 0
  /\ \A p \in Procs : caught[p] = {} /\ mask[p] = {}
  /\ file = {0} /\ cur[Parent] = 2 /\ cur[Child] = 1

(* Where the processes are, and where the library returns to. *)
CounterPlaces ==
  /\ pc[Parent] \in ParentWaits \union ParentWorks \union {"clear", "exited", "killed"}
  /\ pc[Child] \in ChildWaits \union ChildWorks \union {"clear", "exited"}
  /\ pending[Parent] \subseteq {USR2} /\ pending[Child] \subseteq {USR1}
  /\ pc[Parent] \in {"signal1", "signal2", "block"} => ret[Parent] = "wait"
  /\ pc[Child] \in {"signal1", "signal2", "block"} => ret[Child] = "fopen"
  /\ pc[Parent] \in {"check", "suspend", "asleep", "clear", "restore", "unblocked"}
       => ret[Parent] = "fopen"
  /\ pc[Child] \in {"check", "suspend", "asleep", "clear", "restore", "unblocked"}
       => ret[Child] = "next"
  /\ \A p \in Procs :
       /\ pc[p] = "clear" => sigflag[p] = 1
       /\ pc[p] \in {"suspend", "asleep"} => sigflag[p] = 0

(* From TELL_WAIT to the end of WAIT the signals are blocked. *)
CounterMasks ==
  /\ pc[Parent] \in {"wait", "check", "suspend", "clear", "restore"}
       => mask[Parent] = newmask
  /\ pc[Child] \in {"fopen", "fclose", "tell", "wait", "check", "suspend", "clear", "restore"}
       => mask[Child] = newmask
  /\ \A p \in Procs : pc[p] = "asleep" => suspmask[p] = newmask

(* From its first TELL_WAIT on a process catches both signals. *)
CounterCaught ==
  \A p \in Procs :
    /\ pc[p] = "signal2" => USR1 \in caught[p]
    /\ pc[p] \notin {"loop", "signal1", "signal2", "exited", "killed"} =>
         caught[p] = newmask
    /\ cur[p] > 2 => caught[p] = newmask

CounterRounds ==
  /\ cur[Parent] % 2 = 0 /\ cur[Parent] >= 2
  /\ cur[Child] % 2 = 1 /\ cur[Child] >= 1
  /\ \A p \in Procs :
       /\ pc[p] \notin {"loop", "exited", "killed"} => cur[p] < Limit
       /\ pc[p] = "exited" => cur[p] >= Limit

(* One process has the right to write, or one of them is gone. *)
CounterBaton ==
  /\ \A p \in Procs :
       /\ Works(p) => pending[p] = {} /\ sigflag[p] = 0
       /\ pending[p] # {} => sigflag[p] = 0
  /\ ~(HasBaton(Parent) /\ HasBaton(Child))
  /\ ~HasBaton(Parent) /\ ~HasBaton(Child) =>
       pc[Parent] \in {"exited", "killed"} \/ pc[Child] = "exited"

(* Who has it writes the number after the one in the file.                 *)
CounterTurns ==
  /\ HasBaton(Child) =>
       /\ pc[Parent] \in ParentWaits \union {"exited"}
       /\ parentNext = childNext + 1
       /\ file = CASE pc[Child] = "tell" -> {cur[Child]}
                   [] pc[Child] = "fclose" -> {}
                   [] OTHER -> {childNext - 1}
  /\ HasBaton(Parent) =>
       /\ pc[Child] \in ChildWaits
       /\ parentNext = cur[Child] + 1
       /\ file = CASE pc[Parent] = "tell" -> {cur[Parent]}
                   [] pc[Parent] = "fclose" -> {}
                   [] OTHER -> {parentNext - 1}
  /\ pc[Parent] = "killed" =>
       /\ cur[Parent] = 2 /\ cur[Child] = 1 /\ USR2 \notin caught[Parent]
       /\ ~HasBaton(Parent) /\ ~HasBaton(Child) /\ pc[Child] \in ChildWaits
  /\ pc[Child] = "exited" => parentNext = cur[Child] + 1

CounterRun ==
  /\ CounterPlaces /\ CounterMasks /\ CounterCaught /\ CounterRounds
  /\ CounterBaton /\ CounterTurns

(* The file is empty only while it is being written; no routine of the     *)
(* library returns into the middle of that.                                *)
CounterFile ==
  /\ (\A p \in Procs : pc[p] # "fclose") => file # {}
  /\ \A p \in Procs : ret[p] # "fclose"

CounterInv == F!TypeOK /\ CounterFile /\ (CounterStart \/ CounterRun)

-----------------------------------------------------------------------------
(* The library is the same module in each client. *)

LEMMA SameLibrary ==
  ASSUME NEW p
  PROVE  /\ F!LibraryStep(p) <=> LibraryStep(p)
         /\ C!LibraryStep(p) <=> LibraryStep(p)
BY DEF LibraryStep, InTellWait, InWait, Delivery, Catch, Block, CheckFlag, Suspend,
     ClearFlag, RestoreMask, Unblocked, Terminate, Interrupt, WakeUp, sig_usr,
     Deliverable, Alive, Gone, Return, Goto, Move, sigvars, newmask, zeromask, USR1, USR2,
   F!LibraryStep, F!InTellWait, F!InWait, F!Delivery, F!Catch, F!Block, F!CheckFlag,
     F!Suspend, F!ClearFlag, F!RestoreMask, F!Unblocked, F!Terminate, F!Interrupt,
     F!WakeUp, F!sig_usr, F!Deliverable, F!Alive, F!Gone, F!Return, F!Goto, F!Move,
     F!sigvars, F!newmask, F!zeromask, F!USR1, F!USR2,
   C!LibraryStep, C!InTellWait, C!InWait, C!Delivery, C!Catch, C!Block, C!CheckFlag,
     C!Suspend, C!ClearFlag, C!RestoreMask, C!Unblocked, C!Terminate, C!Interrupt,
     C!WakeUp, C!sig_usr, C!Deliverable, C!Alive, C!Gone, C!Return, C!Goto, C!Move,
     C!sigvars, C!newmask, C!zeromask, C!USR1, C!USR2

LEMMA SameTypes ==
  ASSUME NEW labels
  PROVE  /\ F!SyncTypeOK(labels) <=> SyncTypeOK(labels)
         /\ C!SyncTypeOK(labels) <=> SyncTypeOK(labels)
         /\ F!SyncTypeOK(labels)' <=> SyncTypeOK(labels)'
         /\ C!SyncTypeOK(labels)' <=> SyncTypeOK(labels)'
BY DEF SyncTypeOK, Procs, Parent, Child, LibraryLabels, Gone, newmask, USR1, USR2,
   F!SyncTypeOK, F!Procs, F!Parent, F!Child, F!LibraryLabels, F!Gone, F!newmask,
     F!USR1, F!USR2,
   C!SyncTypeOK, C!Procs, C!Parent, C!Child, C!LibraryLabels, C!Gone, C!newmask,
     C!USR1, C!USR2

(* After SIG_BLOCK both signals are blocked, whatever was blocked before. *)
LEMMA BlockMask ==
  ASSUME NEW p \in Procs, mask \in [Procs -> SUBSET newmask], Block(p)
  PROVE  /\ pc[p] = "block" /\ pc' = [pc EXCEPT ![p] = ret[p]]
         /\ mask' = [mask EXCEPT ![p] = newmask]
         /\ oldmask' = [oldmask EXCEPT ![p] = mask[p]]
         /\ UNCHANGED <<ret, caught, suspmask, pending, sigflag>>
<1>1. mask[p] \union newmask = newmask
  OBVIOUS
<1>2. mask' = [mask EXCEPT ![p] = mask[p] \union newmask]
  BY DEF Block
<1> QED BY <1>1, <1>2 DEF Block, Return, Goto

(* Typing, in the library. *)
LEMMA LibraryTypes ==
  ASSUME NEW labels, SyncTypeOK(labels), NEW p \in Procs, LibraryStep(p)
  PROVE  SyncTypeOK(labels)'
<1> USE DEF SyncTypeOK, LibraryLabels, Gone, Procs, Parent, Child, newmask, sigvars,
            Goto, Move
<1>1. CASE InTellWait(p)
  BY <1>1 DEF InTellWait, Catch, Block, Return, USR1, USR2
<1>2. CASE InWait(p)
  BY <1>2 DEF InWait, CheckFlag, Suspend, ClearFlag, RestoreMask, Unblocked, zeromask
<1>3. CASE Delivery(p)
  BY <1>3 DEF Delivery, Terminate, Interrupt, WakeUp, sig_usr
<1> QED BY <1>1, <1>2, <1>3 DEF LibraryStep

(* The statements of p6, in the names of this module. *)
LEMMA CounterTypeStep == F!TypeOK /\ [F!Next]_F!vars => F!TypeOK'
<1> SUFFICES ASSUME F!TypeOK, [F!Next]_F!vars PROVE F!TypeOK'
  OBVIOUS
<1> USE DEF F!Procs, F!Parent, F!Child, Procs, Parent, Child, F!Goto, F!Move, F!sigvars
<1>1. ASSUME NEW p \in Procs, F!Library(p) PROVE F!TypeOK'
  <2>1. SyncTypeOK(F!Labels)'
    BY <1>1, SameLibrary, SameTypes, LibraryTypes DEF F!Library, F!TypeOK
  <2> QED BY <1>1, <2>1, SameTypes DEF F!Library, F!TypeOK
<1> USE DEF F!TypeOK, F!SyncTypeOK, F!Labels, F!LibraryLabels, F!Gone, F!newmask
<1>2. CASE F!Start
  BY <1>2 DEF F!Start, F!Fork
<1>3. CASE F!StartFails
  BY <1>3 DEF F!StartFails, F!ForkFails
<1>4. ASSUME NEW p \in Procs, F!Loop(p) \/ F!Wait(p) PROVE F!TypeOK'
  <2>1. PICK label \in F!Labels \union F!LibraryLabels \union F!Gone :
          pc' = [pc EXCEPT ![p] = label]
    BY <1>4 DEF F!Loop, F!Wait, F!TELL_WAIT, F!WAIT_CHILD, F!WAIT_PARENT, F!Call
  <2>2. ret' = ret \/ \E back \in F!Labels : ret' = [ret EXCEPT ![p] = back]
    BY <1>4 DEF F!Loop, F!Wait, F!TELL_WAIT, F!WAIT_CHILD, F!WAIT_PARENT, F!Call
  <2>3. UNCHANGED <<F!sigvars, file, cur>>
    BY <1>4 DEF F!Loop, F!Wait
  <2> QED BY <2>1, <2>2, <2>3
<1>5. ASSUME NEW p \in Procs, F!writenum(p) \/ F!Increment(p) PROVE F!TypeOK'
  <2>1. PICK label \in F!Labels : pc' = [pc EXCEPT ![p] = label]
    BY <1>5 DEF F!writenum, F!Increment
  <2>2. UNCHANGED <<ret, F!sigvars>>
    BY <1>5 DEF F!writenum, F!Increment
  <2>3. cur[p] \in Nat /\ cur[p] + 2 \in Nat
    OBVIOUS
  <2>4. cur' \in [Procs -> Nat]
    <3>1. cur' = cur \/ cur' = [cur EXCEPT ![p] = cur[p] + 2]
      BY <1>5 DEF F!writenum, F!Increment
    <3> QED BY <2>3, <3>1
  <2>5. file' = file \/ file' = {} \/ file' = {cur[p]}
    BY <1>5 DEF F!writenum, F!Increment
  <2> QED BY <2>1, <2>2, <2>3, <2>4, <2>5
<1>6. ASSUME NEW p \in Procs, F!Tell(p) PROVE F!TypeOK'
  BY <1>6 DEF F!Tell, F!TELL_CHILD, F!TELL_PARENT, F!Kill, F!USR1, F!USR2
<1>7. CASE UNCHANGED F!vars
  BY <1>7 DEF F!vars, F!syncvars
<1> QED
  BY <1>1, <1>2, <1>3, <1>4, <1>5, <1>6, <1>7 DEF F!Next, F!Step

LEMMA CounterInit == F!Init => F!TypeOK /\ CounterFile /\ CounterStart
  BY DEF F!Init, F!InitSync, F!TypeOK, F!SyncTypeOK, F!Labels, F!LibraryLabels, F!Gone,
         F!newmask, CounterFile, CounterStart, F!Procs, F!Parent, F!Child, Procs, Parent,
         Child

(* Where a step of p6 can lead a process. *)
LEMMA LibraryGoto ==
  ASSUME NEW p \in Procs, LibraryStep(p), ret[p] # "fclose",
         pc[p] = "fclose" => pending[p] = {}
  PROVE  \/ pc' = pc
         \/ pc[p] # "fclose" /\ \E label : label # "fclose" /\ pc' = [pc EXCEPT ![p] = label]
<1>1. CASE InTellWait(p)
  BY <1>1 DEF InTellWait, Catch, Block, Return, Goto
<1>2. CASE CheckFlag(p)
  BY <1>2 DEF CheckFlag, Move, Goto
<1>3. CASE Suspend(p) \/ ClearFlag(p) \/ RestoreMask(p) \/ Unblocked(p)
  BY <1>3 DEF Suspend, ClearFlag, RestoreMask, Unblocked, Move, Goto
<1>4. CASE Interrupt(p) \/ WakeUp(p)
  BY <1>4 DEF Interrupt, WakeUp, Goto
<1>5. CASE Terminate(p)
  BY <1>5 DEF Terminate, Deliverable, Goto
<1> QED BY <1>1, <1>2, <1>3, <1>4, <1>5 DEF LibraryStep, InWait, Delivery

(* fork, or its failure. *)
LEMMA CounterStartStep ==
  F!TypeOK /\ CounterStart /\ [F!Next]_F!vars => CounterStart' \/ CounterRun'
<1> SUFFICES ASSUME F!TypeOK, CounterStart, [F!Next]_F!vars
             PROVE  CounterStart' \/ CounterRun'
  OBVIOUS
<1> USE DEF CounterStart, F!Procs, F!Parent, F!Child, Procs, Parent, Child, F!Goto, F!Move,
            F!sigvars
<1>1. CASE F!Start
  <2>1. /\ pc[Parent] = "fork" /\ pc' = [p \in Procs |-> "loop"]
        /\ \A p \in Procs : pending'[p] = {} /\ sigflag'[p] = 0 /\ caught'[p] = {}
        /\ file' = {0} /\ cur'[Parent] = 2 /\ cur'[Child] = 1
    BY <1>1 DEF F!Start, F!Fork
  <2>2. CounterPlaces' /\ CounterMasks' /\ CounterCaught' /\ CounterRounds'
    BY <2>1
    DEF CounterPlaces, CounterMasks, CounterCaught, CounterRounds, ParentWaits, ChildWorks
  <2>3. CounterBaton' /\ CounterTurns'
    BY <2>1
    DEF CounterBaton, CounterTurns, HasBaton, Works, parentNext, childNext, ParentWaits,
        ParentWorks, ChildWaits, ChildWorks
  <2> QED BY <2>2, <2>3 DEF CounterRun
<1>2. CASE F!StartFails
  BY <1>2 DEF F!StartFails, F!ForkFails, F!TypeOK, F!SyncTypeOK
<1>3. ASSUME NEW p \in Procs, F!Step(p) PROVE FALSE
  <2>1. ~F!LibraryStep(p)
    <3>1. ~LibraryStep(p)
      BY DEF LibraryStep, InTellWait, InWait, Delivery, Catch, Block, CheckFlag, Suspend,
             ClearFlag, RestoreMask, Unblocked, Terminate, Interrupt, WakeUp, sig_usr,
             Deliverable, Move
    <3> QED BY <3>1, SameLibrary
  <2> QED
    BY <1>3, <2>1 DEF F!Step, F!Library, F!Loop, F!Wait, F!writenum, F!Tell, F!Increment
<1>4. CASE UNCHANGED F!vars
  BY <1>4 DEF F!vars, F!syncvars
<1> QED BY <1>1, <1>2, <1>3, <1>4 DEF F!Next

(* A step after fork. *)
LEMMA CounterRunStep == F!TypeOK /\ CounterRun /\ [F!Next]_F!vars => CounterRun'
<1> SUFFICES ASSUME F!TypeOK, CounterRun, [F!Next]_F!vars PROVE CounterRun'
  OBVIOUS
<1> USE DEF F!Procs, F!Parent, F!Child, Procs, Parent, Child, F!Goto, F!Move, F!sigvars,
            Goto, Move, sigvars, newmask, USR1, USR2
<1>t. /\ pc \in [Procs -> F!Labels \union LibraryLabels \union Gone \union {"unborn"}]
      /\ ret \in [Procs -> F!Labels] /\ caught \in [Procs -> SUBSET newmask]
      /\ mask \in [Procs -> SUBSET newmask] /\ oldmask \in [Procs -> SUBSET newmask]
      /\ suspmask \in [Procs -> SUBSET newmask] /\ pending \in [Procs -> SUBSET newmask]
      /\ sigflag \in [Procs -> {0, 1}] /\ cur \in [Procs -> Nat]
  BY SameTypes DEF F!TypeOK, SyncTypeOK
<1> USE <1>t DEF CounterRun, CounterPlaces, CounterMasks, CounterCaught, CounterRounds,
      CounterBaton, CounterTurns, HasBaton, Works, parentNext, childNext, ParentWaits,
      ParentWorks, ChildWaits, ChildWorks
<1>1. CASE F!Start \/ F!StartFails
  BY <1>1 DEF F!Start, F!StartFails, F!Fork, F!ForkFails
<1>2. ASSUME NEW p \in Procs, F!Loop(p) PROVE CounterRun'
  <2>1. pc[p] = "loop" /\ UNCHANGED <<sigvars, file, cur>>
    BY <1>2 DEF F!Loop
  <2>2. CASE cur[p] < Limit
    <3>1. /\ pc' = [pc EXCEPT ![p] = "signal1"]
          /\ ret' = [ret EXCEPT ![p] = IF p = Child THEN "fopen" ELSE "wait"]
      BY <1>2, <2>2 DEF F!Loop, F!TELL_WAIT, F!Call
    <3>2. CASE p = Parent
      BY <2>1, <2>2, <3>1, <3>2
    <3>3. CASE p = Child
      BY <2>1, <2>2, <3>1, <3>3
    <3> QED BY <3>2, <3>3
  <2>3. CASE ~(cur[p] < Limit)
    <3>1. pc' = [pc EXCEPT ![p] = "exited"] /\ UNCHANGED ret /\ cur[p] >= Limit
      BY <1>2, <2>3, Lengths DEF F!Loop
    <3>2. CASE p = Parent
      BY <2>1, <3>1, <3>2
    <3>3. CASE p = Child
      BY <2>1, <3>1, <3>3
    <3> QED BY <3>2, <3>3
  <2> QED BY <2>2, <2>3
<1>3. ASSUME NEW p \in Procs, F!Wait(p) PROVE CounterRun'
  BY <1>3 DEF F!Wait, F!WAIT_CHILD, F!WAIT_PARENT, F!Call
<1>4. ASSUME NEW p \in Procs, F!writenum(p) PROVE CounterRun'
  BY <1>4 DEF F!writenum
<1>5. ASSUME NEW p \in Procs, F!Increment(p) PROVE CounterRun'
  BY <1>5 DEF F!Increment
<1>6. ASSUME NEW p \in Procs, F!Tell(p) PROVE CounterRun'
  <2>1. CASE p = Parent
    <3>1. /\ pc[p] = "tell" /\ pc' = [pc EXCEPT ![p] = "next"]
          /\ pending' = [pending EXCEPT ![Child] = @ \union {USR1}]
          /\ UNCHANGED <<ret, caught, mask, oldmask, suspmask, sigflag, file, cur>>
      BY <1>6, <2>1 DEF F!Tell, F!TELL_CHILD, F!Kill, F!Alive, F!Gone, F!USR1
    <3> QED BY <2>1, <3>1
  <2>2. CASE p = Child
    <3>1. /\ pc[p] = "tell" /\ pc' = [pc EXCEPT ![p] = "wait"]
          /\ pending' = IF pc[Parent] = "exited" THEN pending
                        ELSE [pending EXCEPT ![Parent] = @ \union {USR2}]
          /\ UNCHANGED <<ret, caught, mask, oldmask, suspmask, sigflag, file, cur>>
      BY <1>6, <2>2 DEF F!Tell, F!TELL_PARENT, F!Kill, F!Alive, F!Gone, F!USR2
    <3>2. CASE pc[Parent] = "exited"
      BY <2>2, <3>1, <3>2
    <3>3. CASE pc[Parent] # "exited"
      BY <2>2, <3>1, <3>3
    <3> QED BY <3>2, <3>3
  <2> QED BY <2>1, <2>2
<1>7. ASSUME NEW p \in Procs, LibraryStep(p), UNCHANGED <<file, cur>> PROVE CounterRun'
  <2>1. CASE Catch(p, USR1, "signal1", "signal2")
    <3>1. /\ pc[p] = "signal1" /\ pc' = [pc EXCEPT ![p] = "signal2"]
          /\ caught' = [caught EXCEPT ![p] = @ \union {USR1}]
          /\ UNCHANGED <<ret, mask, oldmask, suspmask, pending, sigflag, file, cur>>
      BY <1>7, <2>1 DEF Catch
    <3>2. CASE p = Parent
      BY <3>1, <3>2
    <3>3. CASE p = Child
      BY <3>1, <3>3
    <3> QED BY <3>2, <3>3
  <2>2. CASE Catch(p, USR2, "signal2", "block")
    <3>1. /\ pc[p] = "signal2" /\ pc' = [pc EXCEPT ![p] = "block"]
          /\ caught' = [caught EXCEPT ![p] = @ \union {USR2}]
          /\ UNCHANGED <<ret, mask, oldmask, suspmask, pending, sigflag, file, cur>>
      BY <1>7, <2>2 DEF Catch
    <3>2. CASE p = Parent
      BY <3>1, <3>2
    <3>3. CASE p = Child
      BY <3>1, <3>3
    <3> QED BY <3>2, <3>3
  <2>3. CASE Block(p)
    <3>1. /\ pc[p] = "block" /\ ret[p] = IF p = Parent THEN "wait" ELSE "fopen"
          /\ UNCHANGED <<ret, caught, suspmask, pending, sigflag, file, cur>>
      BY <1>7, <2>3, BlockMask
    <3>2. /\ pc' = [pc EXCEPT ![p] = IF p = Parent THEN "wait" ELSE "fopen"]
          /\ mask' = [mask EXCEPT ![p] = newmask]
      BY <2>3, <3>1, BlockMask
    <3>3. CASE p = Parent
      BY <3>1, <3>2, <3>3
    <3>4. CASE p = Child
      BY <3>1, <3>2, <3>4
    <3> QED BY <3>3, <3>4
  <2>4. CASE CheckFlag(p)
    BY <1>7, <2>4 DEF CheckFlag
  <2>5. CASE Suspend(p)
    BY <1>7, <2>5 DEF Suspend
  <2>6. CASE ClearFlag(p)
    BY <1>7, <2>6 DEF ClearFlag
  <2>7. CASE RestoreMask(p)
    BY <1>7, <2>7 DEF RestoreMask
  <2>8. CASE Unblocked(p)
    BY <1>7, <2>8 DEF Unblocked
  <2>9. CASE Terminate(p)
    BY <1>7, <2>9 DEF Terminate, Deliverable, Alive, Gone
  <2>10. CASE Interrupt(p)
    BY <1>7, <2>10 DEF Interrupt, sig_usr, Deliverable, Alive, Gone
  <2>11. CASE WakeUp(p)
    BY <1>7, <2>11 DEF WakeUp, sig_usr, Deliverable, Alive, Gone
  <2> QED
    BY <1>7, <2>1, <2>2, <2>3, <2>4, <2>5, <2>6, <2>7, <2>8, <2>9, <2>10, <2>11
    DEF LibraryStep, InTellWait, InWait, Delivery
<1>8. CASE UNCHANGED F!vars
  BY <1>8 DEF F!vars, F!syncvars
<1>9. ASSUME NEW p \in Procs, F!Library(p) PROVE CounterRun'
  BY <1>7, <1>9, SameLibrary DEF F!Library
<1> QED
  BY <1>1, <1>2, <1>3, <1>4, <1>5, <1>6, <1>8, <1>9 DEF F!Next, F!Step

LEMMA CounterFileStep ==
  F!TypeOK /\ CounterFile /\ (CounterStart \/ CounterRun) /\ [F!Next]_F!vars => CounterFile'
<1> SUFFICES ASSUME F!TypeOK, CounterFile, CounterStart \/ CounterRun, [F!Next]_F!vars
             PROVE  CounterFile'
  OBVIOUS
<1> USE DEF F!Procs, F!Parent, F!Child, Procs, Parent, Child, F!Goto, F!Move, CounterFile
<1>t. /\ pc \in [Procs -> F!Labels \union LibraryLabels \union Gone \union {"unborn"}]
      /\ ret \in [Procs -> F!Labels]
  BY SameTypes DEF F!TypeOK, SyncTypeOK
<1>1. CASE F!Start
  BY <1>1
  DEF F!Start, F!Fork, CounterStart, CounterRun, CounterPlaces, ParentWaits, ParentWorks
<1>2. CASE F!StartFails
  BY <1>2, <1>t
  DEF F!StartFails, F!ForkFails, CounterStart, CounterRun, CounterPlaces, ParentWaits,
      ParentWorks
<1>3. ASSUME NEW p \in Procs, F!Loop(p) \/ F!Wait(p) PROVE CounterFile'
  BY <1>3, <1>t DEF F!Loop, F!Wait, F!TELL_WAIT, F!WAIT_CHILD, F!WAIT_PARENT, F!Call
<1>4. ASSUME NEW p \in Procs, F!writenum(p) PROVE CounterFile'
  BY <1>4, <1>t DEF F!writenum
<1>5. ASSUME NEW p \in Procs, F!Tell(p) \/ F!Increment(p) PROVE CounterFile'
  BY <1>5, <1>t DEF F!Tell, F!Increment, F!TELL_CHILD, F!TELL_PARENT
<1>6. ASSUME NEW p \in Procs, F!Library(p) PROVE CounterFile'
  <2>1. LibraryStep(p) /\ UNCHANGED file
    BY <1>6, SameLibrary DEF F!Library
  <2>2. UNCHANGED ret
    BY <2>1
    DEF LibraryStep, InTellWait, InWait, Delivery, Catch, Block, CheckFlag, Suspend,
        ClearFlag, RestoreMask, Unblocked, Terminate, Interrupt, WakeUp, sig_usr, Move
  <2>3. pc[p] = "fclose" => pending[p] = {}
    BY DEF CounterStart, CounterRun, CounterBaton, Works, ParentWorks, ChildWorks
  <2> QED BY <1>t, <2>1, <2>2, <2>3, LibraryGoto
<1>7. CASE UNCHANGED F!vars
  BY <1>7 DEF F!vars, F!syncvars
<1> QED BY <1>1, <1>2, <1>3, <1>4, <1>5, <1>6, <1>7 DEF F!Next, F!Step

LEMMA CounterStep == CounterInv /\ [F!Next]_F!vars => CounterInv'
  BY CounterTypeStep, CounterFileStep, CounterStartStep, CounterRunStep DEF CounterInv

(* What the invariant promises of p6. *)
LEMMA CounterSafe == CounterInv => F!Inv
<1> SUFFICES ASSUME CounterInv PROVE F!Inv
  OBVIOUS
<1> USE DEF F!Procs, F!Parent, F!Child, Procs, Parent, Child, F!USR2, USR2
<1>t. cur \in [Procs -> Nat] /\ sigflag \in [Procs -> {0, 1}]
  BY SameTypes DEF CounterInv, F!TypeOK, SyncTypeOK
<1>1. CASE CounterStart
  BY <1>1
  DEF CounterInv, CounterStart, F!Inv, F!NoLostWakeup, F!LostWakeup,
      F!KilledOnlyInFirstRound, F!WaitsOnlyForTheGone
<1>2. CASE CounterRun
  <2>1. F!TypeOK
    BY DEF CounterInv
  <2>2. F!NoLostWakeup
    BY <1>2 DEF CounterRun, CounterPlaces, F!NoLostWakeup, F!LostWakeup
  <2>3. F!KilledOnlyInFirstRound
    BY <1>2
    DEF CounterRun, CounterPlaces, CounterTurns, ChildWaits, ChildWorks,
        F!KilledOnlyInFirstRound
  <2>4. F!WaitsOnlyForTheGone
    <3> SUFFICES ASSUME NEW p \in Procs, pc[p] = "asleep", pending[p] = {}
                 PROVE  \/ /\ F!Alive(F!Peer(p))
                           /\ ~(pc[F!Peer(p)] = "asleep" /\ pending[F!Peer(p)] = {})
                        \/ p = Child /\ pc[Parent] \in {"killed", "exited"}
      BY DEF F!WaitsOnlyForTheGone
    <3> USE <1>2, <1>t
        DEF CounterRun, CounterPlaces, CounterRounds, CounterBaton, CounterTurns, HasBaton,
            Works, ParentWorks, ParentWaits, ChildWorks, ChildWaits, parentNext, childNext,
            F!Peer, F!Alive, F!Gone
    <3>1. CASE p = Parent
      <4>1. pc[Child] # "exited"
        BY <3>1, Lengths
      <4>2. HasBaton(Child)
        BY <3>1, <4>1
      <4> QED BY <3>1, <4>1, <4>2
    <3>2. CASE p = Child
      BY <3>2
    <3> QED BY <3>1, <3>2
  <2> QED BY <2>1, <2>2, <2>3, <2>4 DEF F!Inv
<1> QED BY <1>1, <1>2 DEF CounterInv

-----------------------------------------------------------------------------
(* The writes of p6 are turns. *)

LEMMA WriterIs ==
  ASSUME NEW p \in Procs, pc[p] = "fclose", pc[F!Peer(p)] # "fclose"
  PROVE  F!Writer = p
BY DEF F!Writer, F!Procs, Procs, Parent, Child, F!Parent, F!Child, F!Peer

LEMMA NoWriter ==
  ASSUME \A p \in Procs : pc[p] # "fclose"
  PROVE  F!Writer = "nobody"
BY DEF F!Writer, F!Procs, Procs, Parent, Child, F!Parent, F!Child

(* The abstract state is a function of the file, of who has it open and of *)
(* the number that process writes.                                         *)
NotShared ==
  \E p \in Procs : pc[p] # "fclose" /\ (pc[F!Peer(p)] = "fclose" \/ file # {})

LEMMA TurnStutters ==
  ASSUME NotShared, UNCHANGED file,
         \A p \in Procs : pc'[p] = "fclose" <=> pc[p] = "fclose",
         \A p \in Procs : pc[p] = "fclose" => cur'[p] = cur[p]
  PROVE  UNCHANGED F!T!vars
<1> USE DEF Procs, Parent, Child, F!Peer, F!Parent, F!Child
<1>1. CASE \A p \in Procs : pc[p] # "fclose"
  <2>1. F!Writer = "nobody" /\ F!Writer' = "nobody"
    BY <1>1, NoWriter DEF F!Writer, F!Procs
  <2>2. file # {}
    BY <1>1 DEF NotShared
  <2> QED BY <2>1, <2>2 DEF F!T!vars
<1>2. ASSUME NEW p \in Procs, pc[p] = "fclose" PROVE UNCHANGED F!T!vars
  <2>1. pc[F!Peer(p)] # "fclose"
    BY <1>2 DEF NotShared
  <2>2. F!Writer = p
    BY <1>2, <2>1, WriterIs
  <2>3. pc'[p] = "fclose" /\ pc'[F!Peer(p)] # "fclose"
    BY <1>2, <2>1
  <2>4. F!Writer' = p
    BY <2>3 DEF F!Writer, F!Procs
  <2> QED BY <1>2, <2>2, <2>4 DEF F!T!vars
<1> QED BY <1>1, <1>2

LEMMA CounterNotShared == CounterInv => NotShared
  BY
  DEF CounterInv, CounterFile, CounterStart, CounterRun, CounterBaton, HasBaton, Works,
      ParentWorks, ChildWorks, NotShared, F!Peer, F!Parent, F!Child, Procs, Parent, Child

LEMMA Parity ==
  ASSUME NEW n \in Nat, n - 1 \in Nat
  PROVE  (n - 1) % 2 = 1 - (n % 2)
OBVIOUS

(* fopen begins a turn. *)
LEMMA FopenIsBegin ==
  ASSUME CounterInv, NEW p \in Procs, pc[p] = "fopen", pc' = [pc EXCEPT ![p] = "fclose"],
         file' = {}, cur' = cur
  PROVE  F!T!Begin(p)
<1> USE DEF F!Procs, F!Parent, F!Child, Procs, Parent, Child, F!Peer
<1>t. pc \in [Procs -> F!Labels \union LibraryLabels \union Gone \union {"unborn"}]
      /\ cur \in [Procs -> Nat]
  BY SameTypes DEF CounterInv, F!TypeOK, SyncTypeOK
<1>r. CounterRun
  BY DEF CounterInv, CounterStart
<1>1. \A q \in Procs : pc[q] # "fclose"
  BY <1>r
  DEF CounterRun, CounterBaton, HasBaton, Works, ParentWorks, ChildWorks
<1>2. pc'[p] = "fclose" /\ pc'[F!Peer(p)] # "fclose"
  BY <1>1, <1>t
<1>3. F!Writer = "nobody" /\ F!Writer' = p
  BY <1>1, <1>2, NoWriter DEF F!Writer
<1>4. /\ file = {cur[p] - 1} /\ cur[p] < Limit /\ cur[p] - 1 \in Nat
      /\ cur[p] % 2 = IF p = Child THEN 1 ELSE 0
  BY <1>r, <1>t
  DEF CounterRun, CounterBaton, CounterTurns, CounterRounds, HasBaton, Works, ParentWorks,
      ChildWorks, ChildWaits, parentNext, childNext
<1>5. /\ (IF file = {} THEN cur[F!Writer] - 1 ELSE CHOOSE n \in file : TRUE) = cur[p] - 1
      /\ (IF file' = {} THEN cur'[F!Writer'] - 1 ELSE CHOOSE n \in file' : TRUE) = cur[p] - 1
  BY <1>3, <1>4
<1>6. p = F!T!Owner(cur[p] - 1)
  <2>1. (cur[p] - 1) % 2 = IF p = Child THEN 0 ELSE 1
    BY <1>4, <1>t, Parity
  <2> QED BY <2>1 DEF F!T!Owner
<1>7. cur[p] - 1 < Limit - 1
  BY <1>4, <1>t, Lengths
<1> QED BY <1>3, <1>4, <1>5, <1>6, <1>7 DEF F!T!Begin, F!T!Nobody

(* fclose ends it. *)
LEMMA FcloseIsEnd ==
  ASSUME CounterInv, NEW p \in Procs, pc[p] = "fclose", pc' = [pc EXCEPT ![p] = "tell"],
         file' = {cur[p]}, cur' = cur
  PROVE  F!T!End(p)
<1> USE DEF F!Procs, F!Parent, F!Child, Procs, Parent, Child, F!Peer
<1>t. pc \in [Procs -> F!Labels \union LibraryLabels \union Gone \union {"unborn"}]
      /\ cur \in [Procs -> Nat]
  BY SameTypes DEF CounterInv, F!TypeOK, SyncTypeOK
<1>1. pc[F!Peer(p)] # "fclose"
  BY CounterNotShared DEF NotShared
<1>2. \A q \in Procs : pc'[q] # "fclose"
  BY <1>1, <1>t
<1>3. F!Writer = p /\ F!Writer' = "nobody"
  BY <1>1, <1>2, WriterIs DEF F!Writer
<1>4. file = {}
  BY
  DEF CounterInv, CounterStart, CounterRun, CounterBaton, CounterTurns, HasBaton, Works,
      ParentWorks, ChildWorks
<1>5. (CHOOSE n \in {cur[p]} : TRUE) = cur[p] /\ cur[p] - 1 + 1 = cur[p]
  BY <1>t
<1> QED BY <1>3, <1>4, <1>5 DEF F!T!End, F!T!Nobody

(* No other step of p6 begins or ends one. *)
LEMMA CounterTurnStep == CounterInv /\ [F!Next]_F!vars => [F!T!Next]_(F!T!vars)
<1> SUFFICES ASSUME CounterInv, [F!Next]_F!vars PROVE [F!T!Next]_(F!T!vars)
  OBVIOUS
<1> USE DEF F!Procs, F!Parent, F!Child, Procs, Parent, Child
<1>t. /\ pc \in [Procs -> F!Labels \union LibraryLabels \union Gone \union {"unborn"}]
      /\ ret \in [Procs -> F!Labels] /\ cur \in [Procs -> Nat]
  BY SameTypes DEF CounterInv, F!TypeOK, SyncTypeOK
<1>1. ASSUME NEW p \in Procs, F!writenum(p) PROVE F!T!Next
  <2>1. CASE F!Move(p, "fopen", "fclose") /\ file' = {}
    BY <1>1, <2>1, FopenIsBegin DEF F!writenum, F!Move, F!Goto, F!T!Next
  <2>2. CASE F!Move(p, "fclose", "tell") /\ file' = {cur[p]}
    BY <1>1, <2>2, FcloseIsEnd DEF F!writenum, F!Move, F!Goto, F!T!Next
  <2> QED BY <1>1, <2>1, <2>2 DEF F!writenum
<1>2. ASSUME NEW p \in Procs, NEW label, pc[p] # "fclose", label # "fclose",
             pc' = [pc EXCEPT ![p] = label], file' = file,
             cur' = [cur EXCEPT ![p] = cur'[p]]
      PROVE  UNCHANGED F!T!vars
  BY <1>t, <1>2, CounterNotShared, TurnStutters
<1>3. CASE F!Start \/ F!StartFails
  <2>1. \A p \in Procs : pc[p] # "fclose" /\ pc'[p] # "fclose"
    BY <1>3, <1>t
    DEF F!Start, F!StartFails, F!Fork, F!ForkFails, F!Move, F!Goto, CounterInv, CounterStart,
        CounterRun, CounterPlaces, ParentWaits, ParentWorks
  <2> QED
    BY <1>3, <2>1, CounterNotShared, TurnStutters DEF F!Start, F!StartFails
<1>4. ASSUME NEW p \in Procs, F!Loop(p) \/ F!Wait(p) PROVE UNCHANGED F!T!vars
  <2>1. \E label : label # "fclose" /\ pc' = [pc EXCEPT ![p] = label]
    BY <1>4
    DEF F!Loop, F!Wait, F!TELL_WAIT, F!WAIT_CHILD, F!WAIT_PARENT, F!Call, F!Goto
  <2> QED BY <1>t, <1>2, <1>4, <2>1 DEF F!Loop, F!Wait
<1>5. ASSUME NEW p \in Procs, F!Tell(p) \/ F!Increment(p) PROVE UNCHANGED F!T!vars
  <2>1. pc[p] # "fclose" /\ \E label : label # "fclose" /\ pc' = [pc EXCEPT ![p] = label]
    BY <1>5 DEF F!Tell, F!Increment, F!TELL_CHILD, F!TELL_PARENT, F!Goto, F!Move
  <2>2. file' = file /\ cur' = [cur EXCEPT ![p] = cur'[p]]
    BY <1>5, <1>t DEF F!Tell, F!Increment
  <2> QED BY <1>2, <2>1, <2>2
<1>6. ASSUME NEW p \in Procs, F!Library(p) PROVE UNCHANGED F!T!vars
  <2>1. /\ LibraryStep(p) /\ ret[p] # "fclose"
        /\ pc[p] = "fclose" => pending[p] = {}
    BY <1>6, SameLibrary
    DEF F!Library, CounterInv, CounterFile, CounterStart, CounterRun, CounterBaton, Works,
        ParentWorks, ChildWorks
  <2>2. CASE pc' = pc
    BY <1>6, <2>2, CounterNotShared, TurnStutters DEF F!Library
  <2>3. CASE pc[p] # "fclose" /\ \E label : label # "fclose" /\ pc' = [pc EXCEPT ![p] = label]
    BY <1>2, <1>6, <1>t, <2>3 DEF F!Library
  <2> QED BY <2>1, <2>2, <2>3, LibraryGoto
<1>7. CASE UNCHANGED F!vars
  BY <1>7, CounterNotShared, TurnStutters DEF F!vars, F!syncvars
<1> QED BY <1>1, <1>3, <1>4, <1>5, <1>6, <1>7 DEF F!Next, F!Step

-----------------------------------------------------------------------------
(* 8.9, 8.9.2, 8.9.3.  Before fork: TELL_WAIT runs, if the program calls it. *)
Before(start) ==
  /\ pc[Child] = "unborn"
  /\ pc[Parent] \in {"fork", "failed"} \union start
  /\ ret[Parent] = "fork"
  /\ start # {} /\ pc[Parent] # "signal1" => USR1 \in caught[Parent]
  /\ start # {} /\ pc[Parent] \notin {"signal1", "signal2"} => caught[Parent] = newmask
  /\ start # {} /\ pc[Parent] \in {"fork", "failed"} => mask[Parent] = newmask
  /\ \A p \in Procs : pending[p] = {} /\ sigflag[p] = 0

TellWaitLabels == {"signal1", "signal2", "block"}
WaitLabels == {"check", "suspend", "asleep"}
AfterWaitLabels == {"clear", "restore", "unblocked"}
Told(p) == pending[p] # {} \/ sigflag[p] = 1

(* A process that waits with the dispositions and the mask of TELL_WAIT.   *)
WaitsSafely(p) ==
  /\ caught[p] = newmask
  /\ pc[p] \in {"check", "suspend", "clear", "restore"} => mask[p] = newmask
  /\ pc[p] = "asleep" => suspmask[p] = newmask
  /\ pc[p] \in {"suspend", "asleep"} => sigflag[p] = 0
  /\ pc[p] = "clear" => sigflag[p] = 1

(* 8.9: nobody waits or tells. *)
OutputAlone ==
  /\ program = C!Unsynchronised
  /\ \A p \in Procs : pc[p] \in {"main", "putc", "exited"} /\ pending[p] = {}

(* Who goes first is told nothing, and tells when its string is out. *)
OutputFirst(p) ==
  /\ pc[p] \in {"main", "putc", "tell", "exited"} /\ pending[p] = {}
  /\ pc[p] \in {"tell", "exited"} => written[p] = C!Len(p)

(* Who goes second has been told, or has got past its wait, exactly when   *)
(* the other one has ended.                                                *)
OutputSecond(p) ==
  /\ pc[p] \in {"main", "putc", "exited"} \union WaitLabels \union AfterWaitLabels
  /\ WaitsSafely(p)
  /\ pc[p] = "main" => mask[p] = newmask
  /\ pc[p] \in WaitLabels \union AfterWaitLabels => ret[p] = "putc"
  /\ pc[p] \in WaitLabels \union {"main"} => written[p] = 0
  /\ Told(p) \/ pc[p] \notin WaitLabels \union {"main"}
       <=> pc[Peer(p)] = "exited"

OutputBefore ==
  /\ Before(IF program = C!Unsynchronised THEN {} ELSE TellWaitLabels)
  /\ written = [p \in Procs |-> 0]

OutputRun ==
  \E p \in Procs : C!GoesFirst(p) /\ OutputFirst(p) /\ OutputSecond(Peer(p))

OutputInv ==
  /\ C!TypeOK
  /\ written \in [Procs -> Nat]
  /\ OutputBefore \/ OutputAlone \/ OutputRun

LEMMA OutputInit == C!Init => OutputInv
BY Lengths
DEF C!Init, C!InitSync, OutputInv, OutputBefore, Before, TellWaitLabels, C!TypeOK,
    C!SyncTypeOK, C!Labels, C!LibraryLabels, C!Gone, C!newmask, C!Len, C!Programs,
    C!Procs, C!Parent, C!Child, Procs, Parent, Child

LEMMA OutputTypeStep ==
  ASSUME OutputInv, C!Next
  PROVE  C!TypeOK' /\ written' \in [Procs -> Nat]
<1> USE DEF C!Procs, C!Parent, C!Child, Procs, Parent, Child, C!Goto, C!Move, C!sigvars
<1>t. C!TypeOK /\ written \in [Procs -> Nat]
  BY DEF OutputInv
<1>1. ASSUME NEW p \in Procs, C!Library(p) PROVE C!TypeOK' /\ written' \in [Procs -> Nat]
  <2>1. SyncTypeOK(C!Labels)'
    BY <1>1, <1>t, SameLibrary, SameTypes, LibraryTypes DEF C!Library, C!TypeOK
  <2> QED
    BY <1>1, <1>t, <2>1, SameTypes DEF C!Library, C!TypeOK, C!Len
<1> USE <1>t DEF C!TypeOK, C!SyncTypeOK, C!Labels, C!LibraryLabels, C!Gone, C!newmask
<1>2. CASE C!Start
  BY <1>2 DEF C!Start, C!Fork, C!Len
<1>3. CASE C!StartFails
  BY <1>3 DEF C!StartFails, C!ForkFails, C!Len
<1>4. ASSUME NEW p \in Procs, C!Main(p) \/ C!Finish(p)
      PROVE  C!TypeOK' /\ written' \in [Procs -> Nat]
  BY <1>4 DEF C!Main, C!Finish, C!WAIT_CHILD, C!WAIT_PARENT, C!Call, C!Len
<1>5. ASSUME NEW p \in Procs, C!Putc(p) PROVE C!TypeOK' /\ written' \in [Procs -> Nat]
  <2>1. C!Len(p) \in Nat /\ \A q \in Procs : C!Len(q)' = C!Len(q)
    BY Lengths DEF C!Len
  <2>2. written' = [written EXCEPT ![p] = written[p] + 1] /\ written[p] + 1 \in 0 .. C!Len(p)
    BY <1>5, <2>1 DEF C!Putc
  <2>3. UNCHANGED <<C!syncvars, program>>
    BY <1>5 DEF C!Putc
  <2> QED BY <2>1, <2>2, <2>3 DEF C!syncvars
<1>6. ASSUME NEW p \in Procs, C!Tell(p) PROVE C!TypeOK' /\ written' \in [Procs -> Nat]
  BY <1>6 DEF C!Tell, C!TELL_CHILD, C!TELL_PARENT, C!Kill, C!USR1, C!USR2, C!Len
<1> QED BY <1>1, <1>2, <1>3, <1>4, <1>5, <1>6 DEF C!Next, C!Step

(* The types, in the names of this module. *)
LEMMA OutputTypes ==
  ASSUME C!TypeOK
  PROVE  /\ pc \in [Procs -> C!Labels \union LibraryLabels \union Gone \union {"unborn"}]
         /\ ret \in [Procs -> C!Labels] /\ caught \in [Procs -> SUBSET newmask]
         /\ mask \in [Procs -> SUBSET newmask] /\ oldmask \in [Procs -> SUBSET newmask]
         /\ suspmask \in [Procs -> SUBSET newmask] /\ pending \in [Procs -> SUBSET newmask]
         /\ sigflag \in [Procs -> {0, 1}] /\ program \in C!Programs
BY SameTypes DEF C!TypeOK, SyncTypeOK

(* TELL_WAIT before fork, for every program that calls it there. *)
LEMMA BeforeLibrary ==
  ASSUME NEW start \in {{}, TellWaitLabels}, NEW labels, SyncTypeOK(labels), Before(start),
         NEW p \in Procs, LibraryStep(p)
  PROVE  Before(start)'
<1> USE DEF Before, TellWaitLabels, Procs, Parent, Child, SyncTypeOK
<1>1. CASE Catch(p, USR1, "signal1", "signal2")
  BY <1>1 DEF Catch, Goto
<1>2. CASE Catch(p, USR2, "signal2", "block")
  <2>1. caught[Parent] \union {USR2} = newmask
    BY <1>2 DEF Catch, newmask
  <2> QED BY <1>2, <2>1 DEF Catch, Goto
<1>3. CASE Block(p)
  BY <1>3, BlockMask
<1>4. CASE InWait(p)
  BY <1>4 DEF InWait, CheckFlag, Suspend, ClearFlag, RestoreMask, Unblocked, Move
<1>5. CASE Delivery(p)
  BY <1>5 DEF Delivery, Terminate, Interrupt, WakeUp, sig_usr, Deliverable
<1> QED BY <1>1, <1>2, <1>3, <1>4, <1>5 DEF LibraryStep, InTellWait

(* fork gives the process that waits the dispositions and the mask. *)
LEMMA OutputBeforeStep ==
  ASSUME OutputInv, OutputBefore, C!Next
  PROVE  OutputBefore' \/ OutputAlone' \/ OutputRun'
<1> USE DEF Procs, Parent, Child, C!Procs, C!Parent, C!Child
<1>t. C!TypeOK /\ SyncTypeOK(C!Labels) /\ program \in C!Programs
  BY SameTypes DEF OutputInv, C!TypeOK
<1>1. CASE C!Start
  <2>1. /\ pc[Parent] = "fork" /\ pc' = [p \in Procs |-> "main"]
        /\ caught' = [p \in Procs |-> caught[Parent]]
        /\ mask' = [p \in Procs |-> mask[Parent]]
        /\ sigflag' = [p \in Procs |-> sigflag[Parent]]
        /\ UNCHANGED <<pending, program, written>>
    BY <1>1 DEF C!Start, C!Fork
  <2>2. CASE program = C!Unsynchronised
    BY <2>1, <2>2 DEF OutputAlone, OutputBefore, Before
  <2>3. CASE program # C!Unsynchronised
    <3>1. /\ caught[Parent] = newmask /\ mask[Parent] = newmask
          /\ \A p \in Procs : pending[p] = {} /\ sigflag[p] = 0 /\ written[p] = 0
      BY <2>1, <2>3 DEF OutputBefore, Before, TellWaitLabels
    <3>2. \E p \in Procs : C!GoesFirst(p)'
      BY <2>1, <2>3, <1>t
      DEF C!GoesFirst, C!Programs, C!Unsynchronised, C!ParentFirst, C!ChildFirst
    <3>3. \A p \in Procs : OutputFirst(p)' /\ OutputSecond(p)'
      BY <2>1, <3>1
      DEF OutputFirst, OutputSecond, WaitsSafely, WaitLabels, AfterWaitLabels, Told, Peer
    <3>4. \A p \in Procs : Peer(p) \in Procs
      BY DEF Peer
    <3> QED BY <3>2, <3>3, <3>4 DEF OutputRun
  <2> QED BY <2>2, <2>3
<1>2. CASE C!StartFails
  BY <1>2, <1>t
  DEF C!StartFails, C!ForkFails, C!Move, C!Goto, C!sigvars, SyncTypeOK, OutputBefore,
      Before, TellWaitLabels
<1>3. ASSUME NEW p \in Procs, C!Library(p) PROVE OutputBefore'
  <2>1. LibraryStep(p) /\ UNCHANGED <<program, written>>
    BY <1>3, SameLibrary DEF C!Library
  <2>2. CASE program = C!Unsynchronised
    BY <1>t, <2>1, <2>2, BeforeLibrary DEF OutputBefore
  <2>3. CASE program # C!Unsynchronised
    BY <1>t, <2>1, <2>3, BeforeLibrary DEF OutputBefore
  <2> QED BY <2>2, <2>3
<1>4. ASSUME NEW p \in Procs, C!Main(p) \/ C!Putc(p) \/ C!Finish(p) \/ C!Tell(p)
      PROVE  FALSE
  BY <1>4
  DEF C!Main, C!Putc, C!Finish, C!Tell, C!Move, OutputBefore, Before, TellWaitLabels
<1> QED BY <1>1, <1>2, <1>3, <1>4 DEF C!Next, C!Step

LEMMA OutputAloneStep ==
  ASSUME OutputInv, OutputAlone, C!Next
  PROVE  OutputAlone'
<1> USE DEF Procs, Parent, Child, C!Procs, C!Parent, C!Child, OutputAlone
<1>t. pc \in [Procs -> C!Labels \union LibraryLabels \union Gone \union {"unborn"}]
  BY OutputTypes DEF OutputInv
<1>1. ASSUME NEW p \in Procs, LibraryStep(p) PROVE FALSE
  BY <1>1
  DEF LibraryStep, InTellWait, InWait, Delivery, Catch, Block, CheckFlag, Suspend,
      ClearFlag, RestoreMask, Unblocked, Terminate, Interrupt, WakeUp, sig_usr,
      Deliverable, Move
<1>2. ~C!GoesFirst(Parent) /\ ~C!GoesFirst(Child)
  BY DEF C!GoesFirst, C!Unsynchronised, C!ParentFirst, C!ChildFirst
<1>3. ASSUME NEW p \in Procs, C!Main(p) \/ C!Putc(p) \/ C!Finish(p) \/ C!Tell(p)
      PROVE  OutputAlone'
  BY <1>2, <1>3, <1>t
  DEF C!Main, C!Putc, C!Finish, C!Tell, C!Move, C!Goto, C!sigvars, C!syncvars
<1>4. CASE C!Start \/ C!StartFails
  BY <1>4 DEF C!Start, C!StartFails, C!Fork, C!ForkFails, C!Move
<1> QED BY <1>1, <1>3, <1>4, SameLibrary DEF C!Next, C!Step, C!Library

(* The wait of one process and what the other one does meanwhile. *)
LEMMA OutputRunStep ==
  ASSUME OutputInv, NEW f \in Procs, C!GoesFirst(f), OutputFirst(f), OutputSecond(Peer(f)),
         C!Next
  PROVE  C!GoesFirst(f)' /\ OutputFirst(f)' /\ OutputSecond(Peer(f))'
<1> DEFINE s == Peer(f)
<1> USE DEF Procs, Parent, Child, C!Procs, C!Parent, C!Child, Peer, C!Goto, C!Move, C!sigvars,
            Goto, Move, sigvars
<1>t. /\ pc \in [Procs -> C!Labels \union LibraryLabels \union Gone \union {"unborn"}]
      /\ ret \in [Procs -> C!Labels] /\ caught \in [Procs -> SUBSET newmask]
      /\ mask \in [Procs -> SUBSET newmask] /\ oldmask \in [Procs -> SUBSET newmask]
      /\ suspmask \in [Procs -> SUBSET newmask] /\ pending \in [Procs -> SUBSET newmask]
      /\ sigflag \in [Procs -> {0, 1}] /\ program \in C!Programs
      /\ written \in [Procs -> Nat] /\ \A p \in Procs : C!Len(p) \in Nat
  BY OutputTypes, Lengths DEF OutputInv, C!Len
<1>f. /\ program # C!Unsynchronised /\ C!GoesFirst(f) /\ ~C!GoesFirst(s)
      /\ f # s /\ Peer(s) = f /\ s \in Procs
  BY DEF C!GoesFirst, C!Unsynchronised, C!ParentFirst, C!ChildFirst
<1>p. UNCHANGED program
  BY DEF C!Next, C!Start, C!StartFails, C!Step, C!Main, C!Putc, C!Finish, C!Tell, C!Library,
         C!syncvars
<1>g. C!GoesFirst(f)' /\ C!Len(f)' = C!Len(f)
  BY <1>p DEF C!GoesFirst, C!Len
<1> HIDE DEF s
<1> USE <1>t, <1>f DEF OutputFirst, OutputSecond, WaitsSafely, WaitLabels, AfterWaitLabels,
      Told
<1>0. OutputFirst(f) /\ OutputSecond(s) /\ Peer(f) = s
  BY DEF s
<1>1. CASE C!Main(f)
  BY <1>0, <1>1, <1>g DEF C!Main
<1>2. CASE C!Main(s)
  <2>1. /\ pc[s] = "main" /\ pc' = [pc EXCEPT ![s] = "check"]
        /\ ret' = [ret EXCEPT ![s] = "putc"] /\ UNCHANGED <<sigvars, written>>
    BY <1>0, <1>2 DEF C!Main, C!WAIT_CHILD, C!WAIT_PARENT, C!Call
  <2> QED BY <1>0, <1>g, <2>1
<1>3. ASSUME NEW p \in Procs, C!Putc(p) PROVE OutputFirst(f)' /\ OutputSecond(s)'
  <2>1. /\ pc[p] = "putc" /\ written' = [written EXCEPT ![p] = written[p] + 1]
        /\ UNCHANGED <<pc, ret, caught, mask, oldmask, suspmask, pending, sigflag>>
    BY <1>3 DEF C!Putc, C!syncvars
  <2> QED BY <1>0, <1>g, <2>1
<1>4. ASSUME NEW p \in Procs, C!Finish(p) PROVE OutputFirst(f)' /\ OutputSecond(s)'
  <2>1. CASE p = f
    BY <1>0, <1>g, <1>4, <2>1 DEF C!Finish
  <2>2. CASE p = s
    BY <1>0, <1>g, <1>4, <2>2 DEF C!Finish
  <2> QED BY <2>1, <2>2
<1>5. ASSUME NEW p \in Procs, C!Tell(p) PROVE OutputFirst(f)' /\ OutputSecond(s)'
  <2>1. p = f /\ pc[f] = "tell" /\ pc[s] \in WaitLabels \union {"main"} /\ C!Alive(s)
    BY <1>0, <1>5 DEF C!Tell, C!Alive, C!Gone
  <2>2. /\ pc' = [pc EXCEPT ![f] = "exited"]
        /\ \E signo : pending' = [pending EXCEPT ![s] = pending[s] \union {signo}]
        /\ UNCHANGED <<ret, caught, mask, oldmask, suspmask, sigflag, written>>
    <3>1. CASE f = Parent
      <4>1. s = Child /\ C!TELL_CHILD("exited") /\ UNCHANGED written
        BY <1>5, <2>1, <3>1 DEF C!Tell
      <4> QED BY <2>1, <3>1, <4>1 DEF C!TELL_CHILD, C!Kill
    <3>2. CASE f = Child
      <4>1. s = Parent /\ C!TELL_PARENT("exited") /\ UNCHANGED written
        BY <1>5, <2>1, <3>2 DEF C!Tell
      <4> QED BY <2>1, <3>2, <4>1 DEF C!TELL_PARENT, C!Kill
    <3> QED BY <3>1, <3>2
  <2> QED BY <1>0, <1>g, <2>1, <2>2
<1>6. ASSUME NEW p \in Procs, C!Library(p) PROVE OutputFirst(f)' /\ OutputSecond(s)'
  <2>1. LibraryStep(p) /\ UNCHANGED written
    BY <1>6, SameLibrary DEF C!Library
  <2>2. p = s
    BY <1>0, <2>1
    DEF LibraryStep, InTellWait, InWait, Delivery, Catch, Block, CheckFlag, Suspend,
        ClearFlag, RestoreMask, Unblocked, Terminate, Interrupt, WakeUp, sig_usr, Deliverable
  <2>3. ~InTellWait(s) /\ ~Terminate(s)
    BY <1>0 DEF InTellWait, Catch, Block, Terminate, Deliverable, newmask
  <2>4. CASE CheckFlag(s)
    BY <1>0, <1>g, <2>1, <2>4 DEF CheckFlag
  <2>5. CASE Suspend(s)
    BY <1>0, <1>g, <2>1, <2>5 DEF Suspend
  <2>6. CASE ClearFlag(s)
    BY <1>0, <1>g, <2>1, <2>6 DEF ClearFlag
  <2>7. CASE RestoreMask(s)
    BY <1>0, <1>g, <2>1, <2>7 DEF RestoreMask
  <2>8. CASE Unblocked(s)
    BY <1>0, <1>g, <2>1, <2>8 DEF Unblocked
  <2>9. CASE Interrupt(s)
    BY <1>0, <1>g, <2>1, <2>9 DEF Interrupt, sig_usr, Deliverable
  <2>10. CASE WakeUp(s)
    BY <1>0, <1>g, <2>1, <2>10 DEF WakeUp, sig_usr, Deliverable
  <2> QED
    BY <2>1, <2>2, <2>3, <2>4, <2>5, <2>6, <2>7, <2>8, <2>9, <2>10
    DEF LibraryStep, InWait, Delivery
<1>7. ~C!Start /\ ~C!StartFails
  BY <1>0 DEF C!Start, C!StartFails, C!Fork, C!ForkFails
<1>8. OutputFirst(f)' /\ OutputSecond(s)'
  BY <1>0, <1>1, <1>2, <1>3, <1>4, <1>5, <1>6, <1>7 DEF C!Next, C!Step
<1> QED BY <1>8, <1>g DEF s

LEMMA OutputStep == OutputInv /\ [C!Next]_C!vars => OutputInv'
<1> SUFFICES ASSUME OutputInv, [C!Next]_C!vars PROVE OutputInv'
  OBVIOUS
<1>1. CASE C!Next
  <2>1. CASE OutputBefore
    BY <1>1, <2>1, OutputTypeStep, OutputBeforeStep DEF OutputInv
  <2>2. CASE OutputAlone
    BY <1>1, <2>2, OutputTypeStep, OutputAloneStep DEF OutputInv
  <2>3. CASE OutputRun
    <3>1. PICK f \in Procs : C!GoesFirst(f) /\ OutputFirst(f) /\ OutputSecond(Peer(f))
      BY <2>3 DEF OutputRun
    <3>2. C!GoesFirst(f)' /\ OutputFirst(f)' /\ OutputSecond(Peer(f))'
      BY <1>1, <3>1, OutputRunStep
    <3> QED BY <1>1, <3>2, OutputTypeStep DEF OutputInv, OutputRun
  <2> QED BY <2>1, <2>2, <2>3 DEF OutputInv
<1>2. CASE UNCHANGED C!vars
  BY <1>2
  DEF C!vars, C!syncvars, OutputInv, OutputBefore, Before, OutputAlone, OutputRun,
      OutputFirst, OutputSecond, WaitsSafely, Told, C!TypeOK, C!SyncTypeOK, C!GoesFirst,
      C!Len
<1> QED BY <1>1, <1>2

(* What the invariant promises of 8.9, 8.9.2 and 8.9.3. *)
LEMMA OutputSafe == OutputInv => C!Inv
<1> SUFFICES ASSUME OutputInv PROVE C!Inv
  OBVIOUS
<1> USE DEF Procs, Parent, Child, C!Procs, C!Parent, C!Child, C!Peer, Peer
<1>t. /\ C!TypeOK /\ sigflag \in [Procs -> {0, 1}] /\ program \in C!Programs
      /\ \A p \in Procs : written[p] \in Nat
  BY OutputTypes DEF OutputInv
<1>1. CASE OutputBefore
  BY <1>1, <1>t
  DEF OutputBefore, Before, TellWaitLabels, C!Inv, C!OneAfterTheOther, C!WaitIsAnswered
<1>2. CASE OutputAlone
  BY <1>2, <1>t
  DEF OutputAlone, C!Inv, C!OneAfterTheOther, C!WaitIsAnswered, C!GoesFirst,
      C!Unsynchronised, C!ParentFirst, C!ChildFirst
<1>3. ASSUME NEW f \in Procs, C!GoesFirst(f), OutputFirst(f), OutputSecond(Peer(f))
      PROVE  C!OneAfterTheOther /\ C!WaitIsAnswered
  <2>1. ~C!GoesFirst(Peer(f)) /\ C!Peer(f) = Peer(f) /\ C!Peer(Peer(f)) = f /\ Peer(Peer(f)) = f
    BY <1>3 DEF C!GoesFirst, C!ParentFirst, C!ChildFirst
  <2>2. C!OneAfterTheOther
    BY <1>3, <1>t, <2>1 DEF C!OneAfterTheOther, OutputFirst, OutputSecond
  <2>3. C!WaitIsAnswered
    BY <1>3, <1>t, <2>1
    DEF C!WaitIsAnswered, OutputFirst, OutputSecond, WaitsSafely, Told, WaitLabels,
        AfterWaitLabels, C!Alive, C!Gone
  <2> QED BY <2>2, <2>3
<1> QED BY <1>1, <1>2, <1>3, <1>t DEF OutputInv, OutputRun, C!Inv

-----------------------------------------------------------------------------
(* 14.3 and 14.3.2. *)
LockReady(p) ==
  /\ caught[p] = newmask
  /\ pc[p] = "clear" => sigflag[p] = 1

LocksBefore == Before(TellWaitLabels) /\ NoLocks

(* 14.3.2: the child has been told, or has got past its wait, only while   *)
(* the parent, which holds the lock, waits for its end.                    *)
MandatoryRun ==
  /\ program = Mandatory
  /\ LockReady(Child) /\ pending[Parent] = {}
  /\ pc[Parent] \in {"write_lock", "tell", "waitpid", "exit", "exited", "failed"}
  /\ pc[Child] \in {"wait", "read_lock", "read", "exit", "exited"}
                     \union WaitLabels \union AfterWaitLabels
  /\ pc[Child] \in WaitLabels \union AfterWaitLabels => ret[Child] = "read_lock"
  /\ pc[Parent] \in {"tell", "waitpid"} => owner = [b \in Bytes |-> Parent]
  /\ Told(Child) \/ pc[Child] \notin WaitLabels \union {"wait"} =>
       \/ pc[Parent] = "waitpid"
       \/ pc[Parent] \in {"exit", "exited"} /\ pc[Child] = "exited"
  /\ waitsFor = [p \in Procs |-> NoByte]

(* 14.3: a process has been told, or has got past its wait, only when the  *)
(* other one has its first byte, which it keeps until it is gone.          *)
DeadlockRun ==
  /\ program = Deadlock
  /\ \A p \in Procs :
       /\ LockReady(p)
       /\ pc[p] \in {"first", "tell", "wait", "second", "blocked", "exit", "exited", "failed"}
                      \union WaitLabels \union AfterWaitLabels
       /\ pc[p] \in WaitLabels \union AfterWaitLabels => ret[p] = "second"
       /\ owner[FirstByte(p)] = p <=> pc[p] \notin {"first", "exited", "failed"}
       /\ owner[SecondByte(p)] = p <=> pc[p] = "exit"
       /\ waitsFor[p] \in {NoByte, SecondByte(p)}
       /\ Told(p) \/ pc[p] \notin WaitLabels \union {"first", "tell", "wait"}
            => pc[Peer(p)] \notin {"first", "tell"}

LocksInv == TypeOK /\ (LocksBefore \/ MandatoryRun \/ DeadlockRun)

LEMMA LocksInit == Init => LocksInv
BY DEF Init, InitSync, LocksInv, LocksBefore, NoLocks, Before, TellWaitLabels, TypeOK,
       SyncTypeOK, Labels, LibraryLabels, Gone, newmask, Procs, Parent, Child, Bytes, Nobody,
       NoByte

LEMMA LocksTypeStep ==
  ASSUME LocksInv, Next
  PROVE  TypeOK'
<1> USE DEF Procs, Parent, Child, Bytes, Nobody, NoByte, Peer
<1>t. TypeOK /\ SyncTypeOK(Labels)
  BY DEF LocksInv, TypeOK
<1>1. ASSUME NEW p \in Procs, Library(p) PROVE TypeOK'
  <2>1. SyncTypeOK(Labels)'
    BY <1>1, <1>t, LibraryTypes DEF Library
  <2>2. pc'[p] = "blocked" <=> pc[p] = "blocked"
    <3>1. LibraryStep(p) /\ pc[p] # "killed"
      BY <1>1
      DEF Library, LibraryStep, InTellWait, InWait, Delivery, Catch, Block, CheckFlag,
          Suspend, ClearFlag, RestoreMask, Unblocked, Move, Terminate, Interrupt, WakeUp,
          sig_usr, Deliverable, Alive, Gone
    <3>2. ret[p] # "blocked" \/ pc[p] \notin {"block", "unblocked"}
      BY DEF LocksInv, LocksBefore, Before, MandatoryRun, DeadlockRun, WaitLabels,
             AfterWaitLabels, TellWaitLabels
    <3>3. ~Terminate(p)
      BY DEF LocksInv, LocksBefore, Before, MandatoryRun, DeadlockRun, LockReady, Terminate,
             Deliverable
    <3> QED
      BY <1>t, <3>1, <3>2, <3>3
      DEF LibraryStep, InTellWait, InWait, Delivery, Catch, Block, Return, CheckFlag,
          Suspend, ClearFlag, RestoreMask, Unblocked, Move, Goto, Interrupt, WakeUp, sig_usr,
          SyncTypeOK
  <2>3. \A q \in Procs : q # p => pc'[q] = pc[q]
    BY <1>1, <1>t
    DEF Library, LibraryStep, InTellWait, InWait, Delivery, Catch, Block, Return, CheckFlag,
        Suspend, ClearFlag, RestoreMask, Unblocked, Move, Goto, Terminate, Interrupt,
        WakeUp, sig_usr, SyncTypeOK
  <2> QED BY <1>1, <1>t, <2>1, <2>2, <2>3 DEF Library, TypeOK
<1> USE <1>t DEF TypeOK, SyncTypeOK, Labels, LibraryLabels, Gone, newmask, sigvars, Goto, Move
<1>2. CASE Start
  <2>1. waitsFor = [p \in Procs |-> NoByte]
    BY <1>2
    DEF Start, Fork, LocksInv, LocksBefore, NoLocks, MandatoryRun, DeadlockRun, WaitLabels,
        AfterWaitLabels
  <2> QED BY <1>2, <2>1 DEF Start, Fork
<1>3. CASE StartFails
  BY <1>3 DEF StartFails, ForkFails
<1>4. ASSUME NEW p \in Procs, Tell(p) PROVE TypeOK'
  BY <1>4 DEF Tell, TELL_CHILD, TELL_PARENT, Kill, USR1, USR2, AfterTell
<1>5. ASSUME NEW p \in Procs, Wait(p) PROVE TypeOK'
  BY <1>5 DEF Wait, WAIT_CHILD, WAIT_PARENT, Call, AfterWait
<1>6. ASSUME NEW p \in Procs, Exit(p) PROVE TypeOK'
  BY <1>6 DEF Exit, Release
<1>7. ASSUME NEW p \in Procs, LockByte(p) PROVE TypeOK'
  <2>1. PICK b \in Bytes, label \in {"tell", "exit"} :
          pc[p] \in {"first", "second"} /\ Lockw(p, b, label)
    BY <1>7 DEF LockByte, FirstByte, SecondByte
  <2>2. UNCHANGED <<ret, sigvars, program>>
    BY <1>7 DEF LockByte
  <2>3. CASE Take(p, {b}) /\ pc' = [pc EXCEPT ![p] = label] /\ UNCHANGED waitsFor
    BY <2>1, <2>2, <2>3 DEF Take
  <2>4. CASE /\ waitsFor' = [waitsFor EXCEPT ![p] = b]
             /\ pc' = [pc EXCEPT ![p] = "blocked"] /\ UNCHANGED owner
    BY <2>2, <2>4
  <2>5. CASE Release(p) /\ pc' = [pc EXCEPT ![p] = "failed"] /\ UNCHANGED waitsFor
    BY <2>1, <2>2, <2>5 DEF Release
  <2> QED BY <2>1, <2>3, <2>4, <2>5 DEF Lockw
<1>8. ASSUME NEW p \in Procs, Granted(p) PROVE TypeOK'
  <2>1. /\ pc[p] = "blocked" /\ pc' = [pc EXCEPT ![p] = "exit"]
        /\ waitsFor' = [waitsFor EXCEPT ![p] = NoByte]
        /\ UNCHANGED <<ret, sigvars, program>>
    BY <1>8 DEF Granted
  <2>2. owner' \in [Bytes -> Procs \union {Nobody}]
    BY <1>8 DEF Granted, Take
  <2> QED BY <2>1, <2>2
<1>9. CASE WriteLock
  BY <1>9 DEF WriteLock, Take, Release
<1>10. CASE Waitpid \/ ReadLock \/ Read
  BY <1>10 DEF Waitpid, ReadLock, Read
<1> QED
  BY <1>1, <1>2, <1>3, <1>4, <1>5, <1>6, <1>7, <1>8, <1>9, <1>10
  DEF Next, ParentStep, ChildStep, Step

LEMMA LocksBeforeStep ==
  ASSUME LocksInv, LocksBefore, Next
  PROVE  LocksBefore' \/ MandatoryRun' \/ DeadlockRun'
<1> USE DEF Procs, Parent, Child
<1>t. TypeOK /\ SyncTypeOK(Labels)
  BY DEF LocksInv, TypeOK
<1>1. CASE Start
  <2>1. /\ pc[Parent] = "fork" /\ caught' = [p \in Procs |-> caught[Parent]]
        /\ sigflag' = [p \in Procs |-> sigflag[Parent]]
        /\ UNCHANGED <<pending, program, owner, waitsFor>>
    BY <1>1 DEF Start, Fork
  <2>2. /\ caught[Parent] = newmask /\ \A p \in Procs : pending[p] = {} /\ sigflag[p] = 0
    BY <2>1 DEF LocksBefore, Before, TellWaitLabels
  <2>3. CASE program = Deadlock
    <3>1. pc' = [p \in Procs |-> "first"]
      BY <1>1, <2>3 DEF Start, Fork
    <3> QED
      BY <2>1, <2>2, <2>3, <3>1
      DEF DeadlockRun, LockReady, LocksBefore, NoLocks, Told, FirstByte, SecondByte, Bytes,
          Nobody, Peer, WaitLabels, AfterWaitLabels
  <2>4. CASE program = Mandatory
    <3>1. pc' = [p \in Procs |-> IF p = Parent THEN "write_lock" ELSE "wait"]
      BY <1>1, <2>4 DEF Start, Fork, Deadlock, Mandatory
    <3> QED
      BY <2>1, <2>2, <2>4, <3>1
      DEF MandatoryRun, LockReady, LocksBefore, NoLocks, Told, WaitLabels, AfterWaitLabels
  <2> QED BY <1>t, <2>3, <2>4 DEF TypeOK, Programs
<1>2. CASE StartFails
  BY <1>2, <1>t
  DEF StartFails, ForkFails, Move, Goto, sigvars, SyncTypeOK, LocksBefore, NoLocks, Before,
      TellWaitLabels
<1>3. ASSUME NEW p \in Procs, Library(p) PROVE LocksBefore'
  BY <1>3, <1>t, BeforeLibrary DEF Library, LocksBefore, NoLocks
<1>4. ASSUME NEW p \in Procs, Tell(p) \/ Wait(p) \/ Exit(p) \/ LockByte(p) \/ Granted(p)
      PROVE  FALSE
  BY <1>4
  DEF Tell, Wait, Exit, LockByte, Granted, Move, LocksBefore, Before, TellWaitLabels
<1>5. ~WriteLock /\ ~Waitpid /\ ~ReadLock /\ ~Read
  BY DEF WriteLock, Waitpid, ReadLock, Read, Move, LocksBefore, Before, TellWaitLabels
<1> QED BY <1>1, <1>2, <1>3, <1>4, <1>5 DEF Next, ParentStep, ChildStep, Step

(* The types, in few steps to cite. *)
LEMMA LocksTypes ==
  ASSUME TypeOK
  PROVE  /\ pc \in [Procs -> Labels \union LibraryLabels \union Gone \union {"unborn"}]
         /\ ret \in [Procs -> Labels] /\ caught \in [Procs -> SUBSET newmask]
         /\ mask \in [Procs -> SUBSET newmask] /\ pending \in [Procs -> SUBSET newmask]
         /\ sigflag \in [Procs -> {0, 1}]
         /\ owner \in [Bytes -> Procs \union {Nobody}]
         /\ waitsFor \in [Procs -> Bytes \union {NoByte}]
         /\ \A p \in Procs : waitsFor[p] # NoByte <=> pc[p] = "blocked"
BY DEF TypeOK, SyncTypeOK

LEMMA MandatoryStep ==
  ASSUME LocksInv, MandatoryRun, Next
  PROVE  MandatoryRun'
<1> USE DEF Procs, Parent, Child, Goto, Move, sigvars
<1>t. /\ pc \in [Procs -> Labels \union LibraryLabels \union Gone \union {"unborn"}]
      /\ ret \in [Procs -> Labels] /\ caught \in [Procs -> SUBSET newmask]
      /\ mask \in [Procs -> SUBSET newmask] /\ pending \in [Procs -> SUBSET newmask]
      /\ sigflag \in [Procs -> {0, 1}]
      /\ owner \in [Bytes -> Procs \union {Nobody}]
      /\ waitsFor \in [Procs -> Bytes \union {NoByte}]
  BY LocksTypes DEF LocksInv
<1> USE <1>t DEF MandatoryRun, LockReady, Told, WaitLabels, AfterWaitLabels
<1>d. program # Deadlock
  BY DEF Deadlock, Mandatory
<1>1. CASE Start \/ StartFails
  BY <1>1 DEF Start, StartFails, Fork, ForkFails
<1>2. ASSUME NEW p \in Procs, Tell(p) PROVE MandatoryRun'
  <2>1. p = Parent /\ pc[Parent] = "tell" /\ pc' = [pc EXCEPT ![Parent] = "waitpid"]
    BY <1>2, <1>d DEF Tell, TELL_CHILD, AfterTell
  <2>2. /\ pending'[Parent] = pending[Parent]
        /\ UNCHANGED <<ret, caught, mask, oldmask, suspmask, sigflag, program, owner, waitsFor>>
    BY <1>2, <2>1 DEF Tell, TELL_CHILD, Kill
  <2> QED BY <2>1, <2>2
<1>3. ASSUME NEW p \in Procs, Wait(p) PROVE MandatoryRun'
  BY <1>3, <1>d DEF Wait, WAIT_PARENT, Call, AfterWait
<1>4. ASSUME NEW p \in Procs, Exit(p) PROVE MandatoryRun'
  <2>1. CASE p = Parent
    BY <1>4, <2>1 DEF Exit
  <2>2. CASE p = Child
    <3>1. owner = [b \in Bytes |-> Parent] => owner' = owner
      BY <1>4, <2>2 DEF Exit, Release
    <3> QED BY <1>4, <2>2, <3>1 DEF Exit
  <2> QED BY <2>1, <2>2
<1>5. ASSUME NEW p \in Procs PROVE ~LockByte(p) /\ ~Granted(p)
  BY DEF LockByte, Granted
<1>6. CASE WriteLock
  BY <1>6 DEF WriteLock, Take
<1>7. CASE Waitpid
  BY <1>7 DEF Waitpid, Gone
<1>8. CASE ReadLock
  BY <1>8 DEF ReadLock, Bytes
<1>9. CASE Read
  BY <1>9 DEF Read
<1>10. ASSUME NEW p \in Procs, Library(p) PROVE MandatoryRun'
  <2>1. LibraryStep(p) /\ UNCHANGED <<program, owner, waitsFor>>
    BY <1>10 DEF Library
  <2>2. p = Child
    BY <2>1
    DEF LibraryStep, InTellWait, InWait, Delivery, Catch, Block, CheckFlag, Suspend,
        ClearFlag, RestoreMask, Unblocked, Terminate, Interrupt, WakeUp, sig_usr, Deliverable
  <2>3. ~InTellWait(p) /\ ~Terminate(p)
    BY <2>2 DEF InTellWait, Catch, Block, Terminate, Deliverable
  <2>4. CASE CheckFlag(p)
    BY <2>1, <2>2, <2>4 DEF CheckFlag
  <2>5. CASE Suspend(p)
    BY <2>1, <2>2, <2>5 DEF Suspend
  <2>6. CASE ClearFlag(p)
    BY <2>1, <2>2, <2>6 DEF ClearFlag
  <2>7. CASE RestoreMask(p)
    BY <2>1, <2>2, <2>7 DEF RestoreMask
  <2>8. CASE Unblocked(p)
    BY <2>1, <2>2, <2>8 DEF Unblocked
  <2>9. CASE Interrupt(p)
    BY <2>1, <2>2, <2>9 DEF Interrupt, sig_usr, Deliverable
  <2>10. CASE WakeUp(p)
    BY <2>1, <2>2, <2>10 DEF WakeUp, sig_usr, Deliverable
  <2> QED
    BY <2>1, <2>3, <2>4, <2>5, <2>6, <2>7, <2>8, <2>9, <2>10 DEF LibraryStep, InWait, Delivery
<1> QED
  BY <1>1, <1>2, <1>3, <1>4, <1>5, <1>6, <1>7, <1>8, <1>9, <1>10
  DEF Next, ParentStep, ChildStep, Step

LEMMA DeadlockStep ==
  ASSUME LocksInv, DeadlockRun, Next
  PROVE  DeadlockRun'
<1> USE DEF Procs, Parent, Child, Goto, Move, sigvars, Peer, FirstByte, SecondByte, Bytes,
            Nobody, NoByte
<1>t. /\ pc \in [Procs -> Labels \union LibraryLabels \union Gone \union {"unborn"}]
      /\ ret \in [Procs -> Labels] /\ caught \in [Procs -> SUBSET newmask]
      /\ mask \in [Procs -> SUBSET newmask] /\ pending \in [Procs -> SUBSET newmask]
      /\ sigflag \in [Procs -> {0, 1}]
      /\ owner \in [Bytes -> Procs \union {Nobody}]
      /\ waitsFor \in [Procs -> Bytes \union {NoByte}]
      /\ \A p \in Procs : waitsFor[p] # NoByte <=> pc[p] = "blocked"
  BY LocksTypes DEF LocksInv
<1> USE <1>t DEF DeadlockRun, LockReady, Told, WaitLabels, AfterWaitLabels
<1>1. CASE Start \/ StartFails
  BY <1>1 DEF Start, StartFails, Fork, ForkFails
<1>2. ASSUME NEW p \in Procs, Tell(p) PROVE DeadlockRun'
  <2>1. /\ pc[p] = "tell" /\ pc' = [pc EXCEPT ![p] = "wait"]
        /\ pending'[p] = pending[p]
        /\ UNCHANGED <<ret, caught, mask, oldmask, suspmask, sigflag, program, owner, waitsFor>>
    BY <1>2 DEF Tell, TELL_CHILD, TELL_PARENT, AfterTell, Kill
  <2> QED BY <2>1
<1>3. ASSUME NEW p \in Procs, Wait(p) PROVE DeadlockRun'
  <2>1. /\ pc[p] = "wait" /\ pc' = [pc EXCEPT ![p] = "check"]
        /\ ret' = [ret EXCEPT ![p] = "second"]
        /\ UNCHANGED <<sigvars, program, owner, waitsFor>>
    BY <1>3 DEF Wait, WAIT_CHILD, WAIT_PARENT, Call, AfterWait
  <2> QED BY <2>1
<1>4. ASSUME NEW p \in Procs, Exit(p) PROVE DeadlockRun'
  BY <1>4 DEF Exit, Release
<1>5. ASSUME NEW p \in Procs, LockByte(p) PROVE DeadlockRun'
  <2>1. UNCHANGED <<ret, sigvars, program>>
    BY <1>5 DEF LockByte
  <2>2. CASE pc[p] = "first" /\ Lockw(p, FirstByte(p), "tell")
    <3>1. owner[FirstByte(p)] # Peer(p)
      BY <2>2
    <3>2. /\ Take(p, {FirstByte(p)}) /\ pc' = [pc EXCEPT ![p] = "tell"] /\ UNCHANGED waitsFor
      BY <2>2, <3>1 DEF Lockw
    <3> QED BY <2>1, <2>2, <3>2 DEF Take
  <2>3. CASE pc[p] = "second" /\ Lockw(p, SecondByte(p), "exit")
    <3>1. CASE /\ owner[SecondByte(p)] \in {Nobody, p} /\ Take(p, {SecondByte(p)})
               /\ pc' = [pc EXCEPT ![p] = "exit"] /\ UNCHANGED waitsFor
      BY <2>1, <2>3, <3>1 DEF Take
    <3>2. CASE /\ waitsFor' = [waitsFor EXCEPT ![p] = SecondByte(p)]
               /\ pc' = [pc EXCEPT ![p] = "blocked"] /\ UNCHANGED owner
      BY <2>1, <2>3, <3>2
    <3>3. CASE Release(p) /\ pc' = [pc EXCEPT ![p] = "failed"] /\ UNCHANGED waitsFor
      BY <2>1, <2>3, <3>3 DEF Release
    <3> QED BY <2>3, <3>1, <3>2, <3>3 DEF Lockw
  <2> QED BY <1>5, <2>2, <2>3 DEF LockByte
<1>6. ASSUME NEW p \in Procs, Granted(p) PROVE DeadlockRun'
  <2>1. /\ pc[p] = "blocked" /\ pc' = [pc EXCEPT ![p] = "exit"]
        /\ waitsFor[p] = SecondByte(p) /\ waitsFor' = [waitsFor EXCEPT ![p] = NoByte]
        /\ owner[SecondByte(p)] = Nobody /\ Take(p, {SecondByte(p)})
        /\ UNCHANGED <<ret, sigvars, program>>
    BY <1>6 DEF Granted
  <2> QED BY <2>1 DEF Take
<1>7. ~WriteLock /\ ~Waitpid /\ ~ReadLock /\ ~Read
  BY DEF WriteLock, Waitpid, ReadLock, Read
<1>8. ASSUME NEW p \in Procs, Library(p) PROVE DeadlockRun'
  <2>1. LibraryStep(p) /\ UNCHANGED <<program, owner, waitsFor>>
    BY <1>8 DEF Library
  <2>2. ~InTellWait(p) /\ ~Terminate(p)
    BY DEF InTellWait, Catch, Block, Terminate, Deliverable
  <2>3. CASE CheckFlag(p)
    BY <2>1, <2>3 DEF CheckFlag
  <2>4. CASE Suspend(p)
    BY <2>1, <2>4 DEF Suspend
  <2>5. CASE ClearFlag(p)
    BY <2>1, <2>5 DEF ClearFlag
  <2>6. CASE RestoreMask(p)
    BY <2>1, <2>6 DEF RestoreMask
  <2>7. CASE Unblocked(p)
    BY <2>1, <2>7 DEF Unblocked
  <2>8. CASE Interrupt(p)
    BY <2>1, <2>8 DEF Interrupt, sig_usr, Deliverable
  <2>9. CASE WakeUp(p)
    BY <2>1, <2>9 DEF WakeUp, sig_usr, Deliverable
  <2> QED
    BY <2>1, <2>2, <2>3, <2>4, <2>5, <2>6, <2>7, <2>8, <2>9 DEF LibraryStep, InWait, Delivery
<1> QED
  BY <1>1, <1>2, <1>3, <1>4, <1>5, <1>6, <1>7, <1>8 DEF Next, ParentStep, ChildStep, Step

LEMMA LocksStep == LocksInv /\ [Next]_vars => LocksInv'
<1>1. ASSUME LocksInv, Next PROVE LocksInv'
  BY <1>1, LocksTypeStep, LocksBeforeStep, MandatoryStep, DeadlockStep DEF LocksInv
<1>2. ASSUME LocksInv, UNCHANGED vars PROVE LocksInv'
  BY <1>2
  DEF vars, syncvars, LocksInv, LocksBefore, NoLocks, Before, MandatoryRun, DeadlockRun,
      LockReady, Told, TypeOK, SyncTypeOK
<1> QED BY <1>1, <1>2

(* What the invariant promises of 14.3.2. *)
LEMMA LocksSafe == LocksInv => Inv
<1> SUFFICES ASSUME LocksInv PROVE Inv
  OBVIOUS
<1>1. TypeOK
  BY DEF LocksInv
<1>2. ReadLockRefused
  <2>1. CASE LocksBefore
    BY <2>1 DEF ReadLockRefused, LocksBefore, Before
  <2>2. CASE MandatoryRun
    BY <2>2 DEF ReadLockRefused, MandatoryRun, WaitLabels, AfterWaitLabels, Bytes
  <2>3. CASE DeadlockRun
    BY <2>3 DEF ReadLockRefused, DeadlockRun, Mandatory, Deadlock
  <2> QED BY <2>1, <2>2, <2>3 DEF LocksInv
<1> QED BY <1>1, <1>2 DEF Inv

(* In 14.3 a process has its second byte only from a request to exit, and  *)
(* the other one gives up its first byte only by ending.                   *)
LEMMA SecondByteStep ==
  ASSUME LocksInv, [Next]_vars, NEW p \in Procs, program = Deadlock,
         owner[SecondByte(p)] # p, owner'[SecondByte(p)] = p
  PROVE  pc[Peer(p)] \in Gone
<1> USE DEF Procs, Parent, Child, Peer, FirstByte, SecondByte, Bytes, Nobody, NoByte
<1>t. /\ pc \in [Procs -> Labels \union LibraryLabels \union Gone \union {"unborn"}]
      /\ owner \in [Bytes -> Procs \union {Nobody}]
  BY LocksTypes DEF LocksInv
<1>1. Next
  BY DEF vars
<1>2. PICK q \in Procs : LockByte(q) \/ Granted(q)
  <2>1. ~WriteLock
    BY DEF LocksInv, LocksBefore, Before, TellWaitLabels, MandatoryRun, DeadlockRun,
           Mandatory, Deadlock, WriteLock, Move, WaitLabels, AfterWaitLabels
  <2>2. ASSUME NEW q \in Procs, Exit(q) PROVE FALSE
    BY <2>2 DEF Exit, Release
  <2>3. owner' # owner
    OBVIOUS
  <2> QED
    BY <1>1, <2>1, <2>2, <2>3
    DEF Next, ParentStep, ChildStep, Step, Start, StartFails, Waitpid, ReadLock, Read, Tell,
        Wait, Library
<1>3. DeadlockRun
  BY <1>2
  DEF LocksInv, LocksBefore, Before, TellWaitLabels, MandatoryRun, Mandatory, Deadlock,
      LockByte, Granted, Move
<1>4. CASE pc[q] = "first" /\ Lockw(q, FirstByte(q), "tell")
  BY <1>3, <1>4, <1>t DEF DeadlockRun, Lockw, Take, Release, WaitLabels, AfterWaitLabels
<1>5. CASE pc[q] = "second" /\ Lockw(q, SecondByte(q), "exit")
  <2>1. CASE owner[SecondByte(q)] \in {Nobody, q} /\ Take(q, {SecondByte(q)})
    BY <1>3, <1>5, <1>t, <2>1 DEF DeadlockRun, Take, Gone, WaitLabels, AfterWaitLabels, Told
  <2>2. CASE owner' = owner \/ Release(q)
    BY <2>2, <1>t DEF Release
  <2> QED BY <1>5, <2>1, <2>2 DEF Lockw
<1>6. CASE Granted(q)
  <2>1. /\ pc[q] = "blocked" /\ waitsFor[q] = SecondByte(q)
        /\ owner[SecondByte(q)] = Nobody /\ Take(q, {SecondByte(q)})
    BY <1>3, <1>6, LocksTypes DEF LocksInv, Granted, Move, DeadlockRun
  <2> QED BY <1>3, <1>t, <2>1 DEF DeadlockRun, Take, Gone, WaitLabels, AfterWaitLabels, Told
<1> QED BY <1>2, <1>4, <1>5, <1>6 DEF LockByte

-----------------------------------------------------------------------------
(* The programs together: only p6 has a file, and only p6 reaches fclose.  *)
IInv ==
  /\ program \in Programs \union C!Programs \union {p6}
  /\ program \in Programs => LocksInv
  /\ program \in C!Programs => OutputInv
  /\ program = p6 => CounterInv
  /\ program # p6 => NoFile /\ \A p \in Procs : pc[p] # "fclose"

(* The six programs have six names. *)
LEMMA Names ==
  /\ Programs \intersect C!Programs = {}
  /\ p6 \notin Programs /\ p6 \notin C!Programs
BY DEF Programs, Deadlock, Mandatory, C!Programs, C!Unsynchronised, C!ParentFirst,
       C!ChildFirst, p6

LEMMA NamesStay == Programs' = Programs /\ C!Programs' = C!Programs /\ p6' = p6
BY DEF Programs, Deadlock, Mandatory, C!Programs, C!Unsynchronised, C!ParentFirst,
       C!ChildFirst, p6

LEMMA NoFclose ==
  ASSUME TypeOK \/ C!TypeOK
  PROVE  \A p \in Procs : pc[p] # "fclose"
<1>1. CASE TypeOK
  BY <1>1, LocksTypes DEF Labels, LibraryLabels, Gone
<1>2. CASE C!TypeOK
  BY <1>2, OutputTypes DEF C!Labels, LibraryLabels, Gone
<1> QED BY <1>1, <1>2

LEMMA IInvInit == MCInit => IInv
<1>1. ASSUME Init, NoFile PROVE IInv
  <2>1. LocksInv /\ program \in Programs
    BY <1>1, LocksInit DEF Init
  <2> QED BY <1>1, <2>1, Names, NoFclose DEF IInv, LocksInv
<1>2. ASSUME C!Init, NoFile PROVE IInv
  <2>1. OutputInv /\ program \in C!Programs
    BY <1>2, OutputInit DEF C!Init
  <2> QED BY <1>2, <2>1, Names, NoFclose DEF IInv, OutputInv
<1>3. ASSUME program = p6, F!Init PROVE IInv
  BY <1>3, CounterInit, Names DEF IInv, CounterInv
<1> QED BY <1>1, <1>2, <1>3 DEF MCInit

(* The statements of one program leave program as it is. *)
LEMMA SameProgram ==
  /\ Next => UNCHANGED program
  /\ C!Next => UNCHANGED program
<1>1. Next => UNCHANGED program
  BY DEF Next, ParentStep, ChildStep, Step, Start, StartFails, WriteLock, Waitpid, ReadLock,
         Read, Tell, Wait, Exit, LockByte, Granted, Library
<1>2. C!Next => UNCHANGED program
  BY DEF C!Next, C!Step, C!Start, C!StartFails, C!Main, C!Putc, C!Finish, C!Tell,
         C!Library, C!syncvars
<1> QED BY <1>1, <1>2

LEMMA IInvStep == IInv /\ [MCNext]_<<vars, written, file, cur>> => IInv'
<1> SUFFICES ASSUME IInv, [MCNext]_<<vars, written, file, cur>> PROVE IInv'
  OBVIOUS
<1> USE Names
<1>1. CASE LockStep
  <2>1. LocksInv' /\ program' = program /\ program \in Programs
    BY <1>1, LocksStep, SameProgram DEF LockStep, IInv
  <2>2. Programs' = Programs /\ C!Programs' = C!Programs /\ p6' = p6
    BY NamesStay
  <2>3. \A p \in Procs : pc'[p] # "fclose"
    BY <2>1 DEF LocksInv, TypeOK, SyncTypeOK, Labels, LibraryLabels, Gone
  <2>4. NoFile'
    BY <1>1 DEF LockStep, IInv, NoFile
  <2> QED BY <2>1, <2>2, <2>3, <2>4 DEF IInv
<1>2. CASE CharStep
  <2>1. OutputInv' /\ program' = program /\ program \in C!Programs
    BY <1>2, OutputStep, SameProgram DEF CharStep, IInv
  <2>2. Programs' = Programs /\ C!Programs' = C!Programs /\ p6' = p6
    BY NamesStay
  <2>3. \A p \in Procs : pc'[p] # "fclose"
    BY <2>1
    DEF OutputInv, C!TypeOK, C!SyncTypeOK, C!Labels, C!LibraryLabels, C!Gone, C!Procs,
        C!Parent, C!Child, Procs, Parent, Child
  <2>4. NoFile'
    BY <1>2 DEF CharStep, IInv, NoFile
  <2> QED BY <2>1, <2>2, <2>3, <2>4 DEF IInv
<1>3. CASE FileStep
  <2>1. CounterInv' /\ program' = p6
    BY <1>3, CounterStep DEF FileStep, IInv
  <2>2. Programs' = Programs /\ C!Programs' = C!Programs /\ p6' = p6
    BY NamesStay
  <2> QED BY <2>1, <2>2 DEF IInv
<1>4. CASE UNCHANGED <<vars, written, file, cur>>
  <2>1. UNCHANGED <<vars, C!vars, F!vars, program, pc, file, cur>>
    BY <1>4 DEF vars, syncvars, C!vars, C!syncvars, F!vars, F!syncvars
  <2>2. Programs' = Programs /\ C!Programs' = C!Programs /\ p6' = p6
    BY NamesStay
  <2>3. (program \in Programs => LocksInv') /\ (program \in C!Programs => OutputInv')
    BY <2>1, LocksStep, OutputStep DEF IInv
  <2>4. program = p6 => CounterInv'
    BY <2>1, CounterStep DEF IInv
  <2> QED BY <2>1, <2>2, <2>3, <2>4 DEF IInv, NoFile
<1> QED BY <1>1, <1>2, <1>3, <1>4 DEF MCNext

LEMMA Invariance == MCSpec => []IInv
<1> QED BY IInvInit, IInvStep, PTL DEF MCSpec

(* In every client the types hold; the outputs of 8.9.2 and 8.9.3 do not   *)
(* mix and no TELL is lost or fatal; read_lock of 14.3.2 is refused; in p6 *)
(* no wakeup is lost, nobody waits for a process that waits, and only the  *)
(* parent can be killed, in its first round.                               *)
THEOREM ClientsSafe == MCSpec => []ClientsInv
<1>1. IInv => ClientsInv
  BY LocksSafe, OutputSafe, CounterSafe DEF IInv, ClientsInv
<1> QED BY <1>1, Invariance, PTL

(* In 14.3 a process gets its second byte only after the other one is gone. *)
THEOREM SecondByteLast == MCSpec => SecondAfterPeerGone
<1>1. IInv /\ [MCNext]_<<vars, written, file, cur>> =>
        [\A p \in Procs : program = Deadlock /\ owner[SecondByte(p)] # p
                            /\ owner'[SecondByte(p)] = p => pc[Peer(p)] \in Gone]_vars
  <2> SUFFICES ASSUME IInv, [MCNext]_<<vars, written, file, cur>>, NEW p \in Procs,
                      program = Deadlock, owner[SecondByte(p)] # p,
                      owner'[SecondByte(p)] = p
               PROVE  pc[Peer(p)] \in Gone
    OBVIOUS
  <2>1. program \in Programs /\ program \notin C!Programs /\ program # p6
    BY Names DEF Programs
  <2>2. LocksInv /\ [Next]_vars
    BY <2>1 DEF IInv, MCNext, LockStep, CharStep, FileStep
  <2> QED BY <2>2, SecondByteStep
<1> QED BY <1>1, Invariance, PTL DEF MCSpec, SecondAfterPeerGone

(* The writes of p6 to its file implement Turns: one process at a time has *)
(* the file open, and the next number is written by the process whose turn *)
(* it is.  The other programs do not move.                                 *)
THEOREM CounterTurnsImplement == MCSpec => TakesTurns
<1>1. MCInit => F!T!Init
  <2>1. ASSUME file = {0}, \A p \in Procs : pc[p] # "fclose" PROVE F!T!Init
    <3>1. F!Writer = "nobody" /\ (CHOOSE n \in {0} : TRUE) = 0
      BY <2>1, NoWriter
    <3> QED BY <2>1, <3>1 DEF F!T!Init, F!T!Nobody
  <2>2. MCInit => file = {0}
    BY DEF MCInit, NoFile, F!Init
  <2>3. MCInit => \A p \in Procs : pc[p] # "fclose"
    BY DEF MCInit, Init, InitSync, C!Init, C!InitSync, F!Init, F!InitSync, Procs, Parent,
           Child, C!Procs, C!Parent, C!Child, F!Procs, F!Parent, F!Child
  <2> QED BY <2>1, <2>2, <2>3
<1>2. IInv /\ IInv' /\ [MCNext]_<<vars, written, file, cur>> => [F!T!Next]_(F!T!vars)
  <2> SUFFICES ASSUME IInv, IInv', [MCNext]_<<vars, written, file, cur>>
               PROVE  [F!T!Next]_(F!T!vars)
    OBVIOUS
  <2>1. CASE program = p6
    <3>1. [F!Next]_F!vars
      BY <2>1, Names
      DEF MCNext, LockStep, CharStep, FileStep, vars, syncvars, F!vars, F!syncvars
    <3> QED BY <2>1, <3>1, CounterTurnStep DEF IInv
  <2>2. CASE program # p6
    <3>1. program' = program /\ UNCHANGED <<file, cur>>
      BY <2>2, SameProgram DEF MCNext, LockStep, CharStep, FileStep, vars
    <3>2. \A p \in Procs : pc[p] # "fclose" /\ pc'[p] # "fclose"
      BY <2>2, <3>1 DEF IInv, p6
    <3>3. NotShared
      BY <2>2, <3>2 DEF NotShared, IInv, NoFile, Procs
    <3> QED BY <3>1, <3>2, <3>3, TurnStutters
  <2> QED BY <2>1, <2>2
<1> QED BY <1>1, <1>2, Invariance, PTL DEF MCSpec, TakesTurns, F!TakesTurns, F!T!Spec

=============================================================================
