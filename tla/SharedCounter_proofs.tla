------------------------ MODULE SharedCounter_proofs ------------------------
(***************************************************************************)
(* Proofs about SharedCounter, for every NLOOPS.                           *)
(***************************************************************************)
EXTENDS SharedCounter, TLAPS

(* Typing, alone: it is inductive and needed by everything else. *)
LEMMA TypeInit == Init => TypeOK
  BY DEF Init, InitSync, TypeOK, SyncTypeOK, Labels, LibraryLabels, Gone, Procs,
         Parent, Child, newmask

LEMMA TypeNext == TypeOK /\ [Next]_vars => TypeOK'
  <1> SUFFICES ASSUME TypeOK, [Next]_vars PROVE TypeOK'
    OBVIOUS
  <1> USE DEF TypeOK, SyncTypeOK, Labels, LibraryLabels, Gone, Procs, Parent,
              Child, newmask, sigvars, Goto, Move
  <1>1. CASE Start
    BY <1>1 DEF Start, Fork
  <1>2. CASE StartFails
    BY <1>2 DEF StartFails, ForkFails
  <1>3. CASE ParentLoop
    BY <1>3 DEF ParentLoop
  <1>4. CASE ParentWait
    BY <1>4 DEF ParentWait, WAIT_CHILD, Call
  <1>5. CASE ChildLoop
    BY <1>5 DEF ChildLoop, WAIT_PARENT, Call
  <1>6. ASSUME NEW p \in Procs, Step(p) PROVE TypeOK'
    <2>1. CASE Load(p)
      BY <2>1 DEF Load
    <2>2. CASE Store(p)
      BY <2>2 DEF Store
    <2>3. CASE Test(p)
      BY <2>3 DEF Test
    <2>4. CASE Tell(p)
      BY <2>4 DEF Tell, TELL_CHILD, TELL_PARENT, Kill, USR1, USR2
    <2>5. CASE Increment(p)
      BY <2>5 DEF Increment
    <2>6. CASE Library(p) /\ InTellWait(p)
      BY <2>6 DEF Library, InTellWait, Catch, Block, Return, USR1, USR2
    <2>7. CASE Library(p) /\ InWait(p)
      BY <2>7 DEF Library, InWait, CheckFlag, Suspend, ClearFlag, RestoreMask,
                  Unblocked, zeromask
    <2>8. CASE Library(p) /\ Delivery(p)
      BY <2>8 DEF Library, Delivery, Terminate, Interrupt, WakeUp, sig_usr
    <2>9. QED
      BY <1>6, <2>1, <2>2, <2>3, <2>4, <2>5, <2>6, <2>7, <2>8
         DEF Step, Library, LibraryStep
  <1>7. CASE UNCHANGED vars
    BY <1>7 DEF vars, syncvars
  <1>8. QED
    BY <1>1, <1>2, <1>3, <1>4, <1>5, <1>6, <1>7 DEF Next, ParentStep

(* SharedCounter keeps its variables in their types. *)
THEOREM Typing == Spec => []TypeOK
  BY TypeInit, TypeNext, PTL DEF Spec

-----------------------------------------------------------------------------
(* The inductive invariant holds initially. *)
LEMMA IInvInit == Init => IInv
  <1> SUFFICES ASSUME Init PROVE IInv
    OBVIOUS
  <1>1. TypeOK
    BY TypeInit
  <1>2. OneBaton /\ BeforeFork /\ FirstRound
    BY DEF Init, InitSync, OneBaton, BeforeFork, FirstRound, Procs, Parent, Child
  <1>3. QED
    BY <1>1, <1>2 DEF IInv

(* A step before fork. *)
LEMMA IInvStart == IInv /\ BeforeFork /\ [Next]_vars => IInv'
  <1> SUFFICES ASSUME IInv, BeforeFork, [Next]_vars PROVE IInv'
    OBVIOUS
  <1>1. TypeOK'
    BY TypeNext DEF IInv
  <1> USE DEF BeforeFork, FirstRound, Procs, Parent, Child, sigvars, Goto, Move
  <1>t. TypeOK /\ FirstRound
    BY DEF IInv
  <1>2. CASE Start
    <2>1. Located'
      BY <1>t, <1>2 DEF Start, Fork, Located, newmask, ParentWaits, TypeOK, SyncTypeOK,
                  LibraryLabels
    <2>2. Counted' /\ OneBaton' /\ FirstRound'
      BY <1>t, <1>2 DEF Start, Fork, Counted, OneBaton, childNext, HasBaton, Working,
                  ParentWaits, TypeOK, SyncTypeOK
    <2>3. QED
      BY <1>1, <2>1, <2>2 DEF IInv
  <1>3. CASE StartFails
    BY <1>t, <1>1, <1>3 DEF StartFails, ForkFails, IInv, OneBaton, TypeOK, SyncTypeOK
  <1>4. ASSUME NEW p \in Procs, Library(p), InTellWait(p) PROVE IInv'
    BY <1>t, <1>1, <1>4 DEF Library, InTellWait, Catch, Block, Return, IInv, OneBaton,
                      TypeOK, SyncTypeOK, USR1, USR2, newmask
  <1>5. ASSUME NEW p \in Procs, Library(p), InWait(p) PROVE IInv'
    BY <1>5 DEF InWait, CheckFlag, Suspend, ClearFlag, RestoreMask, Unblocked
  <1>6. ASSUME NEW p \in Procs, Library(p), Delivery(p) PROVE IInv'
    BY <1>6 DEF Delivery, Terminate, Interrupt, WakeUp, sig_usr, Deliverable
  <1>7. CASE UNCHANGED vars
    BY <1>t, <1>1, <1>7 DEF vars, syncvars, IInv, OneBaton
  <1>8. ASSUME NEW p \in Procs,
               Load(p) \/ Store(p) \/ Test(p) \/ Tell(p) \/ Increment(p)
        PROVE IInv'
    BY <1>8 DEF Load, Store, Test, Tell, Increment
  <1>9. ASSUME ParentLoop \/ ParentWait \/ ChildLoop PROVE IInv'
    BY <1>9 DEF ParentLoop, ParentWait, ChildLoop
  <1>10. QED
    BY <1>2, <1>3, <1>4, <1>5, <1>6, <1>7, <1>8, <1>9
       DEF Next, ParentStep, Step, Library, LibraryStep

(* A step after fork. *)
LEMMA IInvRun == IInv /\ Located /\ Counted /\ [Next]_vars => Located' /\ Counted' /\ OneBaton'
  <1> SUFFICES ASSUME TypeOK, OneBaton, Located, Counted, [Next]_vars
               PROVE Located' /\ Counted' /\ OneBaton'
    BY DEF IInv
  <1> USE NLOOPSAssumption
      DEF TypeOK, SyncTypeOK, Labels, Located, Counted, OneBaton, HasBaton, Working, childNext,
          ParentWaits, Gone, LibraryLabels, Procs, Parent, Child, sigvars, Goto, Move
  <1>1. CASE Start \/ StartFails
    BY <1>1 DEF Start, StartFails, Fork, ForkFails
  <1>2. CASE ParentLoop
    BY <1>2 DEF ParentLoop
  <1>3. CASE ParentWait
    BY <1>3 DEF ParentWait, WAIT_CHILD, Call
  <1>4. CASE ChildLoop
    BY <1>4 DEF ChildLoop, WAIT_PARENT, Call
  <1>5. ASSUME NEW p \in Procs, Step(p)
        PROVE Located' /\ Counted' /\ OneBaton'
    <2>1. CASE Load(p)
      BY <2>1 DEF Load
    <2>2. CASE Store(p)
      BY <2>2 DEF Store
    <2>3. CASE Test(p)
      BY <2>3 DEF Test
    <2>4. CASE Tell(p)
      <3>1. CASE p = Parent
        BY <2>4, <3>1 DEF Tell, TELL_CHILD, Kill, Alive, USR1, USR2, newmask
      <3>2. CASE p = Child
        BY <2>4, <3>2 DEF Tell, TELL_PARENT, Kill, Alive, USR1, USR2, newmask
      <3>3. QED
        BY <3>1, <3>2
    <2>5. CASE Increment(p)
      BY <2>5 DEF Increment
    <2>6. CASE Library(p) /\ InTellWait(p)
      BY <2>6 DEF Library, InTellWait, Catch, Block, Return
    <2>7. CASE Library(p) /\ CheckFlag(p)
      BY <2>7 DEF Library, CheckFlag
    <2>8. CASE Library(p) /\ Suspend(p)
      BY <2>8 DEF Library, Suspend
    <2>9. CASE Library(p) /\ ClearFlag(p)
      BY <2>9 DEF Library, ClearFlag
    <2>10. CASE Library(p) /\ RestoreMask(p)
      BY <2>10 DEF Library, RestoreMask
    <2>11. CASE Library(p) /\ Unblocked(p)
      BY <2>11 DEF Library, Unblocked
    <2>12. CASE Library(p) /\ Terminate(p)
      BY <2>12 DEF Library, Terminate
    <2>13. CASE Library(p) /\ Interrupt(p)
      <3>1. CASE p = Parent
        BY <2>13, <3>1 DEF Library, Interrupt, sig_usr, Deliverable, Alive
      <3>2. CASE p = Child
        BY <2>13, <3>2 DEF Library, Interrupt, sig_usr, Deliverable, Alive
      <3>3. QED
        BY <3>1, <3>2
    <2>14. CASE Library(p) /\ WakeUp(p)
      <3>1. CASE p = Parent
        BY <2>14, <3>1 DEF Library, WakeUp, sig_usr, Deliverable, Alive
      <3>2. CASE p = Child
        BY <2>14, <3>2 DEF Library, WakeUp, sig_usr, Deliverable, Alive
      <3>3. QED
        BY <3>1, <3>2
    <2>15. QED
      BY <1>5, <2>1, <2>2, <2>3, <2>4, <2>5, <2>6, <2>7, <2>8, <2>9, <2>10,
         <2>11, <2>12, <2>13, <2>14
         DEF Step, Library, LibraryStep, InWait, Delivery
  <1>6. CASE UNCHANGED vars
    BY <1>6 DEF vars, syncvars
  <1>7. QED
    BY <1>1, <1>2, <1>3, <1>4, <1>5, <1>6 DEF Next, ParentStep

(* The first WAIT of each process is entered with the signals blocked. *)
LEMMA FirstRoundStep ==
  TypeOK /\ Located /\ FirstRound /\ [Next]_vars => FirstRound'
  <1> SUFFICES ASSUME TypeOK, Located, FirstRound, [Next]_vars
               PROVE FirstRound'
    OBVIOUS
  <1> USE DEF TypeOK, SyncTypeOK, Located, FirstRound, LibraryLabels, Procs, Parent, Child,
              sigvars, Goto, Move, ParentWaits
  <1>1. CASE Start \/ StartFails
    BY <1>1 DEF Start, StartFails, Fork, ForkFails
  <1>2. CASE ParentLoop \/ ParentWait \/ ChildLoop
    BY <1>2 DEF ParentLoop, ParentWait, ChildLoop, WAIT_CHILD, WAIT_PARENT, Call
  <1>3. ASSUME NEW p \in Procs, Step(p) PROVE FirstRound'
    <2>1. CASE Load(p) \/ Store(p) \/ Test(p) \/ Increment(p)
      BY <2>1 DEF Load, Store, Test, Increment
    <2>2. CASE Tell(p)
      BY <2>2 DEF Tell, TELL_CHILD, TELL_PARENT
    <2>3. CASE Library(p) /\ InTellWait(p)
      BY <2>3 DEF Library, InTellWait, Catch, Block, Return
    <2>4. CASE Library(p) /\ InWait(p)
      BY <2>4 DEF Library, InWait, CheckFlag, Suspend, ClearFlag, RestoreMask,
                  Unblocked
    <2>5. CASE Library(p) /\ Terminate(p)
      BY <2>5 DEF Library, Terminate
    <2>6. CASE Library(p) /\ Interrupt(p)
      BY <2>6 DEF Library, Interrupt, sig_usr, Deliverable
    <2>7. CASE Library(p) /\ WakeUp(p)
      BY <2>7 DEF Library, WakeUp, sig_usr, Deliverable
    <2>8. QED
      BY <1>3, <2>1, <2>2, <2>3, <2>4, <2>5, <2>6, <2>7
         DEF Step, Library, LibraryStep, Delivery
  <1>4. CASE UNCHANGED vars
    BY <1>4 DEF vars, syncvars
  <1>5. QED
    BY <1>1, <1>2, <1>3, <1>4 DEF Next, ParentStep

(* The inductive invariant holds in every reachable state. *)
THEOREM Invariance == Spec => []IInv
  <1>1. IInv /\ [Next]_vars => IInv'
    BY IInvStart, IInvRun, FirstRoundStep, TypeNext DEF IInv
  <1>2. QED
    BY IInvInit, <1>1, PTL DEF Spec

-----------------------------------------------------------------------------
(* 15.9.2.c:29-31, 41-43: no process ever finds an unexpected counter.     *)
THEOREM CounterAsExpected == Spec => []ExpectedCounter
  <1>1. IInv => ExpectedCounter
    BY DEF IInv, BeforeFork, Located, ExpectedCounter, Procs, Parent, Child,
           ParentWaits
  <1>2. QED
    BY Invariance, <1>1, PTL

(* The right to update is never lost and never in two places. *)
THEOREM BatonUnique == Spec => []OneBaton
  <1>1. IInv => OneBaton
    BY DEF IInv
  <1>2. QED
    BY Invariance, <1>1, PTL

(* The first WAIT of a process does not lose its wakeup. *)
THEOREM FirstWaitSafe == Spec => []FirstWaitKeepsWakeup
  <1>1. IInv => FirstWaitKeepsWakeup
    <2> SUFFICES ASSUME IInv, NEW p \in Procs, LostWakeup(p)
                 PROVE i[p] >= 2
      BY DEF FirstWaitKeepsWakeup
    <2>1. i[p] \in Nat
      BY DEF IInv, TypeOK
    <2>2. pc[Child] # "unborn"
      BY DEF IInv, BeforeFork, Located, LostWakeup, Procs, Parent, Child
    <2>3. QED
      BY <2>1, <2>2 DEF IInv, FirstRound, LostWakeup
  <1>2. QED
    BY Invariance, <1>1, PTL

(* A lost wakeup is final: the sleeper has the baton, in its flag, so that *)
(* nobody has it who could send the next signal.                           *)
LEMMA LostStays ==
  ASSUME IInv, [Next]_vars, NEW p \in Procs, LostWakeup(p)
  PROVE  LostWakeup(p)'
<1> USE DEF Procs, Parent, Child
<1>t. /\ pc \in [Procs -> Labels \union LibraryLabels \union Gone \union {"unborn"}]
      /\ sigflag \in [Procs -> {0, 1}]
  BY DEF IInv, TypeOK, SyncTypeOK
<1>1. /\ pc[p] = "asleep" /\ sigflag[p] = 1 /\ pending[p] = {}
      /\ pc[Child] # "unborn" /\ pc[Parent] # "fork"
  BY DEF LostWakeup, IInv, OneBaton, BeforeFork, Located, ParentWaits
<1>2. \A q \in Procs : ~Working(q)
  BY <1>1 DEF IInv, OneBaton, HasBaton
<1>3. CASE ParentStep \/ ChildLoop
  BY <1>1, <1>3, <1>t
  DEF ParentStep, Start, StartFails, Fork, ForkFails, ParentLoop, ParentWait, WAIT_CHILD,
      Call, ChildLoop, WAIT_PARENT, Move, Goto, sigvars, LostWakeup
<1>4. ASSUME NEW q \in Procs, Step(q) PROVE LostWakeup(p)'
  <2>1. ~Load(q) /\ ~Store(q) /\ ~Test(q) /\ ~Tell(q)
    BY <1>2 DEF Working, Load, Store, Test, Tell, Move
  <2>2. CASE Increment(q)
    BY <1>1, <1>t, <2>2 DEF Increment, Move, Goto, sigvars, LostWakeup
  <2>3. CASE Library(q)
    <3>1. pc[q] # "asleep" \/ q # p
      BY <1>1, <2>3
      DEF Library, LibraryStep, InTellWait, InWait, Delivery, Catch, Block, CheckFlag,
          Suspend, ClearFlag, RestoreMask, Unblocked, Move, Terminate, Interrupt, WakeUp,
          sig_usr, Deliverable
    <3>2. q # p
      BY <1>1, <3>1
    <3>3. pc'[p] = pc[p] /\ sigflag'[p] = sigflag[p]
      BY <1>t, <2>3, <3>2
      DEF Library, LibraryStep, InTellWait, InWait, Delivery, Catch, Block, CheckFlag,
          Suspend, ClearFlag, RestoreMask, Unblocked, Move, Goto, Return, sigvars, Terminate,
          Interrupt, WakeUp, sig_usr
    <3> QED BY <1>1, <3>3 DEF LostWakeup
  <2> QED BY <1>4, <2>1, <2>2, <2>3 DEF Step
<1>5. CASE UNCHANGED vars
  BY <1>5 DEF vars, syncvars, LostWakeup
<1> QED BY <1>3, <1>4, <1>5 DEF Next

(* Nobody ever signals a process of 15.9.2 that has lost its wakeup: LostForever. *)
THEOREM LostStaysLost == Spec => LostForever
<1> SUFFICES ASSUME NEW p \in Procs
             PROVE  Spec => [](LostWakeup(p) => []LostWakeup(p))
  BY DEF LostForever
<1>1. IInv /\ [Next]_vars /\ LostWakeup(p) => LostWakeup(p)'
  BY LostStays
<1> QED BY <1>1, Invariance, PTL DEF Spec

-----------------------------------------------------------------------------
(* SharedCounter implements Turns.  The limit of Turns is reached by the   *)
(* last update and not before.                                             *)
LEMMA BelowLimit ==
  ASSUME NEW n \in Nat, n % 2 = 0, n < NLOOPS
  PROVE  /\ n < 2 * ((NLOOPS + 1) \div 2)
         /\ n + 1 < 2 * ((NLOOPS + 1) \div 2)
         /\ (n + 1) % 2 = 1
  BY NLOOPSAssumption

(* The load begins a turn ... *)
LEMMA LoadIsBegin ==
  ASSUME IInv, NEW p \in Procs, Load(p)
  PROVE  T!Begin(p)
  <1>1. Located /\ Counted
    BY DEF IInv, BeforeFork, Load, Move, Procs, Parent, Child
  <1>2. pc[Parent] # "store" /\ pc[Child] # "store"
    BY <1>1 DEF IInv, OneBaton, HasBaton, Working, Load, Move, Located, Procs,
                Parent, Child
  <1>3. Updater = "nobody" /\ Updater' = p
    BY <1>2 DEF Updater, Load, Move, Goto, IInv, TypeOK, SyncTypeOK, Procs,
                Parent, Child
  <1>4. area < 2 * ((NLOOPS + 1) \div 2) /\ p = T!Owner(area)
    <2>1. i[Parent] \in Nat /\ i[Parent] % 2 = 0
      BY <1>1 DEF Located, IInv, TypeOK, Procs
    <2>2. CASE p = Parent
      <3>1. area = i[Parent] /\ i[Parent] < NLOOPS
        BY <1>1, <2>2 DEF Load, Move, Located, Counted, Parent
      <3>2. QED
        BY <2>1, <2>2, <3>1, BelowLimit DEF T!Owner
    <2>3. CASE p = Child
      <3>1. area = i[Parent] + 1 /\ pc[Parent] \in ParentWaits
        BY <1>1, <2>3 DEF Load, Move, Counted, HasBaton, Working, Child
      <3>2. i[Parent] < NLOOPS
        BY <1>1, <3>1 DEF Located, ParentWaits
      <3>3. QED
        BY <2>1, <2>3, <3>1, <3>2, BelowLimit DEF T!Owner, Parent, Child
    <2>4. QED
      BY <2>2, <2>3 DEF Procs
  <1>5. QED
    BY <1>3, <1>4 DEF T!Begin, T!Nobody, Load

(* ... the store ends it, and the value stored is the next one. *)
LEMMA StoreIsEnd ==
  ASSUME IInv, NEW p \in Procs, Store(p)
  PROVE  T!End(p)
  <1>1. Located /\ Counted
    BY DEF IInv, BeforeFork, Store, Move, Procs, Parent, Child
  <1>2. \A q \in Procs : q # p => pc[q] # "store"
    BY <1>1 DEF IInv, OneBaton, HasBaton, Working, Store, Move, Located, Procs,
                Parent, Child
  <1>3. Updater = p /\ Updater' = "nobody"
    BY <1>2 DEF Updater, Store, Move, Goto, IInv, TypeOK, SyncTypeOK, Procs,
                Parent, Child
  <1>4. area' = area + 1
    BY <1>1 DEF Store, Move, Counted
  <1>5. QED
    BY <1>3, <1>4 DEF T!End, T!Nobody

(* Every other step leaves the turns alone. *)
LEMMA OtherSteps ==
  ASSUME TypeOK, IInv, [Next]_vars,
         \A p \in Procs : ~Load(p) /\ ~Store(p)
  PROVE  UNCHANGED <<area, Updater>>
  <1> USE DEF TypeOK, SyncTypeOK, Updater, Procs, Parent, Child, sigvars, Goto, Move
  <1>1. CASE Start \/ StartFails
    BY <1>1 DEF Start, StartFails, Fork, ForkFails, IInv, BeforeFork, Located, ParentWaits
  <1>2. CASE ParentLoop \/ ParentWait \/ ChildLoop
    BY <1>2 DEF ParentLoop, ParentWait, ChildLoop, WAIT_CHILD, WAIT_PARENT, Call
  <1>3. ASSUME NEW p \in Procs, Step(p) PROVE UNCHANGED <<area, Updater>>
    <2>1. CASE Test(p) \/ Increment(p)
      BY <2>1 DEF Test, Increment
    <2>2. CASE Tell(p)
      BY <2>2 DEF Tell, TELL_CHILD, TELL_PARENT
    <2>3. CASE Library(p) /\ InTellWait(p)
      BY <2>3 DEF Library, InTellWait, Catch, Block, Return, IInv, BeforeFork, Located,
                  ParentWaits
    <2>4. CASE Library(p) /\ InWait(p)
      BY <2>4 DEF Library, InWait, CheckFlag, Suspend, ClearFlag, RestoreMask,
                  Unblocked, IInv, BeforeFork, Located, ParentWaits, LibraryLabels
    <2>5. CASE Library(p) /\ Terminate(p)
      BY <2>5 DEF Library, Terminate, Deliverable, IInv, BeforeFork, Located
    <2>6. CASE Library(p) /\ Interrupt(p)
      BY <2>6 DEF Library, Interrupt
    <2>7. CASE Library(p) /\ WakeUp(p)
      BY <2>7 DEF Library, WakeUp
    <2>8. QED
      BY <1>3, <2>1, <2>2, <2>3, <2>4, <2>5, <2>6, <2>7
         DEF Step, Library, LibraryStep, Delivery
  <1>4. CASE UNCHANGED vars
    BY <1>4 DEF vars, syncvars
  <1>5. QED
    BY <1>1, <1>2, <1>3, <1>4 DEF Next, ParentStep

LEMMA StepIsTurn == IInv /\ [Next]_vars => [T!Next]_(T!vars)
  <1> SUFFICES ASSUME IInv, [Next]_vars PROVE [T!Next]_(T!vars)
    OBVIOUS
  <1>1. CASE \E p \in Procs : Load(p) \/ Store(p)
    BY <1>1, LoadIsBegin, StoreIsEnd DEF T!Next, Procs
  <1>2. CASE \A p \in Procs : ~Load(p) /\ ~Store(p)
    BY <1>2, OtherSteps DEF T!vars, IInv
  <1>3. QED
    BY <1>1, <1>2

(* The updates of parent and child are turns: they alternate and never     *)
(* overlap.                                                                *)
THEOREM ImplementsTurns == Spec => TakesTurns
  <1>1. Init => T!Init
    BY DEF Init, InitSync, T!Init, T!Nobody, Updater, Procs, Parent, Child
  <1>2. QED
    BY <1>1, StepIsTurn, Invariance, PTL DEF Spec, TakesTurns, T!Spec
=============================================================================
