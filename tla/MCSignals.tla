------------------------------ MODULE MCSignals ------------------------------
(***************************************************************************)
(* The programs of AlarmWaits, MaskedWaits, SignalJump, JobControl,        *)
(* Orphan and Shell for TLC: processes that signals are sent to.  Init     *)
(* chooses one of the fourteen; the variables of the other modules stay as *)
(* they are.                                                               *)
(***************************************************************************)
EXTENDS AlarmWaits, Sequences

CONSTANTS MaxSent, Blocks
VARIABLES
  caught, mask, quitflag, reported, sent, handled,
  sig_usr1, jmpbuf, canjump, waited, jumps,
  inherited, action, frames, stopped, stops, left,
  parent, child, hangups, foreground,
  shell, tty, buf, copy, asked, shown, failed
M == INSTANCE MaskedWaits
J == INSTANCE SignalJump
T == INSTANCE JobControl
O == INSTANCE Orphan
S == INSTANCE Shell

ASSUME JobBounds == T!Bounds

alarmvars == <<env_alrm, sig_int, line, unslept, elapsed, lag, missed>>
maskvars == <<quitflag, reported, handled>>
jumpvars == <<sig_usr1, jmpbuf, canjump, waited, jumps>>
stopvars == <<inherited, action, frames, stops>>
orphanvars == <<parent, hangups, foreground>>
shellvars == <<shell, tty, buf, copy, asked, shown, failed>>
allvars == <<vars, maskvars, jumpvars, stopvars, orphanvars, shellvars,
             caught, mask, stopped, sent, left, child>>

AlarmPrograms == Sleeps \union Reads
MaskedPrograms == {M!Pending, M!Once, M!UntilQuit}

NoAlarmWait == /\ env_alrm = FALSE /\ sig_int = "idle" /\ line = "none"
               /\ unslept = 0 /\ elapsed = 0 /\ lag = 0 /\ missed = FALSE
NoMaskedWait == quitflag = 0 /\ reported = FALSE /\ handled = [s \in M!Signals |-> 0]
NoJump == sig_usr1 = "idle" /\ jmpbuf = FALSE /\ canjump = 0 /\ waited = 0 /\ jumps = 0
NoStop == /\ inherited = "SIG_IGN" /\ action = "SIG_IGN" /\ frames = <<>>
          /\ stops = 0
NoOrphan == parent = "gone" /\ hangups = FALSE /\ foreground = FALSE
NoShell == /\ shell = "exit_0" /\ tty = FALSE /\ buf = 0 /\ copy = 0 /\ asked = 0
           /\ shown = 0 /\ failed = FALSE

MCInit ==
  \/ /\ Init /\ NoMaskedWait /\ NoJump /\ NoStop /\ NoOrphan /\ NoShell
     /\ caught = {} /\ mask = {} /\ stopped = FALSE /\ sent = 0 /\ left = 0 /\ child = "none"
  \/ /\ M!Init /\ NoAlarmWait /\ NoJump /\ NoStop /\ NoOrphan /\ NoShell
     /\ alarm = 0 /\ stopped = FALSE /\ left = 0 /\ child = "none"
  \/ /\ program = "10.15" /\ J!Init
     /\ NoAlarmWait /\ NoMaskedWait /\ NoStop /\ NoOrphan /\ NoShell
     /\ stopped = FALSE /\ left = 0 /\ child = "none"
  \/ /\ program = "10.21" /\ T!Init
     /\ NoAlarmWait /\ NoMaskedWait /\ NoJump /\ NoOrphan /\ NoShell
     /\ alarm = 0 /\ caught = {} /\ child = "none"
  \/ /\ program = "9.10" /\ O!Init
     /\ NoAlarmWait /\ NoMaskedWait /\ NoJump /\ NoStop /\ NoShell
     /\ alarm = 0 /\ mask = {} /\ sent = 0 /\ left = 0 /\ pc = "signal"
  \/ /\ S!Init /\ NoAlarmWait /\ NoMaskedWait /\ NoJump /\ NoStop /\ NoOrphan
     /\ alarm = 0 /\ mask = {} /\ stopped = FALSE /\ pc = "signal"

MCNext ==
  \/ /\ program \in AlarmPrograms /\ Next
     /\ UNCHANGED <<maskvars, jumpvars, stopvars, orphanvars, shellvars>>
     /\ UNCHANGED <<caught, mask, stopped, sent, left, child>>
  \/ /\ program \in MaskedPrograms /\ M!Next
     /\ UNCHANGED <<alarmvars, jumpvars, stopvars, orphanvars, shellvars>>
     /\ UNCHANGED <<alarm, stopped, left, child>>
  \/ /\ program = "10.15" /\ J!Next
     /\ UNCHANGED <<program, alarmvars, maskvars, stopvars, orphanvars, shellvars>>
     /\ UNCHANGED <<stopped, left, child>>
  \/ /\ program = "10.21" /\ T!Next
     /\ UNCHANGED <<program, alarmvars, maskvars, jumpvars, orphanvars, shellvars>>
     /\ UNCHANGED <<alarm, caught, child>>
  \/ /\ program = "9.10" /\ O!Next
     /\ UNCHANGED <<program, alarmvars, maskvars, jumpvars, stopvars, shellvars>>
     /\ UNCHANGED <<pc, alarm, mask, sent, left>>
  \/ /\ program \in S!Shells /\ S!Next
     /\ UNCHANGED <<alarmvars, maskvars, jumpvars, stopvars, orphanvars>>
     /\ UNCHANGED <<pc, alarm, mask, stopped>>

(* The fairness of each module, for the program that runs. *)
Mvars == M!vars
Jvars == J!vars
Tvars == T!vars
Ovars == O!vars
Svars == S!vars
MCFairness ==
  /\ WF_vars(program \in AlarmPrograms /\ MainStep)
  /\ WF_vars(program \in AlarmPrograms /\ Handlers)
  /\ WF_vars(program \in AlarmPrograms /\ Tick)
  /\ WF_Mvars(program \in MaskedPrograms /\ M!Step)
  /\ \A s \in M!Signals : WF_Mvars(program \in MaskedPrograms /\ M!Deliver(s))
  /\ WF_Jvars(program = "10.15" /\ J!Step)
  /\ WF_Jvars(program = "10.15" /\ J!Delivery)
  /\ WF_Jvars(program = "10.15" /\ J!Tick)
  /\ WF_Tvars(program = "10.21" /\ T!Step)
  /\ WF_Tvars(program = "10.21" /\ T!Deliver)
  /\ WF_Tvars(program = "10.21" /\ stopped /\ T!Continue)
  /\ WF_Ovars(program = "9.10" /\ O!Fork)
  /\ WF_Ovars(program = "9.10" /\ O!Exit)
  /\ WF_Ovars(program = "9.10" /\ O!TakeTerminal)
  /\ WF_Ovars(program = "9.10" /\ O!Step)
  /\ WF_Ovars(program = "9.10" /\ (O!Stop \/ O!Hangup))
  /\ WF_Svars(program \in S!Shells /\ S!Step)
  /\ WF_Svars(program \in S!Shells /\ S!Child)
  /\ WF_Svars(program \in S!Shells /\ S!Delivery)

MCSpec == MCInit /\ [][MCNext]_allvars /\ MCFairness

(* The state is well typed.  Jumps are safe and sleeps accounted for; no   *)
(* blocked signal is missed or made up; 10.15 jumps once; 10.21 stops as   *)
(* often as it is asked to, and is ready for the next SIGTSTP; the child   *)
(* of 9.10 survives SIGHUP and reads only when it is an orphan; a shell    *)
(* that catches SIGINT survives it and waits for each of its commands.     *)
SignalsInv ==
  /\ program \in AlarmPrograms => Inv
  /\ program \in MaskedPrograms => M!Inv
  /\ program = "10.15" => J!Inv
  /\ program = "10.21" => T!Inv
  /\ program = "9.10" => O!Inv
  /\ program \in S!Shells => S!Inv

(* Sleeps and reads with an alarm end, but for the cases EndsUnlessMissed  *)
(* names.                                                                  *)
AlarmEndsWait == program \in AlarmPrograms => EndsUnlessMissed

(* A signal for which 10.13, 10.16, 10.16.2 or 10.15 waits is not lost,    *)
(* 10.21 copies its input to the end, however often it is stopped, the     *)
(* child of 9.10 is not left stopped, and no shell waits for good.         *)
SignalEndsWait ==
  /\ program \in MaskedPrograms => M!SignalEndsWait
  /\ program = "10.15" => J!JumpEnds
  /\ program = "10.21" => T!CopyEnds
  /\ program = "9.10" => O!ChildEnds
  /\ program \in S!Shells => S!ShellEnds
=============================================================================
