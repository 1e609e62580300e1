# Verification of the APUE example programs

The repository holds the example programs and exercise solutions of a reading of
*Advanced Programming in the UNIX Environment*: 100 small C programs, one to three
per section, and notes. There is no common main program. What the programs share is
a library of five functions (`TELL_WAIT`, `TELL_PARENT`, `TELL_CHILD`,
`WAIT_PARENT`, `WAIT_CHILD`, chapter_10/10.16.3.c), called from chapters 8, 10, 14
and 15, and a style: a program makes a handful of system calls whose order against
another process, thread, signal handler or device is the point of the example. The
models are about that order. The state of the kernel that a program depends on
(signal masks, pending signals, lock tables, alarm clocks, request queues) is part
of each model.

## 1. Inventory

| Component (chapter/file) | State it keeps | Operations | What is hard | Correct when |
|---|---|---|---|---|
| TELL/WAIT (10/10.16.3.c) | `sigflag`, three masks; per process: dispositions, mask, pending signals | the five functions, handler `sig_usr` | signal between the flag test and `sigsuspend`; the mask is restored by every WAIT but blocked only by TELL_WAIT | no message is lost or fatal |
| Shared counter in memory (15/15.9.2.c) | a shared `long`, two loop variables | `update`, the two loops | unblocked signals from the second WAIT on; non-atomic increment | updates alternate, the expected values are seen, both processes end |
| Shared counter in a file (10/p6.c) | file contents, two loop variables | `writenum`, the two loops | TELL_WAIT after `fork` | 1, 2, 3, ... are written in this order |
| Characters (8/8.9.c, 8.9.2.c, 8.9.3.c) | what is written | `charatatime` | a TELL that precedes the WAIT | the two strings do not mix |
| Record locks (14/14.3.c, 14.3.2.c) | the kernel's byte locks | `lockabyte`, `write_lock`, `read_lock`, `waitpid` | a deadlock made on purpose; locks that go with their owner's exit | the deadlock is broken by one refusal; the read lock is refused |
| Timers on one alarm (10/p5.c) | a linked list of timers, the alarm clock | `settimeout`, `push_to_timer_list`, `alarm_proc` | the handler interrupts the list operations; seconds pass anywhere; unsigned differences | each function runs once; unless a second passes within a push, not before its time and not late by more than the program's own delays |
| Sleep and read timeouts (10/10.10*.c, 16/16-19.c) | the alarm clock, a jump buffer | `sleep1`, `sleep2`, the reads | the alarm against `pause`, `read`, `recvfrom` and other handlers | the wait ends with the alarm at the latest; no second is lost; `longjmp` finds its frame |
| Critical regions (10/10.13.c, 10.16.c, 10.16.2.c) | mask, pending signals, `quitflag` | `sigprocmask`, `sigpending`, `sigsuspend`, the handlers | a signal between the test and the sleep | a blocked signal is neither lost nor made up |
| A handler that jumps (10/10.15.c) | `canjump`, a jump buffer with a mask | `sig_usr1`, `sig_alrm`, `siglongjmp` | the signal before `sigsetjmp`, inside its handler, and after the jump | it jumps once, to a buffer that is set, with the old mask |
| A handler that stops (10/10.21.c) | disposition, mask, nested handlers | the copy loop, `sig_tstp` | SIGTSTP between the statements of its own handler | it stops no oftener than asked, and is ready again whenever it copies |
| Orphan (8/9.10.c, 9/9.10.c) | a stopped child, the terminal | `sig_hup`, `kill`, the parent's exit | the parent may exit before the child has stopped, or run | SIGHUP does not kill the child, and it does not stay stopped |
| Shells (1/1.6.3.c, 1.9.c) | a command, a stdio buffer | read, fork, exec, wait, `sig_int` | SIGINT goes to shell and command; the command has the shell's handler and buffer up to exec | it waits for each command; no prompt is lost |
| Output and fork (8/8.3.c, 8.4.c, 8.6.c) | stdio buffers, `globvar` | `fork`, `vfork`, `wait`, exits | a buffer is copied by fork and flushed by each exit | lines come once on a terminal, and twice in a file only where fork says so |
| Two priorities (8/8.16.c) | the clock, two counts | `checktime` | it compares seconds and microseconds one by one | nobody stops early, or counts on for good |
| Copies of files (1/1.5.3.c, 1.5.4.c, 3/3.9.c, 14/14.2.c, 14.8.c) | file positions, a buffer | read, write, getc, putc, memcpy | failures in the middle; an error taken for EAGAIN; 3.9 writes to the descriptor it reads | status 0 stands for a complete copy, but in 3.9 for what its descriptor makes of it |
| Copy of a file with holes (4/p6.c) | position, run of bytes, two counters | the loop over the bytes, `lseek`, `write` | runs that cross a block | the copy equals the file |
| Tree walk (4/4.22.c) | path buffer, open directories, seven counters | `myftw`, `dopath`, `myfunc` | one buffer for all levels of a recursion; failures in the middle | no overflow; every file once |
| ROT-13, asynchronous (14/14.5.3.2.c) | `bufs`, `aiolist`, `numop`, `off` | the scan, `aio_suspend`, completions | completions in any order, failures in the middle | each block once, success only for a complete file |
| ROT-13, synchronous (14/14.5.3.c) | file position, buffer | read, translate, write | failures in the middle | the same |
| Parallel sort (11/11.6.8.c) | `nums`, `snums`, a barrier | `thr_fn`, `merge` | nobody may pass the barrier early | `snums` is the sorted `nums` |
| Signal thread (12/12.8.c) | `quitflag`, mutex, condition | `thr_fn`, `main` | signal after unlock; spurious wakeups; write without the mutex | no wakeup lost, ends by SIGQUIT only |
| Timeout thread (12/12.4.c) | a recursive mutex, a helper thread, the clock | `timeout`, `timeout_helper`, `retry` | main calls `retry` itself if it gets no thread, with the mutex held; a difference with a borrow | `retry` is not early; main ends |
| Fork handlers (12/12.9.c) | two mutexes in two memories | `prepare`, `parent`, `child` | locks taken by `prepare` and released in two processes, also when `fork` fails; no other thread of the program takes them | no lock stays behind |
| Daemon with a signal thread (13/13.6.c) | dispositions, mask | `thr_fn`, `main` | SIGHUP before the mask; main's exit right after `pthread_create` | no signal kills a daemon that waits |
| Coprocess (15/15.4*.c) | two pipes, their open ends, the stdio buffers | driver loop, filter loop | buffered answers: each waits for the other; an end left open | every line gets its answer, and both end |
| Other pipes (15/15.2*.c, 15.3*.c) | a pipe, a stdio buffer | fork or `popen`, the two loops, `pclose` | the end of file; a pager that leaves first; a missing `fork`; a filter that cannot be executed | no line is lost but by a quit or a missing filter, and both end |
| Uptime over streams (16/16-12.c, 16-16.c to 16-18.c) | backlog, connections and who has them open, retry counters | `connect_retry`, `print_uptime`, `initserver`, `serve` | the end of file comes when the last copy is closed; failures of either side | a served client gets all the output, and every client ends |
| Uptime over datagrams (16/16-20.c, client 16-19.c) | datagrams under way | `serve`, `print_uptime` | lost, repeated, late datagrams | who asks is answered or times out |
| Message queues (17/17-3.c, 17-4.c) | queues, datagram sockets, one buffer | `helper`, the poll loop, `msgsnd` | helper threads and one poll loop; the end and restart of 17-3 | every message is printed once, in its queue's order |
| The rest | – | a few calls each | – | – |

The components interact only where a program is linked with the library: 8.9.2,
8.9.3, 14.3, 14.3.2 and 15.9.2 call 10.16.3; p6 has its own copy. Parent and child
then share signals (kill), a resource (a terminal, byte locks, a file, a mapping)
and, through `fork`, the initial state. Clients and daemons of chapter 16, 17-3 and
17-4, and the drivers and filters of chapter 15 are programs of their own, which meet in
sockets, queues and pipes.

`PROJECT.json` lists every component with its files, and under `hazards` the
places where these programs can go wrong in a way a test run would hardly show.

## 2. Plan

Done, in this order: TellWait, SharedCounter with Turns, CounterFile, CharAtATime,
RecordLocks, TimerList, RotCopy / AioRot / SyncRot, SigwaitQuit, the proofs of
SharedCounter, BarrierSort, AlarmWaits, MaskedWaits, Coprocess, Uptime, the proofs of
BarrierSort, SigwaitQuit and Coprocess; then MessagePoll with Fifo, Datagrams, Timeout,
AtFork, DaemonThread, Ftw, HoleCopy, Pipes, SignalJump, JobControl, Orphan, PlainCopy, StdinCopy, Shell,
ForkedOutput, NiceLoop, and the proofs of Ftw, MessagePoll, Uptime and JobControl; then the
invariants of all programs of MCThreads, MCServices, MCPipes, MCSignals, MCFiles and MCTellWait and of
TimerList, RotCopy as implemented by AioRot and SyncRot, and Turns as implemented by CounterFile, as theorems.
Every safety property that a passing run checks is now a theorem, but for those of the section
*Model-checked only*.

What could follow: an abstract specification of answered lines for Coprocess and Uptime.

Abstract specifications: Turns (alternation; implemented by SharedCounter and
CounterFile), RotCopy (a copy in any order of blocks; implemented by AioRot and SyncRot) and Fifo
(queues that lose messages only when their reader ends; implemented by MessagePoll).

## 3. The modules

**TellWait** models 10.16.3.c with the kernel's side of signals. Each process has a
program counter `pc` and, as the library is called from several places, a return
label `ret`; `Call` enters a routine, `Return` leaves it. One action per system call
or flag access: `Catch` (signal), `Block`, `CheckFlag`, `Suspend`, `ClearFlag`,
`RestoreMask`. `sigsuspend` is atomic as the kernel's is: `Suspend` replaces the mask
and sleeps in one step, `WakeUp` runs the handler and restores the mask. Between any
two statements a pending unblocked signal is delivered: `Interrupt` (the handler
sets `sigflag`) or, where `signal` was not called yet, `Terminate`. A return from
`sigprocmask` waits for the delivery of what it unblocked (`Unblocked`), as POSIX has
it. The module has no specification of its own; clients extend it with their labels.

**SharedCounter**, **CounterFile**, **CharAtATime** and **RecordLocks** are such clients.
In SharedCounter `update` is a load and a store (`Load`, `Store`), and `Test` is the
comparison that ends in `err_quit`. In CounterFile `writenum` is the truncation by
`fopen` and the write by `fclose`. CharAtATime and RecordLocks hold several
programs that differ in who waits or locks; `Init` chooses one. RecordLocks has the
lock table (`owner`, `waitsFor`), with `WouldDeadlock` for the kernel's check.
`fork` may fail in all of them.

**Turns** is what the two counters promise: turns that never overlap, taken alternately.
SharedCounter maps `count` to the shared long and a turn to the time between load and
store; CounterFile maps a turn to the time in which the file is open.

**TimerList** models p5.c. `settimeout` and `push_to_timer_list` are a sequence of
steps, one per access to the shared list, since `alarm_proc` may interrupt between any
two. `Deliver` and `Rearm` are the handler. `Tick` lets a second pass. Differences are taken
modulo `UInt`; `alarm(0)` cancels. `free` leaves the freed node's `next` as it was, on
which `alarm_proc` relies; a second `free` of a node, and a NULL dereference, is "crashed". `slow` and `interrupted` are
history variables: a second has passed within a push, or the handler has run within one; a push is `disturbed` by either.
`UIntAssumption` says that no deadline wraps, as none does in 32 bits.

### Signals to one process

**AlarmWaits** holds the six programs that set an alarm and then wait. One process, an alarm clock
that ticks at any point, SIGALRM's handler, and in 10.10.3 a slow handler of SIGINT which
SIGALRM's `longjmp` may abandon. `missed` is a history variable: the alarm came before the wait.
**MaskedWaits** holds the three programs that block signals around a critical region. `Deliver`
runs a handler between any two statements; `Suspend` sets the mask and sleeps in one step.

**SignalJump** is 10.15. `sig_usr1` has a program counter of its own, with the name of the function,
because `sig_alrm` interrupts it; `Siglongjmp` restores the mask and ends in "crashed" if no buffer is set.
**JobControl** is 10.21. `frames` is the stack of the calls of `sig_tstp`, each with the mask it
returns to: SIGTSTP is not blocked after `Unblock`, so that a handler can interrupt a handler.
`Deliver` stops the process or starts a handler; `Send` and `Continue` are the others'.
**Orphan** is 9.10: `Exit` of the parent orphans the group, with the kernel's SIGHUP and SIGCONT if
the child is stopped just then; `Stop` is ignored in an orphaned group; `TakeTerminal` is the shell
the program was started from, behind whose back the child reads.
**Shell** is 1.6.3 and 1.9. `Interrupt` sends SIGINT to the shell and its command; `copy` is the command's
copy of the shell's stdio buffer, which `exec` drops and a failed `exec` writes out.

### Threads and clocks

**SigwaitQuit** is 12.8.c: main, the signal thread, the mutex, the condition variable
(a spurious wakeup is always possible) and a terminal that sends signals.
**BarrierSort** is 11.6.8.c: main creates the workers one by one, each worker sorts its range
and calls `pthread_barrier_wait`, as main does before it merges. It is one of the programs of MCThreads. `Heapsort` is modelled by what
heapsort does (any sorted arrangement of the range); `Merge` is the loop of `merge`, one
step per number taken. The barrier is the set of threads at it.
**Timeout** is 12.4: main, with the functions it calls, and the helper thread. A `timespec` is a pair, so that
`Difference` borrows as the code does. `Lock` counts as a recursive mutex does.
**AtFork** is 12.9: `locked` has the mutexes of each process's memory, and `Fork` copies main's.
**DaemonThread** is 13.6: `Ignored` and `Blocked` say what main's calls have made of the disposition of
SIGHUP and of the mask; `Exit` ends both threads. `daemonize` and `already_running`, which the repository
does not have, are a step each.
**NiceLoop** is 8.16: `Checktime` is a look at the clock by one process. The priorities are the scheduler's:
the model only bounds by `MaxLag` how long a process is kept from its next look.

### Files

**RotCopy** has `translate` on bytes, and is what both rot13 programs promise.
**AioRot** is the loop of 14.5.3.2.c, one action per branch of its `switch`; the kernel
(`Complete`) finishes requests in any order, with an error, all or too little. A block is
represented by one of its bytes. **SyncRot** is 14.5.3.c; `readFailed` is a history variable.

**Ftw** is 4.22. The recursion of `dopath` is the stack `dps` of its open directories: each has the
length `n` of the path when it was entered and the entries not yet read. `strlen` and `pathlen`
are the length of the path and the size of its buffer in characters. `lstat`, `opendir` and `myftw`'s
allocation may fail.
**HoleCopy** is p6.c of chapter 4, byte by byte, with its variables `cnt`, `i` (here `j` in MCFiles), `f`, `l`, `all_cnt`.
**PlainCopy** counts blocks: `held` are read and not written. `silent` is a history variable: a failure after which
the program goes on. In 14.2 `full` is the pipe it writes to.
**StdinCopy** is 3.9, whose `write` goes to STDIN_FILENO like its `read`. Descriptor 0 is a stream (a terminal or a
socket: what is written goes out, the input is not touched), a regular file open for both (`content`, `length` and the
one offset `position`, which read and write both move), or an input open for reading, which refuses every write (`Refuse`).
`chunk` and `nread` are `buf` and `n`; `original` is a history variable, the length at the start.

### Processes and pipes

**Coprocess** is the driver 15.4.2.c with each of the filters 15.4.c, 15.4.3.c and 15.4.4.c. `open` has,
for each end of the two pipes, the processes that have it open: the end of file, SIGPIPE and
their consequences follow from it. `inbuf` and `outbuf` are the filter's stdio buffers.
`FilterDies` kills the filter anywhere.
**Pipes** has the programs with one pipe, as a writer `w` and a reader `r`, with the ends each has open.
In 15.2.2 there is no `fork`: what happens to be in `pid` chooses one branch, and there is no other process.
**ForkedOutput** has the stdio buffers of parent and child, with `out` for the lines that reach the file. `statuses`
has what `pr_exit`, or the last `printf`, shows.

### Services

**Uptime** is any number of clients (16-16.c), one daemon (16-17.c or 16-18.c) and, with the
latter, its child. `holders` has the processes with the daemon's side of a connection open;
a client's `recv` returns 0 when there is none. `slept` counts the seconds of `connect_retry`.
**Datagrams** is the daemon 16-20 with its clients 16-19 and a network `net` that loses (`Lose`), repeats and
reorders. `lost` is a history variable: for whom a datagram was lost, or never sent.
**MessagePoll** is 17-3 with its helper threads, and the senders 17-4. `End` is any end of 17-3 (a signal, or an
`err_sys` at any of its calls); queues stay, what helpers and sockets hold is gone. `buf` is the one array all
messages are read into, with its bytes: what is printed is its `String`. **Fifo** is what a queue promises.

### For TLC

**MCTellWait**, **MCSignals**, **MCThreads**, **MCFiles**, **MCPipes** and **MCServices** put modules of the same kind
into one state space: each chooses a program in its initial state and leaves the other modules' variables
alone (rot13 runs twice, asynchronously and then synchronously, on the same file). A temporal property of
such a module says for which programs it is, and its fairness is that of the modules, each conjunct for
the program that runs: `WF(program = X /\ Action)`.

The operators named "Mutant" in a comment are plausible mistakes in the code; nothing
refers to them. They show that a property could fail: with the mutant in the place of
the definition after it, TLC finds a violation of the property that `PROJECT.json` pairs it with.

### What is abstracted

* Output and formatting are left out, apart from the order and number of the pieces in CharAtATime,
  Pipes, Shell, ForkedOutput and MessagePoll. So is what a handler prints.
* Calls that cannot fail with the arguments given here (`signal` for a catchable
  signal, `sigprocmask`, `sigwait`, mutex calls, `kill` to an own relative) do not
  fail. `fork`, `pthread_create`, the lock, read, write and aio calls do. The `open`
  calls and usage checks at the start of a program, before there is any state to
  speak of, and memory exhaustion are left out (but for the `malloc` of 12.4, on which its behaviour depends).
* `signal` keeps the handler installed and restarts system calls, as BSD, macOS
  and glibc do; `sigset_t` fits the `sig_atomic_t` variables the library keeps masks in, as on macOS.
  That `printf` in a handler is not async-signal-safe is left out.
* In p5.c, `time((time_t *)&cur_time)` stores 8 bytes in a 4-byte variable; the neighbour it
  overwrites is taken to be rewritten before it is read.
* The input file of the copy programs does not change while they run. In Ftw the tree does not
  change, except that `lstat` and `opendir` may fail.
* HoleCopy starts with an empty output (the code opens without O_TRUNC), and its writes are not short.
  Pipes leaves out read errors of the input file. In
  StdinCopy descriptor 0 does not have O_APPEND, its offset is 0 at first, and the input of a stream arrives and ends.
* In TimerList malloc gives `push` no node that the handler has just freed and that `push` still refers to.
* In Uptime calls of a client, a daemon and its child fail, but none of them is killed in the middle of an answer.
* A line is shorter than MAXLINE and is written to a pipe or a socket in one piece; answers fit
  the pipe and the stdio buffer, of which the driver leaves at most one unread. The prompts of
  a shell fit its buffer, and its commands end.
* `longjmp` of 10.10 may or may not restore the mask; each sleep is called once, so nothing depends on it.
* The child of 9.10 is continued by nobody else, and a user types a character, or the end of file, at last.
* `vfork` shares memory or is `fork`; `abort` flushes stdio or does not.
* The count of 8.16 does not wrap in ten seconds.
* The numbers BarrierSort sorts are below LONG_MAX, which is what `random` gives where long has 64 bits.
* The setup of the chapter 16 daemons before their list of addresses (host name, `daemonize`, `getaddrinfo`) is left out.
  Datagrams forgets the daemon's buffer and address once an answer is sent: they are written before they are used again.

## 4. The runs

| Run | Question | Bounds and why they are enough |
|---|---|---|
| shared_counter | Do the updates alternate with the expected values, and does the program end? | NLOOPS = 6 (1000 in the code): three rounds per process; first and later rounds differ, and a third repeats the second. The theorems cover every NLOOPS. |
| counter_file_alternates | The notes' "alternately" for p6 (violated). | Limit = 6 (1000): an even limit, as in the code, three rounds for the child. |
| tell_wait | The other programs on the library: do the strings of 8.9.2 and 8.9.3 stay apart? Is the deadlock of 14.3 broken, and the read lock of 14.3.2 refused? What does TELL_WAIT after fork cost p6? | Strings of 4 and 3 characters: more than one, and of different lengths; Limit = 6 for p6. The locks need no bound: two processes, two bytes, as in the code. |
| timer_list | Are timers run once, in time, in every interleaving with the handler? | main's own four calls and all sequences of Calls = 3 with 0 to MaxSeconds = 3 seconds; at most MaxLag = 4 seconds pass outside `pause`, which is the first bound at which a second within a push makes a later timer early. Three timers make every place of insertion possible; UInt = 32 makes a wrapped difference longer than any run. |
| timer_list_next | The comment's "start the next timer" for main's own calls (violated). | Calls = 0: no other calls. MaxLag = 1: one second is enough. |
| files | Is the path buffer of 4.22 ever too small, and each file counted once? Does rot13 copy each block once, in every order of completion? When do the plain copies report success? Does each of them end? | A tree of three levels of directories with OPEN_MAX = 2, and names of 1 and NAME_MAX = 2 characters; a buffer that must grow (PathAlloc = 4). NBUF = 3 (8), BSZ = 2 (4096), files of 0, 1, 2, 5 and 8 bytes: no block, a partial one, a full one, as many as buffers, and more. p6: blocks of 3 bytes and all files up to 4, of two values and the hole's. Plain copies: up to 7 blocks with a buffer of 2; for 3.9 that is a round that reads a buffer and overwrites the next, and a second one at each place where the file can end, with files that grow and files that do not. |
| hole_copy | The comment's "all that was not copied" of p6 in chapter 4 (violated). | All files up to 4 bytes with blocks of 3: two blocks. |
| threads | 12.8: is a wakeup ever lost? 12.4: is the function early, can main wait for itself? 12.9: does a lock stay behind? 13.6: which signals kill it? 8.16: who stops, and when? 11.6.8: does main merge only sorted ranges, into a sorted array? | MaxSignals = MaxSent = 3: one before, one that acts, one more after. A second of 3 units, every fraction at the start, Delay = 1 (10), nine units: the time to run at the latest and a second more. MaxLag = 2: start fractions whose window is shorter, as long, and longer. NTHR = 3 (8), TNUM = 2 (1000000), and every array of two different numbers: ranges that end early in the merge, equal numbers within and across ranges, and, since the merge only asks which ranges' next numbers are the smallest, every nonempty set of ranges as the answer. The theorems cover every NTHR, TNUM and set of numbers. |
| signals | Do the waits with an alarm end, in time? Is a blocked signal ever lost? Does 10.15 jump once, 10.21 stop as asked, 9.10 live on? Do the shells wait for their commands? | Seconds = 2 (3 to 10): the alarm can be interrupted halfway. MaxLag = 4 seconds pass outside the wait: more than the alarm takes. MaxSent = 4 signals: each of two handlers can run twice, and SIGTSTP nest to depth 4. Blocks = 2: two commands, or blocks of 10.21. |
| pipes | Does every line get its own answer, and do both processes end? Is a line lost in a pipe, or twice in a file? | MaxLines = 4: a first line, a repeated one, and some left over when the filter dies. StdioMax = 2 and PipeMax = 1: the buffer fills twice and the pipe is full. |
| services | Does every client get all the output, and end? Is every message printed once, in order? | Two stream clients (one is served, one waits), Addresses = 2, MAXSLEEP = 4 (128): three tries per address; QLEN = 2 (10); Lines = 2. Two datagram clients, two addresses, one repeated datagram. Two queues, three messages for one of them, one longer than the buffer of MAXMSZ = 3, one for the other; queues and sockets hold one message (QMax, SockMax), and 17-3 ends once at most. |

Deadlock is not checked in these runs: all the programs end, and some stop for good in a
way the properties describe (a lost wakeup, a child left behind, no timer left).
Where a program must end, a liveness property says so.

### What they show

* 15.9.2 never miscounts and strictly alternates (`ExpectedCounter`, `TakesTurns`). It may
  hang: TELL_WAIT blocks the signals once, each WAIT restores the mask of before, so from the
  second WAIT on a signal may come between the flag test and `sigsuspend`
  (the first WAIT is safe: `FirstWaitKeepsWakeup`); it is the only way not to end (`EndsUnlessLost`), and final (`LostForever`).
* p6 of chapter 10 calls TELL_WAIT in every round and loses no wakeup, but calls it after
  `fork`: the child's first signal may kill the parent. Nothing else does (`ClientsInv`). In any
  case the child is left in its last WAIT (`ChildLeftBehind`).
* 14.3 reaches its deadlock whenever `fork` succeeds, and exactly one process fails
  (`DeadlockIsBroken`, `SecondAfterPeerGone`). In 14.3.2 the read lock is always refused
  (`ClientsInv`), and the child hangs only if the parent cannot get its lock
  (`EndsUnlessParentFails`).
* p5 keeps its list sorted in every interleaving (`SortedLinks`, a part of `Inv`). Unless a second passes within a push, it runs no timer early
  (`NeverEarly`), and none is late by more than the program's own delays (`Punctual`), even if the handler has run within
  pushes. A second within a push can make a later timer early: the push then computes its alarm from a time that is past, and sets it on top of an
  alarm that is already due; the handler of the first runs, and the second goes off for a timer that was set later.
  If no push is *disturbed*, by a second or by the handler, each timer runs once at most (a part of `Inv`),
  and all of them run unless two deadlines are equal (`AllRun`).
* The sleeps of 10.10 account for every second, also when SIGINT interrupts them, and `longjmp`
  finds its frame (`SignalsInv`). 10.10 and 16-19 may sleep on if the alarm comes before `pause`
  or `recvfrom`; 10.10.4 has no timeout at all, since `signal` restarts its `read`; the others end
  (`AlarmEndsWait`). 10.10.5 may lose a line it has just read to the timeout.
* 10.13, 10.16 and 10.16.2 lose no signal (`SignalEndsWait`): each of them blocks it before it looks.
* 10.15 jumps once at most, whenever SIGUSR1 comes; one that is pending at the jump finds `canjump` 0.
* 10.21 stops once at most for each SIGTSTP, is ready for the next whenever it copies, and copies to the end, however
  its handlers nest. SIGTSTPs that come between the handler's statements may be merged into one stop.
* The child of 9.10 outlives its parent whenever that exits: `signal` comes before the stop, and a
  group that is orphaned first does not stop any more. It reads either its character or an error.
* The shells never prompt while a command runs, and 1.9 survives each SIGINT once its handler is there. In a file, a command
  that cannot be executed repeats the prompts not yet written.
* 12.8 loses no wakeup, although it signals after the unlock, and main's unprotected
  write of `quitflag` meets no other (`Inv` of threads). Every SIGQUIT ends the process (`QuitEnds`).
* 12.4: the helper never runs `retry` early, and runs it at all only if main takes 10 seconds to its exit; main ends,
  also when it calls `retry` with the mutex held. 12.9 leaves no lock behind. 13.6: SIGHUP may kill it between the restored default
  and the mask; afterwards no signal does, but main's `exit` ends it at once.
* 8.16: nobody stops early. A process that does not look at the clock in the part of a second that `checktime`
  recognises counts on into the next; if it always may miss that part, nothing bounds its count (`NiceEnds`).
* 11.6.8 merges only when every thread has sorted (`BarrierInv`, which also follows the merge number by number), and always ends with the sorted
  array (`EndsSorted`).
* 4.22 never writes past its buffer, at any depth, and counts each file exactly once, except those it cannot reach (`Inv` of files).
* The asynchronous rot13 implements RotCopy. The synchronous one does only if a read error
  counts as a failure: the program itself ends its loop and exits with 0 (`CopiesUnlessReadFails`).
* 1.5.3 and 14.8 exit with 0 only after a complete copy; 1.5.4 does not report a flush that fails at exit, and 14.2
  neither a failed read nor a file longer than its buffer; a write that fails for good keeps it in its loop (`CopiesInv`).
* 3.9 ends with status 0 in three cases: descriptor 0 is a stream, and all of its input is echoed; it is open for reading only
  and empty; or it is a file open for both, and every other buffer of it is lost under a copy of the one before, while the file may grow by
  up to a buffer. Its standard output gets nothing (`CopiesInv`).
* The driver of 15.4.2 gets each line's own answer before it reads the next (`Inv` of pipes). Both processes
  end, whichever goes first, but with the fully buffered filter of 15.4.3 they wait for each
  other from the first line on, unless the filter is killed (`CoprocessEnds`).
* No line is lost in the pipes of 15.2 and 15.3 unless the reader quits or the filter
  of 15.3.2 cannot be executed, which that program does not notice; and both processes end (`PipesInv`, `BothEnd`). 15.2.2
  pages nothing: as the writer it is killed by SIGPIPE or ends in an error, as the pager it finds an empty input.
* 8.3, 8.4 and 8.6 repeat, in a file, exactly the lines that were in the buffer when a process forked whose child flushes it.
* A client of 16-16 that was served gets all lines, unless the daemon's popen or child failed, which
  it cannot tell. It sleeps at most MAXSLEEP - 1 seconds per address, closes the socket of every
  failed try, and ends (`ClientsEnd`), with either daemon.
* A client of 16-19 whose request and answer are not lost is answered or times out; all of them end, except one whose alarm
  came before `recvfrom` and who cannot be answered (`AskersEnd`).
* The queues of 17-3 are Fifos, also across its ends (`QueuesAreFifo`); `read` never waits and `buf[n]` exists, since 17-4
  cuts its messages below MAXMSZ (`ServicesInv`); while 17-3 runs, no queue holds up another (`MessagesPrinted`).

### Findings

1. `counter_file_alternates`: chapter_10/README.md:299 describes p6 as parent and child
   alternately increasing the counter. When the child's SIGUSR2 precedes the parent's
   `signal` call (p6.c:78), the parent is killed and 2 never follows 1.
2. `timer_list_next`: p5.c:52 says that `alarm_proc` starts the next timer. For equal
   deadlines p5.c:60 computes `alarm(0)`, which starts none, and the rest of the list is never
   run. main's own calls get there when one second passes between two of them.
3. `hole_copy`: the comment of chapter_04/p6.c:48 says that everything not yet copied is copied there.
   At the end of a block the write succeeds and the program takes this for an error, so that every file that is not
   empty ends it with status 1 in its first block; and where a run ends inside a block, it writes one
   byte, the first of the block. What is left right (`CopiesOneRun`): a first block that is one run to its end.

### Fairness

Every process and thread that can take a step eventually does (weak fairness of its steps),
which any UNIX scheduler gives; pending unblocked signals are delivered, submitted requests
completed, and time passes. SigwaitQuit also has strong fairness of the thread's
`pthread_mutex_lock`: main may wake up spuriously and take the mutex again and again, and the
implementation does not refuse it to the other thread forever. In 10.21, whoever stops the
program continues it at last; the shell of 9.10 takes the terminal when its job has ended, and the reader of
14.2's pipe reads. No fairness is assumed of
the terminal, of answers from the network, of the start and end of 17-3, of spurious wakeups or of failures.

## 5. Proofs

### SharedCounter_proofs

For every natural NLOOPS (the only assumption, `NLOOPSAssumption`):

| Theorem | Statement |
|---|---|
| Typing | `Spec => []TypeOK` |
| Invariance | `Spec => []IInv` |
| CounterAsExpected | `Spec => []ExpectedCounter` |
| BatonUnique | `Spec => []OneBaton` |
| FirstWaitSafe | `Spec => []FirstWaitKeepsWakeup` |
| ImplementsTurns | `Spec => TakesTurns` (refinement of Turns) |
| LostStaysLost | `Spec => LostForever`: the sleeper has the baton in its flag, so nobody has it who could send another signal |

`ExpectedCounter` is not inductive: that the child reads an odd value depends on who may
update. The invariant says where that right, the *baton*, is: with a working process, in a
pending signal, or in a set flag (`OneBaton`: in one of these places at most). `Located` bounds
where the processes can be after `fork`, `Counted` ties the counter and the loop variables to
the holder of the baton, and `BeforeFork` is the state up to `fork`. `FirstRound` says that
the signals are blocked up to the first `sigsuspend` of each process. The proof that a step preserves
IInv has a step per action; typing comes first and alone. For the refinement a `Load` begins
a turn (`LoadIsBegin`), a `Store` ends it (`StoreIsEnd`), and every other step stutters (`OtherSteps`).

### How the programs of one run are proved

The modules for TLC put several programs into one state space, and their proof modules prove the
invariants for that specification, `MCSpec`, so that a theorem says exactly what its run checks. A step of `MCNext` is
a step of one program, and leaves the others' variables alone (`StepOfEach`): what is inductive for each program by
itself is inductive for all of them. Where programs share variables (those of MCSignals share `pc`, `mask`, `pending` ...),
the inductive invariant `MCInv` states, for the program that runs, that program's own.

### MCThreads_proofs

For every natural MaxSignals, any number of spurious wakeups, and any clock (`ClockBounds`: the bounds are naturals, a second has
at least one unit, and in 8.16 the seconds to wait and the first second lie within the clock's range, as in the code):

| Theorem | Statement |
|---|---|
| NoLostWakeup | `MCSpec => []Inv` (12.8) |
| LeavesByQuitOnly | `MCSpec => []EndsOnlyByQuit` (12.8) |
| ThreadsSafe | `MCSpec => []ThreadsInv` (12.4, 12.9, 13.6 and 8.16) |
| BarrierHolds | `MCSpec => []BarrierInv` (11.6.8): nobody is behind the barrier before all NTHR + 1 threads have come to it, and main merges alone; each range is sorted before its thread comes there, and what is in `snums` is sorted, counted right, and below all that is left |
| NumsStay | `MCSpec => [][main merges => nums unchanged]_sortvars` (11.6.8) |
| SortIsRight | `MCSpec => [](main has exited => snums is nums in ascending order)` (11.6.8) |

* 12.8: the two invariants are inductive together. That main does not sleep through the flag (`WakeupToCome`) needs that
  it falls asleep with the mutex while the flag is 0, and that the thread, which sets it with the mutex,
  signals afterwards (`Mutex`, `FlagBySIGQUIT`); that main's reset is alone needs that main leaves
  the loop only with the flag set, and then with the mutex, which the thread has thus given up.
* 12.4: the time of a `timespec` in units (`Units`) is what the steps preserve: the clock and the time that the helper still waits
  reach at least to `when` (`Timed`). This is where the borrow of `Difference` counts. The helper exists only after the one
  call that made it (`OneCall`), so that `retry` is not run twice.
* 12.9: which locks are held in a memory is a function of the control point of its process (`HeldAt`).
* 13.6: every SIGHUP that was reread, is being handled or is pending has been sent (`Hangups`).
* 8.16: who still counts looked at the clock before `end`, or can miss what is left of the second of `end`
  (lemma on `checktime`: a time behind `end` that it takes for an earlier one lies in the late part of a second).
* 11.6.8, for every NTHR and TNUM above 0 and every set of numbers (`SortBounds`): the invariant is inductive. Its core is that the barrier
  opens with the arrival that makes the number of the waiting threads NTHR + 1; that this is the last of all threads is a
  fact about finite sets (lemma `LastArrives`: a subset of as many elements as the set is the set). `NumsStay`
  follows: where main merges, no worker's action that writes `nums` has its guard.
* The merge: the places taken (`Merged`) are as many as `sidx` and hold each number as often as the prefix of `snums` does
  (lemma `CountGrows`), and none that is left is smaller than one that was taken (`Merging`). That the number of a round is the
  smallest left uses that the ranges cover the array and do not overlap (`RangesCover`, `RangesDisjoint`) and that each is sorted
  (`RangesSorted`). At the end `Merged` has NUMNUM elements, and so is the whole array.

### MCPipes_proofs

For every natural MaxLines, with each of the filters and whoever ends first, and for all sizes of the pipe
and of the stdio buffers (`PipeBounds`: naturals, and a pipe holds at least a line):

| Theorem | Statement |
|---|---|
| EachLineAnswered | `MCSpec => []Inv`: after k lines the driver of 15.4.2 has put out exactly the answers to 1, ..., k, or all but the last |
| PipesSafe | `MCSpec => []PipesInv`: the same for one pipe, where no line is lost but by a quit or a missing filter; and which lines come twice after a fork |

The first is inductive because of `OneInFlight`: the line the driver waits for is in exactly one of the two pipes, the
filter's hands and its buffer, or was lost with the filter. Thus what `read` returns is that answer. For 15.2 and 15.3
`EndsTold` says which ends are open at each statement, from which the end of file and SIGPIPE follow, and `LinesTold` what a statement
says of the lines taken and written. For 8.3, 8.4 and 8.6 `In83`, `In84` and `In86` say what is in each buffer at each statement;
`Repeats` counts the lines the children of 8.6 have written again: `abort` may or may not flush.
### MCFiles_proofs

For every tree, any names and lengths, and any limits that satisfy the assumptions named in Ftw (paths begin
at the root and go through directories; no name in a directory is longer than NAME_MAX; `path_alloc` gives more than NAME_MAX);
for any number and size of buffers, any files and any bounds on them (`CopyBounds`: naturals, no buffer is empty, and a file
has the blocks that begin before its end; the files, `RotFiles`, are a CONSTANT):

| Theorem | Statement |
|---|---|
| WalkIsRight | `MCSpec => []Inv`: no copy of 4.22 overflows the buffer, and every file is counted once, or skipped with a reason |
| CopiesSafe | `MCSpec => []CopiesInv`: 14.5.3.2 counts its operations and has each block in one buffer or in the output; p6 copies a first block that is one run; status 0 of a plain copy stands for a complete one, with the exceptions PlainCopy names, and that of 3.9 for what StdinCopy says |
| AioCopies | `MCSpec => CopiesRotated`: 14.5.3.2 implements RotCopy |
| SyncCopies | `MCSpec => CopiesUnlessReadFails`: 14.5.3 implements RotCopy, if a read error counts as a failure |

* 4.22: `Inv` is inductive. `Fits` rests on what `dopath` sees to at each level (there is room for `n` and the longest name), which stays true
  for the outer levels because the buffer only grows. `EachOnce` splits the tree into the subtrees that wait (the entries left in the
  open directories and the file at hand), which are pairwise apart and not counted, and the files outside, which are settled.
  The lemmas say what a step does to the set of waiting subtrees: a file leaves it, or a directory is replaced by its children.
* 14.5.3.2: offsets are multiples of BSZ (`Multiples`), so that a buffer in use belongs to one block. `Holds` says what it holds of it: a read
  that is done has the block, a write has it translated, and nothing of the block is in the output until its write is done. `Written`: what is in the output is
  translated. When the loop ends no operation is left (`OperationsCounted`) and thus every block is in the output (`CompleteAtEnd`). For the
  refinement a completed write copies a block, the end of the program is the end of the copy, and every other step stutters (`RotatedStep`).
* 14.5.3: after k blocks the output has the first k (`FirstBlocks`).
* p6: in a block that is one run, nothing is written before its end, and the output's offset is the run's start (`InRun`); the write at the
  end then leaves exactly the hole before the run (`WrittenBlock`).
* Plain copies: what is read is copied or held, and whoever reads again holds nothing, except stdio's buffer in 1.5.4 (`PlainInv`).
* 3.9 on a file: each round reads a buffer and overwrites the next one, so it starts at a multiple of two buffers (`RoundFacts`). Before the offset the
  file is shuffled, after it untouched (`StdinInv`); a short read is the last one of the original file, and the write after it ends it.

### MCServices_proofs

For any number of stream clients, addresses, retries and lines, with either daemon (the assumptions named in Uptime); any number of datagram
clients, addresses and repetitions (`DatagramBounds`); any queues and any list of messages of 17-4 (`PollArguments`; the list, `Sends`, is a CONSTANT):

| Theorem | Statement |
|---|---|
| ServicesSafe | `MCSpec => []ServicesInv`: a stream client at its end of file has all that uptime printed, unless the daemon or its child failed in serving it; `connect_retry` sleeps less than MAXSLEEP seconds; one client is served at a time; a datagram client that lost nothing has its request or its answer under way; and 17-3 is safe as in NoReadWaits |
| QueuesImplementFifo | `MCSpec => QueuesAreFifo`: ImplementsFifo, for the run's specification |
| NoReadWaits | `P!Spec => []P!Inv`: what `poll` has reported is there when 17-3 reads it, and `buf[n] = 0` is inside `buf` |
| ImplementsFifo | `P!Spec => P!QueuesAreFifo`: each queue implements Fifo, under a refinement mapping |

* Streams: `TypeOK`, `Retries`, `Phases` and `Service` are inductive together; `Complete` and `OneAtATime` follow. `Phases` ties the phase of
  each client to the backlog, the accepted connection and its `holders`; `Service` counts, for the client being served, the lines
  written and to come.
* Datagrams: a client that waits and has lost nothing has its request in the network until the daemon at that address takes it, and
  from then on is in the daemon's hands or has an answer in the network (`Waits`). A repeated datagram changes none of this; that the network holds
  only what somebody asked or was answered (`Datagram`) is part of the invariant.
* Queues: `P` is MessagePoll. The messages of a queue that are not printed are those in its socket, its helper's hands and the kernel's queue, in this order
  (`Pending`); `msgrcv` and `write` leave the sequence as it is, `msgsnd` appends to it, and a round of the loop prints
  its head, for which the string in `buf` must be the message: no message contains a NUL, and `buf[n] = 0`
  ends it (lemmas on `Filled` and `String`). The end of 17-3 leaves a suffix.

### MCSignals_proofs

For any number of seconds and of signals, blocks, commands and lines (`SecondsAssumption`, `MaxLagAssumption` and `JobBounds`: naturals, and an alarm of at least a second):

| Theorem | Statement |
|---|---|
| SignalsSafe | `MCSpec => []SignalsInv` |

* AlarmWaits: while the alarm is set, it and the seconds since then make up the seconds asked for (`Timed`); a pending
  or set alarm means that `setjmp`'s frame is there (`Frames`).
* MaskedWaits: a signal sent is handled, pending, or was merged with a pending one (`Sent`); `Blocked` says, for each program, what its mask
  is where it looks, and so what it can have missed.
* SignalJump: `canjump` is 1 only while main is in `pause`, and 0 again when `siglongjmp` runs (`JumpReady`), so that the SIGUSR1 that the jump
  itself delivers returns at once; the handler's own alarm ends within its busy loop (`AlarmOfHandler`).
* JobControl: the core is a count. The stops so far, a pending signal, and the handlers that have not yet sent theirs (`Owing`)
  are together no more than the signals sent. A delivery turns the pending signal into a stop or into a new handler, `Kill` turns the
  innermost handler into a pending signal. For this `Ready` says which frames may lie under the innermost one, and with what mask and
  disposition. Handlers may nest to any depth.
* Orphan: SIGHUP is pending only when the parent is gone, and its handler is there before the child can be stopped.
* Shell: a terminal's buffer is empty whenever there is a child.

### TimerList_proofs

For any sequences of calls of `settimeout` and any bounds on the seconds (`CallsAssumption`, `MaxLagAssumption`; `UIntAssumption`: no deadline wraps):

| Theorem | Statement |
|---|---|
| TimersSafe | `Spec => []Inv`: the list is sorted in every interleaving with the handler; without a disturbed push nothing crashes and no timer runs twice |
| NotEarly | `Spec => NeverEarly` |
| LateByLag | `Spec => Punctual` |

None of the three is inductive. The invariant has a part for each guarantee, under the condition of that guarantee:

* In every interleaving: a link leads to a later deadline (`SortedLinks`). For this `Walked` says between which deadlines main stands in the
  list, which is true even if the handler has meanwhile removed the nodes it stands at, and `Unlinked` that nothing leads to a node not yet linked.
* Unless a second has passed within a push (`OnTime`): the alarm, set or pending, is that of the first node, and never earlier than its deadline nor
  later than it by more than `lag`; the two theorems on time are this conjunct at the step that runs a function. It
  needs no assumption on the handler: a push that it interrupts computes with the right time.
* Without a disturbed push (`Once`): the nodes of the list are those that have not run, each once (`FiredOnce`, `ListedOnce`), and main stands
  at one of them (`PushAlone`).

### MCTellWait_proofs

For strings of any length and any limit (`Lengths`: naturals):

| Theorem | Statement |
|---|---|
| ClientsSafe | `MCSpec => []ClientsInv`: the outputs of 8.9.2 and 8.9.3 do not mix and no TELL is lost or fatal; in 14.3.2 the read lock is refused; in p6 no wakeup is lost, nobody waits for a process that waits, and only the parent can be killed, in its first round |
| CounterTurnsImplement | `MCSpec => TakesTurns`: p6 implements Turns (refinement) |
| SecondByteLast | `MCSpec => SecondAfterPeerGone` (14.3) |

The library is the same module in each of the clients, so that its actions and types are the same formulas (`SameLibrary`, `SameTypes`). What is
inductive is stated for each program apart, and `IInv` is their conjunction, for the program that runs.

* p6: as in 15.9.2 there is a *baton*, with a process that works, in a pending signal or in a flag (`CounterBaton`), but here `CounterMasks` holds
  in every round, since each begins with TELL_WAIT: from there to the end of the WAIT the signals are blocked, and no flag is set behind
  the test. `CounterTurns` ties the number in the file and the loop variables to the holder of the baton.
  The baton can be lost only with a process that is gone: with the parent, killed before its first
  `signal(SIGUSR2)` (`CounterCaught` says that later both signals are caught), or at the end. That a process waits for the gone alone follows from that
  and from `CounterRounds`: whoever exited has reached the limit. For the refinement the truncation by `fopen` begins a
  turn (`FopenIsBegin`), `fclose` ends it (`FcloseIsEnd`), and every other step of any program stutters (`TurnStutters`).
* 8.9.2, 8.9.3: who goes second has been told, or is past its wait, exactly when the other one has exited (`OutputSecond`), which is when that
  one's string is out (`OutputFirst`).
* 14.3.2: the child has been told, or is past its wait, only while the parent is in `waitpid` with the lock, or after the child's exit (`MandatoryRun`).
* 14.3: a process has been told, or is past its wait, only when the other one has its first byte, which that keeps until it is gone (`DeadlockRun`).

### Model-checked only

All liveness properties (`EndsUnlessLost`, `AllRun`, `EndsSorted`, `QuitEnds`, `SignalEndsWait`,
`ClientsEnd`, `MessagesPrinted`, ...), which TLAPS cannot prove from
fairness: `EndsSorted` is proved as far as it is safety (`SortIsRight`), and checked as to whether 11.6.8 ends.
That 11.6.8's `nums` still holds the numbers it started with is in the guard of `Heapsort`, which stands for the library.
`translate` as its own inverse is an assumption of MCFiles, which TLC evaluates for every byte.

## 6. Not modelled

* 13.6.2.c does not compile: it installs `sigterm`, and its function is called `sigtrem`.
* fork, exec and session demonstrations (1.6.2, 8.6.2, 8.10, echoall, 9/p2): what each process prints does not depend on the other's steps.
* Thread demonstrations (11.4 to 11.6.3, p1): one or two threads that print and are joined; 11.5.2 reads the stack of a thread that has ended, and 11.5.3
  returns between push and pop of a cleanup handler, both undefined, so that no property of the program could be stated.
* Other signal demonstrations (10.3, 10.6, p2): they print a signal, or call `getpwnam` in a handler, which is undefined by design.
* 16.3.c prints what `getaddrinfo` returns.
* The one-shot programs (most of chapters 1 to 7, 15.9 and 18) call a few system calls once and print what
  they return: they have no interleaving and no state that a property could be about.
* The reading notes, except where a finding quotes them.

## 7. Running

    tlc -workers 2 -config signals.cfg MCSignals
    tlapm SharedCounter_proofs.tla
    tlapm TimerList_proofs.tla
    tlapm MCFiles_proofs.tla
    tlapm MCTellWait_proofs.tla
    tlapm MCThreads_proofs.tla
    tlapm MCPipes_proofs.tla
    tlapm MCServices_proofs.tla
    tlapm MCSignals_proofs.tla

`PROJECT.json` names the module and the configuration of each run. timer_list takes some minutes at most, services about one,
the others seconds.
