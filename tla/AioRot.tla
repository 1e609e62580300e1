------------------------------- MODULE AioRot -------------------------------
(***************************************************************************)
(* chapter_14/14.5.3.2.c: rot13 with asynchronous I/O.  main scans NBUF    *)
(* buffers; an unused one starts the read of the next block, a finished    *)
(* read is translated and becomes a write, a finished write frees the      *)
(* buffer.  The kernel completes requests in any order.                    *)
(***************************************************************************)
EXTENDS Integers, FiniteSets

CONSTANTS
  NBUF,    \* number of buffers (8 in the code)
  BSZ,     \* bytes in a buffer (4096 in the code)
  Inputs   \* the input files: a size and, per block, a byte that stands for it

VARIABLES
  input,     \* the input file
  pc,        \* "scan", "suspend", "fsync", "exited" or "failed"
  i,         \* the buffer being scanned
  off,       \* offset of the next read
  numop,     \* requests in flight
  aiolist,   \* the buffers in the list given to aio_suspend
  op,        \* bufs[i].op
  last,      \* bufs[i].last
  offset,    \* bufs[i].aiocb.aio_offset
  nbytes,    \* bufs[i].aiocb.aio_nbytes
  data,      \* bufs[i].data
  request,   \* the kernel's side: "none", "inprogress", "error" or "done"
  result,    \* what aio_return will return
  output     \* the output file, per block

slotvars == <<op, last, offset, nbytes, data>>
kernelvars == <<request, result, output>>
vars == <<input, pc, i, off, numop, aiolist, slotvars, kernelvars>>

(* The program as a RotCopy, whose translate it uses. *)
R == INSTANCE RotCopy WITH Inputs <- {f.block : f \in Inputs}, block <- input.block,
       status <- IF pc \in {"exited", "failed"} THEN pc ELSE "running"

Slots == 0 .. NBUF - 1
UNUSED == 0
READ_PENDING == 1
WRITE_PENDING == 2
Hole == 256                  \* an unwritten block, an unread buffer
Blocks == DOMAIN input.block
Block(o) == o \div BSZ

(* A file has the blocks that begin before its end.                        *)
Bounds ==
  /\ NBUF \in Nat \ {0} /\ BSZ \in Nat \ {0}
  /\ \A file \in Inputs :
       /\ file.st_size \in Nat
       /\ file.block \in [{b \in 0 .. file.st_size : b * BSZ < file.st_size} -> R!Byte]

Available(o) ==              \* bytes a read at offset o returns
  IF o >= input.st_size THEN 0
  ELSE IF input.st_size - o < BSZ THEN input.st_size - o ELSE BSZ

Init ==
  /\ input \in Inputs
  /\ pc = "scan" /\ i = 0 /\ off = 0 /\ numop = 0
  /\ aiolist = {}
  /\ op = [s \in Slots |-> UNUSED]
  /\ last = [s \in Slots |-> FALSE]
  /\ offset = [s \in Slots |-> 0]
  /\ nbytes = [s \in Slots |-> 0]
  /\ data = [s \in Slots |-> Hole]
  /\ request = [s \in Slots |-> "none"]
  /\ result = [s \in Slots |-> 0]
  /\ output = [b \in Blocks |-> Hole]

-----------------------------------------------------------------------------
(* One round of the inner for loop, for buffer i. *)

Set(f, v) == [f EXCEPT ![i] = v]
NextSlot == IF i = NBUF - 1 THEN pc' = "check" /\ i' = 0
                            ELSE i' = i + 1 /\ UNCHANGED pc
Submit == request' = Set(request, "inprogress") /\ UNCHANGED <<result, output>>

\* Mutant: off += BSZ is forgotten.
StartReadSameOffset ==
  /\ pc = "scan" /\ op[i] = UNUSED /\ off < input.st_size
  /\ op' = Set(op, READ_PENDING)
  /\ offset' = Set(offset, off)
  /\ nbytes' = Set(nbytes, BSZ)
  /\ aiolist' = aiolist \union {i}
  /\ numop' = numop + 1
  /\ Submit /\ NextSlot
  /\ UNCHANGED <<input, off, last, data>>

(* UNUSED and something left to read: aio_read. *)
StartRead ==
  /\ pc = "scan" /\ op[i] = UNUSED /\ off < input.st_size
  /\ op' = Set(op, READ_PENDING)
  /\ offset' = Set(offset, off)
  /\ off' = off + BSZ
  /\ last' = IF off' >= input.st_size THEN Set(last, TRUE) ELSE last
  /\ nbytes' = Set(nbytes, BSZ)
  /\ aiolist' = aiolist \union {i}
  /\ numop' = numop + 1
  /\ Submit /\ NextSlot
  /\ UNCHANGED <<input, data>>

(* UNUSED and nothing left, or the request is still in progress. *)
Skip ==
  /\ pc = "scan"
  /\ IF op[i] = UNUSED THEN off >= input.st_size
                       ELSE request[i] = "inprogress"
  /\ NextSlot
  /\ UNCHANGED <<input, off, numop, aiolist, slotvars, kernelvars>>

(* A failed request, a short read that is not the last one and a short     *)
(* write end the program.                                                  *)
Short == IF op[i] = READ_PENDING THEN result[i] # BSZ /\ ~last[i]
                                 ELSE result[i] # nbytes[i]
Quit ==
  /\ pc = "scan" /\ op[i] # UNUSED
  /\ \/ request[i] = "error"
     \/ request[i] = "done" /\ Short
  /\ pc' = "failed"
  /\ UNCHANGED <<input, i, off, numop, aiolist, slotvars, kernelvars>>

(* The read is done: translate, then aio_write of as many bytes. *)
StartWrite ==
  /\ pc = "scan" /\ op[i] = READ_PENDING /\ request[i] = "done" /\ ~Short
  /\ data' = IF result[i] > 0 THEN Set(data, R!translate(data[i])) ELSE data
  /\ op' = Set(op, WRITE_PENDING)
  /\ nbytes' = Set(nbytes, result[i])
  /\ Submit /\ NextSlot
  /\ UNCHANGED <<input, off, numop, aiolist, last, offset>>

(* aio_read or aio_write cannot be queued: err_sys. *)
SubmitFails ==
  /\ pc = "scan"
  /\ \/ op[i] = UNUSED /\ off < input.st_size
     \/ op[i] = READ_PENDING /\ request[i] = "done" /\ ~Short
  /\ pc' = "failed"
  /\ UNCHANGED <<input, i, off, numop, aiolist, slotvars, kernelvars>>

\* Mutant: numop is not decremented.
FinishWriteUncounted ==
  /\ pc = "scan" /\ op[i] = WRITE_PENDING /\ request[i] = "done" /\ ~Short
  /\ op' = Set(op, UNUSED)
  /\ aiolist' = aiolist \ {i}
  /\ NextSlot
  /\ UNCHANGED <<input, off, numop, last, offset, nbytes, data, kernelvars>>

(* The write is done: the buffer is free again. *)
FinishWrite ==
  /\ pc = "scan" /\ op[i] = WRITE_PENDING /\ request[i] = "done" /\ ~Short
  /\ op' = Set(op, UNUSED)
  /\ aiolist' = aiolist \ {i}
  /\ numop' = numop - 1
  /\ NextSlot
  /\ UNCHANGED <<input, off, last, offset, nbytes, data, kernelvars>>

\* Mutant: numop is not looked at.
CheckOffsetOnly ==
  /\ pc = "check"
  /\ pc' = IF off >= input.st_size THEN "fsync" ELSE "suspend"
  /\ UNCHANGED <<input, i, off, numop, aiolist, slotvars, kernelvars>>

(* After the scan: stop, scan again or suspend. *)
Check ==
  /\ pc = "check"
  /\ pc' = IF numop # 0 THEN "suspend"
           ELSE IF off >= input.st_size THEN "fsync" ELSE "scan"
  /\ UNCHANGED <<input, i, off, numop, aiolist, slotvars, kernelvars>>

(* aio_suspend returns when some request of the list is not in progress.   *)
Resume ==
  /\ pc = "suspend"
  /\ \E s \in aiolist : request[s] # "inprogress"
  /\ pc' = "scan"
  /\ UNCHANGED <<input, i, off, numop, aiolist, slotvars, kernelvars>>

(* aio_fsync is queued, and exit does not wait for it; or it cannot be.    *)
Exit ==
  /\ pc = "fsync"
  /\ pc' \in {"exited", "failed"}
  /\ UNCHANGED <<input, i, off, numop, aiolist, slotvars, kernelvars>>

-----------------------------------------------------------------------------
(* The kernel: a request fails, moves the data, or (a write to a full      *)
(* disk) moves too little.  The input file does not change.                *)
Complete(s) ==
  /\ request[s] = "inprogress"
  /\ pc \notin {"exited", "failed"}
  /\ \/ request' = [request EXCEPT ![s] = "error"]
        /\ UNCHANGED <<data, result, output>>
     \/ /\ request' = [request EXCEPT ![s] = "done"]
        /\ op[s] = WRITE_PENDING
        /\ result' = [result EXCEPT ![s] = nbytes[s] - 1]
        /\ UNCHANGED <<data, output>>
     \/ /\ request' = [request EXCEPT ![s] = "done"]
        /\ IF op[s] = READ_PENDING
             THEN /\ result' = [result EXCEPT ![s] = Available(offset[s])]
                  /\ data' = [data EXCEPT ![s] = input.block[Block(offset[s])]]
                  /\ UNCHANGED output
             ELSE /\ result' = [result EXCEPT ![s] = nbytes[s]]
                  /\ output' = [output EXCEPT ![Block(offset[s])] = data[s]]
                  /\ UNCHANGED data
  /\ UNCHANGED <<input, pc, i, off, numop, aiolist, op, last, offset, nbytes>>

Main ==
  \/ StartRead \/ Skip \/ Quit \/ StartWrite \/ FinishWrite \/ Check \/ Resume
  \/ SubmitFails \/ Exit

Next == Main \/ \E s \in Slots : Complete(s)

Spec == Init /\ [][Next]_vars

(* The program runs, and the kernel serves every request. *)
Fairness == WF_vars(Main) /\ \A s \in Slots : WF_vars(Complete(s))

FairSpec == Spec /\ Fairness

-----------------------------------------------------------------------------
Busy == {s \in Slots : op[s] # UNUSED}

TypeOK ==
  /\ pc \in {"scan", "check", "suspend", "fsync", "exited", "failed"}
  /\ i \in Slots /\ aiolist \subseteq Slots /\ {off, numop} \subseteq Nat
  /\ op \in [Slots -> {UNUSED, READ_PENDING, WRITE_PENDING}]
  /\ data \in [Slots -> R!Byte \union {Hole}]
  /\ output \in [Blocks -> R!Byte \union {Hole}]

(* numop counts, and the list given to aio_suspend holds, exactly the      *)
(* buffers with a request: aio_suspend never waits for nothing and the     *)
(* program never stops with a request in flight.                           *)
OperationsCounted == numop = Cardinality(Busy) /\ aiolist = Busy

(* No two buffers work on the same block, and no block is skipped: each    *)
(* block before off is in a buffer or in the output, never both.           *)
EachBlockOnce ==
  /\ \A s, t \in Busy : s # t => offset[s] # offset[t]
  /\ pc # "failed" => \A b \in Blocks :
       \/ b * BSZ >= off /\ output[b] = Hole
       \/ output[b] # Hole
       \/ \E s \in Busy : Block(offset[s]) = b

(* The state is well typed, the operations are counted, each block is read *)
(* and written once.                                                       *)
Inv == TypeOK /\ OperationsCounted /\ EachBlockOnce

(* The output is that of RotCopy: complete and translated exactly once     *)
(* when the program exits with status 0.                                   *)
CopiesRotated == R!Spec

Ended == pc \in {"exited", "failed"}
=============================================================================
