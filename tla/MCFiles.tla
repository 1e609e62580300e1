------------------------------- MODULE MCFiles -------------------------------
(***************************************************************************)
(* The programs that go through files, for TLC: the file tree walk, rot13  *)
(* (asynchronous, then synchronous on the same file), the copy of a file   *)
(* with holes, the plain copies, and 3.9, which writes to its input.  Init *)
(* chooses one; the variables of the others stay as they are.              *)
(***************************************************************************)
EXTENDS Ftw

CONSTANTS NBUF, BSZ, RotFiles, BUF_SIZE, Bytes, MaxSize, MaxBlocks, BUFFSIZE
VARIABLES
  task,
  input, pc, i, off, numop, aiolist, op, last, offset, nbytes, data, request, result,
  output, spc, pos, buf, copy, readFailed,
  file1, at2, file2, p6, cnt, j, f, l, all_cnt, ioerror,
  tool, tpc, st_size, fsz, held, copied, full, silent,
  stdin, ipc, content, length, position, chunk, nread, echoed, original
aiovars == <<input, pc, i, off, numop, aiolist, op, last, offset, nbytes, data,
             request, result, output>>
syncvars == <<spc, pos, buf, copy, readFailed>>
holevars == <<file1, at2, file2, p6, cnt, j, f, l, all_cnt, ioerror>>
plainvars == <<tool, tpc, st_size, fsz, held, copied, full, silent>>
stdinvars == <<stdin, ipc, content, length, position, chunk, nread, echoed, original>>

(* The tree: three levels of directories, one more than can be open, and   *)
(* three files.  Name 3 is shorter than the others.                        *)
MCFilesOfTree == {<<0>>, <<0, 1>>, <<0, 2>>, <<0, 1, 1>>, <<0, 1, 3>>, <<0, 1, 1, 1>>,
                  <<0, 2, 1>>}
MCDirs == {<<0>>, <<0, 1>>, <<0, 2>>, <<0, 1, 1>>}
MCRoot == <<0>>
MCLength(name) == IF name = 3 THEN 1 ELSE 2

(* Files of no block, a partial block, full blocks and more blocks than    *)
(* buffers.                                                                *)
Contents == <<97, 90, 33, 110>>
File(size) ==
  [st_size |-> size,
   block |-> [b \in 0 .. (size + BSZ - 1) \div BSZ - 1 |-> Contents[b + 1]]]
MCRotFiles == {File(size) : size \in {0, 1, 2, 5, 8}}
InSequence(file) == [k \in 1 .. Cardinality(DOMAIN file.block) |-> file.block[k - 1]]

A == INSTANCE AioRot WITH Inputs <- RotFiles
S == INSTANCE SyncRot WITH
       Inputs <- {InSequence(file) : file \in RotFiles}, input <- InSequence(input),
       pc <- spc, output <- copy
H == INSTANCE HoleCopy WITH i <- j
C == INSTANCE PlainCopy
I == INSTANCE StdinCopy

ASSUME CopyBounds == A!Bounds /\ H!Bounds /\ C!Bounds /\ I!Bounds

(* translate is its own inverse, on every byte. *)
ASSUME TranslateInvolution == \A c \in A!R!Byte : A!R!translate(A!R!translate(c)) = c

MCInit ==
  /\ task \in {"tree", "rot13", "holes", "plain", "stdin"}
  /\ Init
  /\ A!Init /\ S!Init /\ (task # "rot13" => input.st_size = 0)
  /\ H!Init /\ (task # "holes" => file1 = <<>>)
  /\ C!Init /\ (task # "plain" => tool = "1.5.3" /\ st_size = 0)
  /\ I!Init /\ (task # "stdin" => stdin = "input" /\ length = 0)

(* The synchronous rot13, on the input file of the asynchronous one. *)
Sync ==
  /\ task = "rot13" /\ A!Ended
  /\ UNCHANGED <<vars, aiovars, holevars, plainvars, stdinvars>>
  /\ S!Next

MCNext ==
  /\ \/ task = "tree" /\ Next /\ UNCHANGED <<aiovars, syncvars, holevars, plainvars, stdinvars>>
     \/ task = "rot13" /\ A!Next /\ UNCHANGED <<vars, syncvars, holevars, plainvars, stdinvars>>
     \/ Sync
     \/ task = "holes" /\ H!Next /\ UNCHANGED <<vars, aiovars, syncvars, plainvars, stdinvars>>
     \/ task = "plain" /\ C!Next /\ UNCHANGED <<vars, aiovars, syncvars, holevars, stdinvars>>
     \/ task = "stdin" /\ I!Next /\ UNCHANGED <<vars, aiovars, syncvars, holevars, plainvars>>
  /\ UNCHANGED task

(* The programs run, the kernel serves every asynchronous request, and *)
(* the reader of 14.2's pipe reads.                                        *)
MCFairness ==
  /\ WF_vars(task = "tree" /\ Next)
  /\ WF_aiovars(task = "rot13" /\ A!Main)
  /\ \A s \in A!Slots : WF_aiovars(task = "rot13" /\ A!Complete(s))
  /\ WF_syncvars(Sync)
  /\ WF_holevars(task = "holes" /\ H!Next)
  /\ WF_plainvars(task = "plain" /\ C!Copy) /\ WF_plainvars(task = "plain" /\ C!Drain)
  /\ WF_stdinvars(task = "stdin" /\ I!Next)

MCSpec ==
  /\ MCInit /\ [][MCNext]_<<task, vars, aiovars, syncvars, holevars, plainvars, stdinvars>>
  /\ MCFairness

(* Every block is read and written once and the requests are counted; a    *)
(* copy of a file of one run is right; status 0 of a plain copy stands for *)
(* a complete one, with the exceptions that PlainCopy names; and status 0  *)
(* of 3.9 stands for the loss that StdinCopy describes, unless descriptor  *)
(* 0 is a stream.                                                          *)
CopiesInv == A!Inv /\ H!Inv /\ C!Inv /\ I!Inv

(* The output of rot13 is complete and translated exactly once. *)
CopiesRotated == A!CopiesRotated

(* The synchronous program implements RotCopy too, provided that a read    *)
(* error, which it reports as success, counts as a failure.                *)
CopiesUnlessReadFails == S!CopiesUnlessReadFails

(* Every program ends: no aio_suspend waits for nothing, and the walk gets *)
(* back to its first directory.                                            *)
FilesEnd ==
  <>CASE task = "tree"  -> walk \in {"done", "failed"}
      [] task = "rot13" -> A!Ended /\ spc \in {"exited", "failed"}
      [] task = "holes" -> H!Ended
      [] task = "plain" -> C!Ended
      [] task = "stdin" -> I!Ended
=============================================================================
