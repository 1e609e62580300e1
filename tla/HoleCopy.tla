------------------------------ MODULE HoleCopy ------------------------------
(***************************************************************************)
(* chapter_04/p6.c: copies a file and means to leave its holes out: bytes  *)
(* that are 0 are sought over, runs of others are written.  The code       *)
(* writes one byte, the block's first, where a run ends, and takes every   *)
(* write at the end of a block for a failure.                              *)
(***************************************************************************)
EXTENDS Integers, Sequences

CONSTANTS
  BUF_SIZE,   \* 4096 in the code
  Bytes,      \* the bytes of a file, with 0
  MaxSize     \* bound: size of the file
Bounds == BUF_SIZE \in Nat \ {0} /\ MaxSize \in Nat

VARIABLES
  file1,     \* the first file: a sequence of bytes
  at2,       \* offset of fd2
  file2,     \* the second file
  p6,        \* next statement: "read", "for", "write", "exit_0", "exit_1"
  cnt, i,    \* bytes in buff, and the index of the loop over them
  f, l,      \* in a run (1) or not (0); where the last run began
  all_cnt,   \* bytes of the blocks before
  ioerror    \* history: open, read, lseek or write has failed

vars == <<file1, at2, file2, p6, cnt, i, f, l, all_cnt, ioerror>>

Init ==
  /\ file1 \in UNION {[1 .. n -> Bytes] : n \in 0 .. MaxSize}
  /\ at2 = 0 /\ file2 = <<>> /\ p6 = "read"
  /\ cnt = 0 /\ i = 0 /\ f = 0 /\ l = 0 /\ all_cnt = 0 /\ ioerror = FALSE

buff(k) == file1[all_cnt + k + 1]

(* s with b written at offset o: the gap is a hole, which reads as 0.      *)
Written(s, o, b) ==
  [k \in 1 .. IF Len(s) > o + Len(b) THEN Len(s) ELSE o + Len(b) |->
     IF k > o /\ k <= o + Len(b) THEN b[k - o] ELSE IF k <= Len(s) THEN s[k] ELSE 0]

(* Every call may fail and then ends the program.  (A read that fails      *)
(* returns -1, which is true, and write is called for -1 bytes.)           *)
Fails ==
  /\ p6 \in {"read", "for", "write"}
  /\ p6' = "exit_1" /\ ioerror' = TRUE
  /\ UNCHANGED <<file1, at2, file2, cnt, i, f, l, all_cnt>>

Read ==
  /\ p6 = "read"
  /\ cnt' = IF Len(file1) - all_cnt < BUF_SIZE THEN Len(file1) - all_cnt ELSE BUF_SIZE
  /\ p6' = IF cnt' = 0 THEN "exit_0" ELSE "for"
  /\ f' = 0 /\ l' = 0 /\ i' = 0
  /\ UNCHANGED <<file1, at2, file2, all_cnt, ioerror>>

(* One byte of the block: a run begins, ends, or neither. *)
For ==
  /\ p6 = "for"
  /\ \/ /\ f = 0 /\ buff(i) # 0
        /\ l' = i /\ f' = 1 /\ at2' = all_cnt + i /\ UNCHANGED file2
     \/ /\ f # 0 /\ buff(i) = 0
        /\ file2' = Written(file2, at2, <<buff(0)>>) /\ at2' = at2 + 1
        /\ f' = 0 /\ UNCHANGED l
     \/ (f = 0) = (buff(i) = 0) /\ UNCHANGED <<f, l, at2, file2>>
  /\ i' = i + 1
  /\ p6' = IF i' = cnt THEN "write" ELSE "for"
  /\ UNCHANGED <<file1, cnt, all_cnt, ioerror>>

(* write(fd2, buff + l, cnt - l): not 0, hence the message of a failure.   *)
Write ==
  /\ p6 = "write" /\ p6' = "exit_1"
  /\ file2' = Written(file2, at2, [k \in 1 .. cnt - l |-> buff(l + k - 1)])
  /\ at2' = at2 + cnt - l
  /\ UNCHANGED <<file1, cnt, i, f, l, all_cnt, ioerror>>

Next == Read \/ For \/ Write \/ Fails

Spec == Init /\ [][Next]_vars

-----------------------------------------------------------------------------
Ended == p6 \in {"exit_0", "exit_1"}

(* What it does: a file of any bytes ends it, with status 1, in its first  *)
(* block; only an empty one is a success.                                  *)
FirstBlockOnly ==
  /\ all_cnt = 0
  /\ p6 = "exit_0" => Len(file1) = 0

(* Only a block that is one run to its end is copied as it is, a hole      *)
(* before it included.                                                     *)
OneRun(s) == \A k \in 1 .. Len(s) - 1 : s[k] # 0 => s[k + 1] # 0
CopiesOneRun ==
  Ended /\ ~ioerror /\ OneRun(SubSeq(file1, 1, cnt)) => file2 = SubSeq(file1, 1, cnt)

(* The state is well typed; the first block decides, and one run is right. *)
Inv ==
  /\ f \in {0, 1} /\ i \in 0 .. cnt /\ l \in 0 .. i /\ cnt <= BUF_SIZE
  /\ FirstBlockOnly /\ CopiesOneRun

(* p6.c:48, in English: all that has not been copied is copied.  When the  *)
(* program ends and no call has failed, the files are the same.            *)
CopiesAll == Ended /\ ~ioerror => file2 = file1
=============================================================================
