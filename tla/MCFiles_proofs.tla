--------------------------- MODULE MCFiles_proofs ---------------------------
(***************************************************************************)
(* The programs that go through files.  4.22, for every tree, length of    *)
(* names, buffer and limit of open directories: no copy overflows the path *)
(* buffer, and the walk counts each file once or tells why not.  The two   *)
(* rot13 programs, for any number and size of buffers and any files: they  *)
(* implement RotCopy.  The copies, for any files and buffers.              *)
(***************************************************************************)
EXTENDS MCFiles, SequenceTheorems, FiniteSetTheorems, TLAPS

(* Paths are sequences; AtOrUnder is a partial order on them, in which     *)
(* those above one path are a chain.                                       *)
LEMMA Prefix ==
  ASSUME NEW file \in Seq(Names), NEW k \in 0 .. Len(file)
  PROVE  /\ SubSeq(file, 1, k) \in Seq(Names)
         /\ Len(SubSeq(file, 1, k)) = k
         /\ \A m \in 1 .. k : SubSeq(file, 1, k)[m] = file[m]
<1>1. \A m \in 1 .. k : file[m] \in Names
  BY ElementOfSeq, LenProperties
<1> QED BY <1>1, SubSeqProperties, LenProperties

LEMMA ElementByElement ==
  ASSUME NEW file \in Seq(Names), NEW g \in Seq(Names)
  PROVE  AtOrUnder(file, g) <=> Len(g) <= Len(file) /\ \A m \in 1 .. Len(g) : file[m] = g[m]
<1>1. Len(file) \in Nat /\ Len(g) \in Nat
  BY LenProperties
<1> SUFFICES ASSUME Len(g) <= Len(file)
             PROVE  SubSeq(file, 1, Len(g)) = g <=> \A m \in 1 .. Len(g) : file[m] = g[m]
  BY DEF AtOrUnder
<1>2. /\ SubSeq(file, 1, Len(g)) \in Seq(Names) /\ Len(SubSeq(file, 1, Len(g))) = Len(g)
      /\ \A m \in 1 .. Len(g) : SubSeq(file, 1, Len(g))[m] = file[m]
  BY <1>1, Prefix
<1>3. (\A m \in 1 .. Len(g) : file[m] = g[m]) => SubSeq(file, 1, Len(g)) = g
  BY <1>2, SeqEqual
<1> QED BY <1>2, <1>3

LEMMA Reflexive ==
  ASSUME NEW file \in Seq(Names)
  PROVE  AtOrUnder(file, file)
BY ElementByElement, LenProperties

LEMMA Transitive ==
  ASSUME NEW file \in Seq(Names), NEW g \in Seq(Names), NEW h \in Seq(Names),
         AtOrUnder(file, g), AtOrUnder(g, h)
  PROVE  AtOrUnder(file, h)
<1>1. Len(file) \in Nat /\ Len(g) \in Nat /\ Len(h) \in Nat
  BY LenProperties
<1>2. /\ Len(g) <= Len(file) /\ \A m \in 1 .. Len(g) : file[m] = g[m]
      /\ Len(h) <= Len(g) /\ \A m \in 1 .. Len(h) : g[m] = h[m]
  BY ElementByElement
<1>3. Len(h) <= Len(file) /\ \A m \in 1 .. Len(h) : file[m] = h[m]
  BY <1>1, <1>2
<1> QED BY <1>3, ElementByElement

LEMMA Chain ==
  ASSUME NEW file \in Seq(Names), NEW g \in Seq(Names), NEW h \in Seq(Names),
         AtOrUnder(file, g), AtOrUnder(file, h), Len(h) <= Len(g)
  PROVE  AtOrUnder(g, h)
<1>1. Len(file) \in Nat /\ Len(g) \in Nat /\ Len(h) \in Nat
  BY LenProperties
<1>2. /\ Len(g) <= Len(file) /\ \A m \in 1 .. Len(g) : file[m] = g[m]
      /\ Len(h) <= Len(file) /\ \A m \in 1 .. Len(h) : file[m] = h[m]
  BY ElementByElement
<1>3. \A m \in 1 .. Len(h) : g[m] = h[m]
  BY <1>1, <1>2
<1> QED BY <1>3, ElementByElement

LEMMA SameLength ==
  ASSUME NEW file, NEW g, NEW h, AtOrUnder(file, g), AtOrUnder(file, h), Len(g) = Len(h)
  PROVE  g = h
BY DEF AtOrUnder

(* The tree. *)
LEMMA Paths == \A file \in Files : file \in Seq(Names) /\ Len(file) \in Nat \ {0}
BY TreeAssumption, EmptySeq

LEMMA AllUnderRoot == \A file \in Files : AtOrUnder(file, Root)
BY Paths, TreeAssumption DEF AtOrUnder

(* A child lies directly under its directory, and its path is made of the  *)
(* directory's and its own name, which is not too long.                    *)
LEMMA Child ==
  ASSUME NEW d \in Files, NEW file \in Children(d)
  PROVE  /\ file \in Files /\ AtOrUnder(file, d) /\ Len(file) = Len(d) + 1
         /\ Append(d, file[Len(file)]) = file
         /\ Length(file[Len(file)]) \in Nat /\ Length(file[Len(file)]) <= NAME_MAX
<1>1. file \in Files /\ Len(file) = Len(d) + 1 /\ SubSeq(file, 1, Len(d)) = d
  BY DEF Children
<1>2. d \in Seq(Names) /\ file \in Seq(Names) /\ Len(d) \in Nat \ {0} /\ Len(file) \in Nat
  BY <1>1, Paths
<1>3. AtOrUnder(file, d)
  BY <1>1, <1>2 DEF AtOrUnder
<1>4. file[Len(file)] \in Names
  BY <1>1, <1>2, ElementOfSeq
<1>5. /\ Append(d, file[Len(file)]) \in Seq(Names)
      /\ Len(Append(d, file[Len(file)])) = Len(file)
      /\ Append(d, file[Len(file)])[Len(file)] = file[Len(file)]
      /\ \A m \in 1 .. Len(d) : Append(d, file[Len(file)])[m] = d[m]
  BY <1>1, <1>2, <1>4, AppendProperties
<1>6. \A m \in 1 .. Len(d) : file[m] = d[m]
  BY <1>2, <1>3, ElementByElement
<1>7. \A m \in 1 .. Len(file) : Append(d, file[Len(file)])[m] = file[m]
  BY <1>1, <1>2, <1>5, <1>6
<1>8. Append(d, file[Len(file)]) = file
  BY <1>2, <1>5, <1>7, SeqEqual
<1>9. file # Root
  BY <1>1, <1>2, TreeAssumption
<1> QED BY <1>1, <1>3, <1>8, <1>9, LengthAssumption, NamesAssumption

(* What lies under a file lies at or under one of its children, and so the *)
(* file is a directory.                                                    *)
LEMMA Descend ==
  ASSUME NEW file \in Files, NEW d \in Files, Under(file, d)
  PROVE  d \in Dirs /\ \E c \in Children(d) : AtOrUnder(file, c)
<1>1. /\ file \in Seq(Names) /\ d \in Seq(Names)
      /\ Len(file) \in Nat \ {0} /\ Len(d) \in Nat \ {0}
      /\ Len(d) <= Len(file) /\ SubSeq(file, 1, Len(d)) = d /\ file # d
  BY Paths DEF Under, AtOrUnder
<1>2. Len(d) < Len(file)
  BY <1>1, SubSeqFull
<1>3. d \in Dirs
  <2>1. Len(d) \in 1 .. Len(file) - 1
    BY <1>1, <1>2
  <2>2. SubSeq(file, 1, Len(d)) \in Dirs
    BY <2>1, TreeAssumption
  <2> QED BY <1>1, <2>2
<1> DEFINE c == SubSeq(file, 1, Len(d) + 1)
<1>4. c \in Files
  <2>1. CASE Len(d) + 1 = Len(file)
    BY <1>1, <2>1, SubSeqFull
  <2>2. CASE Len(d) + 1 < Len(file)
    BY <1>1, <2>2, TreeAssumption
  <2> QED BY <1>1, <1>2, <2>1, <2>2
<1>5. c \in Seq(Names) /\ Len(c) = Len(d) + 1
  BY <1>1, <1>2, Prefix
<1>6. AtOrUnder(file, c)
  BY <1>1, <1>2, <1>5 DEF AtOrUnder
<1> HIDE DEF c
<1>7. AtOrUnder(c, d)
  <2>1. AtOrUnder(file, d)
    BY <1>1 DEF AtOrUnder
  <2> QED BY <1>1, <1>5, <1>6, <2>1, Chain
<1>8. c \in Children(d)
  BY <1>4, <1>5, <1>7 DEF Children, AtOrUnder
<1> QED BY <1>3, <1>6, <1>8

-----------------------------------------------------------------------------
(* The directories being read, before and after each action that changes   *)
(* them.                                                                   *)
LEMMA Reading ==
  ASSUME TypeOK
  PROVE  /\ Len(dps) \in Nat /\ DOMAIN dps = 1 .. Len(dps)
         /\ \A k \in DOMAIN dps : /\ dps[k] \in Frames /\ dps[k].dir \in Dirs
                                  /\ dps[k].dir \in Files /\ dps[k].left \subseteq Files
                                  /\ dps[k].n \in Nat \ {0}
<1>1. dps \in Seq(Frames)
  BY DEF TypeOK
<1>2. Len(dps) \in Nat /\ DOMAIN dps = 1 .. Len(dps)
  BY <1>1, LenProperties
<1>3. \A k \in DOMAIN dps : dps[k] \in Frames
  BY <1>1, <1>2, ElementOfSeq
<1> QED BY <1>2, <1>3, TreeAssumption DEF Frames

LEMMA Opened ==
  ASSUME TypeOK, NEW d \in Dirs, NEW n \in Nat \ {0}, NEW left \in SUBSET Files,
         dps' = Append(dps, [dir |-> d, n |-> n, left |-> left])
  PROVE  /\ dps' \in Seq(Frames) /\ Len(dps') = Len(dps) + 1
         /\ DOMAIN dps' = 1 .. Len(dps) + 1
         /\ \A k \in DOMAIN dps : dps'[k] = dps[k]
         /\ dps'[Len(dps) + 1].dir = d /\ dps'[Len(dps) + 1].n = n
         /\ dps'[Len(dps) + 1].left = left
<1>1. dps \in Seq(Frames) /\ [dir |-> d, n |-> n, left |-> left] \in Frames
  BY DEF TypeOK, Frames
<1>2. /\ dps' \in Seq(Frames) /\ Len(dps') = Len(dps) + 1
      /\ \A k \in 1 .. Len(dps) : dps'[k] = dps[k]
      /\ dps'[Len(dps) + 1] = [dir |-> d, n |-> n, left |-> left]
  BY <1>1, AppendProperties
<1>3. DOMAIN dps' = 1 .. Len(dps')
  BY <1>2, LenProperties
<1> QED BY <1>2, <1>3, Reading

LEMMA EntryRead ==
  ASSUME TypeOK, Ancestors, Readdir
  PROVE  /\ Len(dps) \in DOMAIN dps /\ dps' \in Seq(Frames)
         /\ Len(dps') = Len(dps) /\ DOMAIN dps' = DOMAIN dps
         /\ \A k \in DOMAIN dps : dps'[k].dir = dps[k].dir /\ dps'[k].n = dps[k].n
         /\ fullpath' \in dps[Len(dps)].left /\ fullpath' \in Children(dps[Len(dps)].dir)
         /\ strlen' = dps[Len(dps)].n + Length(fullpath'[Len(fullpath')])
         /\ \A k \in DOMAIN dps : dps'[k].left = IF k = Len(dps)
                                                   THEN dps[k].left \ {fullpath'}
                                                   ELSE dps[k].left
<1> DEFINE L == Len(dps)
<1>1. L \in Nat \ {0} /\ L \in DOMAIN dps /\ DOMAIN dps = 1 .. L /\ dps \in Seq(Frames)
  BY Reading DEF Ancestors, Readdir, TypeOK
<1>2. PICK file \in dps[L].left :
        /\ dps' = [dps EXCEPT ![L].left = @ \ {file}]
        /\ fullpath' = Append(dps[L].dir, file[Len(file)])
        /\ strlen' = dps[L].n + Length(file[Len(file)])
  BY DEF Readdir
<1>3. /\ dps[L] \in Frames /\ dps[L].dir \in Files /\ file \in Children(dps[L].dir)
      /\ dps[L].left \subseteq Files
  BY <1>1, Reading DEF Ancestors
<1>4. fullpath' = file
  BY <1>2, <1>3, Child
<1> DEFINE e == [dps[L] EXCEPT !.left = @ \ {file}]
<1>5. dps' = [dps EXCEPT ![L] = e]
  BY <1>2
<1>6. /\ e \in Frames /\ e.dir = dps[L].dir /\ e.n = dps[L].n
      /\ e.left = dps[L].left \ {file}
  BY <1>3 DEF Frames
<1> HIDE DEF e
<1>7. /\ dps' \in Seq(Frames) /\ Len(dps') = L
      /\ \A k \in 1 .. L : dps'[k] = IF k = L THEN e ELSE dps[k]
  BY <1>1, <1>5, <1>6, ExceptSeq
<1>8. DOMAIN dps' = 1 .. L
  BY <1>7, LenProperties
<1> QED BY <1>1, <1>2, <1>3, <1>4, <1>6, <1>7, <1>8

LEMMA Closed ==
  ASSUME TypeOK, Ancestors, Closedir
  PROVE  /\ Len(dps) \in DOMAIN dps /\ dps' \in Seq(Frames)
         /\ Len(dps') = Len(dps) - 1 /\ DOMAIN dps' = 1 .. Len(dps) - 1
         /\ \A k \in DOMAIN dps' : k \in DOMAIN dps /\ dps'[k] = dps[k]
<1>1. /\ Len(dps) \in Nat \ {0} /\ Len(dps) \in DOMAIN dps /\ DOMAIN dps = 1 .. Len(dps)
      /\ dps \in Seq(Frames) /\ dps' = SubSeq(dps, 1, Len(dps) - 1)
  BY Reading DEF Ancestors, Closedir, TypeOK
<1>2. \A k \in 1 .. Len(dps) - 1 : dps[k] \in Frames
  BY <1>1, Reading
<1>3. /\ dps' \in Seq(Frames) /\ Len(dps') = Len(dps) - 1
      /\ \A k \in 1 .. Len(dps) - 1 : dps'[k] = dps[k]
  BY <1>1, <1>2, SubSeqProperties
<1>4. DOMAIN dps' = 1 .. Len(dps')
  BY <1>3, LenProperties
<1> QED BY <1>1, <1>3, <1>4

-----------------------------------------------------------------------------
(* The buffer. *)
LEMMA TypeStep ==
  ASSUME TypeOK, Fits, Ancestors, [Next]_vars
  PROVE  TypeOK'
<1> USE SizesAssumption
<1>1. CASE myftw
  <2>1. Root \in Files /\ Root \in Seq(Names) /\ Length(Root[Len(Root)]) \in Nat
    BY TreeAssumption, LengthAssumption
  <2> QED BY <1>1, <2>1 DEF TypeOK, myftw
<1>2. CASE Lstat
  <2>1. /\ fullpath \in Files /\ walk' \in {"done", "readdir", "opendir"}
        /\ UNCHANGED <<fullpath, strlen, pathlen, dps>>
    BY <1>2 DEF Lstat, Return, Ancestors
  <2>2. counted' \in [Files -> Nat] /\ skipped' \subseteq Files
    BY <1>2, <2>1 DEF Lstat, TypeOK
  <2> QED BY <2>1, <2>2 DEF TypeOK
<1>3. CASE Opendir
  <2>1. /\ fullpath \in Dirs /\ fullpath \in Files /\ strlen \in Nat /\ pathlen \in Nat
        /\ Children(fullpath) \subseteq Files
    BY <1>3, TreeAssumption DEF Opendir, Ancestors, TypeOK, Children
  <2>2. /\ walk' \in {"done", "readdir", "failed"} /\ strlen' \in Nat /\ pathlen' \in Nat
        /\ skipped' \subseteq Files /\ UNCHANGED <<fullpath, counted>>
    BY <1>3, <2>1 DEF Opendir, Return, Grown, TypeOK
  <2>3. dps' \in Seq(Frames)
    <3>1. CASE UNCHANGED dps
      BY <3>1 DEF TypeOK
    <3>2. CASE dps' = Append(dps, [dir |-> fullpath, n |-> strlen + 1,
                                   left |-> Children(fullpath)])
      <4>1. strlen + 1 \in Nat \ {0} /\ Children(fullpath) \in SUBSET Files
        BY <2>1
      <4> QED BY <2>1, <3>2, <4>1, Opened
    <3> QED BY <1>3, <3>1, <3>2 DEF Opendir
  <2> QED BY <2>2, <2>3 DEF TypeOK
<1>4. CASE Readdir
  <2>1. /\ dps' \in Seq(Frames) /\ dps[Len(dps)].dir \in Files
        /\ fullpath' \in Children(dps[Len(dps)].dir)
        /\ strlen' = dps[Len(dps)].n + Length(fullpath'[Len(fullpath')])
        /\ dps[Len(dps)].n \in Nat
    BY <1>4, EntryRead, Reading
  <2>2. fullpath' \in Seq(Names) /\ Length(fullpath'[Len(fullpath')]) \in Nat
    BY <2>1, Child, Paths
  <2> QED BY SMTT(30), <1>4, <2>1, <2>2 DEF Readdir, TypeOK
<1>5. CASE Closedir
  <2>1. /\ dps' \in Seq(Frames) /\ dps[Len(dps)].dir \in Files
        /\ dps[Len(dps)].n \in Nat \ {0}
    BY <1>5, Closed, Reading
  <2>2. fullpath' \in Seq(Names) /\ strlen' \in Nat /\ walk' \in {"done", "readdir"}
    BY <1>5, <2>1, Paths DEF Closedir
  <2> QED BY <1>5, <2>1, <2>2 DEF Closedir, TypeOK
<1>6. CASE UNCHANGED vars
  BY <1>6 DEF vars, TypeOK
<1> QED BY <1>1, <1>2, <1>3, <1>4, <1>5, <1>6 DEF Next

(* When the buffer grows, the old one held the path, and its size is above *)
(* NAME_MAX: twice that size has room for both.                            *)
LEMMA FitsStep ==
  ASSUME TypeOK, Fits, Ancestors, [Next]_vars
  PROVE  Fits'
<1> USE SizesAssumption
<1>0. /\ strlen \in Nat /\ pathlen \in Nat
      /\ \A k \in DOMAIN dps : dps[k].n \in Nat \ {0}
  BY Reading DEF TypeOK
<1>1. CASE myftw
  <2>1. Length(Root[Len(Root)]) \in Nat /\ dps = <<>>
    BY <1>1, TreeAssumption, LengthAssumption DEF myftw, Ancestors
  <2> QED BY <1>0, <1>1, <2>1 DEF Fits, myftw
<1>2. CASE Lstat
  BY <1>2 DEF Fits, Lstat
<1>3. CASE Opendir
  <2>1. strlen < pathlen /\ NAME_MAX < pathlen /\ walk = "opendir"
    BY <1>3 DEF Opendir, Fits
  <2>2. strlen + 1 + NAME_MAX < pathlen' /\ pathlen' >= pathlen /\ pathlen' \in Nat
    BY <1>0, <1>3, <2>1 DEF Opendir, Grown
  <2>3. strlen' < pathlen'
    BY <1>0, <1>3, <2>1, <2>2 DEF Opendir
  <2>4. \A k \in DOMAIN dps' : dps'[k].n + NAME_MAX < pathlen'
    <3>1. \A k \in DOMAIN dps : dps[k].n + NAME_MAX < pathlen'
      BY <1>0, <2>2 DEF Fits
    <3>2. CASE UNCHANGED dps
      BY <3>1, <3>2
    <3>3. CASE dps' = Append(dps, [dir |-> fullpath, n |-> strlen + 1,
                                   left |-> Children(fullpath)])
      <4>1. /\ fullpath \in Dirs /\ strlen + 1 \in Nat \ {0}
            /\ Children(fullpath) \in SUBSET Files
        BY <1>0, <1>3 DEF Opendir, Ancestors, Children
      <4>2. /\ DOMAIN dps' = 1 .. Len(dps) + 1 /\ \A k \in DOMAIN dps : dps'[k] = dps[k]
            /\ dps'[Len(dps) + 1].n = strlen + 1
        BY <3>3, <4>1, Opened
      <4> QED BY <2>2, <3>1, <4>2, Reading
    <3> QED BY <1>3, <3>2, <3>3 DEF Opendir
  <2> QED BY <1>0, <2>1, <2>2, <2>3, <2>4 DEF Fits
<1>4. CASE Readdir
  <2>1. /\ Len(dps) \in DOMAIN dps /\ DOMAIN dps' = DOMAIN dps
        /\ \A k \in DOMAIN dps : dps'[k].n = dps[k].n
        /\ fullpath' \in Children(dps[Len(dps)].dir)
        /\ strlen' = dps[Len(dps)].n + Length(fullpath'[Len(fullpath')])
    BY <1>4, EntryRead
  <2>2. /\ Length(fullpath'[Len(fullpath')]) \in Nat
        /\ Length(fullpath'[Len(fullpath')]) <= NAME_MAX
    BY <2>1, Child, Reading
  <2>3. dps[Len(dps)].n + NAME_MAX < pathlen /\ UNCHANGED pathlen
    BY <1>4, <2>1 DEF Fits, Readdir
  <2>4. strlen' < pathlen'
    BY <1>0, <2>1, <2>2, <2>3
  <2> QED BY <2>1, <2>3, <2>4 DEF Fits
<1>5. CASE Closedir
  <2>1. /\ Len(dps) \in DOMAIN dps
        /\ \A k \in DOMAIN dps' : k \in DOMAIN dps /\ dps'[k] = dps[k]
    BY <1>5, Closed
  <2>2. strlen' = dps[Len(dps)].n - 1 /\ UNCHANGED pathlen
    BY <1>5 DEF Closedir
  <2>3. strlen' < pathlen'
    BY <1>0, <2>1, <2>2 DEF Fits
  <2> QED BY <2>1, <2>2, <2>3 DEF Fits
<1>6. CASE UNCHANGED vars
  BY <1>6 DEF vars, Fits
<1> QED BY <1>1, <1>2, <1>3, <1>4, <1>5, <1>6 DEF Next

-----------------------------------------------------------------------------
(* The open directories. *)
LEMMA AncestorsStep ==
  ASSUME TypeOK, Ancestors, [Next]_vars
  PROVE  Ancestors'
<1> DEFINE L == Len(dps)
<1>0. /\ L \in Nat /\ DOMAIN dps = 1 .. L /\ L <= OPEN_MAX
      /\ \A k \in DOMAIN dps : /\ dps[k].dir \in Files /\ dps[k].dir \in Dirs
                               /\ Len(dps[k].dir) = k /\ AtOrUnder(fullpath, dps[k].dir)
                               /\ dps[k].left \subseteq Children(dps[k].dir)
  BY Reading DEF Ancestors
<1>1. CASE myftw
  <2>1. dps = <<>> /\ fullpath' = Root /\ walk' \in {"lstat", "failed"} /\ dps' = dps
    BY <1>1 DEF myftw, Ancestors
  <2> QED BY <1>0, <2>1, TreeAssumption DEF Ancestors
<1>2. CASE Lstat
  <2>1. /\ UNCHANGED <<fullpath, dps>> /\ walk' \in {"done", "readdir", "opendir"}
        /\ walk' = "opendir" => fullpath \in Dirs
        /\ walk' = "done" => dps = <<>>
        /\ walk' = "readdir" => dps # <<>>
    BY <1>2 DEF Lstat, Return
  <2>2. dps # <<>> => L > 0
    BY <1>0, EmptySeq DEF TypeOK
  <2>3. fullpath \in Files /\ Len(fullpath) = L + 1
    BY <1>2 DEF Lstat, Ancestors
  <2> QED BY <1>0, <2>1, <2>2, <2>3 DEF Ancestors
<1>3. CASE Opendir
  <2>1. /\ fullpath \in Dirs /\ fullpath \in Files /\ Len(fullpath) = L + 1
        /\ strlen + 1 \in Nat \ {0} /\ Children(fullpath) \in SUBSET Files
        /\ fullpath' = fullpath
    BY <1>3 DEF Opendir, Ancestors, TypeOK, Children
  <2>2. CASE /\ dps' = Append(dps, [dir |-> fullpath, n |-> strlen + 1,
                                    left |-> Children(fullpath)])
             /\ L < OPEN_MAX /\ walk' = "readdir"
    <3>1. /\ Len(dps') = L + 1 /\ DOMAIN dps' = 1 .. L + 1
          /\ \A k \in DOMAIN dps : dps'[k] = dps[k]
          /\ dps'[L + 1].dir = fullpath /\ dps'[L + 1].left = Children(fullpath)
      BY <2>1, <2>2, Opened
    <3>2. AtOrUnder(fullpath, fullpath)
      BY <2>1, Reflexive, Paths
    <3>3. \A k \in DOMAIN dps' : /\ Len(dps'[k].dir) = k
                                 /\ AtOrUnder(fullpath', dps'[k].dir)
                                 /\ dps'[k].left \subseteq Children(dps'[k].dir)
      <4> SUFFICES ASSUME NEW k \in DOMAIN dps'
                   PROVE  /\ Len(dps'[k].dir) = k
                          /\ AtOrUnder(fullpath', dps'[k].dir)
                          /\ dps'[k].left \subseteq Children(dps'[k].dir)
        OBVIOUS
      <4>1. CASE k = L + 1
        BY <2>1, <3>1, <3>2, <4>1
      <4>2. CASE k \in DOMAIN dps
        BY <1>0, <2>1, <3>1, <4>2
      <4> QED BY <1>0, <3>1, <4>1, <4>2
    <3>4. L + 1 <= OPEN_MAX
      BY <1>0, <2>2, SizesAssumption
    <3> QED BY <1>0, <2>2, <3>1, <3>3, <3>4 DEF Ancestors
  <2>3. CASE UNCHANGED dps /\ (Return \/ walk' = "failed")
    <3>1. /\ walk' \in {"done", "readdir", "failed"}
          /\ walk' = "done" => dps = <<>>
          /\ walk' = "readdir" => dps # <<>>
      BY <2>3 DEF Return
    <3>2. dps # <<>> => L > 0
      BY <1>0, EmptySeq DEF TypeOK
    <3> QED BY <1>0, <2>1, <2>3, <3>1, <3>2 DEF Ancestors
  <2> QED BY <1>3, <2>2, <2>3 DEF Opendir
<1>4. CASE Readdir
  <2>1. /\ L \in DOMAIN dps /\ Len(dps') = L /\ DOMAIN dps' = DOMAIN dps
        /\ \A k \in DOMAIN dps : dps'[k].dir = dps[k].dir
        /\ fullpath' \in Children(dps[L].dir)
        /\ \A k \in DOMAIN dps : dps'[k].left = IF k = L THEN dps[k].left \ {fullpath'}
                                                         ELSE dps[k].left
    BY <1>4, EntryRead
  <2>2. fullpath' \in Files /\ AtOrUnder(fullpath', dps[L].dir) /\ Len(fullpath') = L + 1
    BY <1>0, <2>1, Child
  <2>3. \A k \in DOMAIN dps : AtOrUnder(fullpath', dps[k].dir)
    <3> SUFFICES ASSUME NEW k \in DOMAIN dps PROVE AtOrUnder(fullpath', dps[k].dir)
      OBVIOUS
    <3>1. AtOrUnder(fullpath, dps[L].dir) /\ AtOrUnder(fullpath, dps[k].dir)
      BY <1>0, <2>1
    <3>2. dps[L].dir \in Seq(Names) /\ dps[k].dir \in Seq(Names) /\ fullpath \in Seq(Names)
      BY <1>0, <2>1, Paths DEF TypeOK
    <3>3. Len(dps[k].dir) <= Len(dps[L].dir)
      BY <1>0, <2>1
    <3>4. AtOrUnder(dps[L].dir, dps[k].dir)
      BY <3>1, <3>2, <3>3, Chain
    <3> QED BY <2>2, <3>2, <3>4, Paths, Transitive
  <2>4. \A k \in DOMAIN dps : fullpath' \notin dps'[k].left
    <3> SUFFICES ASSUME NEW k \in DOMAIN dps, fullpath' \in dps'[k].left PROVE FALSE
      OBVIOUS
    <3>1. k # L /\ fullpath' \in Children(dps[k].dir)
      BY <1>0, <2>1
    <3>2. Len(fullpath') = k + 1
      BY <1>0, <3>1, Child
    <3> QED BY <1>0, <2>2, <3>1, <3>2
  <2>5. walk' = "lstat"
    BY <1>4 DEF Readdir
  <2> QED BY <1>0, <2>1, <2>2, <2>3, <2>4, <2>5 DEF Ancestors
<1>5. CASE Closedir
  <2>1. /\ L \in DOMAIN dps /\ Len(dps') = L - 1 /\ DOMAIN dps' = 1 .. L - 1
        /\ \A k \in DOMAIN dps' : k \in DOMAIN dps /\ dps'[k] = dps[k]
        /\ dps' \in Seq(Frames)
    BY <1>5, Closed
  <2>2. fullpath' = dps[L].dir /\ walk' = IF L = 1 THEN "done" ELSE "readdir"
    BY <1>5 DEF Closedir
  <2>3. \A k \in DOMAIN dps' : AtOrUnder(fullpath', dps[k].dir)
    <3> SUFFICES ASSUME NEW k \in DOMAIN dps' PROVE AtOrUnder(fullpath', dps[k].dir)
      OBVIOUS
    <3>1. /\ AtOrUnder(fullpath, dps[L].dir) /\ AtOrUnder(fullpath, dps[k].dir)
          /\ Len(dps[k].dir) <= Len(dps[L].dir)
      BY <1>0, <2>1
    <3>2. dps[L].dir \in Seq(Names) /\ dps[k].dir \in Seq(Names) /\ fullpath \in Seq(Names)
      BY <1>0, <2>1, Paths DEF TypeOK
    <3> QED BY <2>2, <3>1, <3>2, Chain
  <2>4. L = 1 => dps' = <<>>
    BY <2>1, EmptySeq
  <2> QED BY <1>0, <2>1, <2>2, <2>3, <2>4, SizesAssumption DEF Ancestors
<1>6. CASE UNCHANGED vars
  BY <1>6 DEF vars, Ancestors
<1> QED BY <1>1, <1>2, <1>3, <1>4, <1>5, <1>6 DEF Next

-----------------------------------------------------------------------------
(* Each file once. *)
LEMMA WaitingFiles ==
  ASSUME TypeOK, Ancestors
  PROVE  Left \subseteq Files /\ Waiting \subseteq Files
<1>1. Left \subseteq Files
  BY Reading DEF Left
<1>2. /\ Root \in Files /\ Children(fullpath) \subseteq Files
      /\ walk = "lstat" => fullpath \in Files
  BY TreeAssumption DEF Children, Ancestors
<1> QED BY <1>1, <1>2 DEF Waiting

(* Where nothing but the order of waiting changes, EachOnce stays.         *)
LEMMA SameWaiting ==
  ASSUME EachOnce, walk # "failed", Waiting' = Waiting,
         UNCHANGED <<counted, skipped>>, walk' # "opendir"
  PROVE  EachOnce'
BY DEF EachOnce, WaitingApart, IsWaiting, NotYet, Settled, Under

(* A file that is dropped from the waiting ones: what lies at or under it  *)
(* was waiting because of it alone.                                        *)
LEMMA OnlyBecauseOf ==
  ASSUME EachOnce, walk # "failed", Waiting \subseteq Files,
         NEW p \in Waiting, NEW file \in Files
  PROVE  /\ AtOrUnder(file, p) => /\ IsWaiting(file) /\ NotYet(file)
                                  /\ \A g \in Waiting : AtOrUnder(file, g) => g = p
         /\ ~AtOrUnder(file, p) =>
              (IsWaiting(file) <=> \E g \in Waiting \ {p} : AtOrUnder(file, g))
BY DEF EachOnce, WaitingApart, IsWaiting

LEMMA LstatStep ==
  ASSUME TypeOK, Ancestors, EachOnce, Lstat
  PROVE  EachOnce'
<1> DEFINE p == fullpath
<1>0. /\ walk = "lstat" /\ p \in Files /\ p \in Seq(Names) /\ p' = p /\ dps' = dps
      /\ counted \in [Files -> Nat]
  BY Paths DEF Lstat, Ancestors, TypeOK
<1>1. Waiting = Left \union {p} /\ p \notin Left /\ Waiting \subseteq Files
  <2>1. Waiting = Left \union {p}
    BY <1>0 DEF Waiting
  <2>2. p \notin Left
    BY <1>0 DEF Left, Ancestors
  <2> QED BY <2>1, <2>2, WaitingFiles
<1>2. AtOrUnder(p, p)
  BY <1>0, Reflexive
<1>3. ASSUME NEW file \in Files
      PROVE  /\ AtOrUnder(file, p) =>
                  NotYet(file) /\ (\A g \in Waiting : AtOrUnder(file, g) => g = p)
             /\ ~AtOrUnder(file, p) => (IsWaiting(file) <=> \E g \in Left : AtOrUnder(file, g))
             /\ IF IsWaiting(file) THEN NotYet(file) ELSE Settled(file)
  BY <1>0, <1>1, OnlyBecauseOf DEF EachOnce
<1>4. WaitingApart
  BY <1>0 DEF EachOnce
<1>5. Left' = Left
  BY <1>0 DEF Left
<1>6. CASE skipped' = skipped \union {p} /\ Return /\ UNCHANGED counted
  <2>1. walk' \in {"done", "readdir"} /\ Waiting' = Left
    BY <1>0, <1>5, <1>6 DEF Return, Waiting
  <2>2. WaitingApart'
    BY <1>1, <1>4, <2>1 DEF WaitingApart, AtOrUnder
  <2>3. ASSUME NEW file \in Files
        PROVE  (IF IsWaiting(file) THEN NotYet(file) ELSE Settled(file))'
    <3>1. CASE \E g \in Left : AtOrUnder(file, g)
      <4>1. ~AtOrUnder(file, p) /\ NotYet(file) /\ IsWaiting(file)'
        BY <1>1, <1>3, <2>1, <3>1 DEF IsWaiting, AtOrUnder
      <4> QED BY <1>6, <4>1 DEF NotYet, AtOrUnder
    <3>2. CASE ~(\E g \in Left : AtOrUnder(file, g))
      <4>1. ~IsWaiting(file)'
        BY <2>1, <3>2 DEF IsWaiting, AtOrUnder
      <4>2. CASE AtOrUnder(file, p)
        BY <1>3, <1>6, <4>1, <4>2 DEF NotYet, Settled, AtOrUnder
      <4>3. CASE ~AtOrUnder(file, p)
        <5>1. Settled(file)
          BY <1>3, <3>2, <4>3
        <5> QED BY <1>6, <4>1, <4>3, <5>1 DEF Settled, Under, AtOrUnder
      <4> QED BY <4>2, <4>3
    <3> QED BY <3>1, <3>2
  <2> QED BY <2>1, <2>2, <2>3 DEF EachOnce
<1>7. CASE /\ counted' = [counted EXCEPT ![p] = @ + 1] /\ UNCHANGED skipped
           /\ IF p \in Dirs THEN walk' = "opendir" ELSE Return
  <2> DEFINE below == IF p \in Dirs THEN Children(p) ELSE {}
  <2>1. walk' \in {"done", "readdir", "opendir"} /\ (walk' = "opendir" <=> p \in Dirs)
    BY <1>7 DEF Return
  <2>2. Waiting' = Left \union below
    BY <1>0, <1>5, <2>1 DEF Waiting
  <2>3. \A c \in below : c \in Files /\ AtOrUnder(c, p) /\ Len(c) = Len(p) + 1
    BY <1>0, Child
  <2>4. ASSUME NEW file \in Files, NEW c \in below, AtOrUnder(file, c)
        PROVE  AtOrUnder(file, p) /\ file # p
    <3>1. c \in Seq(Names) /\ file \in Seq(Names) /\ Len(p) \in Nat /\ Len(c) = Len(p) + 1
      BY <1>0, <2>3, Paths
    <3>2. AtOrUnder(file, p)
      BY <1>0, <2>3, <2>4, <3>1, Transitive
    <3>3. Len(c) <= Len(file)
      BY <2>4 DEF AtOrUnder
    <3> QED BY <3>1, <3>2, <3>3
  <2>5. WaitingApart'
    <3> SUFFICES ASSUME NEW file \in Files,
                        NEW g \in Left \union below, NEW h \in Left \union below,
                        AtOrUnder(file, g), AtOrUnder(file, h)
                 PROVE  g = h
      BY <2>2 DEF WaitingApart, AtOrUnder
    <3>1. CASE g \in Left /\ h \in Left
      BY <1>1, <1>4, <3>1 DEF WaitingApart
    <3>2. CASE g \in below /\ h \in below
      BY <2>3, <3>2, SameLength
    <3>3. CASE g \in Left /\ h \in below
      BY <1>1, <1>3, <2>4, <3>3
    <3>4. CASE g \in below /\ h \in Left
      BY <1>1, <1>3, <2>4, <3>4
    <3> QED BY <3>1, <3>2, <3>3, <3>4
  <2>6. /\ counted[p] = 0 /\ counted'[p] = 1
        /\ \A file \in Files \ {p} : counted'[file] = counted[file]
    BY <1>0, <1>2, <1>3, <1>7 DEF NotYet
  <2>7. ASSUME NEW file \in Files
        PROVE  (IF IsWaiting(file) THEN NotYet(file) ELSE Settled(file))'
    <3>1. CASE \E g \in Left : AtOrUnder(file, g)
      <4>1. ~AtOrUnder(file, p) /\ NotYet(file) /\ IsWaiting(file)'
        BY <1>1, <1>3, <2>2, <3>1 DEF IsWaiting, AtOrUnder
      <4>2. file # p
        BY <1>2, <4>1
      <4> QED BY <1>7, <2>6, <4>1, <4>2 DEF NotYet, AtOrUnder
    <3>2. CASE \E c \in below : AtOrUnder(file, c)
      <4>1. AtOrUnder(file, p) /\ file # p /\ IsWaiting(file)'
        BY <2>2, <2>4, <3>2 DEF IsWaiting, AtOrUnder
      <4>2. NotYet(file)
        BY <1>3, <4>1
      <4> QED BY <1>7, <2>6, <4>1, <4>2 DEF NotYet, AtOrUnder
    <3>3. CASE ~(\E g \in Left \union below : AtOrUnder(file, g))
      <4>1. ~IsWaiting(file)'
        BY <2>2, <3>3 DEF IsWaiting, AtOrUnder
      <4>2. CASE file = p
        <5>1. NotYet(file)
          BY <1>2, <1>3, <4>2
        <5> QED BY <1>7, <2>6, <4>1, <4>2, <5>1 DEF NotYet, Settled, Under, AtOrUnder
      <4>3. CASE file # p
        <5>1. ~AtOrUnder(file, p)
          BY <1>0, <3>3, <4>3, Descend DEF Under
        <5>2. Settled(file)
          BY <1>3, <3>3, <5>1
        <5> QED BY <1>7, <2>6, <4>1, <4>3, <5>2 DEF Settled, Under, AtOrUnder
      <4> QED BY <4>2, <4>3
    <3> QED BY <3>1, <3>2, <3>3
  <2> QED BY <1>0, <2>5, <2>6, <2>7 DEF EachOnce
<1> QED BY <1>6, <1>7 DEF Lstat

LEMMA OpendirStep ==
  ASSUME TypeOK, Ancestors, EachOnce, Opendir
  PROVE  EachOnce'
<1> DEFINE p == fullpath
<1>0. /\ walk = "opendir" /\ p \in Files /\ p \in Dirs /\ p \in Seq(Names)
      /\ Len(p) = Len(dps) + 1 /\ Len(p) \in Nat /\ p' = p /\ counted' = counted
      /\ strlen \in Nat /\ counted[p] = 1
  BY Paths DEF Opendir, Ancestors, TypeOK, EachOnce
<1>1. Waiting = Left \union Children(p) /\ Waiting \subseteq Files
  BY <1>0, WaitingFiles DEF Waiting
<1>2. CASE /\ dps' = Append(dps, [dir |-> p, n |-> strlen + 1, left |-> Children(p)])
           /\ walk' = "readdir" /\ UNCHANGED skipped
  <2>1. strlen + 1 \in Nat \ {0} /\ Children(p) \in SUBSET Files
    BY <1>0 DEF Children
  <2>2. /\ DOMAIN dps' = 1 .. Len(dps) + 1 /\ \A k \in DOMAIN dps : dps'[k] = dps[k]
        /\ dps'[Len(dps) + 1].left = Children(p)
    BY <1>0, <1>2, <2>1, Opened
  <2>3. DOMAIN dps = 1 .. Len(dps) /\ Len(dps) \in Nat
    BY Reading
  <2>4. Left' = Left \union Children(p)
    <3>1. ASSUME NEW g \in Left' PROVE g \in Left \union Children(p)
      <4>1. PICK k \in DOMAIN dps' : g \in dps'[k].left
        BY <3>1 DEF Left
      <4>2. k = Len(dps) + 1 \/ k \in DOMAIN dps
        BY <2>2, <2>3
      <4> QED BY <2>2, <4>1, <4>2 DEF Left
    <3>2. ASSUME NEW g \in Left \union Children(p) PROVE g \in Left'
      <4>1. CASE g \in Children(p)
        BY <2>2, <2>3, <4>1 DEF Left
      <4>2. CASE g \in Left
        <5>1. PICK k \in DOMAIN dps : g \in dps[k].left
          BY <4>2 DEF Left
        <5>2. k \in DOMAIN dps' /\ g \in dps'[k].left
          BY <2>2, <2>3, <5>1
        <5> QED BY <5>2 DEF Left
      <4> QED BY <4>1, <4>2
    <3> QED BY <3>1, <3>2
  <2>5. Waiting' = Waiting
    BY <1>1, <1>2, <2>4 DEF Waiting
  <2> QED BY <1>0, <1>2, <2>5, SameWaiting
<1>3. CASE skipped' = skipped \union {p} /\ Return /\ UNCHANGED dps
  <2>1. walk' \in {"done", "readdir"} /\ Left' = Left
    BY <1>3 DEF Return, Left
  <2>2. Waiting' = Left
    BY <2>1 DEF Waiting
  <2>3. WaitingApart
    BY <1>0 DEF EachOnce
  <2>4. \A c \in Children(p) : c \in Files /\ AtOrUnder(c, p) /\ Len(c) = Len(p) + 1
    BY <1>0, Child
  <2>5. \A g \in Left : g \in Files /\ Len(g) <= Len(p)
    <3> SUFFICES ASSUME NEW g \in Left PROVE g \in Files /\ Len(g) <= Len(p)
      OBVIOUS
    <3>1. PICK k \in DOMAIN dps : g \in dps[k].left
      BY DEF Left
    <3>2. /\ k \in 1 .. Len(dps) /\ Len(dps) \in Nat /\ dps[k].dir \in Files
          /\ g \in Children(dps[k].dir) /\ Len(dps[k].dir) = k
      BY <3>1, Reading DEF Ancestors
    <3>3. g \in Files /\ Len(g) = k + 1
      BY <3>2, Child
    <3> QED BY <1>0, <3>2, <3>3
  <2>6. ASSUME NEW file \in Files, NEW c \in Children(p), AtOrUnder(file, c)
        PROVE  /\ AtOrUnder(file, p) /\ file # p /\ NotYet(file)
               /\ ~(\E g \in Left : AtOrUnder(file, g))
    <3>1. c \in Seq(Names) /\ file \in Seq(Names) /\ Len(c) = Len(p) + 1
      BY <2>4, Paths
    <3>2. AtOrUnder(file, p)
      BY <1>0, <2>4, <2>6, <3>1, Transitive
    <3>3. Len(c) <= Len(file)
      BY <2>6 DEF AtOrUnder
    <3>4. /\ NotYet(file) /\ \A g \in Waiting : AtOrUnder(file, g) => g = c
      BY <1>0, <1>1, <2>6, OnlyBecauseOf
    <3>5. c \notin Left
      BY <1>0, <2>5, <3>1
    <3> QED BY <1>0, <1>1, <3>1, <3>2, <3>3, <3>4, <3>5
  <2>7. WaitingApart'
    BY <1>1, <2>2, <2>3 DEF WaitingApart, AtOrUnder
  <2>8. ASSUME NEW file \in Files
        PROVE  (IF IsWaiting(file) THEN NotYet(file) ELSE Settled(file))'
    <3>1. IF IsWaiting(file) THEN NotYet(file) ELSE Settled(file)
      BY <1>0 DEF EachOnce
    <3>2. CASE file = p \/ ~AtOrUnder(file, p)
      <4>1. ~(\E c \in Children(p) : AtOrUnder(file, c))
        BY <2>6, <3>2
      <4>2. IsWaiting(file)' <=> IsWaiting(file)
        BY <1>1, <2>2, <4>1 DEF IsWaiting, AtOrUnder
      <4>3. CASE file # p
        BY <1>0, <1>3, <3>1, <3>2, <4>2, <4>3 DEF NotYet, Settled, Under, AtOrUnder
      <4>4. CASE file = p
        <5>1. ~IsWaiting(file) /\ Settled(file)
          BY <1>0, <3>1, <4>4 DEF NotYet
        <5> QED BY <1>0, <1>3, <4>2, <4>4, <5>1 DEF Settled, Under, AtOrUnder
      <4> QED BY <4>3, <4>4
    <3>3. CASE file # p /\ AtOrUnder(file, p)
      <4>1. PICK c \in Children(p) : AtOrUnder(file, c)
        BY <1>0, <3>3, Descend DEF Under
      <4>2. NotYet(file) /\ ~IsWaiting(file)'
        BY <2>2, <2>6, <4>1 DEF IsWaiting, AtOrUnder
      <4> QED BY <1>0, <1>3, <3>3, <4>2 DEF NotYet, Settled, AtOrUnder
    <3> QED BY <3>2, <3>3
  <2> QED BY <2>1, <2>7, <2>8 DEF EachOnce
<1>4. CASE walk' = "failed"
  BY <1>4 DEF EachOnce
<1> QED BY <1>2, <1>3, <1>4 DEF Opendir

LEMMA ReaddirStep ==
  ASSUME TypeOK, Ancestors, EachOnce, Readdir
  PROVE  EachOnce'
<1>1. /\ Len(dps) \in DOMAIN dps /\ DOMAIN dps' = DOMAIN dps
      /\ fullpath' \in dps[Len(dps)].left
      /\ \A k \in DOMAIN dps : dps'[k].left = IF k = Len(dps)
                                                THEN dps[k].left \ {fullpath'}
                                                ELSE dps[k].left
  BY EntryRead
<1>2. walk = "readdir" /\ walk' = "lstat" /\ UNCHANGED <<counted, skipped>>
  BY DEF Readdir
<1>3. Left = Left' \union {fullpath'}
  <2>1. ASSUME NEW g \in Left PROVE g \in Left' \union {fullpath'}
    <3>1. PICK k \in DOMAIN dps : g \in dps[k].left
      BY DEF Left
    <3>2. g = fullpath' \/ (k \in DOMAIN dps' /\ g \in dps'[k].left)
      BY <1>1, <3>1
    <3> QED BY <3>2 DEF Left
  <2>2. ASSUME NEW g \in Left' PROVE g \in Left
    <3>1. PICK k \in DOMAIN dps' : g \in dps'[k].left
      BY DEF Left
    <3>2. k \in DOMAIN dps /\ g \in dps[k].left
      BY <1>1, <3>1
    <3> QED BY <3>2 DEF Left
  <2>3. fullpath' \in Left
    BY <1>1 DEF Left
  <2> QED BY <2>1, <2>2, <2>3
<1>4. Waiting' = Waiting
  BY <1>2, <1>3 DEF Waiting
<1> QED BY <1>2, <1>4, SameWaiting

LEMMA ClosedirStep ==
  ASSUME TypeOK, Ancestors, EachOnce, Closedir
  PROVE  EachOnce'
<1>1. /\ Len(dps) \in DOMAIN dps /\ DOMAIN dps' = 1 .. Len(dps) - 1
      /\ \A k \in DOMAIN dps' : k \in DOMAIN dps /\ dps'[k] = dps[k]
      /\ DOMAIN dps = 1 .. Len(dps) /\ Len(dps) \in Nat
  BY Closed, Reading
<1>2. /\ walk = "readdir" /\ walk' \in {"done", "readdir"} /\ dps[Len(dps)].left = {}
      /\ UNCHANGED <<counted, skipped>>
  BY DEF Closedir
<1>3. Left' = Left
  <2>1. ASSUME NEW g \in Left PROVE g \in Left'
    <3>1. PICK k \in DOMAIN dps : g \in dps[k].left
      BY DEF Left
    <3>2. k \in DOMAIN dps' /\ g \in dps'[k].left
      BY <1>1, <1>2, <3>1
    <3> QED BY <3>2 DEF Left
  <2>2. ASSUME NEW g \in Left' PROVE g \in Left
    <3>1. PICK k \in DOMAIN dps' : g \in dps'[k].left
      BY DEF Left
    <3>2. k \in DOMAIN dps /\ g \in dps[k].left
      BY <1>1, <3>1
    <3> QED BY <3>2 DEF Left
  <2> QED BY <2>1, <2>2
<1>4. Waiting' = Waiting
  BY <1>2, <1>3 DEF Waiting
<1> QED BY <1>2, <1>4, SameWaiting

LEMMA EachOnceStep ==
  ASSUME TypeOK, Ancestors, EachOnce, [Next]_vars
  PROVE  EachOnce'
<1>1. CASE myftw
  <2>1. walk = "myftw" /\ fullpath' = Root /\ UNCHANGED <<dps, counted, skipped>>
    BY <1>1 DEF myftw
  <2>2. CASE walk' = "lstat"
    <3>1. Left' = Left
      BY <2>1 DEF Left
    <3>2. Waiting' = Waiting
      BY <2>1, <2>2, <3>1 DEF Waiting
    <3> QED BY <2>1, <2>2, <3>2, SameWaiting
  <2>3. CASE walk' = "failed"
    BY <2>3 DEF EachOnce
  <2> QED BY <1>1, <2>2, <2>3 DEF myftw
<1>2. CASE UNCHANGED vars
  <2>1. Left' = Left /\ UNCHANGED <<walk, fullpath, counted, skipped>>
    BY <1>2 DEF vars, Left
  <2>2. Waiting' = Waiting
    BY <2>1 DEF Waiting, Children
  <2> QED BY <2>1, <2>2
       DEF EachOnce, WaitingApart, IsWaiting, NotYet, Settled, Under, AtOrUnder
<1> QED BY <1>1, <1>2, LstatStep, OpendirStep, ReaddirStep, ClosedirStep DEF Next

(* When the walk is done, nobody is waiting.                               *)
LEMMA DoneSettled ==
  ASSUME TypeOK, Ancestors, EachOnce
  PROVE  CountedOnce
<1> SUFFICES ASSUME walk = "done" PROVE \A file \in Files : Settled(file)
  BY DEF CountedOnce
<1>1. dps = <<>>
  BY DEF Ancestors
<1>2. Left = {}
  BY <1>1 DEF Left
<1>3. Waiting = {}
  BY <1>2 DEF Waiting
<1> QED BY <1>3 DEF EachOnce, IsWaiting

LEMMA InitInv == Init => Inv
<1> SUFFICES ASSUME Init PROVE Inv
  OBVIOUS
<1> USE SizesAssumption DEF Init
<1>1. TypeOK
  BY EmptySeq DEF TypeOK
<1>2. Fits
  BY DEF Fits
<1>3. Ancestors
  BY EmptySeq DEF Ancestors
<1>4. Waiting = {Root}
  <2>1. Left = {}
    BY DEF Left
  <2> QED BY <2>1 DEF Waiting
<1>5. EachOnce
  BY <1>4, AllUnderRoot DEF EachOnce, WaitingApart, IsWaiting, NotYet
<1> QED BY <1>1, <1>2, <1>3, <1>5, DoneSettled DEF Inv

LEMMA InvStep == Inv /\ [Next]_vars => Inv'
<1> SUFFICES ASSUME Inv, [Next]_vars PROVE Inv'
  OBVIOUS
<1>1. TypeOK' /\ Fits' /\ Ancestors' /\ EachOnce'
  BY TypeStep, FitsStep, AncestorsStep, EachOnceStep DEF Inv
<1>2. CountedOnce'
  BY <1>1, DoneSettled, PTL
<1> QED BY <1>1, <1>2 DEF Inv

-----------------------------------------------------------------------------
(* AioRot.  The blocks of a file are the multiples of BSZ before its end.  *)
LEMMA RotBounds ==
  /\ NBUF \in Nat \ {0} /\ BSZ \in Nat \ {0}
  /\ \A file \in RotFiles :
       /\ file.st_size \in Nat
       /\ file.block \in [{b \in 0 .. file.st_size : b * BSZ < file.st_size} -> A!R!Byte]
BY CopyBounds DEF A!Bounds

LEMMA Multiples ==
  ASSUME NEW a \in Nat, NEW b \in Nat
  PROVE  /\ a * BSZ \in Nat /\ a <= a * BSZ
         /\ A!Block(a * BSZ) = a
         /\ (a + 1) * BSZ = a * BSZ + BSZ
         /\ a * BSZ < b * BSZ <=> a < b
         /\ a * BSZ = b * BSZ => a = b
         /\ b * BSZ < a * BSZ + BSZ <=> b <= a
<1>1. BSZ \in Nat /\ BSZ >= 1
  BY RotBounds
<1>2. a * BSZ \in Nat /\ b * BSZ \in Nat
  BY <1>1
<1>3. (a + 1) * BSZ = a * BSZ + BSZ
  BY <1>1
<1>4. a <= a * BSZ
  BY <1>1
<1>5. A!Block(a * BSZ) = a
  BY <1>1, <1>2 DEF A!Block
<1>6. a < b => a * BSZ + BSZ <= b * BSZ
  BY <1>1
<1>7. b < a => b * BSZ + BSZ <= a * BSZ
  BY <1>1
<1>8. a < b \/ a = b \/ b < a
  OBVIOUS
<1>9. CASE a = b
  BY <1>1, <1>2, <1>3, <1>4, <1>5, <1>9
<1>10. CASE a < b
  BY <1>1, <1>2, <1>3, <1>4, <1>5, <1>6, <1>10
<1>11. CASE b < a
  BY <1>1, <1>2, <1>3, <1>4, <1>5, <1>7, <1>11
<1> QED BY <1>8, <1>9, <1>10, <1>11

(* What a buffer in use holds of its block b: nothing of b is in the       *)
(* output until its write is done.                                         *)
Holds(s, b) ==
  /\ offset[s] = b * BSZ /\ offset[s] < off
  /\ op[s] = A!READ_PENDING =>
       /\ output[b] = A!Hole
       /\ request[s] = "done" => result[s] = A!Available(offset[s]) /\ data[s] = input.block[b]
  /\ op[s] = A!WRITE_PENDING =>
       /\ data[s] = A!R!translate(input.block[b])
       /\ output[b] = IF request[s] = "done" /\ result[s] = nbytes[s] THEN data[s] ELSE A!Hole

AioTypes ==
  /\ A!TypeOK /\ input \in RotFiles
  /\ last \in [A!Slots -> BOOLEAN] /\ offset \in [A!Slots -> Nat]
  /\ nbytes \in [A!Slots -> Int] /\ result \in [A!Slots -> Int]
  /\ request \in [A!Slots -> {"none", "inprogress", "error", "done"}]

Buffers ==
  \A s \in A!Slots :
    IF op[s] = A!UNUSED THEN request[s] # "inprogress" ELSE \E b \in A!Blocks : Holds(s, b)

Written ==
  /\ \E k \in Nat : off = k * BSZ
  /\ \A b \in A!Blocks :
       output[b] # A!Hole => b * BSZ < off /\ output[b] = A!R!translate(input.block[b])

AioInv ==
  /\ AioTypes /\ Buffers /\ Written /\ A!OperationsCounted /\ A!EachBlockOnce
  /\ pc \in {"fsync", "exited"} => numop = 0 /\ off >= input.st_size

(* The instance of AioRot counts with a Cardinality of its own. *)
LEMMA SameCount == \A set : A!Cardinality(set) = Cardinality(set)
BY DEF A!Cardinality, Cardinality

LEMMA BlocksOf ==
  ASSUME input \in RotFiles
  PROVE  /\ input.st_size \in Nat
         /\ \A b : b \in A!Blocks <=> b \in Nat /\ b * BSZ < input.st_size
         /\ \A b \in A!Blocks : /\ input.block[b] \in A!R!Byte
                               /\ A!R!translate(input.block[b]) \in A!R!Byte
<1>1. /\ input.st_size \in Nat
      /\ input.block \in [{b \in 0 .. input.st_size : b * BSZ < input.st_size} -> A!R!Byte]
  BY RotBounds
<1>2. A!Blocks = {b \in 0 .. input.st_size : b * BSZ < input.st_size}
  BY <1>1 DEF A!Blocks
<1>3. \A b \in Nat : b * BSZ < input.st_size => b <= input.st_size
  <2> SUFFICES ASSUME NEW b \in Nat, b * BSZ < input.st_size PROVE b <= input.st_size
    OBVIOUS
  <2> QED BY <1>1, Multiples
<1>4. \A c \in A!R!Byte : A!R!translate(c) \in A!R!Byte
  BY DEF A!R!Byte, A!R!translate, A!R!isalpha, A!R!Upper, A!R!Lower
<1> QED BY <1>1, <1>2, <1>3, <1>4

LEMMA AioInvInit == A!Init => AioInv
<1> SUFFICES ASSUME A!Init PROVE AioInv
  OBVIOUS
<1> USE DEF A!Init
<1>0. input \in RotFiles /\ NBUF \in Nat \ {0}
  BY RotBounds
<1>1. AioTypes
  BY <1>0 DEF AioTypes, A!TypeOK, A!Slots, A!UNUSED, A!Hole
<1>2. Buffers
  BY DEF Buffers
<1>3. Written
  <2>1. off = 0 * BSZ
    BY RotBounds
  <2> QED BY <2>1 DEF Written
<1>4. A!Busy = {}
  BY DEF A!Busy
<1>5. A!OperationsCounted
  BY <1>4, SameCount, FS_EmptySet DEF A!OperationsCounted
<1>6. A!EachBlockOnce
  <2>1. \A b \in A!Blocks : b * BSZ >= off /\ output[b] = A!Hole
    BY <1>0, BlocksOf, Multiples
  <2> QED BY <1>4, <2>1 DEF A!EachBlockOnce
<1> QED BY <1>1, <1>2, <1>3, <1>5, <1>6 DEF AioInv

(* A step of the scan leaves i at a buffer. *)
LEMMA NextSlotTypes ==
  ASSUME A!TypeOK, pc = "scan", A!NextSlot
  PROVE  i' \in A!Slots /\ pc' \in {"scan", "check"}
BY RotBounds DEF A!NextSlot, A!TypeOK, A!Slots

(* What all steps but those that begin or end an operation leave alone.    *)
LEMMA SameOperations ==
  ASSUME AioInv, UNCHANGED <<input, off, numop, aiolist, A!slotvars, A!kernelvars>>,
         pc \notin {"exited", "failed"}, i' \in A!Slots,
         pc' \in {"scan", "check", "suspend", "fsync", "exited", "failed"},
         pc' \in {"fsync", "exited"} => numop = 0 /\ off >= input.st_size
  PROVE  AioInv'
<1> USE DEF AioInv, A!slotvars, A!kernelvars
<1>1. AioTypes'
  BY DEF AioTypes, A!TypeOK, A!Blocks, A!Slots
<1>2. A!Busy' = A!Busy /\ A!Blocks' = A!Blocks
  BY DEF A!Busy, A!Blocks
<1>3. Buffers'
  BY <1>2 DEF Buffers, Holds, A!Available
<1>4. Written'
  BY <1>2 DEF Written
<1>5. A!OperationsCounted' /\ A!EachBlockOnce'
  BY <1>2 DEF A!OperationsCounted, A!EachBlockOnce
<1> QED BY <1>1, <1>3, <1>4, <1>5

LEMMA ScanStep ==
  ASSUME AioInv, A!Skip \/ A!Quit \/ A!SubmitFails \/ A!Check \/ A!Resume \/ A!Exit
  PROVE  AioInv'
<1>1. i \in A!Slots /\ A!TypeOK
  BY DEF AioInv, AioTypes, A!TypeOK
<1>2. CASE A!Skip
  BY <1>1, <1>2, NextSlotTypes, SameOperations DEF A!Skip
<1>3. CASE A!Quit
  BY <1>1, <1>3, SameOperations DEF A!Quit
<1>4. CASE A!SubmitFails
  BY <1>1, <1>4, SameOperations DEF A!SubmitFails
<1>5. CASE A!Check
  <2>1. off \in Nat /\ input.st_size \in Nat
    BY BlocksOf DEF AioInv, AioTypes, A!TypeOK
  <2> QED BY <1>1, <1>5, <2>1, SameOperations DEF A!Check
<1>6. CASE A!Resume
  BY <1>1, <1>6, SameOperations DEF A!Resume
<1>7. CASE A!Exit
  BY <1>1, <1>7, SameOperations DEF A!Exit, AioInv
<1> QED BY <1>2, <1>3, <1>4, <1>5, <1>6, <1>7

(* The operations are counted when one begins and when one ends.           *)
LEMMA BusyFinite == A!Busy \subseteq A!Slots /\ IsFiniteSet(A!Busy)
<1>1. IsFiniteSet(A!Slots)
  BY RotBounds, FS_Interval DEF A!Slots
<1> QED BY <1>1, FS_Subset DEF A!Busy

LEMMA BusyCount ==
  ASSUME A!OperationsCounted, NEW s \in A!Slots
  PROVE  /\ numop = Cardinality(A!Busy) /\ numop \in Nat
         /\ s \notin A!Busy => Cardinality(A!Busy \union {s}) = numop + 1
         /\ s \in A!Busy => Cardinality(A!Busy \ {s}) = numop - 1 /\ numop - 1 \in Nat
<1>1. numop = Cardinality(A!Busy)
  BY SameCount DEF A!OperationsCounted
<1>2. numop \in Nat
  BY <1>1, BusyFinite, FS_CardinalityType
<1>3. s \notin A!Busy => Cardinality(A!Busy \union {s}) = numop + 1
  BY <1>1, BusyFinite, FS_AddElement
<1>4. s \in A!Busy => Cardinality(A!Busy \ {s}) = numop - 1
  BY <1>1, BusyFinite, FS_RemoveElement
<1>5. s \in A!Busy => numop - 1 \in Nat
  BY <1>4, BusyFinite, FS_RemoveElement, FS_CardinalityType
<1> QED BY <1>1, <1>2, <1>3, <1>4, <1>5

(* aio_read for the block at off, of which nothing is in the output.       *)
LEMMA StartReadStep ==
  ASSUME AioInv, A!StartRead
  PROVE  AioInv'
<1> USE DEF A!StartRead, A!Submit
<1>0. PICK k \in Nat : off = k * BSZ
  BY DEF AioInv, Written
<1>1. /\ k \in A!Blocks /\ i \in A!Slots /\ off \in Nat /\ i \notin A!Busy
      /\ BSZ \in Nat \ {0} /\ output[k] = A!Hole
  <2>1. i \in A!Slots /\ input \in RotFiles /\ BSZ \in Nat \ {0} /\ i \notin A!Busy
    BY RotBounds DEF AioInv, AioTypes, A!TypeOK, A!Busy
  <2>2. k \in A!Blocks /\ off \in Nat
    BY <1>0, <2>1, BlocksOf, Multiples
  <2>3. output[k] = A!Hole
    BY <1>0, <2>2 DEF AioInv, Written
  <2> QED BY <2>1, <2>2, <2>3
<1>2. /\ op' = [op EXCEPT ![i] = A!READ_PENDING]
      /\ offset' = [offset EXCEPT ![i] = off] /\ nbytes' = [nbytes EXCEPT ![i] = BSZ]
      /\ request' = [request EXCEPT ![i] = "inprogress"]
      /\ off' = off + BSZ /\ numop' = numop + 1 /\ aiolist' = aiolist \union {i}
      /\ last' \in [A!Slots -> BOOLEAN]
      /\ UNCHANGED <<input, data, result, output>>
  BY DEF A!Set, AioInv, AioTypes
<1>3. A!Busy' = A!Busy \union {i}
  BY <1>1, <1>2 DEF A!Busy, AioInv, AioTypes, A!TypeOK, A!UNUSED, A!READ_PENDING
<1>4. A!OperationsCounted' /\ numop' \in Nat
  <2>1. numop' = Cardinality(A!Busy)' /\ numop' \in Nat
    BY <1>1, <1>2, <1>3, BusyCount DEF AioInv
  <2>2. aiolist' = A!Busy'
    BY <1>2, <1>3 DEF AioInv, A!OperationsCounted
  <2> QED BY <2>1, <2>2, SameCount DEF A!OperationsCounted
<1>5. AioTypes'
  <2>1. i' \in A!Slots /\ pc' \in {"scan", "check"}
    BY NextSlotTypes DEF AioInv, AioTypes
  <2>2. op' \in [A!Slots -> {A!UNUSED, A!READ_PENDING, A!WRITE_PENDING}]
    BY <1>2 DEF AioInv, AioTypes, A!TypeOK
  <2>3. A!TypeOK'
    BY <1>1, <1>2, <1>4, <2>1, <2>2 DEF AioInv, AioTypes, A!TypeOK, A!Blocks
  <2>4. nbytes' \in [A!Slots -> Int] /\ offset' \in [A!Slots -> Nat]
    BY <1>1, <1>2 DEF AioInv, AioTypes
  <2>5. request' \in [A!Slots -> {"none", "inprogress", "error", "done"}]
    BY <1>2 DEF AioInv, AioTypes
  <2> QED BY <1>2, <2>3, <2>4, <2>5 DEF AioInv, AioTypes
<1>6. \A s \in A!Slots : IF s = i THEN op'[s] = A!READ_PENDING /\ offset'[s] = off
                                       /\ request'[s] = "inprogress"
                         ELSE /\ op'[s] = op[s] /\ offset'[s] = offset[s]
                              /\ request'[s] = request[s] /\ nbytes'[s] = nbytes[s]
  BY <1>1, <1>2 DEF AioInv, AioTypes, A!TypeOK
<1>7. \A s \in A!Busy : offset[s] < off /\ offset[s] \in Nat
  BY DEF AioInv, AioTypes, Buffers, Holds, A!Busy
<1>8. Buffers'
  <2> SUFFICES ASSUME NEW s \in A!Slots
               PROVE  IF op'[s] = A!UNUSED THEN request'[s] # "inprogress"
                      ELSE \E b \in A!Blocks : Holds(s, b)'
    BY <1>2 DEF Buffers, A!Blocks
  <2>1. CASE s = i
    <3>1. Holds(s, k)'
      BY <1>0, <1>1, <1>2, <1>6, <2>1 DEF Holds, A!READ_PENDING, A!WRITE_PENDING
    <3> QED BY <1>1, <3>1, <2>1, <1>6 DEF A!UNUSED, A!READ_PENDING
  <2>2. CASE s # i
    <3>1. ASSUME NEW b \in A!Blocks, Holds(s, b) PROVE Holds(s, b)'
      BY <1>1, <1>2, <1>6, <2>2, <3>1 DEF Holds, A!Available, AioInv, AioTypes
    <3> QED BY <1>6, <2>2, <3>1 DEF AioInv, Buffers
  <2> QED BY <2>1, <2>2
<1>9. Written'
  <2>1. off' = (k + 1) * BSZ
    BY <1>0, <1>2, Multiples
  <2>2. \A b \in A!Blocks : b * BSZ \in Nat
    BY BlocksOf, Multiples DEF AioInv, AioTypes
  <2>3. \A b \in A!Blocks : output[b] # A!Hole
                 => b * BSZ < off + BSZ /\ output[b] = A!R!translate(input.block[b])
    <3>1. \A b \in A!Blocks : output[b] # A!Hole
                   => b * BSZ < off /\ output[b] = A!R!translate(input.block[b])
      BY DEF AioInv, Written
    <3> QED BY <1>1, <2>2, <3>1
  <2> QED BY <1>2, <2>1, <2>3 DEF Written, A!Blocks
<1>10. A!EachBlockOnce'
  <2>1. \A s, t \in A!Busy' : s # t => offset'[s] # offset'[t]
    BY <1>1, <1>3, <1>6, <1>7 DEF AioInv, A!EachBlockOnce, A!Busy
  <2>2. ASSUME NEW b \in A!Blocks
        PROVE  \/ b * BSZ >= off + BSZ /\ output[b] = A!Hole
               \/ output[b] # A!Hole
               \/ \E s \in A!Busy' : A!Block(offset'[s]) = b
    <3>1. b \in Nat /\ b * BSZ \in Nat
      BY BlocksOf, Multiples DEF AioInv, AioTypes
    <3>2. CASE output[b] = A!Hole /\ b * BSZ >= off
      <4>1. b * BSZ >= off + BSZ \/ b <= k
        BY <1>0, <1>1, <3>1, Multiples
      <4>2. b <= k => b = k
        <5>1. b * BSZ < k * BSZ <=> b < k
          BY <1>0, <3>1, Multiples
        <5> QED BY <1>0, <1>1, <3>1, <3>2, <5>1
      <4>3. A!Block(offset'[i]) = k
        BY <1>0, <1>1, <1>6, Multiples
      <4> QED BY <1>3, <3>2, <4>1, <4>2, <4>3
    <3>3. CASE \E s \in A!Busy : A!Block(offset[s]) = b
      BY <1>1, <1>3, <1>6, <3>3 DEF A!Busy
    <3>4. \/ b * BSZ >= off /\ output[b] = A!Hole
          \/ output[b] # A!Hole
          \/ \E s \in A!Busy : A!Block(offset[s]) = b
      BY DEF AioInv, A!EachBlockOnce
    <3> QED BY <3>2, <3>3, <3>4
  <2> QED BY <1>2, <2>1, <2>2 DEF A!EachBlockOnce, A!Blocks
<1>11. pc' \notin {"fsync", "exited"}
  BY NextSlotTypes DEF AioInv, AioTypes
<1> QED BY <1>4, <1>5, <1>8, <1>9, <1>10, <1>11 DEF AioInv

(* The operations of a step that changes one buffer's operation only.      *)
LEMMA OperationEnds ==
  ASSUME AioInv, NEW s \in A!Busy, op' = [op EXCEPT ![s] = A!UNUSED]
  PROVE  A!Busy' = A!Busy \ {s}
BY BusyFinite DEF A!Busy, AioInv, AioTypes, A!TypeOK

LEMMA OtherBuffers ==
  ASSUME AioInv, NEW s \in A!Slots,
         UNCHANGED <<input, off>>,
         op'[s] = op[s], offset'[s] = offset[s], request'[s] = request[s],
         nbytes'[s] = nbytes[s], result'[s] = result[s], data'[s] = data[s],
         \A b \in A!Blocks : Holds(s, b) /\ op[s] # A!UNUSED => output'[b] = output[b]
  PROVE  IF op'[s] = A!UNUSED THEN request'[s] # "inprogress"
         ELSE \E b \in A!Blocks : Holds(s, b)'
<1>1. CASE op[s] = A!UNUSED
  BY <1>1 DEF AioInv, Buffers
<1>2. CASE op[s] # A!UNUSED
  <2>1. PICK b \in A!Blocks : Holds(s, b)
    BY <1>2 DEF AioInv, Buffers
  <2>2. output'[b] = output[b]
    BY <1>2, <2>1
  <2>3. Holds(s, b)'
    BY <2>1, <2>2 DEF Holds, A!Available
  <2> QED BY <1>2, <2>3
<1> QED BY <1>1, <1>2

(* The bytes a read has returned for a block of the file.                  *)
LEMMA SomethingRead ==
  ASSUME AioInv, NEW b \in A!Blocks
  PROVE  /\ A!Available(b * BSZ) \in Nat \ {0}
         /\ b * BSZ \in Nat /\ b \in Nat /\ A!Block(b * BSZ) = b
<1>1. b \in Nat /\ b * BSZ < input.st_size /\ input.st_size \in Nat
  BY BlocksOf DEF AioInv, AioTypes
<1>2. b * BSZ \in Nat /\ A!Block(b * BSZ) = b
  BY <1>1, Multiples
<1> QED BY <1>1, <1>2, RotBounds DEF A!Available

(* The block that was read is translated, once, and its write begins.      *)
LEMMA StartWriteStep ==
  ASSUME AioInv, A!StartWrite
  PROVE  AioInv'
<1> USE DEF A!StartWrite, A!Submit
<1>1. /\ i \in A!Slots /\ op[i] = A!READ_PENDING /\ request[i] = "done"
  BY DEF AioInv, AioTypes, A!TypeOK
<1>2. PICK b \in A!Blocks : Holds(i, b)
  BY <1>1 DEF AioInv, Buffers, A!UNUSED, A!READ_PENDING
<1>3. /\ result[i] = A!Available(b * BSZ) /\ result[i] > 0 /\ data[i] = input.block[b]
      /\ output[b] = A!Hole
  BY <1>1, <1>2, SomethingRead DEF Holds
<1>4. /\ op' = [op EXCEPT ![i] = A!WRITE_PENDING]
      /\ data' = [data EXCEPT ![i] = A!R!translate(input.block[b])]
      /\ nbytes' = [nbytes EXCEPT ![i] = result[i]]
      /\ request' = [request EXCEPT ![i] = "inprogress"]
      /\ UNCHANGED <<input, off, numop, aiolist, last, offset, result, output>>
  BY <1>3 DEF A!Set
<1>5. A!Busy' = A!Busy
  BY <1>1, <1>4 DEF A!Busy, AioInv, AioTypes, A!TypeOK, A!UNUSED, A!READ_PENDING,
                    A!WRITE_PENDING
<1>6. AioTypes'
  <2>1. i' \in A!Slots /\ pc' \in {"scan", "check"}
    BY NextSlotTypes DEF AioInv, AioTypes
  <2>2. op' \in [A!Slots -> {A!UNUSED, A!READ_PENDING, A!WRITE_PENDING}]
    BY <1>4 DEF AioInv, AioTypes, A!TypeOK
  <2>3. data' \in [A!Slots -> A!R!Byte \union {A!Hole}]
    <3>1. A!R!translate(input.block[b]) \in A!R!Byte
      BY BlocksOf DEF AioInv, AioTypes
    <3>2. data \in [A!Slots -> A!R!Byte \union {A!Hole}]
      BY DEF AioInv, AioTypes, A!TypeOK
    <3> QED BY <1>4, <3>1, <3>2
  <2>4. A!TypeOK'
    BY <1>4, <2>1, <2>2, <2>3 DEF AioInv, AioTypes, A!TypeOK, A!Blocks
  <2>5. nbytes' \in [A!Slots -> Int]
    BY <1>4 DEF AioInv, AioTypes
  <2>6. request' \in [A!Slots -> {"none", "inprogress", "error", "done"}]
    BY <1>4 DEF AioInv, AioTypes
  <2> QED BY <1>4, <2>4, <2>5, <2>6 DEF AioInv, AioTypes
<1>7. Buffers'
  <2> SUFFICES ASSUME NEW s \in A!Slots
               PROVE  IF op'[s] = A!UNUSED THEN request'[s] # "inprogress"
                      ELSE \E a \in A!Blocks : Holds(s, a)'
    BY <1>4 DEF Buffers, A!Blocks
  <2>1. CASE s = i
    <3>1. /\ op'[s] = A!WRITE_PENDING /\ request'[s] = "inprogress"
          /\ data'[s] = A!R!translate(input.block[b])
      BY <1>1, <1>4, <2>1 DEF AioInv, AioTypes, A!TypeOK
    <3>2. /\ offset'[s] = b * BSZ /\ offset'[s] < off' /\ output'[b] = A!Hole
      BY <1>2, <1>3, <1>4, <2>1 DEF Holds
    <3>3. Holds(s, b)'
      BY <1>4, <3>1, <3>2 DEF Holds, A!READ_PENDING, A!WRITE_PENDING
    <3> QED BY <1>2, <3>1, <3>3 DEF A!UNUSED, A!WRITE_PENDING
  <2>2. CASE s # i
    <3>1. /\ op'[s] = op[s] /\ offset'[s] = offset[s] /\ request'[s] = request[s]
          /\ nbytes'[s] = nbytes[s] /\ result'[s] = result[s] /\ data'[s] = data[s]
      BY <1>4, <2>2 DEF AioInv, AioTypes, A!TypeOK
    <3> QED BY <1>4, <3>1, OtherBuffers
  <2> QED BY <2>1, <2>2
<1>8. Written' /\ A!OperationsCounted' /\ A!EachBlockOnce'
  BY <1>4, <1>5 DEF AioInv, Written, A!OperationsCounted, A!EachBlockOnce, A!Blocks
<1>9. pc' \notin {"fsync", "exited"}
  BY NextSlotTypes DEF AioInv, AioTypes
<1> QED BY <1>6, <1>7, <1>8, <1>9 DEF AioInv

(* The block is in the output, and its buffer is free.                     *)
LEMMA FinishWriteStep ==
  ASSUME AioInv, A!FinishWrite
  PROVE  AioInv'
<1> USE DEF A!FinishWrite
<1>1. /\ i \in A!Slots /\ op[i] = A!WRITE_PENDING /\ request[i] = "done"
      /\ result[i] = nbytes[i] /\ i \in A!Busy
  BY DEF AioInv, AioTypes, A!TypeOK, A!Busy, A!Short, A!UNUSED, A!READ_PENDING, A!WRITE_PENDING
<1>2. PICK b \in A!Blocks : Holds(i, b)
  BY <1>1 DEF AioInv, Buffers, A!UNUSED, A!WRITE_PENDING
<1>3. output[b] # A!Hole /\ A!Block(offset[i]) = b
  <2>1. output[b] = A!R!translate(input.block[b])
    BY <1>1, <1>2 DEF Holds
  <2>2. A!R!translate(input.block[b]) \in A!R!Byte
    BY BlocksOf DEF AioInv, AioTypes
  <2>3. offset[i] = b * BSZ
    BY <1>2 DEF Holds
  <2> QED BY <2>1, <2>2, <2>3, SomethingRead DEF A!R!Byte, A!Hole
<1>4. /\ op' = [op EXCEPT ![i] = A!UNUSED]
      /\ numop' = numop - 1 /\ aiolist' = aiolist \ {i}
      /\ UNCHANGED <<input, off, last, offset, nbytes, data, request, result, output>>
  BY DEF A!Set, A!kernelvars
<1>5. A!Busy' = A!Busy \ {i}
  BY <1>1, <1>4, OperationEnds
<1>6. A!OperationsCounted' /\ numop' \in Nat
  <2>1. numop' = Cardinality(A!Busy)' /\ numop' \in Nat
    BY <1>1, <1>4, <1>5, BusyCount DEF AioInv
  <2>2. aiolist' = A!Busy'
    BY <1>4, <1>5 DEF AioInv, A!OperationsCounted
  <2> QED BY <2>1, <2>2, SameCount DEF A!OperationsCounted
<1>7. AioTypes'
  <2>1. i' \in A!Slots /\ pc' \in {"scan", "check"}
    BY NextSlotTypes DEF AioInv, AioTypes
  <2>2. op' \in [A!Slots -> {A!UNUSED, A!READ_PENDING, A!WRITE_PENDING}]
    BY <1>4 DEF AioInv, AioTypes, A!TypeOK
  <2>3. A!TypeOK'
    BY <1>4, <1>6, <2>1, <2>2 DEF AioInv, AioTypes, A!TypeOK, A!Blocks
  <2> QED BY <1>4, <2>3 DEF AioInv, AioTypes
<1>8. Buffers'
  <2> SUFFICES ASSUME NEW s \in A!Slots
               PROVE  IF op'[s] = A!UNUSED THEN request'[s] # "inprogress"
                      ELSE \E a \in A!Blocks : Holds(s, a)'
    BY <1>4 DEF Buffers, A!Blocks
  <2>1. CASE s = i
    BY <1>1, <1>4, <2>1 DEF AioInv, AioTypes, A!TypeOK
  <2>2. CASE s # i
    <3>1. op'[s] = op[s]
      BY <1>4, <2>2 DEF AioInv, AioTypes, A!TypeOK
    <3> QED BY <1>4, <3>1, OtherBuffers
  <2> QED BY <2>1, <2>2
<1>9. A!EachBlockOnce'
  <2>1. \A s, t \in A!Busy' : s # t => offset'[s] # offset'[t]
    BY <1>4, <1>5 DEF AioInv, A!EachBlockOnce
  <2>2. ASSUME NEW a \in A!Blocks
        PROVE  \/ a * BSZ >= off /\ output[a] = A!Hole
               \/ output[a] # A!Hole
               \/ \E s \in A!Busy' : A!Block(offset'[s]) = a
    BY <1>3, <1>4, <1>5 DEF AioInv, A!EachBlockOnce
  <2> QED BY <1>4, <2>1, <2>2 DEF A!EachBlockOnce, A!Blocks
<1>10. Written'
  BY <1>4 DEF AioInv, Written, A!Blocks
<1>11. pc' \notin {"fsync", "exited"}
  BY NextSlotTypes DEF AioInv, AioTypes
<1> QED BY <1>6, <1>7, <1>8, <1>9, <1>10, <1>11 DEF AioInv

(* The kernel is done with a request: it failed, wrote too little, read    *)
(* the block, or wrote it.                                                 *)
LEMMA CompleteStep ==
  ASSUME AioInv, NEW s \in A!Slots, A!Complete(s)
  PROVE  AioInv'
<1> USE DEF A!Complete
<1>1. op[s] # A!UNUSED
  BY DEF AioInv, Buffers
<1>2. PICK b \in A!Blocks : Holds(s, b)
  BY <1>1 DEF AioInv, Buffers
<1>3. /\ offset[s] = b * BSZ /\ A!Block(offset[s]) = b /\ offset[s] < off
      /\ input.block[b] \in A!R!Byte
      /\ A!R!translate(input.block[b]) \in A!R!Byte
      /\ A!Available(offset[s]) \in Nat
  BY <1>2, SomethingRead, BlocksOf DEF Holds, AioInv, AioTypes
<1>4. output[b] = A!Hole /\ request[s] = "inprogress"
  BY <1>1, <1>2 DEF Holds, AioInv, AioTypes, A!TypeOK
<1>5. A!Busy' = A!Busy /\ A!Blocks' = A!Blocks
  BY DEF A!Busy, A!Blocks
<1>6. A!OperationsCounted' /\ numop \in Nat
  BY <1>5, BusyCount DEF AioInv, A!OperationsCounted
<1>7. pc' \notin {"fsync", "exited"} \/ (numop' = 0 /\ off' >= input'.st_size)
  BY DEF AioInv
(* What the request's end is, for this buffer and the output. *)
<1>8. PICK what \in {"error", "done"} : request' = [request EXCEPT ![s] = what]
  OBVIOUS
<1>9. \/ UNCHANGED <<data, output>> /\ what = "error" /\ result' = result
      \/ /\ UNCHANGED <<data, output>> /\ what = "done" /\ op[s] = A!WRITE_PENDING
         /\ result' = [result EXCEPT ![s] = nbytes[s] - 1]
      \/ /\ op[s] = A!READ_PENDING /\ what = "done" /\ UNCHANGED output
         /\ result' = [result EXCEPT ![s] = A!Available(offset[s])]
         /\ data' = [data EXCEPT ![s] = input.block[b]]
      \/ /\ op[s] = A!WRITE_PENDING /\ what = "done" /\ UNCHANGED data
         /\ result' = [result EXCEPT ![s] = nbytes[s]]
         /\ output' = [output EXCEPT ![b] = data[s]]
  BY <1>1, <1>3, <1>8 DEF AioInv, AioTypes, A!TypeOK
<1>10. op[s] = A!WRITE_PENDING => data[s] = A!R!translate(input.block[b])
  BY <1>2 DEF Holds
<1>11. /\ output' \in [A!Blocks -> A!R!Byte \union {A!Hole}]
       /\ \A a \in A!Blocks : a # b => output'[a] = output[a]
       /\ output'[b] \in {A!Hole, A!R!translate(input.block[b])}
  BY <1>2, <1>3, <1>4, <1>9, <1>10 DEF AioInv, AioTypes, A!TypeOK
<1>12. /\ data' \in [A!Slots -> A!R!Byte \union {A!Hole}]
       /\ result' \in [A!Slots -> Int]
       /\ request' \in [A!Slots -> {"none", "inprogress", "error", "done"}]
  BY <1>3, <1>8, <1>9 DEF AioInv, AioTypes, A!TypeOK
<1>13. AioTypes'
  BY <1>5, <1>11, <1>12 DEF AioInv, AioTypes, A!TypeOK
<1>14. Written'
  <2>1. \A a \in A!Blocks : output'[a] # A!Hole
                 => a * BSZ < off /\ output'[a] = A!R!translate(input.block[a])
    BY <1>3, <1>11 DEF AioInv, Written
  <2> QED BY <1>5, <2>1 DEF AioInv, Written
<1>15. A!EachBlockOnce'
  <2>1. \A t, u \in A!Busy : t # u => offset[t] # offset[u]
    BY DEF AioInv, A!EachBlockOnce
  <2>2. pc \notin {"exited", "failed"} /\ s \in A!Busy
    BY <1>1 DEF A!Busy
  <2>3. ASSUME NEW a \in A!Blocks
        PROVE  \/ a * BSZ >= off /\ output'[a] = A!Hole
               \/ output'[a] # A!Hole
               \/ \E t \in A!Busy : A!Block(offset[t]) = a
    BY <1>3, <1>11, <2>2 DEF AioInv, A!EachBlockOnce
  <2> QED BY <1>5, <2>1, <2>3 DEF A!EachBlockOnce
<1>16. Buffers'
  <2> SUFFICES ASSUME NEW t \in A!Slots
               PROVE  IF op'[t] = A!UNUSED THEN request'[t] # "inprogress"
                      ELSE \E a \in A!Blocks : Holds(t, a)'
    BY <1>5 DEF Buffers
  <2>1. CASE t = s
    <3>1. Holds(s, b)'
      <4>1. /\ request'[s] = what /\ nbytes'[s] = nbytes[s] /\ nbytes[s] \in Int
            /\ op'[s] = op[s] /\ offset'[s] = offset[s]
        BY <1>8 DEF AioInv, AioTypes
      <4>2. op[s] = A!READ_PENDING =>
              /\ output'[b] = A!Hole
              /\ what = "done" => result'[s] = A!Available(offset[s]) /\ data'[s] = input.block[b]
        BY <1>4, <1>9 DEF AioInv, AioTypes, A!TypeOK, A!READ_PENDING, A!WRITE_PENDING
      <4>3. op[s] = A!WRITE_PENDING =>
              /\ data'[s] = A!R!translate(input.block[b])
              /\ output'[b] = IF what = "done" /\ result'[s] = nbytes[s] THEN data'[s] ELSE A!Hole
        BY <1>2, <1>4, <1>9, <1>10, <4>1
        DEF AioInv, AioTypes, A!TypeOK, A!READ_PENDING, A!WRITE_PENDING
      <4> QED BY <1>3, <4>1, <4>2, <4>3 DEF Holds, A!Available
    <3> QED BY <1>1, <1>2, <2>1, <3>1
  <2>2. CASE t # s
    <3>1. /\ op'[t] = op[t] /\ offset'[t] = offset[t] /\ request'[t] = request[t]
          /\ nbytes'[t] = nbytes[t] /\ result'[t] = result[t] /\ data'[t] = data[t]
      BY <1>8, <1>9, <2>2 DEF AioInv, AioTypes, A!TypeOK
    <3>2. ASSUME NEW a \in A!Blocks, Holds(t, a), op[t] # A!UNUSED
          PROVE  output'[a] = output[a]
      <4>1. offset[t] # offset[s]
        BY <1>1, <2>2, <3>2 DEF AioInv, A!EachBlockOnce, A!Busy
      <4>2. a # b
        BY <1>3, <3>2, <4>1 DEF Holds
      <4> QED BY <1>11, <4>2
    <3> QED BY <3>1, <3>2, OtherBuffers
  <2> QED BY <2>1, <2>2
<1> QED BY <1>6, <1>7, <1>13, <1>14, <1>15, <1>16 DEF AioInv

LEMMA AioInvStep == AioInv /\ [A!Next]_aiovars => AioInv'
<1> SUFFICES ASSUME AioInv, [A!Next]_aiovars PROVE AioInv'
  OBVIOUS
<1>1. CASE A!Main
  BY <1>1, StartReadStep, ScanStep, StartWriteStep, FinishWriteStep DEF A!Main
<1>2. CASE \E s \in A!Slots : A!Complete(s)
  BY <1>2, CompleteStep
<1>3. CASE UNCHANGED aiovars
  <2>1. UNCHANGED <<input, pc, i, off, numop, aiolist, A!slotvars, A!kernelvars>>
    BY <1>3 DEF aiovars, A!slotvars, A!kernelvars
  <2> QED BY <2>1 DEF AioInv, AioTypes, Buffers, Holds, Written, A!TypeOK, A!Slots, A!Blocks,
        A!OperationsCounted, A!EachBlockOnce, A!Busy, A!Available, A!slotvars, A!kernelvars
<1> QED BY <1>1, <1>2, <1>3 DEF A!Next

(* Where the loop has ended every block is in the output, translated.      *)
LEMMA CompleteAtEnd ==
  ASSUME AioInv, pc = "fsync"
  PROVE  output = A!R!Expected
<1>1. A!Busy = {}
  BY SameCount, BusyFinite, FS_EmptySet DEF AioInv, A!OperationsCounted
<1>2. ASSUME NEW b \in A!Blocks PROVE output[b] = A!R!translate(input.block[b])
  <2>1. b * BSZ \in Nat /\ b * BSZ < input.st_size /\ off >= input.st_size
        /\ off \in Nat /\ input.st_size \in Nat
    BY BlocksOf, SomethingRead DEF AioInv, AioTypes, A!TypeOK
  <2>2. output[b] # A!Hole
    BY <1>1, <2>1 DEF AioInv, A!EachBlockOnce
  <2> QED BY <2>2 DEF AioInv, Written
<1>3. output = [b \in A!Blocks |-> output[b]]
  BY DEF AioInv, AioTypes, A!TypeOK
<1> QED BY <1>2, <1>3 DEF A!R!Expected, A!Blocks

LEMMA RotatedInit == A!Init => A!R!Init
<1> SUFFICES ASSUME A!Init PROVE A!R!Init
  OBVIOUS
<1>1. /\ input \in RotFiles /\ output = [b \in DOMAIN input.block |-> 256] /\ pc = "scan"
  BY DEF A!Init, A!Blocks, A!Hole
<1> QED BY <1>1 DEF A!R!Init, A!R!Hole

(* A write that is done copies a block; the end of the program is the end  *)
(* of the copy; all else is invisible.                                     *)
LEMMA RotatedStep == AioInv /\ [A!Next]_aiovars => [A!R!Next]_(A!R!vars)
<1> SUFFICES ASSUME AioInv, [A!Next]_aiovars PROVE [A!R!Next]_(A!R!vars)
  OBVIOUS
<1>1. ASSUME UNCHANGED <<input, output>>, pc \notin {"exited", "failed"},
             pc' \notin {"exited", "failed"}
      PROVE  UNCHANGED A!R!vars
  BY <1>1 DEF A!R!vars
<1>2. ASSUME UNCHANGED <<input, output>>, pc \notin {"exited", "failed"},
             pc' = "failed" \/ (pc' = "exited" /\ output = A!R!Expected)
      PROVE  A!R!Finish
  BY <1>2 DEF A!R!Finish
<1>3. CASE A!StartRead \/ A!StartWrite \/ A!FinishWrite \/ A!Skip
  BY <1>1, <1>3, NextSlotTypes
  DEF A!StartRead, A!StartWrite, A!FinishWrite, A!Skip, A!Submit, A!kernelvars, AioInv, AioTypes
<1>4. CASE A!Check \/ A!Resume
  BY <1>1, <1>4 DEF A!Check, A!Resume, A!kernelvars
<1>5. CASE A!Quit \/ A!SubmitFails \/ A!Exit
  BY <1>2, <1>5, CompleteAtEnd DEF A!Quit, A!SubmitFails, A!Exit, A!kernelvars, A!R!Next
<1>6. ASSUME NEW s \in A!Slots, A!Complete(s) PROVE [A!R!Next]_(A!R!vars)
  <2>1. pc' = pc /\ pc \notin {"exited", "failed"} /\ UNCHANGED input
    BY <1>6 DEF A!Complete
  <2>2. CASE UNCHANGED output
    BY <1>1, <2>1, <2>2
  <2>3. CASE output' # output
    <3>1. /\ op[s] = A!WRITE_PENDING /\ request[s] = "inprogress"
          /\ output' = [output EXCEPT ![A!Block(offset[s])] = data[s]]
      BY <1>6, <2>3
      DEF A!Complete, AioInv, AioTypes, A!TypeOK, Buffers, A!UNUSED, A!READ_PENDING,
          A!WRITE_PENDING
    <3>2. PICK b \in A!Blocks : Holds(s, b)
      BY <3>1 DEF AioInv, Buffers, A!UNUSED, A!WRITE_PENDING
    <3>3. A!Block(offset[s]) = b
      BY <3>2, SomethingRead DEF Holds
    <3>4. /\ output[b] = A!R!Hole /\ data[s] = A!R!Expected[b] /\ b \in DOMAIN input.block
      BY <3>1, <3>2 DEF Holds, A!Hole, A!R!Hole, A!R!Expected, A!Blocks
    <3>5. A!R!CopyBlock(b)
      BY <2>1, <3>1, <3>3, <3>4 DEF A!R!CopyBlock
    <3> QED BY <3>4, <3>5 DEF A!R!Next
  <2> QED BY <2>2, <2>3
<1>7. CASE UNCHANGED aiovars
  BY <1>7 DEF aiovars, A!R!vars
<1> QED BY <1>3, <1>4, <1>5, <1>6, <1>7 DEF A!Next, A!Main

-----------------------------------------------------------------------------
(* SyncRot: after k blocks the output has the first k, translated, and     *)
(* nothing else.                                                           *)
Sequence == InSequence(input)
FirstBlocks(k) ==
  copy = [b \in DOMAIN Sequence |-> IF b <= k THEN S!R!translate(Sequence[b]) ELSE S!Hole]

SyncInv ==
  /\ input \in RotFiles
  /\ spc \in {"read", "write", "exited", "failed"}
  /\ pos \in 0 .. Len(Sequence)
  /\ spc \in {"read", "exited"} => FirstBlocks(pos)
  /\ spc = "write" => /\ pos > 0 /\ buf = S!R!translate(Sequence[pos])
                      /\ FirstBlocks(pos - 1)
  /\ spc = "exited" /\ ~readFailed => pos = Len(Sequence)
  /\ readFailed => spc = "exited"

LEMMA SequenceOf ==
  ASSUME input \in RotFiles
  PROVE  Len(Sequence) \in Nat /\ DOMAIN Sequence = 1 .. Len(Sequence)
<1> DEFINE n == Cardinality(DOMAIN input.block)
<1>1. n \in Nat
  <2>1. input.st_size \in Nat /\ DOMAIN input.block \subseteq 0 .. input.st_size
    <3>1. input.block \in [{b \in 0 .. input.st_size : b * BSZ < input.st_size} -> A!R!Byte]
      BY RotBounds
    <3>2. DOMAIN input.block = {b \in 0 .. input.st_size : b * BSZ < input.st_size}
      BY <3>1
    <3> QED BY <3>2, RotBounds
  <2>2. IsFiniteSet(0 .. input.st_size)
    BY <2>1, FS_Interval
  <2>3. IsFiniteSet(DOMAIN input.block)
    BY <2>1, <2>2, FS_Subset
  <2> QED BY <2>3, FS_CardinalityType
<1>2. Sequence = [k \in 1 .. n |-> input.block[k - 1]]
  BY DEF Sequence, InSequence
<1> HIDE DEF n
<1> QED BY <1>1, <1>2

LEMMA SyncInvInit == A!Init /\ S!Init => SyncInv /\ S!R!Init
<1> SUFFICES ASSUME A!Init, S!Init PROVE SyncInv /\ S!R!Init
  OBVIOUS
<1>1. /\ input \in RotFiles /\ spc = "read" /\ pos = 0
      /\ copy = [b \in DOMAIN Sequence |-> S!Hole]
  BY DEF A!Init, S!Init, Sequence
<1>2. readFailed = FALSE
  BY DEF S!Init
<1>3. Len(Sequence) \in Nat /\ DOMAIN Sequence = 1 .. Len(Sequence)
  BY <1>1, SequenceOf
<1>4. \A b \in DOMAIN Sequence : ~(b <= 0)
  BY <1>3
<1>5. FirstBlocks(pos)
  BY <1>1, <1>4 DEF FirstBlocks
<1>6. SyncInv
  BY <1>1, <1>2, <1>3, <1>5 DEF SyncInv
<1>7. S!R!Init
  BY <1>1, <1>2 DEF S!R!Init, S!R!Hole, S!Hole, Sequence
<1> QED BY <1>6, <1>7

LEMMA SyncStep ==
  ASSUME SyncInv, S!Next, UNCHANGED input
  PROVE  SyncInv' /\ [S!R!Next]_(S!R!vars)
<1>0. Sequence' = Sequence
  BY Zenon DEF Sequence
<1>1. /\ Len(Sequence) \in Nat /\ DOMAIN Sequence = 1 .. Len(Sequence) /\ pos \in Nat
      /\ Sequence' = Sequence
  <2>1. input \in RotFiles /\ pos \in 0 .. Len(Sequence)
    BY DEF SyncInv
  <2>2. Len(Sequence) \in Nat /\ DOMAIN Sequence = 1 .. Len(Sequence)
    BY <2>1, SequenceOf
  <2> QED BY <1>0, <2>1, <2>2
<1>2. CASE S!Read
  <2>1. /\ spc = "read" /\ pos < Len(Sequence) /\ pos' = pos + 1 /\ spc' = "write"
        /\ buf' = S!R!translate(Sequence[pos + 1]) /\ UNCHANGED <<copy, readFailed>>
    BY <1>2 DEF S!Read, Sequence
  <2>2. FirstBlocks(pos - 1)'
    <3>1. FirstBlocks(pos)
      BY <2>1 DEF SyncInv
    <3>2. FirstBlocks(pos - 1)' <=> FirstBlocks(pos)
      BY <1>1, <2>1 DEF FirstBlocks
    <3> QED BY <3>1, <3>2
  <2>3. SyncInv'
    BY <1>1, <2>1, <2>2 DEF SyncInv, FirstBlocks
  <2>4. UNCHANGED S!R!vars
    BY <1>1, <2>1 DEF S!R!vars, Sequence, SyncInv
  <2> QED BY <2>3, <2>4
<1>3. CASE S!LeaveLoop
  <2>1. /\ spc = "read" /\ spc' = "exited" /\ UNCHANGED <<pos, buf, copy>>
        /\ (pos = Len(Sequence) /\ UNCHANGED readFailed) \/ readFailed' = TRUE
    BY <1>3 DEF S!LeaveLoop, Sequence
  <2>2. FirstBlocks(pos) /\ ~readFailed
    BY <2>1 DEF SyncInv
  <2>3. SyncInv'
    BY <1>1, <2>1, <2>2 DEF SyncInv, FirstBlocks
  <2>4. readFailed' \/ copy = S!R!Expected
    <3>1. ~readFailed' => pos = Len(Sequence)
      BY <2>1
    <3>2. pos = Len(Sequence) => copy = [b \in DOMAIN Sequence |-> S!R!translate(Sequence[b])]
      BY <1>1, <2>2 DEF FirstBlocks
    <3> QED BY <3>1, <3>2 DEF S!R!Expected, Sequence
  <2>5. S!R!Finish
    BY <1>1, <2>1, <2>2, <2>4 DEF S!R!Finish, Sequence
  <2> QED BY <2>3, <2>5 DEF S!R!Next
<1>4. CASE S!Write
  <2>1. /\ spc = "write" /\ UNCHANGED <<pos, buf, readFailed>> /\ pos > 0 /\ ~readFailed
        /\ FirstBlocks(pos - 1) /\ buf = S!R!translate(Sequence[pos])
    BY <1>4 DEF S!Write, SyncInv
  <2>2. CASE spc' = "failed" /\ UNCHANGED copy
    <3>1. SyncInv'
      BY <1>1, <2>1, <2>2 DEF SyncInv
    <3>2. S!R!Finish
      BY <1>1, <2>1, <2>2 DEF S!R!Finish, Sequence
    <3> QED BY <3>1, <3>2 DEF S!R!Next
  <2>3. CASE spc' = "read" /\ copy' = [copy EXCEPT ![pos] = buf]
    <3>1. pos \in DOMAIN Sequence
      BY <1>1, <2>1 DEF SyncInv
    <3>2. copy[pos] = S!Hole /\ S!R!Expected[pos] = buf
      BY <1>1, <2>1, <3>1 DEF FirstBlocks, S!R!Expected, Sequence
    <3>3. FirstBlocks(pos)'
      BY <1>1, <2>1, <2>3, <3>1 DEF FirstBlocks
    <3>4. SyncInv'
      BY <1>1, <2>1, <2>3, <3>3 DEF SyncInv
    <3>5. S!R!CopyBlock(pos)
      BY <1>1, <2>1, <2>3, <3>2 DEF S!R!CopyBlock, S!R!Hole, S!Hole, Sequence
    <3> QED BY <3>1, <3>4, <3>5 DEF S!R!Next, Sequence
  <2> QED BY <1>4, <2>2, <2>3 DEF S!Write
<1> QED BY <1>2, <1>3, <1>4 DEF S!Next

-----------------------------------------------------------------------------
(* HoleCopy: in a block that is one run to its end, a hole of l bytes is   *)
(* behind and the run begins, or all that was seen is a hole; nothing has  *)
(* been written.                                                           *)
OneRunOf(n) == \A k \in 1 .. n - 1 : file1[k] # 0 => file1[k + 1] # 0
InRun ==
  \/ /\ f = 0 /\ l = 0 /\ at2 = 0
     /\ \A k \in 1 .. j : file1[k] = 0
  \/ /\ f = 1 /\ at2 = l /\ l < j
     /\ \A k \in 1 .. l : file1[k] = 0
     /\ \A k \in l + 1 .. j : file1[k] # 0

HoleTypes ==
  /\ p6 \in {"read", "for", "write", "exit_0", "exit_1"}
  /\ Len(file1) \in Nat /\ file1 = [k \in 1 .. Len(file1) |-> file1[k]]
  /\ cnt \in 0 .. Len(file1) /\ cnt <= BUF_SIZE
  /\ j \in 0 .. cnt /\ l \in 0 .. j /\ f \in {0, 1} /\ all_cnt = 0

HoleInv ==
  /\ HoleTypes
  /\ p6 = "read" => cnt = 0 /\ at2 = 0
  /\ p6 \in {"read", "exit_0"} => file2 = <<>>
  /\ p6 = "exit_0" => Len(file1) = 0
  /\ p6 = "for" => j < cnt
  /\ p6 = "write" => j = cnt /\ cnt > 0
  /\ p6 \in {"for", "write"} /\ OneRunOf(cnt) => file2 = <<>> /\ InRun
  /\ p6 = "exit_1" /\ ~ioerror /\ OneRunOf(cnt) => file2 = SubSeq(file1, 1, cnt)

LEMMA HoleInvInit == H!Init => HoleInv
<1> SUFFICES ASSUME H!Init PROVE HoleInv
  OBVIOUS
<1>1. PICK n \in 0 .. MaxSize : file1 \in [1 .. n -> Bytes]
  BY DEF H!Init
<1>2. n \in Nat /\ BUF_SIZE \in Nat
  BY CopyBounds DEF H!Bounds
<1>3. Len(file1) = n /\ file1 = [k \in 1 .. n |-> file1[k]]
  <2>1. file1 \in Seq(Bytes)
    BY <1>1, <1>2
  <2> QED BY <1>1, <1>2, <2>1, LenProperties
<1> QED BY <1>2, <1>3 DEF H!Init, HoleInv, HoleTypes

LEMMA HoleInvSafe == HoleInv => H!Inv
<1> SUFFICES ASSUME HoleInv PROVE H!Inv
  OBVIOUS
<1> USE DEF HoleInv, HoleTypes
<1>1. SubSeq(file1, 1, cnt) = [k \in 1 .. cnt |-> file1[k]] /\ Len(SubSeq(file1, 1, cnt)) = cnt
  OBVIOUS
<1>2. H!OneRun(SubSeq(file1, 1, cnt)) => OneRunOf(cnt)
  BY <1>1 DEF H!OneRun, OneRunOf
<1>3. H!CopiesOneRun
  <2>1. CASE p6 = "exit_1"
    BY <1>2, <2>1 DEF H!CopiesOneRun
  <2>2. CASE p6 = "exit_0"
    BY <1>1, <2>2 DEF H!CopiesOneRun
  <2> QED BY <2>1, <2>2 DEF H!CopiesOneRun, H!Ended
<1>4. H!FirstBlockOnly
  BY DEF H!FirstBlockOnly
<1> QED BY <1>3, <1>4 DEF H!Inv

(* What is written after a hole at the beginning of an empty file.         *)
LEMMA WrittenBlock ==
  ASSUME HoleTypes, cnt > 0, j = cnt, InRun, file2 = <<>>
  PROVE  H!Written(file2, at2, [k \in 1 .. cnt - l |-> H!buff(l + k - 1)]) = SubSeq(file1, 1, cnt)
<1> USE DEF HoleTypes
<1> DEFINE b == [k \in 1 .. cnt - l |-> H!buff(l + k - 1)]
<1>1. Len(b) = cnt - l /\ \A k \in 1 .. cnt - l : b[k] = file1[l + k]
  BY DEF H!buff
<1> HIDE DEF b
<1>2. at2 = l /\ \A k \in 1 .. l : file1[k] = 0
  BY DEF InRun
<1>3. SubSeq(file1, 1, cnt) = [k \in 1 .. cnt |-> file1[k]]
  OBVIOUS
<1>4. H!Written(file2, at2, b) =
        [k \in 1 .. cnt |-> IF k > l THEN b[k - l] ELSE 0]
  BY <1>1, <1>2 DEF H!Written
<1>5. \A k \in 1 .. cnt : (IF k > l THEN b[k - l] ELSE 0) = file1[k]
  <2> SUFFICES ASSUME NEW k \in 1 .. cnt PROVE (IF k > l THEN b[k - l] ELSE 0) = file1[k]
    OBVIOUS
  <2>1. CASE k > l
    <3>1. k - l \in 1 .. cnt - l /\ l + (k - l) = k
      BY <2>1
    <3> QED BY <1>1, <2>1, <3>1
  <2>2. CASE k <= l
    BY <1>2, <2>2
  <2> QED BY <2>1, <2>2
<1> QED BY <1>3, <1>4, <1>5 DEF b

LEMMA HoleInvStep == HoleInv /\ [H!Next]_holevars => HoleInv'
<1> SUFFICES ASSUME HoleInv, [H!Next]_holevars PROVE HoleInv'
  OBVIOUS
<1>0. BUF_SIZE \in Nat \ {0}
  BY CopyBounds DEF H!Bounds
<1>1. CASE H!Read
  <2>1. /\ p6 = "read" /\ f' = 0 /\ l' = 0 /\ j' = 0 /\ cnt' \in 0 .. Len(file1)
        /\ cnt' <= BUF_SIZE /\ (cnt' = 0 <=> Len(file1) = 0)
        /\ p6' = IF cnt' = 0 THEN "exit_0" ELSE "for"
        /\ UNCHANGED <<file1, file2, all_cnt>>
    BY <1>0, <1>1 DEF H!Read, HoleInv, HoleTypes
  <2>2. HoleTypes'
    BY <1>0, <2>1 DEF HoleInv, HoleTypes
  <2>3. (file2 = <<>>)' /\ InRun' /\ ~(p6' \in {"read", "write", "exit_1"})
    BY <1>1, <2>1 DEF H!Read, HoleInv, InRun
  <2> QED BY <2>1, <2>2, <2>3 DEF HoleInv, HoleTypes
<1>2. CASE H!For
  <2>1. HoleTypes' /\ cnt' = cnt /\ p6 = "for" /\ p6' \in {"for", "write"}
    BY <1>2 DEF H!For, HoleInv, HoleTypes
  <2>2. /\ p6' = "for" => j' < cnt'
        /\ p6' = "write" => j' = cnt' /\ cnt' > 0
    BY <1>2 DEF H!For, HoleInv, HoleTypes
  <2>3. OneRunOf(cnt)' => OneRunOf(cnt)
    BY <1>2 DEF H!For, OneRunOf
  <2>4. ASSUME OneRunOf(cnt) PROVE (file2 = <<>> /\ InRun)'
    <3>1. /\ file2 = <<>> /\ InRun /\ j \in Nat /\ j < cnt /\ cnt \in Nat
          /\ H!buff(j) = file1[j + 1] /\ j' = j + 1 /\ UNCHANGED file1 /\ l \in Nat /\ l <= j
      BY <1>2, <2>1, <2>4 DEF H!For, HoleInv, HoleTypes, H!buff
    <3>2. CASE f = 0 /\ file1[j + 1] # 0
      <4>1. f' = 1 /\ l' = j /\ at2' = j /\ file2' = file2
        BY <1>2, <3>1, <3>2 DEF H!For, HoleInv, HoleTypes
      <4> QED BY <3>1, <3>2, <4>1 DEF InRun
    <3>3. CASE f = 1 /\ file1[j + 1] = 0
      <4>1. j \in 1 .. cnt - 1 /\ file1[j] # 0
        BY <3>1, <3>3 DEF InRun
      <4> QED BY <2>4, <3>3, <4>1 DEF OneRunOf
    <3>4. CASE (f = 0) = (file1[j + 1] = 0)
      <4>1. UNCHANGED <<f, l, at2, file2>>
        BY <1>2, <3>1, <3>4 DEF H!For
      <4> QED BY <3>1, <3>4, <4>1 DEF InRun
    <3> QED BY <3>2, <3>3, <3>4 DEF HoleInv, HoleTypes
  <2> QED BY <2>1, <2>2, <2>3, <2>4 DEF HoleInv
<1>3. CASE H!Write
  <2>1. /\ p6 = "write" /\ p6' = "exit_1" /\ UNCHANGED <<file1, cnt, j, f, l, all_cnt, ioerror>>
        /\ file2' = H!Written(file2, at2, [k \in 1 .. cnt - l |-> H!buff(l + k - 1)])
    BY <1>3 DEF H!Write
  <2>2. HoleTypes'
    BY <2>1 DEF HoleInv, HoleTypes
  <2>3. OneRunOf(cnt)' => file2' = SubSeq(file1, 1, cnt)
    BY <2>1, WrittenBlock DEF HoleInv, OneRunOf
  <2> QED BY <2>1, <2>2, <2>3 DEF HoleInv
<1>4. CASE H!Fails
  BY <1>4 DEF H!Fails, HoleInv, HoleTypes
<1>5. CASE UNCHANGED holevars
  BY <1>5 DEF holevars, HoleInv, HoleTypes, OneRunOf, InRun
<1> QED BY <1>1, <1>2, <1>3, <1>4, <1>5 DEF H!Next

-----------------------------------------------------------------------------
(* PlainCopy: who reads again has written what it held, unless the library *)
(* holds it (1.5.4).                                                       *)
PlainInv ==
  /\ C!Inv
  /\ tpc = "read" /\ tool # "1.5.4" => held = 0
  /\ tpc = "read" => ~silent
  /\ tpc = "read" /\ tool = "14.2" => fsz = 0
  /\ tpc = "broken" => tool = "14.2"

LEMMA PlainBounds == MaxBlocks \in Nat /\ BUFFSIZE \in Nat \ {0}
BY CopyBounds DEF C!Bounds

LEMMA Smaller == \A a, b \in Nat : C!Min({a, b}) = IF a <= b THEN a ELSE b
BY DEF C!Min

LEMMA PlainInvInit == C!Init => PlainInv
<1> SUFFICES ASSUME C!Init PROVE PlainInv
  OBVIOUS
<1>1. {full, silent} \subseteq BOOLEAN
  BY Zenon DEF C!Init
<1> QED BY <1>1, PlainBounds DEF C!Init, PlainInv, C!Inv, C!TypeOK, C!Gone

LEMMA PlainFlags ==
  ASSUME {full, silent} \subseteq BOOLEAN, [C!Next]_plainvars
  PROVE  {full, silent}' \subseteq BOOLEAN
<1>1. (full' = full \/ full' \in BOOLEAN) /\ (silent' = silent \/ silent' = TRUE)
  <2>1. C!Unbuf => full' = full /\ silent' = silent
    BY DEF C!Unbuf, C!Read, C!Write, C!ReadFails, C!EndOfFile
  <2>2. C!Stdio => full' = full /\ (silent' = silent \/ silent' = TRUE)
    BY DEF C!Stdio, C!Putc, C!Flush, C!Exit
  <2>3. C!NonBlocking =>
          (full' = full \/ full' \in BOOLEAN) /\ (silent' = silent \/ silent' = TRUE)
    BY DEF C!NonBlocking, C!ReadOnce, C!WriteSome, C!WriteBroken, C!ReaderGone, C!WrittenAll
  <2>4. C!Mapped => full' = full /\ silent' = silent
    BY DEF C!Mapped, C!Map, C!Memcpy, C!ReadFails, C!EndOfFile
  <2>5. C!Drain => full' \in BOOLEAN /\ silent' = silent
    BY Zenon DEF C!Drain
  <2>6. UNCHANGED plainvars => full' = full /\ silent' = silent
    BY DEF plainvars
  <2> QED BY <2>1, <2>2, <2>3, <2>4, <2>5, <2>6 DEF C!Next, C!Copy
<1>2. full \in BOOLEAN /\ silent \in BOOLEAN
  BY Zenon
<1>3. full' \in BOOLEAN /\ silent' \in BOOLEAN
  BY <1>1, <1>2, Zenon
<1> QED BY <1>3, Zenon

LEMMA PlainInvStep == PlainInv /\ [C!Next]_plainvars => PlainInv'
<1> SUFFICES ASSUME PlainInv, [C!Next]_plainvars PROVE PlainInv'
  OBVIOUS
<1> USE PlainBounds DEF PlainInv, C!Inv, C!TypeOK, C!Gone, C!Goto, C!Tools
<1>0. {full, silent}' \subseteq BOOLEAN
  BY PlainFlags
<1>1. CASE C!Unbuf
  BY <1>0, <1>1 DEF C!Unbuf, C!Read, C!Write, C!ReadFails, C!EndOfFile, C!Take, C!Put
<1>2. CASE C!Stdio
  BY <1>0, <1>2 DEF C!Stdio, C!Putc, C!Flush, C!Exit, C!Take, C!Put
<1>3. CASE C!NonBlocking
  <2>1. CASE C!ReadOnce
    BY <1>0, <1>3, <2>1 DEF C!NonBlocking, C!ReadOnce, C!Take
  <2>2. CASE C!WriteSome
    <3>1. UNCHANGED <<tool, tpc, st_size, fsz, silent>>
      BY <2>2 DEF C!WriteSome
    <3>2. PICK n \in 1 .. held : copied' = copied + n /\ held' = held - n
      BY <2>2 DEF C!WriteSome, C!Put
    <3>3. tpc = "write" /\ tool = "14.2"
      BY <1>3, <2>2 DEF C!NonBlocking, C!WriteSome
    <3> QED BY <1>0, <3>1, <3>2, <3>3
  <2>3. CASE C!WriteBroken \/ C!ReaderGone \/ C!WrittenAll
    BY <1>0, <1>3, <2>3 DEF C!NonBlocking, C!WriteBroken, C!ReaderGone, C!WrittenAll
  <2> QED BY <1>3, <2>1, <2>2, <2>3 DEF C!NonBlocking
<1>4. CASE C!Mapped
  <2>1. CASE C!Map
    <3> DEFINE n == C!Min({BUFFSIZE, st_size - fsz})
    <3>1. n \in 1 .. BUFFSIZE /\ fsz + n <= st_size
      BY <2>1, Smaller DEF C!Map
    <3>2. fsz' = fsz + n /\ held' = held + n /\ UNCHANGED <<tool, st_size, copied, full, silent>>
          /\ tpc = "read" /\ tpc' = "write" /\ tool = "14.8"
      BY <1>4, <2>1 DEF C!Mapped, C!Map, C!Take
    <3> HIDE DEF n
    <3> QED BY <1>0, <3>1, <3>2
  <2>2. CASE C!Memcpy \/ C!ReadFails \/ C!EndOfFile
    BY <1>0, <1>4, <2>2 DEF C!Mapped, C!Memcpy, C!ReadFails, C!EndOfFile, C!Put
  <2> QED BY <1>4, <2>1, <2>2 DEF C!Mapped
<1>5. CASE C!Drain
  BY <1>0, <1>5 DEF C!Drain
<1>6. CASE UNCHANGED plainvars
  BY <1>0, <1>6 DEF plainvars
<1> QED BY <1>1, <1>2, <1>3, <1>4, <1>5, <1>6 DEF C!Next, C!Copy

LEMMA PlainInvSafe == PlainInv => C!Inv
BY DEF PlainInv

-----------------------------------------------------------------------------
(* StdinCopy: each round starts at a multiple of two buffers; before the   *)
(* offset the file is shuffled, after it it is as it was; and the program  *)
(* stands at the end of a file once that has grown.                        *)
Starts(o) == o \in Nat /\ I!Round(o) = o

ShuffledUpTo(o) ==
  content = [b \in 0 .. length - 1 |-> IF b < o THEN I!Shuffled(b) ELSE b]

AtRead ==
  /\ \/ position = length
     \/ length = original /\ Starts(position)
  /\ ShuffledUpTo(position)

AtWrite ==
  /\ length = original /\ nread = I!Most(position - nread, original)
  /\ Starts(position - nread) /\ ShuffledUpTo(position - nread)
  /\ chunk = [k \in 0 .. nread - 1 |-> position - nread + k]

StdinInv ==
  /\ I!Inv
  /\ ipc = "write" => nread > 0
  /\ stdin = "input" /\ ipc = "read" => position = 0
  /\ stdin = "stream" /\ ipc = "read" => echoed = position
  /\ stdin = "stream" /\ ipc = "write" => echoed = position - nread
  /\ stdin = "file" /\ ipc = "read" => AtRead
  /\ stdin = "file" /\ ipc = "write" => AtWrite

LEMMA StdinBounds == MaxBlocks \in Nat /\ BUFFSIZE \in Nat \ {0}
BY CopyBounds DEF I!Bounds

LEMMA MostFacts ==
  \A o, n \in Nat :
    /\ I!Most(o, n) \in Int /\ I!Most(o, n) <= BUFFSIZE /\ I!Most(o, n) <= n - o
    /\ I!Most(o, n) # BUFFSIZE => I!Most(o, n) = n - o
BY StdinBounds DEF I!Most

(* A round handles the blocks of the two buffers from its start. *)
LEMMA RoundFacts ==
  /\ Starts(0)
  /\ \A o \in Nat : Starts(o) =>
       /\ Starts(o + 2 * BUFFSIZE)
       /\ \A k \in 0 .. 2 * BUFFSIZE - 1 : I!Round(o + k) = o
<1> DEFINE B == 2 * BUFFSIZE
<1>1. B \in Nat \ {0}
  BY StdinBounds
<1>2. \A o \in Nat : I!Round(o) = B * (o \div B)
  BY DEF I!Round
<1> HIDE DEF B
<1>3. ASSUME NEW q \in Nat, NEW k \in 0 .. B - 1 PROVE (B * q + k) \div B = q
  <2> DEFINE t == B * q + k
             w == t \div B
  <2>1. t \in Nat /\ q * B <= t /\ t < (q + 1) * B
    BY <1>1, SMTT(30)
  <2> HIDE DEF t
  <2>2. w \in Nat /\ w * B <= t /\ t < (w + 1) * B
    BY <1>1, <2>1
  <2> HIDE DEF w
  <2>3. ~(w < q)
    <3> SUFFICES ASSUME w < q PROVE FALSE
      OBVIOUS
    <3>1. (w + 1) * B <= q * B
      BY <1>1, <2>2
    <3> QED BY <1>1, <2>1, <2>2, <3>1
  <2>4. ~(q < w)
    <3> SUFFICES ASSUME q < w PROVE FALSE
      OBVIOUS
    <3>1. (q + 1) * B <= w * B
      BY <1>1, <2>2
    <3> QED BY <1>1, <2>1, <2>2, <3>1
  <2>5. w = q
    BY <2>2, <2>3, <2>4
  <2> QED BY <2>5 DEF w, t
<1>4. Starts(0)
  BY <1>1, <1>2, <1>3 DEF Starts
<1>5. ASSUME NEW o \in Nat, Starts(o) PROVE Starts(o + B) /\ \A k \in 0 .. B - 1 : I!Round(o + k) = o
  <2> DEFINE q == o \div B
  <2>1. q \in Nat /\ o = B * q
    BY <1>1, <1>2, <1>5 DEF Starts
  <2> HIDE DEF q
  <2>2. o + B = B * (q + 1) + 0 /\ q + 1 \in Nat /\ o + B \in Nat
    BY <1>1, <2>1
  <2>3. (o + B) \div B = q + 1
    <3>1. 0 \in 0 .. B - 1 /\ q + 1 \in Nat
      BY <1>1, <2>1
    <3>2. (B * (q + 1) + 0) \div B = q + 1
      BY <1>3, <3>1
    <3> QED BY <2>2, <3>2
  <2>4. Starts(o + B)
    <3>1. I!Round(o + B) = B * (q + 1)
      BY <1>2, <2>2, <2>3
    <3> QED BY <1>1, <2>1, <2>2, <3>1 DEF Starts
  <2>5. ASSUME NEW k \in 0 .. B - 1 PROVE I!Round(o + k) = o
    <3>1. (o + k) \div B = q
      BY <1>3, <2>1
    <3>2. o + k \in Nat
      BY <1>1
    <3> QED BY <1>2, <2>1, <3>1, <3>2
  <2> QED BY <2>4, <2>5
<1> QED BY <1>4, <1>5 DEF B

LEMMA StdinInvInit == I!Init => StdinInv
BY StdinBounds, RoundFacts
   DEF I!Init, StdinInv, AtRead, ShuffledUpTo, I!Inv, I!TypeOK, I!Gone

(* A round that ends: what it read stays, and is repeated behind. *)
LEMMA RoundShuffles ==
  ASSUME StdinInv, stdin = "file", ipc = "write", NEW b \in 0 .. position + nread - 1,
         b >= position - nread
  PROVE  I!Shuffled(b) = IF b < position THEN b ELSE b - nread
<1> DEFINE o == position - nread
<1>1. o \in Nat /\ Starts(o) /\ nread = I!Most(o, original) /\ nread \in 1 .. BUFFSIZE
      /\ original \in Nat /\ position \in Nat
  BY StdinBounds DEF StdinInv, AtWrite, I!Inv, I!TypeOK, Starts
<1>2. b - o \in 0 .. 2 * BUFFSIZE - 1
  BY <1>1, StdinBounds
<1>3. I!Round(o + (b - o)) = o
  BY <1>1, <1>2, RoundFacts
<1>4. I!Round(b) = o
  BY <1>1, <1>3
<1> QED BY <1>1, <1>4 DEF I!Shuffled

LEMMA StdinInvStep == StdinInv /\ [I!Next]_stdinvars => StdinInv'
<1> SUFFICES ASSUME StdinInv, [I!Next]_stdinvars PROVE StdinInv'
  OBVIOUS
<1> USE StdinBounds
<1>0. /\ stdin \in {"input", "file", "stream"}
      /\ original \in 0 .. MaxBlocks /\ length \in original .. original + BUFFSIZE
      /\ position \in 0 .. length /\ nread \in 0 .. BUFFSIZE /\ echoed \in 0 .. original
      /\ original \in Nat /\ length \in Nat /\ position \in Nat /\ echoed \in Nat
  BY DEF StdinInv, I!Inv, I!TypeOK
<1>5. /\ content \in [0 .. length - 1 -> 0 .. original - 1]
      /\ stdin # "file" => length = original /\ content = [b \in 0 .. length - 1 |-> b]
  BY DEF StdinInv, I!Inv, I!TypeOK
<1>6. UNCHANGED original => \A b : I!Shuffled(b)' = I!Shuffled(b)
  BY DEF I!Shuffled, I!Round, I!Most
<1>1. CASE I!Read
  <2>1. PICK r \in 1 .. I!Most(position, length) :
          /\ nread' = r /\ position' = position + r
          /\ chunk' = [k \in 0 .. r - 1 |-> content[position + k]]
          /\ stdin = "file" => r = I!Most(position, length)
    BY <1>1 DEF I!Read
  <2>2. ipc = "read" /\ ipc' = "write" /\ UNCHANGED <<stdin, original, content, length, echoed>>
    BY <1>1 DEF I!Read, I!Goto
  <2>3. r \in 1 .. BUFFSIZE /\ position + r \in 1 .. length /\ position < length
    <3>1. I!Most(position, length) <= BUFFSIZE /\ I!Most(position, length) <= length - position
          /\ I!Most(position, length) \in Int
      BY <1>0, MostFacts
    <3> QED BY <1>0, <3>1
  <2>4. I!Inv'
    <3>1. I!TypeOK'
      BY <1>0, <1>5, <2>1, <2>2, <2>3 DEF I!TypeOK
    <3> QED BY <1>5, <2>2, <3>1 DEF I!Inv
  <2>5. stdin = "file" => AtWrite'
    <3> SUFFICES ASSUME stdin = "file" PROVE AtWrite'
      OBVIOUS
    <3>1. AtRead
      BY <2>2 DEF StdinInv
    <3>2. length = original /\ Starts(position) /\ ShuffledUpTo(position)
      BY <1>0, <2>3, <3>1 DEF AtRead
    <3>3. position' - nread' = position
      BY <1>0, <2>1, <2>3
    <3>4. content' = [b \in 0 .. length' - 1 |-> IF b < position THEN I!Shuffled(b)' ELSE b]
      BY <1>6, <2>2, <3>2 DEF ShuffledUpTo
    <3>5. \A k \in 0 .. r - 1 : position + k \in 0 .. length - 1 /\ ~(position + k < position)
      BY <1>0, <2>3
    <3>6. chunk' = [k \in 0 .. nread' - 1 |-> position + k]
      BY <2>1, <3>2, <3>5 DEF ShuffledUpTo
    <3>7. nread' = I!Most(position, original) /\ length' = original' /\ original' = original
      BY <2>1, <2>2, <3>2
    <3>8. position \in Nat /\ I!Round(position) = position
      BY <3>2 DEF Starts
    <3> QED BY <3>3, <3>4, <3>6, <3>7, <3>8 DEF AtWrite, ShuffledUpTo, I!Most, Starts, I!Round
  <2>6. stdin = "stream" => echoed' = position' - nread'
    BY <1>0, <2>1, <2>2, <2>3 DEF StdinInv
  <2>7. ipc' = "write" /\ nread' > 0 /\ stdin' = stdin
    BY <2>1, <2>2, <2>3
  <2> QED BY <2>2, <2>4, <2>5, <2>6, <2>7, Zenon DEF StdinInv
<1>2. CASE I!ReadEnds
  <2>1. /\ ipc = "read" /\ ((ipc' = "exit_0" /\ position = length) \/ ipc' = "exit_1")
        /\ UNCHANGED <<stdin, original, content, length, position, chunk, nread, echoed>>
    BY <1>2 DEF I!ReadEnds, I!Goto
  <2>2. stdin = "file" /\ position = length => \A b \in 0 .. length - 1 : content[b] = I!Shuffled(b)
    BY <1>0, <2>1 DEF StdinInv, AtRead, ShuffledUpTo
  <2>3. stdin # "file" /\ ipc' = "exit_0" =>
          \/ stdin = "input" /\ length = 0
          \/ stdin = "stream" /\ echoed = original
    BY <1>0, <2>1 DEF StdinInv
  <2>5. I!Inv'
    BY <1>0, <1>5, <1>6, <2>1, <2>2, <2>3 DEF I!Inv, I!TypeOK, I!Gone
  <2> QED BY <2>1, <2>5 DEF StdinInv
<1>3. CASE I!Write
  <2>1. /\ ipc = "write" /\ UNCHANGED <<stdin, original, chunk, nread>> /\ nread \in 1 .. BUFFSIZE
        /\ original' = original
    BY <1>0, <1>3 DEF I!Write, I!Goto, StdinInv
  <2>2. CASE stdin = "input"
    BY <1>0, <1>3, <1>5, <2>1, <2>2
       DEF I!Write, I!Goto, I!Overwrite, I!Echo, I!Refuse, StdinInv, I!Inv, I!TypeOK, I!Gone
  <2>3. CASE stdin = "stream"
    <3>1. echoed = position - nread
      BY <2>1, <2>3 DEF StdinInv
    <3>2. PICK m \in 0 .. nread :
            I!Echo(m) /\ ((m = nread /\ ipc' = "read") \/ ipc' \in {"exit_1", "SIGPIPE"})
      BY <1>0, <1>3, <2>1, <2>3 DEF I!Write, I!Goto, I!Overwrite, I!Refuse
    <3>3. echoed' = echoed + m /\ UNCHANGED <<content, length, position>>
      BY <3>2 DEF I!Echo
    <3> QED BY <1>0, <1>5, <2>1, <2>3, <3>1, <3>2, <3>3 DEF StdinInv, I!Inv, I!TypeOK, I!Gone
  <2>4. CASE stdin = "file"
    <3>1. AtWrite
      BY <2>1, <2>4 DEF StdinInv
    <3>2. /\ position - nread \in Nat /\ length = original /\ position <= original
          /\ nread = I!Most(position - nread, original) /\ Starts(position - nread)
      BY <1>0, <3>1 DEF AtWrite, Starts
    <3>3. PICK m \in 0 .. nread :
            I!Overwrite(m) /\ ((m = nread /\ ipc' = "read") \/ ipc' = "exit_1")
      BY <1>0, <1>3, <2>1, <2>4 DEF I!Write, I!Goto, I!Echo, I!Refuse
    <3>4. PICK e, c :
            /\ position' = position + m /\ echoed' = echoed
            /\ length' = e /\ e = IF position + m > length THEN position + m ELSE length
            /\ content' = c
            /\ c = [b \in 0 .. e - 1 |->
                     IF b \in position .. position + m - 1 THEN chunk[b - position]
                     ELSE content[b]]
      <4> DEFINE F(e) == [b \in 0 .. e - 1 |->
                            IF b \in position .. position + m - 1 THEN chunk[b - position]
                            ELSE content[b]]
      <4>1. /\ position' = position + m /\ echoed' = echoed
            /\ length' = IF position + m > length THEN position + m ELSE length
        BY <3>3 DEF I!Overwrite
      <4>2. content' = F(length')
        BY <3>3 DEF I!Overwrite
      <4> QED BY <4>1, <4>2, Zenon
    <3>5. e \in original .. original + BUFFSIZE /\ position + m \in 0 .. e /\ e \in Nat
      BY <1>0, <2>1, <3>2, <3>4
    <3>6. ASSUME NEW b \in 0 .. e - 1
          PROVE  c[b] = IF b < position - nread THEN I!Shuffled(b)
                        ELSE IF b < position THEN b
                        ELSE IF b < position + m THEN b - nread ELSE b
      <4>1. b < position + m \/ b < length
        BY <1>0, <3>4, <3>5
      <4>2. CASE b \in position .. position + m - 1
        <5>1. b - position \in 0 .. nread - 1
          BY <1>0, <2>1, <4>2
        <5>2. c[b] = chunk[b - position]
          BY <3>4, <4>2
        <5>3. c[b] = position - nread + (b - position)
          BY <3>1, <5>1, <5>2 DEF AtWrite
        <5> QED BY <1>0, <2>1, <4>2, <5>3
      <4>3. CASE b \notin position .. position + m - 1
        <5>1. c[b] = content[b] /\ b \in 0 .. length - 1
          BY <1>0, <3>4, <3>5, <4>1, <4>3, <2>1
        <5>2. c[b] = IF b < position - nread THEN I!Shuffled(b) ELSE b
          BY <3>1, <5>1 DEF AtWrite, ShuffledUpTo
        <5> QED BY <1>0, <2>1, <4>3, <5>1, <5>2
      <4> QED BY <4>2, <4>3
    <3>7. c \in [0 .. e - 1 -> 0 .. original - 1]
      <4>1. ASSUME NEW b \in 0 .. e - 1 PROVE c[b] \in 0 .. original - 1
        <5>1. CASE b < position - nread
          <6>1. b \in 0 .. length - 1 /\ b \notin position .. position + m - 1
            BY <1>0, <2>1, <3>2, <5>1
          <6>2. c[b] = content[b]
            BY <3>4, <6>1
          <6> QED BY <1>5, <6>1, <6>2
        <5>2. CASE ~(b < position - nread)
          <6>1. b < position + m \/ b < original
            BY <1>0, <2>1, <3>2, <3>4, <3>5
          <6> QED BY <1>0, <2>1, <3>2, <3>6, <5>2, <6>1
        <5> QED BY <5>1, <5>2
      <4> QED BY <3>4, <4>1
    <3>8. I!Inv'
      BY <1>0, <2>1, <2>4, <3>3, <3>4, <3>5, <3>7 DEF I!Inv, I!TypeOK, I!Gone
    <3>9. CASE ipc' = "exit_1"
      BY <2>1, <2>4, <3>8, <3>9 DEF StdinInv
    <3>10. CASE m = nread /\ ipc' = "read"
      <4>1. position + m = e \/ (e = original /\ Starts(position + m))
        <5>1. nread = BUFFSIZE => position + m = (position - nread) + 2 * BUFFSIZE
          BY <1>0, <2>1, <3>2, <3>10
        <5>2. nread = BUFFSIZE => Starts(position + m)
          BY <3>2, <5>1, RoundFacts
        <5>3. nread # BUFFSIZE => position = original
          <6>1. nread # BUFFSIZE => nread = original - (position - nread)
            BY <1>0, <3>2, MostFacts
          <6> QED BY <1>0, <6>1
        <5>4. nread # BUFFSIZE => position + m = e
          BY <1>0, <2>1, <3>2, <3>4, <5>3
        <5>5. nread = BUFFSIZE => position + m = e \/ e = original
          BY <3>2, <3>4
        <5> QED BY <5>2, <5>4, <5>5
      <4>2. ASSUME NEW b \in 0 .. e - 1
            PROVE  c[b] = IF b < position + m THEN I!Shuffled(b) ELSE b
        <5>1. CASE b < position - nread \/ b >= position + m
          BY <1>0, <2>1, <3>2, <3>5, <3>6, <3>10, <5>1
        <5>2. CASE b >= position - nread /\ b < position + m
          <6>1. b \in 0 .. position + nread - 1
            BY <1>0, <2>1, <3>2, <3>5, <3>10, <5>2
          <6>2. I!Shuffled(b) = IF b < position THEN b ELSE b - nread
            BY <2>1, <2>4, <5>2, <6>1, RoundShuffles
          <6>3. c[b] = IF b < position THEN b ELSE b - nread
            BY <1>0, <2>1, <3>2, <3>5, <3>6, <5>2
          <6> QED BY <5>2, <6>2, <6>3
        <5> QED BY <1>0, <2>1, <3>2, <3>5, <5>1, <5>2
      <4>3. c = [b \in 0 .. e - 1 |-> IF b < position + m THEN I!Shuffled(b) ELSE b]
        BY <3>4, <4>2
      <4>4. ShuffledUpTo(position)'
        BY <1>6, <2>1, <3>4, <4>3 DEF ShuffledUpTo
      <4>5. AtRead'
        BY <2>1, <3>4, <4>1, <4>4 DEF AtRead, Starts, I!Round
      <4> QED BY <2>1, <2>4, <3>8, <3>10, <4>5 DEF StdinInv
    <3> QED BY <3>3, <3>9, <3>10
  <2> QED BY <1>0, <2>2, <2>3, <2>4
<1>4. CASE UNCHANGED stdinvars
  <2>1. UNCHANGED <<stdin, ipc, content, length, position, chunk, nread, echoed, original>>
    BY <1>4 DEF stdinvars
  <2>2. AtRead' <=> AtRead
    BY <1>6, <2>1 DEF AtRead, ShuffledUpTo, Starts, I!Round
  <2>3. AtWrite' <=> AtWrite
    BY <1>6, <2>1 DEF AtWrite, ShuffledUpTo, Starts, I!Round, I!Most
  <2>4. I!Inv'
    BY <1>6, <2>1 DEF StdinInv, I!Inv, I!TypeOK
  <2> QED BY <2>1, <2>2, <2>3, <2>4 DEF StdinInv
<1> QED BY <1>1, <1>2, <1>3, <1>4 DEF I!Next

LEMMA StdinInvSafe == StdinInv => I!Inv
BY DEF StdinInv

-----------------------------------------------------------------------------
(* Every step of the run is one of each program, or leaves its variables   *)
(* alone.                                                                  *)
LEMMA StepOfEach ==
  [MCNext]_<<task, vars, aiovars, syncvars, holevars, plainvars, stdinvars>>
    => /\ [Next]_vars /\ [A!Next]_aiovars /\ [H!Next]_holevars /\ [C!Next]_plainvars
       /\ [I!Next]_stdinvars
       /\ (S!Next /\ UNCHANGED aiovars) \/ UNCHANGED syncvars
BY Zenon DEF MCNext, Sync

LEMMA InputStays == [A!Next]_aiovars => UNCHANGED input
<1> SUFFICES ASSUME [A!Next]_aiovars PROVE UNCHANGED input
  OBVIOUS
<1>1. CASE A!Main
  BY <1>1 DEF A!Main, A!StartRead, A!Skip, A!Quit, A!StartWrite, A!FinishWrite, A!Check, A!Resume,
              A!SubmitFails, A!Exit
<1>2. CASE \E s \in A!Slots : A!Complete(s)
  BY <1>2 DEF A!Complete
<1>3. CASE UNCHANGED aiovars
  BY <1>3 DEF aiovars
<1> QED BY <1>1, <1>2, <1>3 DEF A!Next

LEMMA SyncInvStep ==
  ASSUME SyncInv, [A!Next]_aiovars, (S!Next /\ UNCHANGED aiovars) \/ UNCHANGED syncvars
  PROVE  SyncInv' /\ [S!R!Next]_(S!R!vars)
<1>1. UNCHANGED input
  BY InputStays
<1>2. CASE UNCHANGED syncvars
  <2>1. UNCHANGED <<spc, pos, buf, copy, readFailed>> /\ Sequence' = Sequence
    BY <1>1, <1>2, Zenon DEF syncvars, Sequence
  <2>2. SyncInv'
    BY <1>1, <2>1 DEF SyncInv, FirstBlocks
  <2>3. UNCHANGED S!R!vars
    BY <2>1 DEF S!R!vars, Sequence
  <2> QED BY <2>2, <2>3
<1> QED BY <1>1, <1>2, SyncStep

(* The paths fit their buffer and every file is counted once, whatever the *)
(* tree, its names and the limits (myftw and dopath, 4.22.c:44-98).        *)
THEOREM WalkIsRight == MCSpec => []Inv
<1>1. MCInit => Init
  BY DEF MCInit
<1> QED BY <1>1, InitInv, InvStep, StepOfEach, PTL DEF MCSpec

(* The copies, for files of any size and whatever calls fail: 14.5.3.2     *)
(* counts its operations and has each block in one buffer or the output;   *)
(* p6 copies a first block that is one run; 1.5.3 and 14.8 exit with 0     *)
(* only after a complete copy, 1.5.4 and 14.2 unless a call failed that    *)
(* they do not report; and 3.9, which writes to its input, exits with 0    *)
(* having echoed a stream, read an empty input, or put a copy of every     *)
(* other buffer of a file over the buffer that follows it.                 *)
THEOREM CopiesSafe == MCSpec => []CopiesInv
<1>1. MCInit => AioInv /\ HoleInv /\ PlainInv /\ StdinInv
  BY AioInvInit, HoleInvInit, PlainInvInit, StdinInvInit DEF MCInit
<1>2. AioInv /\ HoleInv /\ PlainInv /\ StdinInv => CopiesInv
  BY HoleInvSafe, PlainInvSafe, StdinInvSafe DEF CopiesInv, A!Inv, AioInv, AioTypes
<1> QED BY <1>1, <1>2, AioInvStep, HoleInvStep, PlainInvStep, StdinInvStep, StepOfEach, PTL
        DEF MCSpec

(* 14.5.3.2 implements RotCopy: in whatever order its requests are served, *)
(* each block is put at its place once, translated once, and status 0      *)
(* stands for a complete output.                                           *)
THEOREM AioCopies == MCSpec => CopiesRotated
<1>1. MCInit => AioInv /\ A!R!Init
  BY AioInvInit, RotatedInit DEF MCInit
<1> QED BY <1>1, AioInvStep, RotatedStep, StepOfEach, PTL
        DEF MCSpec, CopiesRotated, A!CopiesRotated, A!R!Spec

(* 14.5.3 implements RotCopy if its silent end after a read error counts   *)
(* as a failure.                                                           *)
THEOREM SyncCopies == MCSpec => CopiesUnlessReadFails
<1>1. MCInit => SyncInv /\ S!R!Init
  BY SyncInvInit DEF MCInit
<1>2. SyncInv /\ [MCNext]_<<task, vars, aiovars, syncvars, holevars, plainvars, stdinvars>>
        => SyncInv' /\ [S!R!Next]_(S!R!vars)
  BY StepOfEach, SyncInvStep
<1> QED BY <1>1, <1>2, PTL
        DEF MCSpec, CopiesUnlessReadFails, S!CopiesUnlessReadFails, S!R!Spec
=============================================================================
