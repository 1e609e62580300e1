--------------------------------- MODULE Ftw ---------------------------------
(***************************************************************************)
(* chapter_04/4.22.c: walks a file tree, counts its files by type and      *)
(* keeps the present path in one buffer that grows.  The recursion of      *)
(* dopath is the stack of its directory loops, each of which keeps its     *)
(* directory open.  myfunc always returns 0, so no walk is broken off.     *)
(***************************************************************************)
EXTENDS Integers, Sequences, FiniteSets

CONSTANTS
  Names,        \* the names of files
  Files,        \* the tree: the paths, as sequences of names, that exist
  Dirs,         \* those that are directories
  Root,         \* argv[1], a sequence of one name
  Length(_),    \* strlen of a name; of Root's, strlen(argv[1])
  NAME_MAX,     \* no name in a directory is longer
  PathAlloc,    \* the size path_alloc returns
  OPEN_MAX      \* how many directories a process can have open
ASSUME TreeAssumption ==
  /\ Root \in Files /\ Len(Root) = 1
  /\ Dirs \subseteq Files
  /\ \A f \in Files : /\ f \in Seq(Names) /\ f # <<>> /\ SubSeq(f, 1, 1) = Root
                      /\ \A k \in 1 .. Len(f) - 1 : SubSeq(f, 1, k) \in Dirs
ASSUME LengthAssumption == \A f \in Files : Length(f[Len(f)]) \in Nat
ASSUME NamesAssumption == \A f \in Files : f # Root => Length(f[Len(f)]) <= NAME_MAX
ASSUME SizesAssumption ==
  NAME_MAX \in Nat /\ PathAlloc \in Nat /\ PathAlloc > NAME_MAX /\ OPEN_MAX \in Nat

VARIABLES
  walk,      \* next statement: "myftw", "lstat", "opendir", "readdir", "done", "failed"
  fullpath,  \* the path in the buffer, a sequence of names
  strlen,    \* its length in characters
  pathlen,   \* the size of the buffer
  dps,       \* the directories being read: [dir, n, left], the outermost first
  counted,   \* history: counted[f]: how often myfunc has counted f
  skipped    \* history: the files lstat failed for, or opendir

vars == <<walk, fullpath, strlen, pathlen, dps, counted, skipped>>

Init ==
  /\ walk = "myftw" /\ fullpath = <<>> /\ strlen = 0 /\ pathlen = PathAlloc
  /\ dps = <<>> /\ counted = [f \in Files |-> 0] /\ skipped = {}

(* path_alloc and strcpy; twice the length if argv[1] does not fit.        *)
myftw ==
  /\ walk = "myftw"
  /\ LET n == Length(Root[Len(Root)]) IN
       /\ pathlen' = IF pathlen <= n THEN n * 2 ELSE pathlen
       /\ strlen' = n
  /\ fullpath' = Root
  /\ walk' \in {"lstat", "failed"}
  /\ UNCHANGED <<dps, counted, skipped>>

(* dopath returns: to the loop of the caller, or to myftw. *)
Return == walk' = IF dps = <<>> THEN "done" ELSE "readdir"

(* lstat fails (the file may be gone), or myfunc counts the file.          *)
Lstat ==
  /\ walk = "lstat"
  /\ \/ skipped' = skipped \union {fullpath} /\ Return /\ UNCHANGED counted
     \/ /\ counted' = [counted EXCEPT ![fullpath] = @ + 1]
        /\ IF fullpath \in Dirs THEN walk' = "opendir" ELSE Return
        /\ UNCHANGED skipped
  /\ UNCHANGED <<fullpath, strlen, pathlen, dps>>

Children(d) == {f \in Files : Len(f) = Len(d) + 1 /\ SubSeq(f, 1, Len(d)) = d}

\* Mutant: the room for the name is not asked for.
GrownNone(n) == IF n + 2 > pathlen THEN pathlen * 2 ELSE pathlen

(* Room for '/', a name and the NUL. *)
Grown(n) == IF n + NAME_MAX + 2 > pathlen THEN pathlen * 2 ELSE pathlen

(* realloc, which may fail; the '/'; and opendir, which fails if the       *)
(* directory must not be read or too many are open.                        *)
Opendir ==
  /\ walk = "opendir"
  /\ pathlen' = Grown(strlen)
  /\ \/ /\ strlen' = strlen + 1 /\ Len(dps) < OPEN_MAX
        /\ dps' = Append(dps, [dir |-> fullpath, n |-> strlen + 1,
                               left |-> Children(fullpath)])
        /\ walk' = "readdir" /\ UNCHANGED skipped
     \/ /\ strlen' = strlen + 1 /\ Return
        /\ skipped' = skipped \union {fullpath} /\ UNCHANGED dps
     \/ pathlen' > pathlen /\ walk' = "failed" /\ UNCHANGED <<strlen, dps, skipped>>
  /\ UNCHANGED <<fullpath, counted>>

(* One entry, in any order: strcpy(&fullpath[n], d_name) and dopath.  (The *)
(* entries . and .. are skipped.)                                          *)
Readdir ==
  LET top == dps[Len(dps)] IN
  /\ walk = "readdir"
  /\ \E f \in top.left :
       /\ dps' = [dps EXCEPT ![Len(dps)].left = @ \ {f}]
       /\ fullpath' = Append(top.dir, f[Len(f)])
       /\ strlen' = top.n + Length(f[Len(f)])
  /\ walk' = "lstat"
  /\ UNCHANGED <<pathlen, counted, skipped>>

(* The end of the directory: the '/' is removed, closedir, return.         *)
Closedir ==
  LET top == dps[Len(dps)] IN
  /\ walk = "readdir" /\ top.left = {}
  /\ fullpath' = top.dir /\ strlen' = top.n - 1
  /\ dps' = SubSeq(dps, 1, Len(dps) - 1)
  /\ walk' = IF Len(dps) = 1 THEN "done" ELSE "readdir"
  /\ UNCHANGED <<pathlen, counted, skipped>>

Next == myftw \/ Lstat \/ Opendir \/ Readdir \/ Closedir

Spec == Init /\ [][Next]_vars

-----------------------------------------------------------------------------
Frames == [dir : Dirs, n : Nat \ {0}, left : SUBSET Files]
TypeOK ==
  /\ walk \in {"myftw", "lstat", "opendir", "readdir", "done", "failed"}
  /\ strlen \in Nat /\ pathlen \in Nat
  /\ fullpath \in Seq(Names)
  /\ dps \in Seq(Frames)
  /\ counted \in [Files -> Nat] /\ skipped \subseteq Files

(* The buffer never overflows: the path and its NUL fit, and in every      *)
(* directory being read the longest name would.                            *)
Fits ==
  /\ pathlen > NAME_MAX
  /\ walk # "myftw" => strlen < pathlen
  /\ \A k \in DOMAIN dps : dps[k].n + NAME_MAX < pathlen

AtOrUnder(f, g) == Len(g) <= Len(f) /\ SubSeq(f, 1, Len(g)) = g
Under(f, g) == AtOrUnder(f, g) /\ f # g

(* The open directories are the ancestors of the present path, in order;   *)
(* what is left in them are their entries.                                 *)
Ancestors ==
  /\ Len(dps) <= OPEN_MAX
  /\ \A k \in DOMAIN dps : /\ Len(dps[k].dir) = k /\ AtOrUnder(fullpath, dps[k].dir)
                           /\ dps[k].left \subseteq Children(dps[k].dir)
  /\ walk \in {"lstat", "opendir"} => fullpath \in Files /\ Len(fullpath) = Len(dps) + 1
  /\ walk = "lstat" => \A k \in DOMAIN dps : fullpath \notin dps[k].left
  /\ walk = "opendir" => fullpath \in Dirs
  /\ walk = "readdir" => Len(dps) > 0
  /\ walk \in {"myftw", "done"} => dps = <<>>

(* The subtrees still to be walked: nobody of them, or above them, has     *)
(* been skipped, nobody of them is counted, and they do not overlap.       *)
Left == UNION {dps[k].left : k \in DOMAIN dps}
Waiting ==
  Left \union CASE walk = "myftw"   -> {Root}
               [] walk = "lstat"   -> {fullpath}
               [] walk = "opendir" -> Children(fullpath)
               [] OTHER            -> {}
IsWaiting(f) == \E g \in Waiting : AtOrUnder(f, g)
WaitingApart ==
  \A f \in Files : \A g, h \in Waiting : AtOrUnder(f, g) /\ AtOrUnder(f, h) => g = h
NotYet(f) == counted[f] = 0 /\ ~(\E g \in skipped : AtOrUnder(f, g))

(* A file outside of them is counted exactly once, or not at all because   *)
(* lstat has failed for it, or lstat or opendir above it.  A directory     *)
(* about to be opened has been counted.                                    *)
Settled(f) ==
  \/ counted[f] = 1 /\ ~(\E g \in skipped : Under(f, g))
  \/ counted[f] = 0 /\ \E g \in skipped : AtOrUnder(f, g)
EachOnce ==
  walk # "failed" =>
    /\ WaitingApart
    /\ \A f \in Files : IF IsWaiting(f) THEN NotYet(f) ELSE Settled(f)
    /\ walk = "opendir" => counted[fullpath] = 1

(* At the end every file is settled. *)
CountedOnce == walk = "done" => \A f \in Files : Settled(f)

(* The state is well typed, no copy overflows, each file is counted once.  *)
Inv == TypeOK /\ Fits /\ Ancestors /\ EachOnce /\ CountedOnce
=============================================================================
