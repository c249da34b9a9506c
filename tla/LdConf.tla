------------------------------- MODULE LdConf -------------------------------
(***************************************************************************)
(* The walk of /etc/ld.so.conf (ld-conf.h), by which both gl-fwd.c and     *)
(* runtime-select.c learn where a host keeps its libraries; and, compared  *)
(* with it, a definition of what it is to find that never walks.           *)
(*                                                                         *)
(* A name is a sequence of numbers, 0 for the dot, so that "*.conf" is     *)
(* matched and the names are sorted as the code does both.  A path is a    *)
(* pair of a directory and a name.  A file tree `fs' is a record:          *)
(*   fs.lines   from the paths that can be opened to the lines, comments   *)
(*              and blanks already taken out;                              *)
(*   fs.listing from the directories that can be opened to their names,    *)
(*              which are not empty, in the order readdir gives them.      *)
(* A line names a directory, or includes the files of one that match a     *)
(* pattern.                                                                *)
(***************************************************************************)
EXTENDS Integers, Sequences, FiniteSets, SequencesExt

CONSTANTS
  Root,         \* the path of ld.so.conf
  MaxDepth,     \* LDCONF_MAX_DEPTH, 4
  Budget,       \* LDCONF_DEFAULT_BUDGET, 256 files
  MaxNames,     \* rows of names[32][128]
  NameSize,     \* and its columns
  SuffixSize    \* of suffix[64]

ASSUME LimitsAssumption ==
  /\ MaxDepth \in Nat /\ Budget \in Nat \ {0}
  /\ MaxNames \in Nat /\ NameSize \in Nat /\ SuffixSize \in Nat

Dot  == 0
Star == -1

Mentioned(fs) ==
  UNION {{l.dir : l \in ToSet(fs.lines[p])} : p \in DOMAIN fs.lines}
Paths(fs) ==
  {Root} \cup UNION {{<<c, n>> : n \in ToSet(fs.listing[c])} : c \in DOMAIN fs.listing}

IsTree(fs) ==
  /\ fs = [lines |-> fs.lines, listing |-> fs.listing]
  /\ \A p \in DOMAIN fs.lines :
       fs.lines[p] \in Seq([include : BOOLEAN, dir : Mentioned(fs), base : Seq(Int)])
  /\ \A c \in DOMAIN fs.listing : fs.listing[c] \in Seq(Seq(Int) \ {<<>>})

---------------------------------------------------------------------------
(* One directory of files.                                                 *)

\* strcmp(m, n) < 0.
Before(m, n) ==
  \E i \in 1 .. Len(n) :
    /\ \A j \in 1 .. i - 1 : j \in DOMAIN m /\ m[j] = n[j]
    /\ i \in DOMAIN m => m[i] < n[i]

\* What a name has to end in: what follows the first star, or all of the
\* pattern.  What stands before the star is not looked at.
Ending(base) ==
  IF \E i \in DOMAIN base : base[i] = Star
  THEN LET star == CHOOSE i \in DOMAIN base :
                     base[i] = Star /\ \A j \in 1 .. i - 1 : base[j] # Star
       IN  SubSeq(base, star + 1, Len(base))
  ELSE base

Kept(name, want) ==
  /\ Head(name) # Dot
  /\ Len(want) <= Len(name)
  /\ SubSeq(name, Len(name) - Len(want) + 1, Len(name)) = want
  /\ Len(name) < NameSize

\* Taken in the order of readdir (the mutant).
Selected_Unsorted(names, want) ==
  LET kept == SelectSeq(names, LAMBDA n : Kept(n, want))
  IN  SubSeq(kept, 1, IF Len(kept) < MaxNames THEN Len(kept) ELSE MaxNames)

\* A finite set of names, sorted.
InOrder(names) ==
  CHOOSE s \in [1 .. Cardinality(names) -> names] :
    \A i, j \in 1 .. Cardinality(names) : i < j => Before(s[i], s[j])

\* The first MaxNames in the order of readdir, sorted.
Selected(names, want) ==
  LET keptOf(k) == {n \in ToSet(SubSeq(names, 1, k)) : Kept(n, want)}
  IN  InOrder(UNION {keptOf(k) : k \in {j \in DOMAIN names :
                                          Cardinality(keptOf(j)) <= MaxNames}})

---------------------------------------------------------------------------
(* The walk.  Its state is what struct ldconf_walk carries: the files that *)
(* may still be opened, the directories handed to the callback so far, and *)
(* whether the callback, which accepts the directories `accepts', has      *)
(* stopped it.  `sub' is the walk of a file one include further down.      *)

WalkStates(fs) ==
  [budget : 0 .. Budget, stopped : BOOLEAN, named : Seq(Mentioned(fs))]

TryFile(sub, path, st) == IF st.stopped THEN st ELSE sub[<<path, st>>]

TryFiles(sub, dir, names, st) ==
  LET after[k \in 0 .. Len(names)] ==
        IF k = 0 THEN st ELSE TryFile(sub, <<dir, names[k]>>, after[k - 1])
  IN  after[Len(names)]

ReadLine(fs, accepts, sub, line, st) ==
  IF st.stopped THEN st
  ELSE IF ~line.include
  THEN [st EXCEPT !.named = Append(@, line.dir), !.stopped = line.dir \in accepts]
  ELSE IF Len(Ending(line.base)) >= SuffixSize \/ line.dir \notin DOMAIN fs.listing
  THEN st
  ELSE TryFiles(sub, line.dir, Selected(fs.listing[line.dir], Ending(line.base)), st)

ReadLines(fs, accepts, sub, lines, st) ==
  LET after[k \in 0 .. Len(lines)] ==
        IF k = 0 THEN st ELSE ReadLine(fs, accepts, sub, lines[k], after[k - 1])
  IN  after[Len(lines)]

\* ldconf_walk_file, not too deep.
WalkFile(fs, accepts, sub, path, st) ==
  LET opened == [st EXCEPT !.budget = @ - 1]
  IN  IF st.budget = 0 THEN st
      ELSE IF path \notin DOMAIN fs.lines THEN opened
      ELSE ReadLines(fs, accepts, sub, fs.lines[path], opened)

\* ldconf_each_dir: the directories handed over, and whether one was accepted.
EachDir(fs, accepts) ==
  LET walk[left \in 0 .. MaxDepth + 1] ==
        [x \in Paths(fs) \X WalkStates(fs) |->
           IF left = 0 THEN x[2] ELSE WalkFile(fs, accepts, walk[left - 1], x[1], x[2])]
  IN  walk[MaxDepth + 1][<<Root, [budget |-> Budget, stopped |-> FALSE, named |-> <<>>]>>]

---------------------------------------------------------------------------
(* What the walk is to find.                                               *)

\* The files a file includes.
Ends(name, want) ==
  \E k \in 0 .. Len(name) : SubSeq(name, k + 1, Len(name)) = want

Matching(fs, line) ==
  {n \in ToSet(fs.listing[line.dir]) : n[1] # Dot /\ Ends(n, Ending(line.base))}

Includes(fs, path) ==
  {l \in ToSet(fs.lines[path]) : l.include /\ l.dir \in DOMAIN fs.listing}

Included(fs, path) ==
  IF path \notin DOMAIN fs.lines THEN {}
  ELSE UNION {{<<l.dir, n>> : n \in Matching(fs, l)} : l \in Includes(fs, path)}

\* A file, one it includes, one that includes, and so on.
IsChain(fs, chain, n) ==
  /\ chain \in [0 .. n -> Paths(fs)]
  /\ \A i \in 1 .. n : chain[i] \in Included(fs, chain[i - 1])

Reached(fs) ==
  {p \in Paths(fs) :
     \E n \in 0 .. MaxDepth : \E chain \in [0 .. n -> Paths(fs)] :
       IsChain(fs, chain, n) /\ chain[0] = Root /\ chain[n] = p}

NamedIn(fs, paths) ==
  UNION {{l.dir : l \in {m \in ToSet(fs.lines[p]) : ~m.include}} :
         p \in paths \cap DOMAIN fs.lines}

\* Up to and with the first element that is d.
UpTo(s, d) ==
  IF d \notin ToSet(s) THEN s
  ELSE SubSeq(s, 1, CHOOSE i \in DOMAIN s : s[i] = d /\ \A j \in 1 .. i - 1 : s[j] # d)

\* The names of every directory in another order of readdir.
Turned(fs) == [fs EXCEPT !.listing = [c \in DOMAIN @ |-> Reverse(@[c])]]

\* No include has more files, or longer names or endings, than there is room for.
Fits(fs) ==
  \A p \in DOMAIN fs.lines : \A l \in Includes(fs, p) :
    /\ Len(Ending(l.base)) < SuffixSize
    /\ Cardinality(Matching(fs, l)) <= MaxNames
    /\ \A n \in Matching(fs, l) : Len(n) < NameSize

\* Every directory the conf files name within the depth is handed over, once
\* the budget is enough, and never one they do not name; the list does not
\* depend on the order of readdir; and a callback that accepts one directory
\* sees what the whole walk names up to it.
WalkRight(fs, dirs) ==
  LET walk == EachDir(fs, {})
      all  == NamedIn(fs, Reached(fs))
  IN  /\ ToSet(walk.named) \subseteq all
      /\ NamedIn(fs, {Root}) \subseteq ToSet(walk.named)
      /\ Fits(fs) => /\ walk.budget > 0 => ToSet(walk.named) = all
                     /\ EachDir(Turned(fs), {}).named = walk.named
      /\ \A d \in dirs :
           LET found == EachDir(fs, {d})
           IN  /\ found.named = UpTo(walk.named, d)
               /\ found.stopped <=> d \in ToSet(walk.named)

=============================================================================
