----------------------------- MODULE ElfRewrite -----------------------------
(***************************************************************************)
(* What the rewrite of a host object does to its symbols                   *)
(* (cross-libc-dlopen.c): cld_locate_dynsym, which finds out how many      *)
(* there are from the hash tables, and cld_rename_undef_symbol, which      *)
(* turns the references to one name into references to another.  Strings   *)
(* share their tails in .dynstr: an offset into the middle of one is a     *)
(* name of its own.                                                        *)
(*                                                                         *)
(* A file: str, the string table, a sequence of characters with Nul after  *)
(* each string; entries, the symbol table without its null entry and what  *)
(* the words after it read as, records of an offset into str and whether   *)
(* the symbol is undefined; n, how many of them are symbols; others, the   *)
(* offsets dynamic tags and version tables hold.  Its hash tables: sysv,   *)
(* is there a DT_HASH; symoffset, the first hashed symbol of DT_GNU_HASH,  *)
(* 0 without one; starts, the chain each of its buckets starts, 0 when     *)
(* empty; ends, per entry, whether its chain word has the end bit.         *)
(***************************************************************************)
EXTENDS Integers, Sequences, FiniteSets

CONSTANTS Files,   \* the files checked
          Renames, \* records from, to: cld_renames, and renames it might list
          Nul

\* The string at an offset; cld_valid_cstr is whether it ends.
IsString(str, o) == o \in DOMAIN str /\ \E k \in o..Len(str) : str[k] = Nul
StringAt(str, o) ==
  LET end == CHOOSE k \in o..Len(str) : str[k] = Nul /\ \A j \in o..k - 1 : str[j] # Nul
  IN SubSeq(str, o, end - 1)

\* Files as linkers write them: what refers to the string table refers to a
\* string that ends; the hashed symbols are the last ones and defined, their
\* chains follow each other, and the end bit is at the end of each.  A table with
\* no chain says that its first symbol is the one past the last, or, as GNU ld
\* writes it, 1, whatever there is.
Letters(s) == {s[k] : k \in DOMAIN s}
File(letters) ==
  [str : Seq(letters), entries : Seq([name : Nat, undef : BOOLEAN]), n : Nat, others : SUBSET Nat,
   sysv : BOOLEAN, symoffset : Nat, starts : Seq(Nat), ends : Seq(BOOLEAN)]
Refs(f) == {f.entries[i].name : i \in 1..f.n} \cup f.others
Chains(f) == Letters(f.starts) \ {0}
Hashed(f) == IF Chains(f) = {} THEN {} ELSE f.symoffset..f.n

ASSUME FilesAssumption ==
  \A f \in Files :
    /\ f \in File(Letters(f.str)) /\ f.n <= Len(f.entries) /\ Len(f.ends) = Len(f.entries)
    /\ \A o \in Refs(f) : IsString(f.str, o)
    /\ f.symoffset <= f.n + 1 /\ Chains(f) \subseteq Hashed(f)
    /\ IF Chains(f) = {} THEN f.symoffset \in {0, 1, f.n + 1} ELSE f.symoffset \in Chains(f)
    /\ \A i \in Hashed(f) : /\ ~f.entries[i].undef
                            /\ f.ends[i] <=> i = f.n \/ i + 1 \in Chains(f)

ASSUME RenamesAssumption ==
  \A r \in Renames : r \in [from : Seq(Letters(r.from) \ {Nul}), to : Seq(Letters(r.to) \ {Nul})]
-----------------------------------------------------------------------------
LargestOf(S) == CHOOSE x \in S : \A y \in S : y <= x

\* The last symbol of the chain that starts last, found by its end bit; past
\* the end of the file when no word has one.
LastHashed(f) ==
  LET last == LargestOf({f.symoffset} \cup {f.starts[b] : b \in DOMAIN f.starts})
      stop == {i \in last..Len(f.entries) : f.ends[i]}
  IN IF stop = {} THEN Len(f.entries) + 1 ELSE CHOOSE i \in stop : \A j \in stop : i <= j

\* cld_locate_dynsym: nchain of DT_HASH, else the walk.  0 is "unknown", as is
\* a count the file has no room for.
SymbolCount(f) ==
  LET count == IF f.sysv THEN f.n ELSE IF f.symoffset = 0 THEN 0 ELSE LastHashed(f)
  IN IF count > Len(f.entries) THEN 0 ELSE count
-----------------------------------------------------------------------------
\* cld_dynstr_range_occupied: does another reference point into lo..hi - 1?
Occupied(f, lo, hi, exempt) ==
  \/ \E i \in 1..SymbolCount(f) : f.entries[i].name \in (lo..hi - 1) \ {exempt}
  \/ \E o \in f.others : o \in lo..hi - 1

Renamable_HashedToo(f, r, i) ==
  /\ f.entries[i].undef /\ IsString(f.str, f.entries[i].name)
  /\ StringAt(f.str, f.entries[i].name) = r.from

\* An undefined symbol of that name, below the hashed ones.
Renamable(f, r, i) ==
  /\ f.entries[i].undef /\ IsString(f.str, f.entries[i].name)
  /\ StringAt(f.str, f.entries[i].name) = r.from
  /\ f.symoffset = 0 \/ i < f.symoffset

\* One turn of the loop: the reference moves to the tail of its own string when
\* that is the new name; else the string is written over, unless another
\* reference points into it.
RenameAt(f, r, i) ==
  LET o == f.entries[i].name
      flen == Len(r.from)
      tlen == Len(r.to)
  IN IF ~Renamable(f, r, i) THEN f
     ELSE IF StringAt(f.str, o + flen - tlen) = r.to
     THEN [f EXCEPT !.entries[i].name = o + flen - tlen]
     ELSE IF Occupied(f, o + 1, o + flen + 1, o) THEN f
     ELSE [f EXCEPT !.str = [k \in DOMAIN f.str |->
                               IF k \in o..o + tlen - 1 THEN r.to[k - o + 1]
                               ELSE IF k = o + tlen THEN Nul ELSE f.str[k]]]

\* cld_rename_undef_symbol.
Rename(f, r) ==
  IF Len(r.to) > Len(r.from) THEN f
  ELSE LET after[i \in 0..SymbolCount(f)] ==
             IF i = 0 THEN f ELSE RenameAt(after[i - 1], r, i)
       IN after[SymbolCount(f)]
-----------------------------------------------------------------------------
IsTail(r) == Len(r.to) <= Len(r.from)
             /\ SubSeq(r.from, Len(r.from) - Len(r.to) + 1, Len(r.from)) = r.to

NameIn(f, i) == StringAt(f.str, f.entries[i].name)

\* A longer string ends in the name, or something else refers to it as well.
\* Writing over it would change those, and nothing looks for them.
FromShared(f, r) ==
  \E i \in 1..f.n :
    /\ f.entries[i].undef /\ NameIn(f, i) = r.from
    /\ LET at == f.entries[i].name
           Into(o) == o < at /\ at <= o + Len(StringAt(f.str, o))
       IN \/ \E o \in f.others : o = at \/ Into(o)
          \/ \E j \in 1..f.n : \/ Into(f.entries[j].name)
                               \/ ~f.entries[j].undef /\ f.entries[j].name = at

\* The count is exact wherever a symbol is hashed or a DT_HASH says it.  A
\* rename changes no name but those of the undefined symbols meant, and nothing
\* past the symbol table even where the count is too large; one to the tail of
\* the name (the only kind cld_renames lists) renames every one of them, and
\* one that writes .dynstr is exact unless FromShared.
RenamesRight ==
  \A f \in Files :
    /\ f.sysv \/ Chains(f) # {} => SymbolCount(f) = f.n
    /\ \A r \in Renames :
         IsTail(r) \/ ~FromShared(f, r) =>
           LET g == Rename(f, r)
               Meant(i) == /\ f.entries[i].undef /\ NameIn(f, i) = r.from
                           /\ f.symoffset = 0 \/ i < f.symoffset
           IN /\ \A i \in 1..f.n :
                   \/ NameIn(g, i) = NameIn(f, i) /\ ~(Meant(i) /\ IsTail(r) /\ SymbolCount(f) # 0)
                   \/ NameIn(g, i) = r.to /\ Meant(i)
              /\ \A i \in f.n + 1..Len(f.entries) : g.entries[i] = f.entries[i]
              /\ \A o \in f.others : StringAt(g.str, o) = StringAt(f.str, o)
=============================================================================
