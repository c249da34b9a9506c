--------------------------- MODULE MCHostImports ---------------------------
(***************************************************************************)
(* Small instances of HostImports: libcs of each kind, and every small     *)
(* symbol table over one string table.                                     *)
(***************************************************************************)
EXTENDS HostImports, TLC

CONSTANTS condInit, condWait, old, new

\* One libc that has both definitions of a name and one of another, its dlsym
\* either way; a name with no default; a file replaced by another release's or
\* one whose tables cannot be read; and something that nests, in either name.
Libc == [default |-> [n \in Names |-> new], inFile |-> [n \in Names |-> new],
         obsolete |-> [n \in Names |-> IF n = condInit THEN old ELSE None],
         newest |-> FALSE, nested |-> None]
Libcs ==
  {[Libc EXCEPT !.newest = nw, !.nested = x, !.inFile[condInit] = f] :
     nw \in BOOLEAN, x \in {None, condInit, condWait}, f \in {new, old, None}}
  \cup {[Libc EXCEPT !.default[condInit] = None, !.inFile[condInit] = f, !.newest = nw] :
          f \in {None, new}, nw \in BOOLEAN}

\* The string table of "wxy" and "uue": "xy" is the tail of one, "ue" of the
\* other.
Table == <<Nul, "w", "x", "y", Nul, "u", "u", "e", Nul, "x", "y", Nul>>
Offsets == {2, 3, 4, 5, 6, 7, 10}
Environ == [from |-> <<"u", "u", "e">>, to |-> <<"u", "e">>]
InPlace == [from |-> <<"x", "y">>, to |-> <<"z">>]
Longer == [from |-> <<"u", "e">>, to |-> <<"u", "u", "e">>]

\* Two symbols and an entry past them; the hashed ones are the last of them,
\* in one chain or two, and the word past the table has any end bit; where
\* nothing is hashed and the table says 1, so have the words it is counted by.
Symbols == [name : Offsets, undef : BOOLEAN]
Hashes ==
  {[sysv |-> sysv, symoffset |-> k, starts |-> st,
    ends |-> [i \in 1..3 |-> IF i = 3 THEN e ELSE i = 2 \/ i + 1 \in {st[1], st[2]}]] :
     sysv \in BOOLEAN, k \in 0..3, e \in BOOLEAN,
     st \in {<<0, 0>>, <<1, 0>>, <<2, 1>>, <<0, 2>>}}
  \cup {[sysv |-> sysv, symoffset |-> 1, starts |-> <<0, 0>>, ends |-> [i \in 1..3 |-> i \in e]] :
          sysv \in BOOLEAN, e \in {{}, {1}, {2}, {3}}}
WellFormed(h) ==
  LET S == {h.starts[1], h.starts[2]} \ {0}
  IN IF S = {} THEN h.symoffset \in {0, 1, 3} ELSE h.symoffset \in S /\ \A x \in S : x >= h.symoffset
SomeFiles ==
  {[str |-> Table, n |-> 2, entries |-> <<s1, s2, p>>, others |-> o,
    sysv |-> h.sysv, symoffset |-> h.symoffset, starts |-> h.starts, ends |-> h.ends] :
     h \in {h \in Hashes : WellFormed(h)}, o \in {{}} \cup {{x} : x \in Offsets},
     s1 \in Symbols, s2 \in Symbols, p \in [name : {6, 10}, undef : {TRUE}]}
\* As the linkers write them: what is hashed is defined, and all else is not
\* where a table says what is.
SortedFiles ==
  {f \in SomeFiles : f.symoffset # 0 => \A i \in 1..2 : f.entries[i].undef <=> i \notin Hashed(f)}
SomeRenames == {Environ, InPlace, Longer}
=============================================================================
