---------------------------- MODULE MCHostStack ----------------------------
(***************************************************************************)
(* Small hosts for HostConf: what each directory can hold, and small trees *)
(* of conf files.                                                          *)
(***************************************************************************)
EXTENDS HostConf

---------------------------------------------------------------------------
(* Conf files.  "etc" holds ld.so.conf, "d" the files it includes.         *)

ConfRoot == <<"etc", <<9>>>>
A    == <<1, Dot, 2>>          \* the names a.x, b.x, c.y and .x
B    == <<3, Dot, 2>>
C    == <<4, Dot, 5>>
H    == <<Dot, 2>>
Include(c, b) == [include |-> TRUE, dir |-> c, base |-> b]
All  == Include("d", <<Star, Dot, 2>>)                   \* include d/*.x
One  == Include("d", <<1, Dot, 2>>)                      \* include d/a.x
Gone == Include("e", <<Star>>)                           \* no such directory
Dir(d) == [include |-> FALSE, dir |-> d, base |-> <<>>]

CONSTANTS handoff, conf, usual, usual2, mine,   \* directories
          first, second                         \* libraries of the set

\* Trees whose files include each other, and themselves.
FileTrees ==
  {[lines   |-> (ConfRoot :> top) @@ (<<"d", A>> :> a) @@ (<<"d", B>> :> b)
                 @@ (<<"d", C>> :> <<Dir(mine)>>)
                 @@ (<<"d", H>> :> <<Dir(handoff)>>),
    listing |-> ("d" :> names) @@ ("etc" :> <<ConfRoot[2]>>)] :
     top   \in {<<All>>, <<Dir(conf), All, One>>, <<Gone, All, Dir(conf)>>,
               <<One>>},
     a     \in {<<>>, <<Dir(usual)>>, <<All, Dir(usual)>>,
               <<Dir(usual), One, All>>},
     b     \in {<<Dir(usual2)>>, <<All, Dir(usual2)>>,
               <<Dir(usual), Dir(usual2)>>},
     names \in {<<A, B, C, H>>, <<H, C, B, A>>, <<B, A>>, <<C, B>>, <<>>}}

\* One directory, by way of a file that includes itself.
OneTree ==
  [lines   |-> (ConfRoot :> <<All>>) @@ (<<"d", A>> :> <<Dir(conf), One>>),
   listing |-> "d" :> <<A>>]

---------------------------------------------------------------------------
(* Hosts.                                                                  *)

MCSetLibs  == <<first, second>>
MCHostDirs == <<usual>>
MCVaDirs   == <<usual, usual2>>
MCSize     == [d \in Dirs |-> IF d \in {usual, mine} THEN 2 ELSE 1]

On(fs, lib, alt, bundle, force, egl, va) ==
  [lib |-> lib, alt |-> alt, handoff |-> <<handoff>>, fs |-> fs,
   conf |-> EachDir(fs, {}).named, force |-> force]
    @@ bundle @@ egl @@ va
World(lib, alt, bundle, force, egl, va) ==
  On(OneTree, lib, alt, bundle, force, egl, va)

NoAlt == [d \in Dirs |-> "none"]
Lib(h, c, u) == [NoAlt EXCEPT ![handoff] = h, ![conf] = c, ![usual] = u]

Bundles ==
  {[root |-> FALSE, dispatcher |-> "absent", bundleVendor |-> FALSE]} \cup
  [root : {TRUE}, dispatcher : {"absent", "broken", "good"},
   bundleVendor : BOOLEAN]

Egls ==
  [egl : {TRUE}, hostJson : BOOLEAN, vendorDirs : {{}},
   xdg : {<<>>, <<conf>>}, vendors : {None, <<usual>>}]
Gls ==
  [egl : {FALSE}, hostJson : {FALSE}, vendorDirs : {{}, {conf}},
   xdg : {<<conf>>}, vendors : {None}]

NoVa ==
  [cross |-> TRUE, set |-> {first}, starts |-> "never", dryrun |-> FALSE,
   libva |-> FALSE, linked |-> FALSE, vaPath |-> <<>>, ldpath |-> <<>>,
   dri |-> {}, own |-> {mine}]

Files == {"none", "other", "broken", "good"}

\* One thread, and what each directory can hold under the soname.
GlWorlds ==
  {World(Lib(h, c, u), NoAlt, bundle, force, gl, NoVa) :
     h \in Files \cup {"self"}, c \in Files, u \in {"none", "good"},
     bundle \in Bundles, force \in {"none", "host", "bundled"}, gl \in Gls}

\* The two shims with a vendor directory, one of them with a second soname.
EglWorlds ==
  {World(Lib("none", c, "none"), alt, bundle, force, egl, NoVa) :
     c \in {"none", "broken", "good"},
     alt \in {NoAlt, Lib("other", "none", "good"),
             Lib("broken", "good", "none")},
     bundle \in Bundles, force \in {"none", "host", "bundled"}, egl \in Egls}

\* Two threads, the libraries of the set and the driver directories.
VaWorlds ==
  {World(Lib("none", "good", "none"), NoAlt, bundle, "none", gl, va) :
     bundle \in {b \in Bundles :
                  b.root => b.dispatcher = "good" /\ ~b.bundleVendor},
     gl \in {g \in Gls : g.vendorDirs = {}},
     va \in [cross : BOOLEAN, set : {{first}}, starts : {"early", "late"},
             dryrun : BOOLEAN, libva : {TRUE}, linked : {FALSE},
             vaPath : {<<>>}, ldpath : {<<handoff, mine>>},
             dri : {{handoff, mine, usual}}, own : {{mine}}]
            \cup
            [cross : {TRUE}, set : {{first}}, starts : {"early"},
             dryrun : {FALSE}, libva : {TRUE}, linked : BOOLEAN,
             vaPath : {<<>>, <<usual>>, <<mine>>, <<mine, conf, mine>>},
             ldpath : {<<handoff, mine, handoff>>, <<conf>>},
             dri : {{}, {handoff, usual}, {mine, usual, usual2},
                    {handoff, conf, usual, usual2}},
             own : {{mine}, {}}]}

\* Every tree of conf files, and what it leads to.
ConfWorlds ==
  {On(fs, [NoAlt EXCEPT ![usual] = u, ![usual2] = "good", ![mine] = "good"],
      NoAlt, [root |-> FALSE, dispatcher |-> "absent", bundleVendor |-> FALSE],
      "none",
      [egl |-> FALSE, hostJson |-> FALSE, vendorDirs |-> {}, xdg |-> <<>>,
       vendors |-> None], NoVa) :
     fs \in FileTrees, u \in {"other", "good"}}

AllWorlds == GlWorlds \cup EglWorlds \cup VaWorlds \cup ConfWorlds
=============================================================================
