------------------------------ MODULE HostStack ------------------------------
(***************************************************************************)
(* How a process comes by the libraries of its host beside those of its    *)
(* bundle: the global-scope set of cross-libc-dlopen.c, the one library    *)
(* gl-fwd.c forwards to, and the search list of libva.  The three meet in  *)
(* dlopen: the set and the target are loaded with it, and each load that   *)
(* succeeds looks for libva before it returns.                             *)
(*                                                                         *)
(* What the bundle and the host hold is a record, `world', that stays as   *)
(* it is; see Worlds.  A load here is one step, whatever CldLoad and       *)
(* LoaderLocks say happens inside it, and that only one thread looks for   *)
(* the target is GlFwd's LoadInv.                                          *)
(***************************************************************************)
EXTENDS Integers, Sequences, FiniteSets, SequencesExt

CONSTANTS
  Threads, Main,    \* Main runs the constructors
  Dirs,             \* directories a library or a driver can be in
  None,
  SetLibs,          \* cld_global_scope_libs, a sequence
  HostDirs,         \* glfwd_host_dirs, a sequence of Dirs
  VaDirs,           \* cld_va_libdirs, a sequence of Dirs
  Size,             \* what a directory takes of the list, with its separator
  Room,             \* what cld_va_list.buf holds
  Worlds

ASSUME MainAssumption == Main \in Threads /\ None \notin Dirs
ASSUME SetLibsAssumption == SetLibs \in Seq(ToSet(SetLibs))
ASSUME VaAssumption ==
  VaDirs \in Seq(Dirs) /\ Size \in [Dirs -> Nat \ {0}] /\ Room \in Nat

VARIABLES
  world,
  pc,        \* where each thread is
  back,      \* where its dlopen, and its init_now, return to
  libs,      \* the libraries of the set the thread has still to ask for
  setDone,   \* static int done
  tried,     \* libraries of the set asked for, by any thread
  loaded,    \* objects in the process
  glState,   \* glfwd_load_state: 0 untried, 1 in the load, 2 done
  opened,    \* the handle glfwd_open_target has
  target,    \* glfwd_target
  vendors,   \* __EGL_VENDOR_LIBRARY_DIRS, None when unset
  vaDone,    \* cld_va_done
  vaPath,    \* LIBVA_DRIVERS_PATH
  users      \* threads that have libva and may call vaInitialize

setVars == <<libs, setDone, tried>>
glVars  == <<glState, opened, target, vendors>>
vaVars  == <<vaDone, vaPath, users>>
vars    == <<world, pc, back, setVars, loaded, glVars, vaVars>>

Nothing == [kind |-> "none", dir |-> None]
Bundled == [kind |-> "bundled", dir |-> None]
Host(d) == [kind |-> "host", dir |-> d]
Alt(d)  == [kind |-> "alt", dir |-> d]
Libva   == [kind |-> "libva", dir |-> None]
SetLib  == [kind |-> "set", dir |-> None]
Shim    == [kind |-> "shim", dir |-> None]   \* gl-fwd.so itself

Targets == {Bundled} \cup {Host(d) : d \in Dirs} \cup {Alt(d) : d \in Dirs}

At(t, here) == pc[t] = here
Goto(t, there) == pc' = [pc EXCEPT ![t] = there]

---------------------------------------------------------------------------
(* The list for libva.  A list is its whole entries and, when the last one *)
(* written did not fit, the piece of it that snprintf left behind them.    *)

Taken(items) ==
  LET upTo[k \in 0 .. Len(items)] == IF k = 0 THEN 0 ELSE upTo[k-1] + Size[items[k]]
  IN  upTo[Len(items)]

\* cld_va_add: an entry that does not fit stays as a piece, which the next
\* entry that is added overwrites.
Add(w, l, d) ==
  IF d \notin w.dri \/ d \in ToSet(l.items) THEN l
  ELSE IF Taken(l.items) + Size[d] <= Room
       THEN [items |-> Append(l.items, d), piece |-> None]
       ELSE [l EXCEPT !.piece = IF Taken(l.items) < Room THEN d ELSE @]

IsHostPath(w, d) == d \notin w.own

\* The directories it tries, in order: of LD_LIBRARY_PATH those of the host only.
Tried(w) == w.ldpath \o VaDirs
Skipped(w, k) == k <= Len(w.ldpath) /\ ~IsHostPath(w, Tried(w)[k])

\* What cld_va_setup leaves in the variable, which was `list'.
Extended(w, list) ==
  LET after[k \in 0 .. Len(Tried(w))] ==
        IF k = 0 THEN list
        ELSE IF Skipped(w, k) THEN after[k-1] ELSE Add(w, after[k-1], Tried(w)[k])
      l == after[Len(Tried(w))]
  IN  IF list.piece # None \/ Taken(list.items) > Room \/ l.items = <<>>
      THEN list ELSE l

---------------------------------------------------------------------------
(* dlopen, and what it does before it returns: cld_va_setup.               *)

\* A dlopen of `object' that goes on at `there' or, failing, at `otherwise'.
Open(t, object, loads, there, otherwise) ==
  IF loads
  THEN /\ loaded' = loaded \cup {object}
       /\ back' = [back EXCEPT ![t] = <<there>> \o @]
       /\ Goto(t, "va")
  ELSE /\ Goto(t, otherwise)
       /\ UNCHANGED <<back, loaded>>

Return(t) ==
  /\ back' = [back EXCEPT ![t] = Tail(@)]
  /\ Goto(t, Head(back[t]))

\* The first test of cld_va_setup.
VaTest(t) ==
  /\ At(t, "va")
  /\ IF vaDone THEN Return(t) ELSE Goto(t, "va_scan") /\ UNCHANGED back
  /\ UNCHANGED <<world, setVars, loaded, glVars, vaVars>>

\* The scan, settled whether or not it finds libva (the mutant).
VaScan_Latches(t) ==
  /\ At(t, "va_scan")
  /\ vaDone' = TRUE
  /\ IF world.cross /\ Libva \in loaded
     THEN Goto(t, "va_list") /\ UNCHANGED back
     ELSE Return(t)
  /\ UNCHANGED <<world, setVars, loaded, glVars, vaPath, users>>

\* The mode, and whether libva is in the process: not yet is not settled.
VaScan(t) ==
  /\ At(t, "va_scan")
  /\ vaDone' = (vaDone \/ ~world.cross \/ Libva \in loaded)
  /\ IF world.cross /\ Libva \in loaded
     THEN Goto(t, "va_list") /\ UNCHANGED back
     ELSE Return(t)
  /\ UNCHANGED <<world, setVars, loaded, glVars, vaPath, users>>

\* getenv, the list, setenv; a dry run only prints it.
VaList(t) ==
  /\ At(t, "va_list")
  /\ vaPath' = IF world.dryrun THEN vaPath ELSE Extended(world, vaPath)
  /\ Return(t)
  /\ UNCHANGED <<world, setVars, loaded, glVars, vaDone, users>>

---------------------------------------------------------------------------
(* cld_load_global_scope_libs: the constructor, or init_now.               *)

\* `done', a plain int, is read ...
SetTest(t) ==
  /\ At(t, "set")
  /\ IF setDone THEN Return(t) ELSE Goto(t, "set_begin") /\ UNCHANGED back
  /\ UNCHANGED <<world, setVars, loaded, glVars, vaVars>>

\* ... and then written, before the first library is asked for.
SetBegin(t) ==
  /\ At(t, "set_begin")
  /\ setDone' = TRUE
  /\ IF world.cross
     THEN /\ libs' = [libs EXCEPT ![t] = SetLibs]
          /\ Goto(t, "set_next")
          /\ UNCHANGED back
     ELSE Return(t) /\ UNCHANGED libs
  /\ UNCHANGED <<world, tried, loaded, glVars, vaVars>>

\* One library: the bundle's copy, or whatever answers to the name.
SetNext(t) ==
  /\ At(t, "set_next")
  /\ libs[t] # <<>>
  /\ LET lib == Head(libs[t])
     IN  /\ tried' = tried \cup {lib}
         /\ Open(t, SetLib, lib \in world.set, "set_next", "set_next")
  /\ libs' = [libs EXCEPT ![t] = Tail(@)]
  /\ UNCHANGED <<world, setDone, glVars, vaVars>>

SetEnd(t) ==
  /\ At(t, "set_next")
  /\ libs[t] = <<>>
  /\ Return(t)
  /\ UNCHANGED <<world, setVars, loaded, glVars, vaVars>>

---------------------------------------------------------------------------
(* glfwd_load_target, which the first GL call comes to.                    *)

\* glfwd_each_dir: the launcher's directories, those the host's conf files
\* name (LdConf), the conventional ones.
Places(w) == w.handoff \o w.conf \o HostDirs

ASSUME WorldsAssumption ==
  \A w \in Worlds : /\ Places(w) \in Seq(Dirs) /\ w.xdg # None
                    /\ w.vaPath \in Seq(Dirs) /\ w.ldpath \in Seq(Dirs)
                    /\ w.dri \subseteq Dirs

\* The i-th is the first directory whose file of that name can be read and is
\* of the right class, whether or not it will load; files is w.lib or w.alt.
First(w, files, i) ==
  /\ files[Places(w)[i]] \notin {"none", "other"}
  /\ \A j \in 1 .. i - 1 : files[Places(w)[j]] \in {"none", "other"}

Found(w, files) ==
  LET firsts == {i \in DOMAIN Places(w) : First(w, files, i)}
  IN  IF firsts = {} THEN None ELSE Places(w)[CHOOSE i \in firsts : TRUE]

BundleVendor(w) == w.root /\ w.bundleVendor
HostVendor(w)   == w.hostJson \/ \E i \in DOMAIN Places(w) :
                                   Places(w)[i] \in w.vendorDirs

HaveBundled(w) == w.root /\ w.dispatcher # "absent"

\* The host's vendor asked for before the bundle's own (the mutant).
UseBundled_HostOnly(w) ==
  \/ w.force = "bundled"
  \/ w.force # "host" /\ HaveBundled(w) /\ HostVendor(w)

UseBundled(w) ==
  \/ w.force = "bundled"
  \/ /\ w.force # "host" /\ HaveBundled(w)
     /\ (BundleVendor(w) \/ HostVendor(w))

\* The first GL call, in the constructor of a library or after them all; it
\* goes straight to the choice (the mutant).
Draw_SetLater(t) ==
  /\ pc[t] \in {"boot", "idle"} /\ glState = 0
  /\ glState' = 1
  /\ Goto(t, "choose")
  /\ back' = [back EXCEPT ![t] = <<pc[t]>>]
  /\ UNCHANGED <<world, setVars, loaded, opened, target, vendors, vaVars>>

\* The first GL call, in the constructor of a library or after them all: it
\* calls cross_libc_dlopen_init_now first.
Draw(t) ==
  /\ pc[t] \in {"boot", "idle"} /\ glState = 0
  /\ glState' = 1
  /\ Goto(t, "set")
  /\ back' = [back EXCEPT ![t] = <<"choose", pc[t]>>]
  /\ UNCHANGED <<world, setVars, loaded, opened, target, vendors, vaVars>>

Choose(t) ==
  /\ At(t, "choose")
  /\ Goto(t, IF UseBundled(world) /\ HaveBundled(world) THEN "bundled_env"
             ELSE "host")
  /\ UNCHANGED <<world, back, setVars, loaded, glVars, vaVars>>

\* glfwd_set_egl_vendor_env: only what is unset, and never an empty list.
SetVendors(t) ==
  /\ pc[t] \in {"bundled_env", "last_env"}
  /\ vendors' = IF world.egl /\ vendors = None /\ world.xdg # <<>>
                THEN world.xdg ELSE vendors
  /\ Goto(t, IF At(t, "bundled_env") THEN "bundled" ELSE "last")
  /\ UNCHANGED <<world, back, setVars, loaded, glState, opened, target,
                 vaVars>>

\* A dlopen of the target; file is what is found at its path.
OpenTarget(t, object, file, otherwise) ==
  LET got == IF file = "self" THEN Shim ELSE object
  IN  /\ Open(t, got, file \in {"good", "self"}, "adopt", otherwise)
      /\ opened' = IF file \in {"good", "self"} THEN got ELSE opened
      /\ UNCHANGED <<world, setVars, glState, target, vendors, vaVars>>

Miss(t, there) ==
  /\ Goto(t, there)
  /\ UNCHANGED <<world, back, setVars, loaded, glVars, vaVars>>

OpenBundled(t) ==
  /\ At(t, "bundled")
  /\ OpenTarget(t, Bundled, world.dispatcher, "host")

OpenHost(t) ==
  /\ At(t, "host")
  /\ LET d == Found(world, world.lib)
     IN  IF world.force = "bundled" \/ d = None THEN Miss(t, "alt")
         ELSE OpenTarget(t, Host(d), world.lib[d], "alt")

OpenAlt(t) ==
  /\ At(t, "alt")
  /\ LET d == Found(world, world.alt)
     IN  IF world.force = "bundled" \/ d = None THEN Miss(t, "rest")
         ELSE OpenTarget(t, Alt(d), world.alt[d], "rest")

Rest(t) ==
  /\ At(t, "rest")
  /\ IF ~UseBundled(world) /\ HaveBundled(world) THEN Miss(t, "last_env")
     ELSE Miss(t, "adopt")

OpenLast(t) ==
  /\ At(t, "last")
  /\ OpenTarget(t, Bundled, world.dispatcher, "adopt")

\* The rest of glfwd_load_target: the handle is kept unless it is this shim's.
Adopt(t) ==
  /\ At(t, "adopt")
  /\ target' = IF opened = Shim THEN Nothing ELSE opened
  /\ glState' = 2
  /\ Return(t)
  /\ UNCHANGED <<world, setVars, loaded, opened, vendors, vaVars>>

---------------------------------------------------------------------------
(* The process.                                                            *)

\* The two constructors of cross-libc-dlopen.c, in the order of the file.  A
\* program that is linked against libva may use it after them.
Construct(t) ==
  /\ At(t, "boot")
  /\ Goto(t, "set")
  /\ back' = [back EXCEPT ![t] = IF world.linked THEN <<"va", "may_use", "idle">>
                             ELSE <<"va", "idle">>]
  /\ UNCHANGED <<world, setVars, loaded, glVars, vaVars>>

\* A thread of the application, or of a constructor that ran before ours.
Start(t) ==
  /\ At(t, "off")
  /\ \/ world.starts = "early"
     \/ world.starts = "late" /\ At(Main, "idle")
  /\ Goto(t, "idle")
  /\ UNCHANGED <<world, back, setVars, loaded, glVars, vaVars>>

\* A dlopen that brings libva in, and one that does not.
LoadVa(t) ==
  /\ pc[t] \in {"boot", "idle"} /\ t \notin users
  /\ world.libva
  /\ loaded' = loaded \cup {Libva}
  /\ back' = [back EXCEPT ![t] = <<"may_use", pc[t]>>]
  /\ Goto(t, "va")
  /\ UNCHANGED <<world, setVars, glVars, vaVars>>

LoadOther(t) ==
  /\ pc[t] \in {"boot", "idle"}
  /\ back' = [back EXCEPT ![t] = <<pc[t]>>]
  /\ Goto(t, "va")
  /\ UNCHANGED <<world, setVars, loaded, glVars, vaVars>>

MayUse(t) ==
  /\ At(t, "may_use")
  /\ users' = users \cup {t}
  /\ Return(t)
  /\ UNCHANGED <<world, setVars, loaded, glVars, vaDone, vaPath>>

Init ==
  /\ world \in Worlds
  /\ pc = [t \in Threads |-> IF t = Main THEN "boot" ELSE "off"]
  /\ back = [t \in Threads |-> <<>>]
  /\ libs = [t \in Threads |-> <<>>]
  /\ setDone = FALSE
  /\ tried = {}
  /\ loaded = IF world.linked THEN {Libva} ELSE {}
  /\ glState = 0
  /\ opened = Nothing
  /\ target = Nothing
  /\ vendors = world.vendors
  /\ vaDone = FALSE
  /\ vaPath = [items |-> world.vaPath, piece |-> None]
  /\ users = {}

Step(t) ==
  \/ VaTest(t) \/ VaScan(t) \/ VaList(t)
  \/ SetTest(t) \/ SetBegin(t) \/ SetNext(t) \/ SetEnd(t)
  \/ Draw(t) \/ Choose(t) \/ SetVendors(t) \/ OpenBundled(t) \/ OpenHost(t)
  \/ OpenAlt(t) \/ Rest(t) \/ OpenLast(t) \/ Adopt(t)
  \/ Construct(t) \/ Start(t) \/ LoadVa(t) \/ LoadOther(t) \/ MayUse(t)

Next == \E t \in Threads : Step(t)

Spec == Init /\ [][Next]_vars

---------------------------------------------------------------------------
(* What this is for.                                                       *)

TypeOK ==
  /\ pc \in [Threads -> {"off", "boot", "idle", "va", "va_scan", "va_list",
                         "set", "set_begin", "set_next", "choose",
                         "bundled_env", "bundled", "host", "alt", "rest",
                         "last_env", "last", "adopt", "may_use"}]
  /\ back \in [Threads -> Seq({"boot", "idle", "va", "set_next", "choose",
                               "adopt", "may_use"})]
  /\ libs \in [Threads -> Seq(ToSet(SetLibs))]
  /\ setDone \in BOOLEAN /\ vaDone \in BOOLEAN
  /\ tried \subseteq ToSet(SetLibs)
  /\ loaded \subseteq Targets \cup {Libva, SetLib, Shim}
  /\ glState \in 0 .. 2
  /\ opened \in Targets \cup {Nothing, Shim}
  /\ target \in Targets \cup {Nothing}
  /\ users \subseteq Threads

InSet(t) == At(t, "set_next") \/ "set_next" \in ToSet(back[t])

\* A library of the host's, with its libc edge dropped, finds the whole set
\* asked for when it is loaded: also when the first GL call comes from a
\* constructor that runs before ours.  Only another thread in the middle of
\* loading the set leaves it incomplete, because `done' is set first.
GlobalsFirst ==
  [][\A o \in Targets :
       /\ o \in loaded' \ loaded
       /\ world.cross
       => \/ tried = ToSet(SetLibs)
          \/ \E t \in Threads : InSet(t)]_vars

\* The bundle is a self-contained stack.
Contained(w) == BundleVendor(w) /\ w.dispatcher = "good" /\ w.force # "host"

\* No two GL stacks in one process, and none of the host's beside a bundle
\* that has its own.
OneStack ==
  /\ Cardinality(loaded \cap Targets) <= 1
  /\ Contained(world) => loaded \cap Targets \subseteq {Bundled}

\* An object that could be forwarded to: what the host has first in the order
\* of the directories, once what is no library of this class is passed over.
Loadable(w, files) ==
  \E i \in DOMAIN Places(w) :
    /\ files[Places(w)[i]] = "good"
    /\ \A j \in 1 .. i - 1 : files[Places(w)[j]] \in {"none", "other"}

NoTarget(w) ==
  /\ ~(w.root /\ w.dispatcher = "good")
  /\ w.force = "bundled" \/ ~(Loadable(w, w.lib) \/ Loadable(w, w.alt))

\* When the load is over the calls go to the shim never, and nowhere only
\* when the bundle's dispatcher does not load and, unless the bundle was asked
\* for, the host has nothing that loads first, or the shim itself.
EndsSomewhere ==
  glState = 2 =>
    /\ target # Nothing => target \in loaded \cap Targets
    /\ target = Nothing /\ opened # Shim => NoTarget(world)

\* The bundled EGL dispatcher is loaded with the host's vendor directories in
\* the environment, if there are any, and a list that was there is kept.
VendorsFirst ==
  /\ world.vendors # None => vendors = world.vendors
  /\ Bundled \in loaded /\ world.egl /\ world.xdg # <<>> => vendors # None

\* gl-fwd.c's choice of a target, as glfwd_open_target's comments give it.
TargetRight == OneStack /\ EndsSomewhere /\ VendorsFirst

\* The directories cld_va_setup is to put in the list.
DriversFor(w) ==
  {d \in w.dri : \/ d \in ToSet(w.ldpath) /\ IsHostPath(w, d)
                 \/ d \in ToSet(VaDirs)}

\* The list is what the user gave, then host directories, none of them twice
\* and none of the bundle's; all of them when there is room.
ListRight(w, list) ==
  LET n     == Len(w.vaPath)
      given == ToSet(w.vaPath)
      added == SubSeq(list.items, n + 1, Len(list.items))
  IN  /\ n <= Len(list.items)
      /\ SubSeq(list.items, 1, n) = w.vaPath
      /\ \A i, j \in DOMAIN added : added[i] = added[j] => i = j
      /\ ToSet(added) \subseteq DriversFor(w) \ given
      /\ Taken(w.vaPath) + Taken(SetToSeq(DriversFor(w) \ given)) <= Room =>
           ToSet(added) = DriversFor(w) \ given /\ list.piece = None

\* Once a load of libva has returned, in whichever thread, the list that
\* vaInitialize will read is there, unless another thread has just seen libva
\* and is still putting the list together; and the variable is never anything
\* else than what it was or the list.
VaBeforeUse ==
  /\ \/ vaPath = [items |-> world.vaPath, piece |-> None]
     \/ world.cross /\ ~world.dryrun /\ ListRight(world, vaPath)
  /\ users # {} /\ world.cross /\ ~world.dryrun =>
       \/ ListRight(world, vaPath)
       \/ \E t \in Threads : At(t, "va_list")

=============================================================================
