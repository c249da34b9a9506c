# cross-libc-dlopen in TLA+

A program built against a bundled libc (glibc or musl) wants the graphics
drivers of the host it runs on, which may be older, newer, or of the other
libc family.  `cross-libc-dlopen` is an `LD_PRELOAD` library that makes their
`dlopen` succeed, a set of forwarding shims that stand in for the GL libraries
the program was linked with, and a helper that chooses, before the program
starts, whether to run it under the bundle's glibc or the host's.

This directory holds TLA+ models of the parts where order matters: several
threads, several processes, callbacks from the dynamic linker into our code,
steps that fail half way.  TLC checks them on small instances; TLAPS proves
the invariants that carry the most for every value of the constants.

Paths below are relative to the repository: `src/gl-fwd.c` is that file.

Contents: 1 the system, 2 the modules, 3 the runs, 4 fairness and deadlock,
5 the proofs, 6 what the runs disagree with, 7 what is not modelled,
8 the plan.

## 1. The system

### Components, their state and their operations

| Component | Where | State | Operations |
|---|---|---|---|
| dlopen hook and load path | `src/cross-libc-dlopen.c` | `cld_active_stack` and its depth (thread-local), the handle cache, the pending `dlerror()`, what the linker has mapped | `dlopen`, `cld_attempt`, `cld_load`, the walk of a closure, judging and emitting one object, the fallbacks |
| caches and locks of the loader | same file | `cld_cache`, `cld_provider_versions`, `cld_providers`, and two spin locks | remember/find a handle, scan our libc's versions, look a provider up, read its versions |
| private copies | same file | the files of the shared runtime directory | `cld_emit_copy` (mkstemp, write, rename), the sweep, the open of the copy |
| GL/EGL/GLES shims | `src/gl-fwd.c` | `glfwd_tab` and `glfwd_addr` (one slot, one address per name), the state of the one load, the library it opens, the EGL vendor list in the environment, the count of resolved names | first call of an entry point and the assembly it passes through, eager and lazy constructor, the load, the choice of its target, the address lookup |
| ELF rewrite | `src/cross-libc-dlopen.c` | an image in memory | count the symbols, strip version references, rename musl spellings |
| report and dry run | same file | none of its own | list unresolved names, walk without rewriting |
| libva set-up, global-scope libraries | same file | one latch each, `LIBVA_DRIVERS_PATH` | after every `dlopen`, put the host's driver directories in the list; load the bundle's runtime set with `RTLD_GLOBAL` |
| version-compat shims | `src/version-compat.c` | one slot per symbol, a thread-local guard | resolve the default definition or fall back |
| runtime selection | `src/runtime-select.c` | a symlink farm in a directory named after the host's release, shared by the user's launches | compare releases, collect a host set, check it statically, build the farm, self-test, exec |
| `ld.so.conf` walk | `src/ld-conf.h` | a list of directories | recursive include within a budget |
| environment accessors | `src/cld-env.h` | none | read either spelling of a variable |
| forward shim, generators, build, tests | `src/forward-shim.c`, `tools`, `tests` | none | |

### How they meet

* **The dynamic linker's lock.**  `dlopen`, `dlsym` and `dladdr` take it; a
  library's constructors run while it is held, and those constructors may come
  back into us: by `dlopen` (the hook), or by a GL call (a shim).  It is
  recursive, so a thread never blocks itself, but it orders against our own
  locks.  `GlFwd` and `LoaderLocks` both carry it, because both components
  take locks (or spin on a flag) of their own around linker calls.
* **The runtime directory.**  Every process of every launch writes its copies
  there, under names made from the path and the length of the file.  Nothing locks it:
  `EmitCopy`.
* **The farm.**  Every launch of the user that runs under the same host
  release, of whatever bundle, shares one symlink directory, and an application
  that already runs opens its libraries through it: `RuntimeSelect`.
* **The environment and the latches.**  Every `dlopen` that succeeds may extend
  `LIBVA_DRIVERS_PATH` before it returns, on whatever thread; the first GL call
  asks for the global-scope set, then opens a library of the host, which is one
  more such `dlopen`; both latch without a lock: `HostStack`.
* **The host's `ld.so.conf`.**  The directories it names are where the shim and
  the runtime selection look for libraries: `LdConf`.
* **`dlerror()`.**  One message per thread.  The hook, its trace, its report
  and the shim's load all call functions that replace or consume it.
* **The load path recurses through all of this**: one `dlopen` of the
  application becomes a walk of opens, some of plain files, some of copies,
  each of which may run constructors that call `dlopen`: `CldLoad`.

### What is hard here, and what correct means

* *Load path.*  The linker's answer for one object depends on what has been
  loaded before; an object is rewritten only if it must be, bundled copies of
  a soname win over the host's, one file is one image, exactly one libc
  family is in the process, every `dlopen` returns whatever the shape of the
  dependencies, and a failed one leaves a message its caller can read.
* *Locks and caches.*  No thread waits for a spin lock it holds; nothing
  reads a table entry that is not filled or judges against half a version
  set; two threads never add the same file twice or pass the bound together.
* *Copies.*  A name never names a part of a copy, whoever is killed when, and
  what is left behind is at most what an interrupted writer left.
* *Shims.*  The provider is decided once; a slot moves once, to the
  provider's answer; a constructor that calls in during the load is served
  and not cached; the load finishes; the application's `dlerror()` is not
  eaten by a GL call.
  What is called is what was called: arguments, return address and frame survive
  the first call, on five architectures.
* *What is forwarded to.*  There is one GL stack in the process, the bundle's own
  when it is complete, and something whenever anything would load; the
  global-scope set was asked for before it; whoever has libva has its list.
* *Versioned symbols.*  A plain reference reaches the default definition, with
  threads resolving it at once and the file perhaps unreadable, and no call
  aborts.
* *Rewrite.*  A rename changes the references it means and no other, though
  strings share their tails and symbols are hashed by name.
* *Runtime selection.*  A set that is chosen loads; a newer host is chosen;
  the members an application gets come from the directory they were checked
  in.

`PROJECT.json` lists the hazards at their lines, with the properties that
would catch each one.

## 2. The modules

| Module | What it is |
|---|---|
| `LazyBinding` | abstract: a table of names bound lazily to one provider's answers |
| `GlFwd` | the shim; refines `LazyBinding` |
| `GlFwdProofs` | type, load invariant, refinement, the counters, whose message is taken, the one deadlock |
| `Trampolines` | the shim's assembly, five architectures, as programs over registers and stack |
| `HostStack` | the target of the shim, the global-scope set, libva's list: where the three meet in `dlopen` |
| `LdConf` | the `ld.so.conf` walk, and what it is to find |
| `HostConf` | the two together: a host's directories are those its conf files name |
| `HostStackProofs` | type, the set before the target, the right target, libva's list before its use; that the conf walk is right |
| `VersionCompat` | the forwarders of versioned names, many threads |
| `ElfRewrite` | the symbol count and the rename, as operators |
| `HostImports` | the two together: a rewritten object, whose calls go through the forwarders |
| `HostImportsProofs` | type, default definitions reached, stable slots; that the rename is exact |
| `CldLoad` | one thread's `dlopen` through the hook |
| `CldLoadProofs` | type, bundled before host, distinct chains, explained failures, and what a benign world promises |
| `InductionLemmas` | induction over the naturals as a fact about sets, least elements, and that recursions define functions; what the proofs about closures and lists rest on |
| `LoaderLocks` | the shared state of the loader and its locks, many threads |
| `LoaderLocksProofs` | type, no re-entry, complete tables, stable answers, the one deadlock |
| `EmitCopy` | the runtime directory, many processes |
| `EmitCopyProofs` | type, never a torn copy |
| `RuntimeSelect` | launches, the farm they share, and what their applications load |
| `RuntimeSelectProofs` | type, that the loader accepts what is chosen, that the newer is chosen, where the members an application gets come from |
| `MC*` | constants and worlds of the instances; no behaviour. `MCGlFwd` ties the assembly to the calls that go through it |

### GlFwd (`src/gl-fwd.c`)

| In the model | In the code |
|---|---|
| `slot` | `glfwd_tab`, one jump target per entry point, at first the resolver |
| `addr`, `resolved` | `glfwd_addr` and `glfwd_resolved_count`, filled by the one `dlsym` pass |
| `loadState`, `inLoad` | `glfwd_load_state` (0, 1, 2) and the thread-local `glfwd_in_load` |
| `target`, `refusedSelf` | what was opened, and `glfwd_refused_self` |
| `calledFwd`, `calledAbsent` | the two counters of the exit report |
| `pc`, `cur`, `ret`, `outer` | each thread: where it is, for which name, where it goes back to |
| `dlOwner`, `inCtor`, `dlmsg` | external: the linker's recursive lock, a constructor under the application's own `dlopen`, the message pending on each thread |

`glfwd_ensure_target` has four ways to go and each is an action: the load is
over (`EnsureReady`), this thread is inside it (`EnsureReentered`), it wins the
compare-and-swap (`EnsureLoad`) or it loses (`EnsureWait`, then `EnsureReady`
from `"wait"`, the `sched_yield` loop).  The load is four steps: the query and
the `dlopen` that takes the linker's lock (`OpenTarget`), its end and the
self-check (`LoadTarget`), the `dlsym` pass (`FillAddr`), the release store
(`Publish`); between the first two the host stack's constructors run, on this
thread, and may call any entry point.  `Resolve` is the compare-and-swap of
`glfwd_resolve_one` and `CountCall` the atomic add after it, apart, since
another thread gets in between; `EagerStore` is one plain store of the eager
loop.  Which object is opened and which names it has are choices of the
environment here: the first is `HostStack`'s matter.  `AppDlopen`,
`AppLookupFails` and so on are the application; a constructor under its
`dlopen` may draw, which is how two threads come to wait for each other
(`CrossedBy`).

### Trampolines (`src/gl-fwd.c`, the assembly)

What lies between a call and the slot.  A program is a straight line of
operations, named for what they do to registers and stack (`Store`, `Fetch`,
`AddSp`, `Move`, `Call`, `Jump`), and a register for its part in the calling
convention; `Trampoline_*`, `Resolve_*` and `AbsentCode` are the five
architectures' text in that notation.  `Exec` and `Called` are the processor
and the C function in the middle, which may change whatever its convention
does not bind it to keep, the area above its caller's stack pointer that is
its own included (ppc64le).  A cell or register that is stored and put back
holds a token of what it held (`Was`), so that what arrives can be compared
with what was sent.

### HostStack (`src/cross-libc-dlopen.c`, `src/gl-fwd.c`)

| In the model | In the code |
|---|---|
| `world` | what bundle and host hold: the file in each directory under each soname (none, of another class, one that does not load, one that does, the shim itself), vendor directories, the conf files, the overriding variables |
| `pc`, `back` | where each thread is, and the stack of places its `dlopen`s and its `init_now` return to |
| `setDone`, `libs`, `tried` | `done` of `cld_load_global_scope_libs`, the rest of its loop, what has been asked for |
| `glState`, `opened`, `target` | `glfwd_load_state`, the handle `glfwd_open_target` has, `glfwd_target` |
| `vendors`, `vaDone`, `vaPath` | `__EGL_VENDOR_LIBRARY_DIRS`, `cld_va_done`, `LIBVA_DRIVERS_PATH` with the piece an entry that does not fit leaves |
| `loaded`, `users` | external: objects in the process, threads that have libva |

`Open` is a `dlopen`: what loads goes on to `VaTest`, `VaScan` and `VaList`
(`cld_va_setup`: test, look for libva and latch, put the list together) before
it returns.  `SetTest` and `SetBegin` are the read and the write of `done`,
apart; `SetNext` asks for one library of the set.  `Draw` is the first GL call,
made after the constructors or in one that runs before ours; `Choose`,
`SetVendors`, `OpenBundled`, `OpenHost`, `OpenAlt`, `Rest`, `OpenLast` follow
`glfwd_open_target` from one candidate to the next, `Adopt` refuses the shim.
`LoadVa`, `LoadOther`, `Start` and `MayUse` are the application.

### LdConf (`src/ld-conf.h`)

`EachDir` is the walk: the depth limit, the budget of files, the lines in their
order, the names of an included directory filtered, capped and sorted
(`Selected`), and the callback that ends it.  It is compared with a definition
by reachability that never walks: chains of files each of which includes the next
(`Reached`, `WalkRight`).  `HostConf` makes what it names the place where
`HostStack` looks for a target (`conf`).  The levels of the recursion and the turns of
its loops are recursive functions (`walk`, `after`), so that the provers can use them.

### VersionCompat (`src/version-compat.c`)

`slot` is `vc_slot_<name>`, `busy` the thread-local flag of `vc_resolve`,
`calls` each thread's stack of forwarders, which is deeper than one when
something called in the middle of a version's lookup is itself forwarded
(`Nest`).  `LoadSlot`, `EnterResolve`, `ReadVersion`, `Find`, `StoreSlot`,
`Forward` are the steps of one call, with other threads between any two.  A
world says which definitions of a name the loaded libc has, what its file
says, and which of them `dlsym` picks; `Fault` takes the file out of reach and
back.  `reached` remembers where calls went.

### ElfRewrite (`src/cross-libc-dlopen.c`)

`SymbolCount` is `cld_locate_dynsym`, from `DT_HASH` or the last chain of
`DT_GNU_HASH`; `Rename` is `cld_rename_undef_symbol`, turn by turn, with the
move of a reference into the tail of its string and the write in place that
`Occupied` guards.  A file is a string table, symbols whose names are offsets
into it, and the word after the table, which may be counted by mistake.
`FilesAssumption` says which files linkers write: what is hashed is last and
defined, and a hash table without a chain says that it starts past the last
symbol (lld, gold) or at 1 (GNU ld).

### CldLoad (`src/cross-libc-dlopen.c`)

A world (`Worlds`) is a record that never changes: who needs whom, who is built
against musl, who asks versions of whom (`asks`), of whom it wants one that nobody
(`newer`) or only the host's copy has (`wants`), how many entries of the provider
table are left for libraries (`entries`), what the bundle ships, which of that does not load, where files are and where the linker
looks, which constructors `dlopen`, whether copies can be written, debug and
dry run.  `frames` is the C stack, one record per `cld_load` in progress with
the place it has reached; `active` is `cld_active_stack`, `cache` is
`cld_cache`, `provides` says of each soname whose versions its entry in `cld_providers` lists
(the bundle's file, the host's, none, or that there is no entry), `msg` the pending
`dlerror()`.  `loaded` and `muslIn` are the process as the linker has it.

The linker is the environment: `Pulled` is what an open maps, breadth first,
by soname, the bundle before the host (`Grown` is one level of it); `Opens` is
whether it succeeds.  `first` is what answers to a soname, the image of it that was
mapped first, and with it the file whose versions a later one is checked
against.  The
actions follow `cld_load`: `TooDeep`, `AlreadyOpen`, `Cycle`, `OpenUntouched`
are its early returns; `OpenBundledDep`, `ProbeDep`, `RecurseDep`, `SkipDep` the
walk of one needed soname; `Decide` the verdict, whose questions fill the
table (`Asked`) until it is full: a file it then has no entry for (`Fits`,
`TableFull`) is answered for by the flat set of libc's versions, which has none of a
library; `OpenCopy`, `CopyFails`,
`Fallback`, `KeepHandle`, `Leave` the way out.  `Resume` lets a constructor of
what was just mapped start a load of its own at depth 0.  A path read after
its owner freed it (`Freed`, `NextToChain`) may read as anything.  What the ELF rewrite
produces is taken as given: a copy has no version tags and no musl edge.

Much of what the load promises it promises of a host it was made for.  `Benign`
says which: one libc family, files in reach and readable, imports that bind, room
for the closure and the copies, no cycle (`Layered`), no constructor that loads,
no dry run; and `OneHidden`, that among what a library the linker takes as it is
pulls in no two libraries are refused, since the walk recovers one from the
linker's message and does not ask again.  `Uniform` is for `StrippedOnlyForCause`
alone: whoever needs what is refused is refused too.

### LoaderLocks (same file)

The same component from several threads.  A frame is a thread and a nesting
level; a load scans our libc's versions under `cld_cache_lock` (`LockCache`,
`CheckScanned`, `Collect`), asks the cache and the linker (`CacheGet`,
`NoLoad`), opens what it needs, asks for providers under `cld_provider_lock`
(`LockProviders`, `Found`, `NoRoom`, `Room`, `Insert`, `Fill`), reads the entry
without the lock (`ReadEntry`), opens itself and is remembered.  `LinkerFree`
is the linker's lock: it is held while constructors run, and needed by every
linker call, those made under one of our locks included.

### EmitCopy (same file)

`final` is what the deterministic name names, `temps` the files of `mkstemp`.
Each process takes `cld_emit_copy` step by step: `Unlink`, the nameless file
(`OpenTmpfile`, `Write`, `Link`), and where that fails the named one (`Mkstemp`,
`Rewrite`, `Rename`), then the linker's open of whatever the name names by then
(`Dlopen`).  The sweep's look and its removal are two steps.  A process is
killed at any step; any write may fall short.  `Content` lets processes rewrite
differently, as `CROSS_LIBC_DLOPEN_NOSTRIP` makes them: the name does not tell.

### RuntimeSelect (`src/runtime-select.c`)

A world says which member is in which directory, with the versions it defines
and needs and the symbols it exports and imports.  `Decision` is `rs_decide`,
with `HostDirs` and `LoaderDirs` the search and `Consistent` the static check
of `rs_set_consistent`.  `Mkdir`, `PassOver`, `Unlink`, `Symlink`, `FarmBuilt`
are `rs_build_farm`, one member at a time; `SelfTest` tries the farm as it
stands; after `Exec` the application finds each member, when it asks for it
(`LoadMember`), in the farm as it is then, else in the bundle, else in the
host's directory (`Found`).  `Kill` ends a launch between any two steps.
`Accepts`, the loader's own judgement, is what the static check is compared
with; it shares no definition with it.

## 3. The runs

| Run | Instance | Shows |
|---|---|---|
| `GlFwdSafe` | 3 threads, one of which runs the shim's constructor, eager or lazy, 2 names, every set of them resolved, constructors that draw | one provider; slots move once and to its answer (`ImplementsLazyBinding`); no more names are counted as called than were resolved (`CalledWithinResolved`); a pending message is lost to the load only (`DlerrorTakenOnlyByLoad`); `TypeOK`, `LoadInv` |
| `GlFwdLive` | 2 threads, 1 name, constructors that draw; the assembly of 5 architectures | `LoadFinishesUnlessCrossed`, `CallsReturnUnlessCrossed`: only crossed waits hold a load or a call up; `CallsArriveIntact` |
| `GlFwdStuck` | the same threads and names | **fails** `LoadFinishes` |
| `CldSafe` | 3 libraries: glibc-built or musl-built, every acyclic needs relation, with refused sets and placements of bundled sonames; 4 libraries with one refused below others; provider tables of no entry and of one; and cycles with a nesting limit of two, unparsable files, never-touch names, constructors that load, failing copies, dry run and trace; a cache of one | `LoadSucceeds`, `NoSecondLibcWhenBenign`, `OneImage`, `BundledWins`, `StrippedOnlyForCause`; `TypeOK`, `ChainDistinct`, `FailureExplained`, `EveryDlopenReturns` |
| `CldSecondLibc` | musl guests whose copies fail | **fails** `NoSecondLibc` |
| `LocksSafe` | 2 threads, a load and one from a constructor nested in it, 2 files, a table of one | `TypeOK`, `NoReentry`, `VersionsSettled`, `TableSound`, `ReadsAreComplete`, `AnswersNeverChange`; `LoadsReturnUnlessCrossed`: only crossed locks hold a load up |
| `LocksStuck` | the same | **fails** `EveryLoadReturns` |
| `EmitTorn` | 3 processes, copies of 2 blocks, crashes, full disk, sweeps | `TypeOK`, `NeverTorn`, `OnlyUnfinishedRemain` |
| `SelectSafe` | 2 launches, 2 bundles, 2 host directories in every layout the search allows with one glibc, and two mixed sets known to crash | `TypeOK`, `PlannedSetLoads`, `SwitchesWhenNewer`, `MixedOnlyUnderRelink` |
| `SelectLoader` | libc from one directory, a newer `ld.so` from another | **fails** `PlannedSetLoads` |
| `ImportsSafe` | 2 threads, 2 forwarded names, every kind of libc and file, a nested call in the lookup, 2 faults; every small symbol table over one string table with shared tails, with 3 renames | `TypeOK` (with the bound on nesting), `CallsReachDefault`, `SlotsNeverChange`, `EveryCallGetsThrough`; `RewriteExact` |
| `HostStack` | 3,944 worlds: one thread with every small host and bundle, each forced either way; two threads with what libva's list is made of; every small tree of conf files, cyclic ones included | `TargetRight` (one stack, the right one, vendors first), `GlobalsFirst`, `VaBeforeUse`, `WalkNamesAll` |

### The bounds, and why they are enough

* *Threads: two or three.*  The races are between a thread that does a thing
  and one that does it too, or that waits for it; with three, one can wait
  while two others race for one name.  The
  proofs of section 5 remove the bound for what they cover.
* *Names: two* are enough for a call to one name to interfere with the count
  of another.  One would hide a counter that counts calls.
* *Libraries: three* give a chain, a fork, a diamond's half, and every cycle up
  to three; *four*, in the deep worlds, what three cannot: something refused two
  levels below a library that the linker takes, and two such beside each other.  The proofs
  remove the bound.  `MaxDepth` is 16 in the code; here a world says whether two or
  three levels are left (`room`), so that the limit is reached and so that it
  is not.  `CacheMax` is 128 in the code, 1 here, so that the cache is full.
  `TableMax` (`CLD_PROV_FILES`) is 16 in the code and 4 here; a world says how
  many entries are left when libc's own names have theirs: four, so that all fit,
  one or none, so that one library's questions, or the next one's, find it full.
* *Provider table: one entry* where the code has 16, so that the table is full
  with a second file in play.
* *A copy of two blocks* has one state between empty and whole, which is all
  that "torn" needs.
* *Two launches* build one farm against each other; a third adds no new kind of
  interference since every step touches one link.
* *Faults: two*, so that the file goes out of reach and comes back between two
  calls, or between two threads' lookups.
* *Host directories: five*: one of each kind the search orders (the launcher's,
  the conf files', the conventional ones), a second conventional one and one of
  the bundle's own.  `Room` is 4096 bytes in the code and 4 units here, of
  which a directory takes one or two, so that the list is filled exactly, and
  overrun.
* *Conf files.*  `MaxDepth` is 4 in the code, `Budget` 256, `MaxNames` 32,
  `NameSize` 128, `SuffixSize` 64; here 2, 7, 2, 4 and 4: the trees, whose
  files include each other and themselves, run into the depth and the budget,
  and list more names than are kept.
* *Trampolines, renames* and the walk are functions of their inputs: those are
  enumerated, both alignments of the x86-64 stack among them.

Symmetry is used for the threads and names that are not told apart
(`GlFwdSafe`) and for the processes that rewrite alike (`EmitTorn`); never in
a run with a liveness property.

## 4. Fairness and deadlock

No fairness is assumed of the application: it need not call us, dlopen, or
look anything up.  What is assumed:

* `GlFwd`: weak fairness of the steps of a call under way, which is that a
  runnable thread is scheduled; strong fairness of the steps that wait
  for the linker's lock, which is a blocking mutex whose waiters are woken, and which
  is free again and again if its holders go on; that a constructor returns.
  The wait of line 1269 is a `sched_yield` loop: weak fairness of leaving it
  is enough, since once done the load stays done.
* `CldLoad`: weak fairness of the load's own steps.  There is one thread.
* `LoaderLocks`: strong fairness of each frame's step.  The spin locks yield
  between two tries, so a waiter is scheduled infinitely often while the lock
  is free infinitely often.  That a particular waiter wins in the end is an
  assumption the code does not enforce (a test-and-set lock is unfair) but
  that holds of any system where the critical sections are rarely entered: each
  load passes each lock a bounded number of times.
* `VersionCompat`: weak fairness of the steps of a call under way.  Nothing
  waits for another thread, so being scheduled is all a call needs.
* `EmitCopy`, `RuntimeSelect` and `HostStack` state no liveness: nothing there
  waits.

The properties named `...UnlessCrossed` are leads-to properties with a way out:
the request is answered or the two threads of section 6 are crossed.  Crossed
is for good, which is proved (`CrossedStays`), and so is the safety half of the
leads-to: as long as nothing is crossed and something is under way, somebody can
take a step (`OnlyCrossedBlocks`).  The crossing is a predicate of
the state (`CrossedBy`), so the way out cannot hide another way to wait.

Deadlock is checked in `CldSafe`, `CldSecondLibc` and `HostStack`.  It is off
where the system may stop: `GlFwdSafe`, `GlFwdLive`, `GlFwdStuck`, `LocksSafe`
and `LocksStuck`, which hold the two deadlocks of section 6; `EmitTorn`,
`SelectSafe` and `SelectLoader`, where every process may have ended; and
`ImportsSafe`, where `vc_fatal` would abort.

## 5. The proofs

All are for every value of the constants, under the assumptions the modules
name (`ASSUME`), which are about the shape of the constants: the shim's
sets of threads and names are finite, sizes are naturals, the special values
(no file, no owner, no address) are not among the values they are told apart
from, worlds are records of the kind described where they are declared, the runtime
set lists no member twice.  TLC evaluates every one of them in a run.

**GlFwdProofs.**  `TypeCorrect`: in particular no slot ever holds the shim's own
trampoline (`Own` is not in the slots' type).  `LoadInvariant`: `LoadInv` is
inductive with `TypeOK`; at most one thread is inside the load and `loadState`
says so (`OneLoader`), only a finished load lets a call near its slot
(`Placed`), and a slot off the resolver holds the table's answer
(`BoundToAnswer`).  `Refinement`: with that, each step of `GlFwd` is a step of
`LazyBinding` or stutters: `Publish` decides, `Resolve` and `EagerStore` bind,
and every jump answers.  The invariant is what tells that a jump through a
slot somebody else moved steps before still goes to the provider's answer.
`CrossedStays`: no step of any thread undoes the crossed waits; it needs to
know that who runs constructors has the linker's lock (`LinkerInv`).
`CalledAreResolved` is the counting one: a thread between its compare-and-swap and
its atomic add has moved a slot it has not counted, so the inductive form is that
what is counted and what is about to be is within the slots moved off the resolver
to an address (`CountInv`), and moved slots are resolved names.  `OnlyLoadTakesMessages`
is an action property: every step of a shim call but the open, the load and the
`dlsym` pass leaves every thread's message alone.  `OnlyCrossedBlocks`: `CanStep`
says of a thread, without `ENABLED`, when an action of the shim's code or the end of
its constructor is open to it.  If none can step, whoever waits for a load waits for
a thread inside it, which waits for the linker's lock; and who has that lock without
being in the load runs a constructor (`WaitInv`), which can only be held up by
waiting for the load in turn.

**LoaderLocksProofs.**  `LocksInv` conjoins: only constructors nest loads
(`Nested`); a lock's owner is the one frame inside what it protects (`Holders`);
the scan is over or under way (`ScanUnderWay`); a load about to insert asks for
a file that is not listed, with room for it, and one about to fill has the open
entry (`Extending`), and nobody else has one (`OpenEntries`).  From it:
`LocksNotReentered`, `VersionsComplete`, `TableCorrect` (one entry per file,
what is read outside the lock is filled: also `ReadsComplete`), `TypeCorrect`
with the table's bound, `AnswersStay`, and that crossed locks stay crossed
(`CrossedStays`).  None of these is inductive alone: that the table has
no duplicate needs to know that what was found missing is still missing when it
is inserted, two steps later, which is `Extending` by way of `Holders`.
`OnlyCrossedBlocks` is the absence of any other deadlock.  `CanStep` spells out
when a load can go on.  If none can, whoever waits does so at last for a thread
that runs constructors (`WaitsForCtors`); there is one such thread
(`OneLinkerUser`), its deepest load does not wait for the linker and so waits for
a lock of ours, whose holder is on another thread (`Nested`) and can be waiting
for the linker only: that is `CrossedBy` (`HolderIsCrossed`).

**EmitCopyProofs.**  `Written` says of each process what it has written where it
stands: all of it when it is about to link or rename, as much as its file has
while it writes, and that no file under its own name gets old while it is used.
`NeverTorn` alone says nothing of the file a `rename` is about to publish.  With it
`OnlyUnfinishedRemain` is inductive as it stands (`LittleRemains`): who gives up
after `mkstemp` had as much in the file as it had written, and that was not all.

**CldLoadProofs.**  For any number of libraries that need each other in any way.
`TypeInv` has, beside the types, what every load in progress owes to itself
(`GoodFrame`): it is within the length of `cld_active_stack`, it rewrites nothing on
the never-touch list, and below depth 0 it is never of a soname whose bundled copy
loads.  With the last of these `BundledBeatsHost` follows from what each open maps;
that needs facts about the closure the linker walks (`Within`): it starts at the
image, holds what its members ask for, and holds nothing else (`ClosureInduct`,
`ClosureCompletes`), by induction over its levels.  `ChainsAreDistinct`: without loading
constructors the load at position *k* has depth *k* - 1 and its path in that place of
`cld_active_stack` (`ChainInv`), so the check by path is a check of the chain.
`FailuresAreExplained`: whoever is about to return a failure at the bottom has nothing
above it and its own message pending (`FailInv`).

`LoadsSucceed`, `OneLibc`, `ImagesAreOne` and `StripsForCause` come of one invariant,
`BenignInv`, what is true all through a load in a benign world.  None of its parts is
inductive alone.  `ImagesOK`: `first` and `loaded` agree, musl libc is out, nothing has
two images, only what its verdict strips is a copy, and an answer once cached about a
provider is still true.  What a verdict strips (`Strips`) has a reason that lasts: an
entry that denies it what it asks (`Denied`), which never changes, or a file without an
entry in a table that is full, and stays so (`TableFacts`).  `LoadsOK`: what each load has opened so far of what its library
needs is in the process, or will be found when the linker looks for it (`Settled`), and
what it waits for is the library above it or something that library is needed by.
`RanksOK`: ranks fall along the chain, which bounds its depth by the number of
libraries and shows that the cycle check never refuses.  `ChainInv` ties the frames
together.  That a load's last open succeeds then follows: everything it needs is
settled, so what the linker would refuse could only be the file itself, and then a
copy was made.  The step where it was hardest is the recovery: the linker refuses a file
somewhere below the dependency, the walk loads that file and passes on, and what makes
the rest loadable is that there was one such file, which is `OneHidden`.

**RuntimeSelectProofs.**  `FarmInv` has five parts: the functions' domains
(`Domains`); a plan for the host has verified every member the bundle ships
(`PlanComplete`); where a launch stands (`Stands`); what a launch has linked
stays linked unless another launch has removed it and not linked it again
(`LinksStay`); and every link leads where some launch of that release planned
(`LinksPlanned`).  With them, `Found` can fall through to the bundle's member
only while another launch has the link removed.  `TypeCorrect` adds the types, and
that a plan is what `rs_decide` said of the disk, which does not change (`PlanInv`).

`PlannedSetsLoad` and `NewerIsTaken` compare the decision with definitions that share
nothing with it.  The code's check reads less than the loader does, so each has a
hypothesis on the hosts, which TLC evaluates on all it is given (`HostsAssumption`).
`PlannedSetsLoad`: what is not read follows from what is (`UnreadFollows`: libc's own
needs from the loader's having the names asked for, libc's and libm's imports and the
needs of the members between each other), and libm is in the bundle, since
its symbols are counted as provided whether or not it is (`ShipsLibm`).
Without `UnreadFollows` it is false, which is the run `SelectLoader`.
`NewerIsTaken`: the files of one glibc fit each other wherever they are
(`OneReleaseFits`), and a member the bundle ships carries the name of its release
(`ReleaseNamed`).

**HostImportsProofs.**  `FlagInv` ties the thread-local flag to the stack of
calls: it is set while, and only while, the outermost call is at the lookup of
a version, so a nested one never looks a version up and the depth is at most
two (`TypeCorrect`).  `RightInv` says of each call what it has found where it
stands, and of each slot that it is empty or holds the definition every call
finds; a later store of a racing thread then stores what is there.  From it
`DefaultsReached` and `SlotsStay`.

`RewriteIsExact` is of the rename, and rests on what strings in one table share:
the string at an offset into another is its tail (`TailString`), one is the same
in a table that was changed elsewhere (`SameString`), and a name written over
leaves everything outside as it was (`WrittenString`).  The count is the end of the
last chain (`LastChain`, `Counted`); where it is too large the guard on `symoffset`
keeps the rename from what is past the table (`RenamableIsSymbol`).  The rename is
then an induction over its turns.  One to the tail of a name moves the references it
has come to and no others (`TailMoved`).  One that writes keeps all references where
they are, and to the strings they had, but for those to a string only undefined
symbols have (`Kept`, `MayChange`): here a string that an earlier turn shortened must
still end before the one a later turn writes, which is why `Kept` knows what it was.
The files are those of `FilesAssumption`, of any size, and the renames are any two
names without a Nul.

**HostStackProofs.**  `ShapeInv` is the shape of a thread's stack of returns: it
ends where the thread rests, and nowhere else.  `SetInv`: what a thread in the
loop over the set has not asked for is still on its list, and once `done` is
set the set is complete or some thread is in that loop; with it
`GlobalsBeforeTarget`.  `PlaceInv` says where in the stack the search's own
returns are, and `TargetInv` that one thread searches, what it has opened, and,
with `KnownAt`, what the search knows where it stands: why it left the bundle,
what the host turned out not to have, that the environment is ready for a
dispatcher.  `TargetIsRight` needs `KnownAt`: that nothing was opened says
something of the host only if one knows every candidate was tried or passed
over for a reason.

`VaListFirst` has two halves.  Of one list: `Extended` adds, in its order, the
directories that have drivers and are not in the list yet, each once, as long as there
is room, and leaves a piece only where the room did not suffice (`ExtendedRight`); that
is an induction over the directories tried, with the lengths of lists counted along
(`Sums`).  Of the threads: a use of libva is only ever the return after a set-up
(`AheadInv`), and once one thread has latched with libva in the process, either the list
is in the variable or some thread is at the step that writes it (`ListInv`).  A second
write is of a list made from the first's and changes nothing that counts.

`ConfFilesRead` is of the walk alone (`WalkIsRight`): whatever files include each other,
however deep it may go, whatever its budget and its room for names.  The tree is finite
data of any size (`IsTree`).  `strcmp` orders the names (`BeforeTransitive`,
`BeforeTotal`), so that a set of them is sorted in one way (`InOrderIsAll`), and what
is read of a directory is its set of names if there is room (`SelectedIs`): turning the
order of `readdir` then changes no line, no file and no level (`EachDirTurned`).  What
a file of the walk adds to the list is what the files below it name (`Adds`, `Under`): at
most that, and all of it if the budget has not run out, which a budget above 0 at the
end shows of every step before.  That is an induction over the levels of the
recursion, in each over the lines of a file, and in each of these over the files of an
include (`LevelsAdd`, `WalkFileAdds`, `ReadLineAdds`, `TryFilesAdds`), against the chains of
the reference, which lose their first file as the depth goes down (`BelowUnfolds`).
A walk that stops at a directory is compared with one that does not in the same
way, state by state: they agree until the directory comes, and then one stands
while the other goes on (`StopsAt`, `WalkStops`).

**InductionLemmas.**  The library's induction theorems take an operator and cannot be
used here; `SetInduction` says the same of a set of naturals, and
`LeastExists` that a set of them has a least one, and `IterationExists` that
iterating a step defines a function.  A recursive function of a
module is tied to them by showing that it is the one whose values are iterated.

Only model-checked:

* liveness and `ENABLED`, which are out of the prover's reach: that who can step does,
  and that this ends the load or the call, is TLC's (`CanStep` of the two
  `OnlyCrossedBlocks` restates the guards of the actions instead);
* `CallsArriveIntact`, which is about five fixed programs: TLC's check of
  it is complete.

## 6. What the runs disagree with

Four runs end in a violation of something the repository says.

* `GlFwdStuck`.  `src/gl-fwd.c:1268`: *"Another thread got there first.  It is
  inside a dlopen, which finishes."*  A thread that waits there from a
  constructor run by its own `dlopen` holds the linker's lock, which the
  loading thread needs.
* `LocksStuck`.  `src/cross-libc-dlopen.c:590`: *"Nothing under this lock can
  re-enter it."*  True, and proved (`NoReentry`); but the `RTLD_NOLOAD` lookup
  under it takes the linker's lock, and a constructor on another thread takes
  the two in the other order.
* `CldSecondLibc`.  `src/cross-libc-dlopen.c:1662`: *"a second libc may never
  enter the process"*.  When a musl guest's copy cannot be written or opened,
  the plain fallback opens the guest as it is.
* `SelectLoader`.  `src/runtime-select.c:380`: every member's strong
  undefined symbols are checked against *"the libc and ld.so it will be paired
  with"*.  libc itself is skipped, and may be paired with an `ld.so` of another
  directory and release.

Seen while modelling, in the models as the code has it.  No run is made of them:
most contradict nothing the repository promises, and the few that stretch a
comment are at the edge of what it means (it is quoted there):

* When the linker refuses a dependency because of a file further down, the walk loads
  that file and goes on to the next soname (`src/cross-libc-dlopen.c:1813` to 1840): the
  dependency itself is not tried again.  With two such files below it the second is
  never found, and the load fails although each would load as a copy: four libraries
  show it.  `LoadSucceeds` asks for `OneHidden`.
* For the same reason *"the closure is loaded"* (line 1843) is not true of every verdict:
  with a chain of four whose last is bundled, the verdict of the first is "absent" of a
  host's file that is loaded after it; and an answer "lacks" given when a provider was
  not yet there is repeated once it is (*"answers never change"*, line 615).  A library is then
  rewritten although it need not be.  `StrippedOnlyForCause` asks for a closure
  in which whoever needs what is refused is refused too (`Uniform`).
* The provider table has 16 entries.  Of a seventeenth file that versions are asked of,
  `cld_provider_for` returns nothing (lines 618 to 621) and the flat set of
  libc's versions answers (lines 652 and 653), which has no version of a library: whoever asks is
  rewritten, whatever the file has.  The load still succeeds.  `StrippedOnlyForCause`
  has it as a cause of its own: an asked file that is not `Listed` with the table full.
* A dry run opens the dependencies it finds: it makes no copy, but it is not
  free of effects.
* A constructor's nested `dlopen` starts at depth 0 and overwrites
  `cld_active_stack[0]` (line 1724), though line 1028 has in it the *"load chain of the
  cross-libc dlopen currently in progress"*: the chain the cycle check goes by
  is then not that of the loads in progress, and a file can be worked on twice in one
  chain.  `ChainDistinct` therefore is of constructors that do not load; `EveryDlopenReturns`
  holds all the same: the depth is limited, and a constructor runs once.
* The static check of `src/runtime-select.c` counts the host libm's exports as provided
  also when the bundle ships no libm and the set has none (`ShipsLibm`).
* A writer's short write leaves its temporary file; the sweep's stat and unlink
  can take a copy placed in between; two processes that rewrite one file
  differently share one name, and the last rename wins for both.
* The shim's load consumes the application's pending `dlerror()`, and does not report
  it: the comment above `src/gl-fwd.c:1163` says *"Read first and the string is genuinely
  whatever the application had outstanding"*, but `glfwd_open_target` runs before it
  (line 1262), clears the message at line 958, and again at 1130 when it finds a
  target.  `DlerrorTakenOnlyByLoad` says who may take the message, not that it is shown.
* `rs_symset` holds 4096 names (`src/runtime-select.c:407`); of a full one the comment says
  *"callers treat this as "unknown""*, but a name dropped there is found missing, and the
  host's set refused.  `Exported` has no such limit: what a glibc exports is
  below it.
* Between a launch's unlink and symlink, an application already running on the
  same farm finds the bundle's member: `MixedOnlyUnderRelink` says that it is
  only then.
* When the resolution table cannot be allocated the exit report prints its count
  of resolved names as -1.
* `src/version-compat.c:136` says of the fallback that it *"degrades to exactly
  today's behaviour"*: it does so for good, since what a call finds while the
  file cannot be read stays in the slot when it can be read again
  (`Trustworthy`).
* `cld_locate_dynsym` counts one symbol too many, or more, of a file whose only
  hash table has no chain; the guard on `symoffset` in the rename, there as a
  precaution, is then what keeps it from the words after the table.  Where that
  table is GNU ld's, which says 1, `src/cross-libc-dlopen.c:972`, *"Undefined symbols
  live below symoffset"*, is not so: the guard refuses every rename of that file.
* The write in place of a rename does not look for longer strings that end in the
  name (`FromShared`).  No rename the code lists writes in place.
* `src/ld-conf.h:143` has the names sorted *"so the same machine assembles the
  same list twice running"*.  With more than thirty-two names in a directory the
  ones kept are the first of `readdir`, and the list depends on its order;
  `WalkNamesAll` holds where they fit.
* An entry that does not fit in libva's list leaves a piece of itself at the
  list's end, which is published with it although the trace says that it was
  omitted (`piece`).
* Between one thread's latch of `cld_va_done` and its `setenv`, another thread's
  load of libva returns without the list: the way out in `VaBeforeUse`.  Between
  one thread's `done = 1` and the end of its loop, another's first GL call goes on
  with a part of the set: the way out in `GlobalsFirst`.
* The search for a target stops at the first readable file of the right class
  under the soname; one that then does not load ends that search, and what the
  directories after it hold is not tried (`Loadable`).

## 7. Not modelled, and why

* The removal of version tags and needed entries from an image
  (`cld_strip_versions`): `CldLoad` takes a copy to have none.  It is one pass
  over tables that are bounded by their own counts, with no order to get wrong.
* What the report, the trace and the exit report print is output; what they do
  to `dlerror()` is in `CldLoad`.
* Environment accessors and the forward shim keep no state.
* Build files, generators, name tables and tests keep no state of the program.
* In `HostStack` a load is one step, with nothing of `CldLoad` or `LoaderLocks`
  inside it; and each walk of the directories is one step, so that two walks
  on two threads, which share `strtok`'s position, are not interleaved
  (`PROJECT.json` lists that hazard without a property).
* Hosts with no definition at all of a forwarded name.  `VersionCompat` has the abort
  of `vc_fatal` (`died`), but every world defines each name in one version or the other, as
  a libc that has the name does, and so it is shown that it does not happen there,
  not what happens elsewhere.
* What a conf file's glob matches: `WalkNamesAll` uses `LdConf`'s own matching of the
  suffix in its reference, and so speaks of the walk, its order and its limits only.
* Another thread's `setenv` in the application against ours is left out:
  the environment is not ours to guard.
* The sweep's stat and unlink can take a copy placed in between.  `EmitCopy` has
  the two steps, and no property rules it out since the code does not.

## 8. The plan

1. *Done:* `GlFwd` over `LazyBinding`; `CldLoad`; `LoaderLocks`; `EmitCopy`;
   `RuntimeSelect`; `Trampolines`; `VersionCompat`; `ElfRewrite`; `LdConf`;
   `HostStack`, which composes the choice of the target with the global-scope
   set, libva's list and the walk; the proofs of section 5.
2. `LdConf` composed with `RuntimeSelect`, whose library path it feeds too.
3. The walks of `HostStack` in steps, with the position `strtok` keeps.
4. `cld_strip_versions`, as an operator over the tables of a small image.
