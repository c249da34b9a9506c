---------------------------- MODULE LoaderLocks ----------------------------
(***************************************************************************)
(* The loader's shared tables under several threads (cross-libc-dlopen.c): *)
(* the set of versions our libc has, scanned once under cld_cache_lock;    *)
(* the table of providers, filled under cld_provider_lock; the cache of    *)
(* handles.  A load holds one of these locks while it calls the dynamic    *)
(* linker, whose own lock another thread may hold while it runs the        *)
(* constructors of what it opens; a constructor may dlopen a host library, *)
(* which is a load of its own on that thread.                              *)
(*                                                                         *)
(* What a load decides is CldLoad's business.  Here a load opens something *)
(* it needs, asks for the versions of some files, opens itself and goes    *)
(* into the cache.  A FRAME is one load: a thread and how deep it nests.   *)
(***************************************************************************)
EXTENDS Integers, Sequences

CONSTANTS Threads,
          MaxLevel,   \* how deep constructors nest loads
          Paths,      \* host libraries
          Files,      \* files versions are asked of
          BundledOnes,\* those of them the bundle owns
          TableMax,   \* CLD_PROV_FILES, 16 in the code
          CtorsLoad,  \* does a constructor dlopen a host library?
          NoOne       \* the owner of a free lock, the file of a load that asks for none

ASSUME LevelAssumption == MaxLevel \in Nat /\ TableMax \in Nat

Frames == Threads \X (0..MaxLevel)

ASSUME OwnerAssumption == NoOne \notin Frames

VARIABLES pc,        \* where each load is
          path,      \* what it loads
          wants,     \* the files whose versions it has not asked for yet
          file,      \* the one it is asking for
          entry,     \* the entry of the table it was given, 0 for none
          cacheLock, providerLock, \* who holds them
          scanned,   \* cld_providers_scanned
          versions,  \* are our libc's versions collected?
          table,     \* cld_providers, up to cld_provider_files
          cache,     \* paths of cld_cache
          mapped     \* files and paths in the process

frame == <<pc, path, wants, file, entry>>
shared == <<scanned, versions, table, cache, mapped>>
vars == <<frame, cacheLock, providerLock, shared>>

PCs == {"idle", "scan", "check", "collect", "get", "noload", "deps", "depctors",
        "ask", "look", "insert", "fill", "read", "load", "loadctors", "put", "passctors"}
Ctors == {"depctors", "loadctors", "passctors"}
Entry == [file : Files, filled : BOOLEAN, has : BOOLEAN]

Init == /\ pc = [f \in Frames |-> "idle"]
        /\ path = [f \in Frames |-> NoOne] /\ wants = [f \in Frames |-> {}]
        /\ file = [f \in Frames |-> NoOne] /\ entry = [f \in Frames |-> 0]
        /\ cacheLock = NoOne /\ providerLock = NoOne
        /\ scanned = FALSE /\ versions = FALSE
        /\ table = <<>> /\ cache = {} /\ mapped = {}
-----------------------------------------------------------------------------
Goto(f, l) == pc' = [pc EXCEPT ![f] = l]

\* The linker's lock is recursive and held while constructors run.
LinkerFree(f) == \A g \in Frames : pc[g] \in Ctors => g[1] = f[1]

\* The application, or a constructor running on f's thread, can dlopen.
MayStart(f) == /\ pc[f] = "idle"
               /\ f[2] > 0 => CtorsLoad /\ pc[<<f[1], f[2] - 1>>] \in Ctors

\* A host library is ours to load.
Start(f) ==
  /\ MayStart(f)
  /\ \E p \in Paths : path' = [path EXCEPT ![f] = p]
  /\ Goto(f, "scan")
  /\ UNCHANGED <<wants, file, entry, cacheLock, providerLock, shared>>

\* Anything else goes straight to the linker, which runs its constructors.  (What
\* it maps is none of the files that are asked about.)
PassThrough(f) ==
  /\ MayStart(f) /\ LinkerFree(f)
  /\ Goto(f, "passctors")
  /\ UNCHANGED <<path, wants, file, entry, cacheLock, providerLock, shared>>

(***************************************************************************)
(* cld_scan_providers.                                                     *)
(***************************************************************************)
LockCache_ReadsFlagFirst(f) ==
  /\ pc[f] = "scan"
  /\ \/ scanned /\ Goto(f, "get") /\ UNCHANGED cacheLock
     \/ ~scanned /\ cacheLock = NoOne /\ cacheLock' = f /\ Goto(f, "check")
  /\ UNCHANGED <<path, wants, file, entry, providerLock, shared>>

LockCache(f) ==
  /\ pc[f] = "scan" /\ cacheLock = NoOne
  /\ cacheLock' = f
  /\ Goto(f, "check")
  /\ UNCHANGED <<path, wants, file, entry, providerLock, shared>>

CheckScanned(f) ==
  /\ pc[f] = "check"
  /\ scanned' = TRUE
  /\ IF scanned THEN cacheLock' = NoOne /\ Goto(f, "get")
                ELSE UNCHANGED cacheLock /\ Goto(f, "collect")
  /\ UNCHANGED <<path, wants, file, entry, providerLock, versions, table, cache, mapped>>

\* dlsym and dladdr ask the linker where our libc is; then its file is read.
Collect(f) ==
  /\ pc[f] = "collect" /\ LinkerFree(f)
  /\ versions' = TRUE
  /\ cacheLock' = NoOne
  /\ Goto(f, "get")
  /\ UNCHANGED <<path, wants, file, entry, providerLock, scanned, table, cache, mapped>>

(***************************************************************************)
(* cld_load: the cache, what is mapped already, and the opens it makes.    *)
(***************************************************************************)
CacheGet(f) ==
  /\ pc[f] = "get" /\ cacheLock = NoOne
  /\ Goto(f, IF path[f] \in cache THEN "idle" ELSE "noload")
  /\ UNCHANGED <<path, wants, file, entry, cacheLock, providerLock, shared>>

NoLoad(f) ==
  /\ pc[f] = "noload" /\ LinkerFree(f)
  /\ Goto(f, IF path[f] \in mapped THEN "idle" ELSE "deps")
  /\ UNCHANGED <<path, wants, file, entry, cacheLock, providerLock, shared>>

\* The load wants versions of some files and opens what it needs, some of them
\* among it.  An open maps what it maps and goes on to its constructors.
OpenDep(f) ==
  /\ pc[f] = "deps" /\ LinkerFree(f)
  /\ \E S \in SUBSET Files : /\ wants' = [wants EXCEPT ![f] = S]
                             /\ \E O \in SUBSET S : mapped' = mapped \cup O
  /\ Goto(f, "depctors")
  /\ UNCHANGED <<path, file, entry, cacheLock, providerLock, scanned, versions,
                 table, cache>>

OpenSelf(f) ==
  /\ pc[f] = "load" /\ LinkerFree(f)
  /\ mapped' = mapped \cup {path[f]}
  /\ Goto(f, "loadctors")
  /\ UNCHANGED <<path, wants, file, entry, cacheLock, providerLock, scanned, versions,
                 table, cache>>

\* The constructors are over, and so are the loads they made.
CtorsDone(f) ==
  /\ pc[f] \in Ctors
  /\ \A g \in Frames : g[1] = f[1] /\ g[2] > f[2] => pc[g] = "idle"
  /\ Goto(f, CASE pc[f] = "depctors" -> "ask" [] pc[f] = "loadctors" -> "put"
               [] OTHER -> "idle")
  /\ UNCHANGED <<path, wants, file, entry, cacheLock, providerLock, shared>>

CachePut(f) ==
  /\ pc[f] = "put" /\ cacheLock = NoOne
  /\ cache' = cache \cup {path[f]}
  /\ Goto(f, "idle")
  /\ UNCHANGED <<path, wants, file, entry, cacheLock, providerLock, scanned, versions,
                 table, mapped>>

(***************************************************************************)
(* cld_requirements_satisfied and cld_provider_for.                        *)
(***************************************************************************)
AskedAll(f) ==
  /\ pc[f] = "ask" /\ wants[f] = {}
  /\ Goto(f, "load")
  /\ UNCHANGED <<path, wants, file, entry, cacheLock, providerLock, shared>>

LockProviders_NoLock(f) ==
  /\ pc[f] = "ask"
  /\ \E x \in wants[f] : file' = [file EXCEPT ![f] = x]
  /\ providerLock' = f
  /\ Goto(f, "look")
  /\ UNCHANGED <<path, wants, entry, cacheLock, shared>>

LockProviders(f) ==
  /\ pc[f] = "ask" /\ providerLock = NoOne
  /\ \E x \in wants[f] : file' = [file EXCEPT ![f] = x]
  /\ providerLock' = f
  /\ Goto(f, "look")
  /\ UNCHANGED <<path, wants, entry, cacheLock, shared>>

Listed(x) == \E i \in DOMAIN table : table[i].file = x

Found_AsksAgain(f) ==
  /\ pc[f] = "look"
  /\ \E i \in DOMAIN table : /\ table[i].file = file[f]
                             /\ entry' = [entry EXCEPT ![f] = i]
                             /\ Goto(f, IF table[i].has THEN "read" ELSE "fill")
                             /\ providerLock' = IF table[i].has THEN NoOne ELSE f
  /\ UNCHANGED <<path, wants, file, cacheLock, shared>>

\* An entry is there: what it says is read once the lock is released.
Found(f) ==
  /\ pc[f] = "look"
  /\ \E i \in DOMAIN table : /\ table[i].file = file[f]
                             /\ entry' = [entry EXCEPT ![f] = i]
  /\ providerLock' = NoOne
  /\ Goto(f, "read")
  /\ UNCHANGED <<path, wants, file, cacheLock, shared>>

HasRoom_OffByOne == Len(table) <= TableMax
HasRoom == Len(table) < TableMax

NoRoom_KeepsLock(f) ==
  /\ pc[f] = "look" /\ ~Listed(file[f]) /\ ~HasRoom
  /\ entry' = [entry EXCEPT ![f] = 0]
  /\ Goto(f, "read")
  /\ UNCHANGED <<path, wants, file, cacheLock, providerLock, shared>>

\* The table is full: the flat set of our libc's versions answers.
NoRoom(f) ==
  /\ pc[f] = "look" /\ ~Listed(file[f]) /\ ~HasRoom
  /\ entry' = [entry EXCEPT ![f] = 0]
  /\ providerLock' = NoOne
  /\ Goto(f, "read")
  /\ UNCHANGED <<path, wants, file, cacheLock, shared>>

Room(f) ==
  /\ pc[f] = "look" /\ ~Listed(file[f]) /\ HasRoom
  /\ Goto(f, "insert")
  /\ UNCHANGED <<path, wants, file, entry, cacheLock, providerLock, shared>>

Insert_Unlocks(f) ==
  /\ pc[f] = "insert"
  /\ table' = Append(table, [file |-> file[f], filled |-> FALSE, has |-> FALSE])
  /\ entry' = [entry EXCEPT ![f] = Len(table) + 1]
  /\ providerLock' = NoOne
  /\ Goto(f, "fill")
  /\ UNCHANGED <<path, wants, file, cacheLock, scanned, versions, cache, mapped>>

Insert(f) ==
  /\ pc[f] = "insert"
  /\ table' = Append(table, [file |-> file[f], filled |-> FALSE, has |-> FALSE])
  /\ entry' = [entry EXCEPT ![f] = Len(table) + 1]
  /\ Goto(f, "fill")
  /\ UNCHANGED <<path, wants, file, cacheLock, providerLock, scanned, versions, cache, mapped>>

Fill_Loads(f) ==
  /\ pc[f] = "fill" /\ file[f] \notin BundledOnes /\ LinkerFree(f)
  /\ table' = [table EXCEPT ![entry[f]] = [file |-> file[f], filled |-> TRUE, has |-> TRUE]]
  /\ mapped' = mapped \cup {file[f]}
  /\ Goto(f, "depctors")
  /\ UNCHANGED <<path, wants, file, entry, cacheLock, providerLock, scanned, versions, cache>>

\* The bundle's file is read; or dlopen(RTLD_NOLOAD) asks the linker for what
\* is loaded under that soname, and its file is read if there is one.
Fill(f) ==
  /\ pc[f] = "fill"
  /\ file[f] \in BundledOnes \/ LinkerFree(f)
  /\ table' = [table EXCEPT ![entry[f]] = [file |-> file[f], filled |-> TRUE,
                                           has |-> file[f] \in BundledOnes \cup mapped]]
  /\ providerLock' = NoOne
  /\ Goto(f, "read")
  /\ UNCHANGED <<path, wants, file, entry, cacheLock, scanned, versions, cache, mapped>>

\* cld_file_provides reads the entry, and our libc's set, without a lock.  A
\* version that is missing ends the questions.
ReadEntry(f) ==
  /\ pc[f] = "read"
  /\ \/ wants' = [wants EXCEPT ![f] = @ \ {file[f]}]
     \/ wants' = [wants EXCEPT ![f] = {}]
  /\ file' = [file EXCEPT ![f] = NoOne]
  /\ entry' = [entry EXCEPT ![f] = 0]
  /\ Goto(f, "ask")
  /\ UNCHANGED <<path, cacheLock, providerLock, shared>>
-----------------------------------------------------------------------------
Step(f) ==
  \/ LockCache(f) \/ CheckScanned(f) \/ Collect(f) \/ CacheGet(f) \/ NoLoad(f)
  \/ OpenDep(f) \/ OpenSelf(f) \/ CtorsDone(f) \/ CachePut(f)
  \/ AskedAll(f) \/ LockProviders(f) \/ Found(f) \/ NoRoom(f) \/ Room(f)
  \/ Insert(f) \/ Fill(f) \/ ReadEntry(f)

Next == \E f \in Frames : Start(f) \/ PassThrough(f) \/ Step(f)

Spec == Init /\ [][Next]_vars

\* A load keeps running; a thread that keeps asking for a lock that keeps
\* becoming free gets it, ours (it yields between tries) or the linker's.
FairSpec == Spec /\ \A f \in Frames : SF_vars(Step(f))
-----------------------------------------------------------------------------
\* The table is an array of TableMax entries.
TypeOK ==
  /\ pc \in [Frames -> PCs] /\ path \in [Frames -> Paths \cup {NoOne}]
  /\ wants \in [Frames -> SUBSET Files] /\ file \in [Frames -> Files \cup {NoOne}]
  /\ entry \in [Frames -> Nat]
  /\ cacheLock \in Frames \cup {NoOne} /\ providerLock \in Frames \cup {NoOne}
  /\ scanned \in BOOLEAN /\ versions \in BOOLEAN
  /\ table \in Seq(Entry) /\ Len(table) <= TableMax
  /\ cache \subseteq Paths /\ mapped \subseteq Files \cup Paths

\* "Nothing under this lock can re-enter it": while a load holds a lock, no
\* constructor runs on its thread that could ask for the same lock again.
NoReentry ==
  \A f, g \in Frames :
    f \in {cacheLock, providerLock} /\ g[1] = f[1] /\ g[2] > f[2] => pc[g] = "idle"

\* cld_have_version reads our libc's versions without a lock: they are all
\* there for whoever got past the scan, the thread that did not do it included.
VersionsSettled ==
  \A f \in Frames :
    pc[f] \notin {"idle", "passctors", "scan", "check", "collect"} => versions

\* The table of providers lists no file twice, however many threads ask about
\* new files at once.
TableSound == \A i, j \in DOMAIN table : table[i].file = table[j].file => i = j

\* An entry read without the lock is about the file asked for, and complete.
ReadsAreComplete ==
  \A f \in Frames : pc[f] = "read" /\ entry[f] # 0
     => entry[f] \in DOMAIN table /\ table[entry[f]].file = file[f] /\ table[entry[f]].filled

\* "already answered, and answers never change": a completed entry stays as it
\* is and where it is.
AnswersNeverChange ==
  [][\A i \in DOMAIN table : table[i].filled => i \in DOMAIN table' /\ table'[i] = table[i]]_vars

\* Why these hold.  Only constructors nest loads; a lock's owner is the one
\* frame inside what it protects; the scan is over or under way; a load knows
\* its path and the file it asks for, and the table is being extended by its
\* lock's owner, who alone may have left an entry open.
Nested == \A f, g \in Frames :
  g[1] = f[1] /\ g[2] > f[2] /\ pc[g] # "idle" => pc[f] \in Ctors

Holders == \A f \in Frames : /\ pc[f] \in {"check", "collect"} <=> cacheLock = f
                             /\ pc[f] \in {"look", "insert", "fill"} <=> providerLock = f

ScanUnderWay == scanned => versions \/ \E f \in Frames : pc[f] = "collect"

Extending == \A f \in Frames :
  /\ pc[f] \notin {"idle", "passctors"} => path[f] \in Paths
  /\ pc[f] \in {"look", "insert", "fill", "read"} => file[f] \in Files
  /\ pc[f] = "insert" => ~Listed(file[f]) /\ HasRoom
  /\ pc[f] = "fill" => /\ entry[f] \in DOMAIN table
                       /\ table[entry[f]].file = file[f] /\ ~table[entry[f]].filled

OpenEntries == \A i \in DOMAIN table :
  ~table[i].filled => \E f \in Frames : pc[f] = "fill" /\ entry[f] = i

LocksInv == /\ Nested /\ Holders /\ ScanUnderWay /\ Extending /\ OpenEntries
            /\ VersionsSettled /\ TableSound /\ ReadsAreComplete

\* The crossed locks: a load asks the linker for something under a lock of ours
\* while another thread, in the constructors of what it opens and so holding
\* the linker's lock, waits for that very lock.
CrossedBy(f, g, h) ==
  /\ f[1] # g[1] /\ h[1] = g[1] /\ pc[h] \in Ctors
  /\ \/ pc[f] = "collect" /\ pc[g] \in {"scan", "get", "put"}
     \/ pc[f] = "fill" /\ file[f] \notin BundledOnes /\ pc[g] = "ask" /\ wants[g] # {}

Crossed == \E f, g, h \in Frames : CrossedBy(f, g, h)

\* That is the only way in which a dlopen of the application, and with it every
\* load that constructors nest in it, does not come to an end.
LoadsReturnUnlessCrossed ==
  \A t \in Threads : pc[<<t, 0>>] # "idle" ~> (pc[<<t, 0>>] = "idle" \/ Crossed)

\* And there is no way out of it: none of the two threads ever moves again.
CrossedForGood == [][Crossed => Crossed']_vars

\* Every load comes to an end: nobody waits for ever on a lock.
EveryLoadReturns == \A f \in Frames : pc[f] # "idle" ~> pc[f] = "idle"
=============================================================================
