------------------------- MODULE LoaderLocksProofs -------------------------
(***************************************************************************)
(* Proofs about LoaderLocks, for any number of threads, libraries, files,  *)
(* entries of the table and levels of nesting.                             *)
(***************************************************************************)
EXTENDS LoaderLocks, InductionLemmas, TLAPS

\* The initial state has the types.
LEMMA InitType == Init => TypeOK
<1> SUFFICES ASSUME Init PROVE TypeOK
  OBVIOUS
<1>1. table \in Seq(Entry) /\ Len(table) <= TableMax
  BY LevelAssumption DEF Init
<1> QED BY <1>1 DEF Init, TypeOK, PCs

\* One step per action: what it assigns stays in its type.
LEMMA NextType == TypeOK /\ LocksInv /\ [Next]_vars => TypeOK'
<1> SUFFICES ASSUME TypeOK, LocksInv, [Next]_vars PROVE TypeOK'
  OBVIOUS
<1> USE LevelAssumption DEF TypeOK, PCs, Goto, frame, shared, Entry
<1>1. ASSUME NEW f \in Frames, Start(f) PROVE TypeOK'
  BY <1>1 DEF Start, MayStart
<1>2. ASSUME NEW f \in Frames, LockCache(f) PROVE TypeOK'
  BY <1>2 DEF LockCache
<1>3. ASSUME NEW f \in Frames, CheckScanned(f) PROVE TypeOK'
  BY <1>3 DEF CheckScanned
<1>4. ASSUME NEW f \in Frames, Collect(f) PROVE TypeOK'
  BY <1>4 DEF Collect
<1>5. ASSUME NEW f \in Frames, CacheGet(f) PROVE TypeOK'
  BY <1>5 DEF CacheGet
<1>6. ASSUME NEW f \in Frames, NoLoad(f) PROVE TypeOK'
  BY <1>6 DEF NoLoad
<1>7. ASSUME NEW f \in Frames, OpenDep(f) PROVE TypeOK'
  BY <1>7 DEF OpenDep
<1>8. ASSUME NEW f \in Frames, OpenSelf(f) PROVE TypeOK'
  BY <1>8 DEF OpenSelf, LocksInv, Extending
<1>9. ASSUME NEW f \in Frames, CtorsDone(f) PROVE TypeOK'
  BY <1>9 DEF CtorsDone
<1>10. ASSUME NEW f \in Frames, CachePut(f) PROVE TypeOK'
  BY <1>10 DEF CachePut, LocksInv, Extending
<1>11. ASSUME NEW f \in Frames, AskedAll(f) PROVE TypeOK'
  BY <1>11 DEF AskedAll
<1>12. ASSUME NEW f \in Frames, LockProviders(f) PROVE TypeOK'
  BY <1>12 DEF LockProviders
<1>13. ASSUME NEW f \in Frames, Found(f) PROVE TypeOK'
  BY <1>13 DEF Found
<1>14. ASSUME NEW f \in Frames, NoRoom(f) PROVE TypeOK'
  BY <1>14 DEF NoRoom
<1>15. ASSUME NEW f \in Frames, Room(f) PROVE TypeOK'
  BY <1>15 DEF Room
<1>16. ASSUME NEW f \in Frames, Insert(f) PROVE TypeOK'
  <2>1. file[f] \in Files /\ Len(table) < TableMax
    BY <1>16 DEF Insert, LocksInv, Extending, HasRoom
  <2>2. [file |-> file[f], filled |-> FALSE, has |-> FALSE] \in Entry
    BY <2>1
  <2>3. table' \in Seq(Entry) /\ Len(table') <= TableMax
    BY <1>16, <2>1, <2>2 DEF Insert
  <2>4. entry' \in [Frames -> Nat]
    BY <1>16 DEF Insert
  <2> QED BY <1>16, <2>3, <2>4 DEF Insert
<1>17. ASSUME NEW f \in Frames, Fill(f) PROVE TypeOK'
  <2> DEFINE new == [file |-> file[f], filled |-> TRUE,
                     has |-> file[f] \in BundledOnes \cup mapped]
  <2>1. entry[f] \in DOMAIN table /\ file[f] \in Files
    BY <1>17 DEF Fill, LocksInv, Extending
  <2>2. (file[f] \in BundledOnes \cup mapped) \in BOOLEAN
    OBVIOUS
  <2>3. new \in Entry
    BY <2>1, <2>2
  <2>4. table' = [table EXCEPT ![entry[f]] = new]
    BY <1>17 DEF Fill
  <2> HIDE DEF new
  <2>5. table' \in Seq(Entry) /\ Len(table') = Len(table)
    BY <2>1, <2>3, <2>4
  <2> QED BY <1>17, <2>5 DEF Fill
<1>18. ASSUME NEW f \in Frames, ReadEntry(f) PROVE TypeOK'
  BY <1>18 DEF ReadEntry
<1>20. ASSUME NEW f \in Frames, PassThrough(f) PROVE TypeOK'
  BY <1>20 DEF PassThrough, MayStart
<1>19. CASE UNCHANGED vars
  BY <1>19 DEF vars, frame, shared
<1> QED BY <1>1, <1>2, <1>3, <1>4, <1>5, <1>6, <1>7, <1>8, <1>9, <1>10, <1>11, <1>12, <1>13, <1>14, <1>15, <1>16, <1>17, <1>18, <1>19, <1>20
         DEF Next, Step

-----------------------------------------------------------------------------
\* Nobody holds a lock and the table is empty.
LEMMA InitLocksInv == Init => LocksInv
<1> USE OwnerAssumption
<1> QED BY DEF Init, LocksInv, Nested, Holders, ScanUnderWay, Extending, OpenEntries,
           VersionsSettled, TableSound, ReadsAreComplete

\* What starts nested starts below constructors only.
LEMMA MayStartBelowCtors ==
  ASSUME Nested, NEW f \in Frames, MayStart(f),
         NEW g \in Frames, f[1] = g[1], f[2] > g[2]
  PROVE  pc[g] \in Ctors
<1> DEFINE p == <<f[1], f[2] - 1>>
<1>1. g[2] \in Nat /\ f[2] \in Nat /\ g = <<g[1], g[2]>>
  BY LevelAssumption DEF Frames
<1>2. p \in Frames /\ pc[p] \in Ctors
  BY <1>1, LevelAssumption DEF MayStart, Frames
<1>3. CASE g[2] = f[2] - 1
  <2>1. g = p
    BY <1>1, <1>3
  <2> QED BY <1>2, <2>1
<1>4. CASE g[2] # f[2] - 1
  <2>1. p[1] = g[1] /\ p[2] > g[2] /\ pc[p] # "idle"
    BY <1>1, <1>2, <1>4 DEF Ctors
  <2> QED BY <1>2, <2>1 DEF Nested
<1> QED BY <1>3, <1>4

\* Only a constructor, run with the linker's lock held, nests a load.
LEMMA NextNested == TypeOK /\ LocksInv /\ [Next]_vars => Nested'
<1> SUFFICES ASSUME TypeOK, LocksInv, [Next]_vars PROVE Nested'
  OBVIOUS
<1> USE LevelAssumption, OwnerAssumption DEF TypeOK, LocksInv, Nested, Goto, PCs, frame, shared, Ctors
<1>1. ASSUME NEW f \in Frames, Start(f) PROVE Nested'
  BY <1>1, MayStartBelowCtors DEF Start, MayStart
<1>2. ASSUME NEW f \in Frames, LockCache(f) PROVE Nested'
  BY <1>2 DEF LockCache
<1>3. ASSUME NEW f \in Frames, CheckScanned(f) PROVE Nested'
  BY <1>3 DEF CheckScanned
<1>4. ASSUME NEW f \in Frames, Collect(f) PROVE Nested'
  BY <1>4 DEF Collect
<1>5. ASSUME NEW f \in Frames, CacheGet(f) PROVE Nested'
  BY <1>5 DEF CacheGet
<1>6. ASSUME NEW f \in Frames, NoLoad(f) PROVE Nested'
  BY <1>6 DEF NoLoad
<1>7. ASSUME NEW f \in Frames, OpenDep(f) PROVE Nested'
  BY <1>7 DEF OpenDep
<1>8. ASSUME NEW f \in Frames, OpenSelf(f) PROVE Nested'
  BY <1>8 DEF OpenSelf
<1>9. ASSUME NEW f \in Frames, CtorsDone(f) PROVE Nested'
  BY <1>9 DEF CtorsDone
<1>10. ASSUME NEW f \in Frames, CachePut(f) PROVE Nested'
  BY <1>10 DEF CachePut
<1>11. ASSUME NEW f \in Frames, AskedAll(f) PROVE Nested'
  BY <1>11 DEF AskedAll
<1>12. ASSUME NEW f \in Frames, LockProviders(f) PROVE Nested'
  BY <1>12 DEF LockProviders
<1>13. ASSUME NEW f \in Frames, Found(f) PROVE Nested'
  BY <1>13 DEF Found
<1>14. ASSUME NEW f \in Frames, NoRoom(f) PROVE Nested'
  BY <1>14 DEF NoRoom
<1>15. ASSUME NEW f \in Frames, Room(f) PROVE Nested'
  BY <1>15 DEF Room
<1>16. ASSUME NEW f \in Frames, Insert(f) PROVE Nested'
  BY <1>16 DEF Insert
<1>17. ASSUME NEW f \in Frames, Fill(f) PROVE Nested'
  BY <1>17 DEF Fill
<1>18. ASSUME NEW f \in Frames, ReadEntry(f) PROVE Nested'
  BY <1>18 DEF ReadEntry
<1>20. ASSUME NEW f \in Frames, PassThrough(f) PROVE Nested'
  BY <1>20, MayStartBelowCtors DEF PassThrough, MayStart
<1>19. CASE UNCHANGED vars
  BY <1>19 DEF vars, frame, shared
<1> QED BY <1>1, <1>2, <1>3, <1>4, <1>5, <1>6, <1>7, <1>8, <1>9, <1>10, <1>11, <1>12, <1>13, <1>14, <1>15, <1>16, <1>17, <1>18, <1>19, <1>20
         DEF Next, Step

\* A lock is taken when free and given up by the frame inside what it protects.
LEMMA NextHolders == TypeOK /\ LocksInv /\ [Next]_vars => Holders'
<1> SUFFICES ASSUME TypeOK, LocksInv, [Next]_vars PROVE Holders'
  OBVIOUS
<1> USE LevelAssumption, OwnerAssumption DEF TypeOK, LocksInv, Holders, Goto, PCs, frame, shared, Ctors
<1>1. ASSUME NEW f \in Frames, Start(f) PROVE Holders'
  BY <1>1 DEF Start, MayStart
<1>2. ASSUME NEW f \in Frames, LockCache(f) PROVE Holders'
  BY <1>2 DEF LockCache
<1>3. ASSUME NEW f \in Frames, CheckScanned(f) PROVE Holders'
  BY <1>3 DEF CheckScanned
<1>4. ASSUME NEW f \in Frames, Collect(f) PROVE Holders'
  BY <1>4 DEF Collect
<1>5. ASSUME NEW f \in Frames, CacheGet(f) PROVE Holders'
  BY <1>5 DEF CacheGet
<1>6. ASSUME NEW f \in Frames, NoLoad(f) PROVE Holders'
  BY <1>6 DEF NoLoad
<1>7. ASSUME NEW f \in Frames, OpenDep(f) PROVE Holders'
  BY <1>7 DEF OpenDep
<1>8. ASSUME NEW f \in Frames, OpenSelf(f) PROVE Holders'
  BY <1>8 DEF OpenSelf
<1>9. ASSUME NEW f \in Frames, CtorsDone(f) PROVE Holders'
  BY <1>9 DEF CtorsDone
<1>10. ASSUME NEW f \in Frames, CachePut(f) PROVE Holders'
  BY <1>10 DEF CachePut
<1>11. ASSUME NEW f \in Frames, AskedAll(f) PROVE Holders'
  BY <1>11 DEF AskedAll
<1>12. ASSUME NEW f \in Frames, LockProviders(f) PROVE Holders'
  BY <1>12 DEF LockProviders
<1>13. ASSUME NEW f \in Frames, Found(f) PROVE Holders'
  BY <1>13 DEF Found
<1>14. ASSUME NEW f \in Frames, NoRoom(f) PROVE Holders'
  BY <1>14 DEF NoRoom
<1>15. ASSUME NEW f \in Frames, Room(f) PROVE Holders'
  BY <1>15 DEF Room
<1>16. ASSUME NEW f \in Frames, Insert(f) PROVE Holders'
  BY <1>16 DEF Insert
<1>17. ASSUME NEW f \in Frames, Fill(f) PROVE Holders'
  BY <1>17 DEF Fill
<1>18. ASSUME NEW f \in Frames, ReadEntry(f) PROVE Holders'
  BY <1>18 DEF ReadEntry
<1>20. ASSUME NEW f \in Frames, PassThrough(f) PROVE Holders'
  BY <1>20 DEF PassThrough, MayStart
<1>19. CASE UNCHANGED vars
  BY <1>19 DEF vars, frame, shared
<1> QED BY <1>1, <1>2, <1>3, <1>4, <1>5, <1>6, <1>7, <1>8, <1>9, <1>10, <1>11, <1>12, <1>13, <1>14, <1>15, <1>16, <1>17, <1>18, <1>19, <1>20
         DEF Next, Step

\* The version set is complete or being collected by the lock's holder.
LEMMA NextScanUnderWay == TypeOK /\ LocksInv /\ [Next]_vars => ScanUnderWay'
<1> SUFFICES ASSUME TypeOK, LocksInv, [Next]_vars PROVE ScanUnderWay'
  OBVIOUS
<1> USE LevelAssumption, OwnerAssumption DEF TypeOK, LocksInv, ScanUnderWay, Goto, PCs, frame, shared, Ctors, Holders
<1>1. ASSUME NEW f \in Frames, Start(f) PROVE ScanUnderWay'
  BY <1>1 DEF Start, MayStart
<1>2. ASSUME NEW f \in Frames, LockCache(f) PROVE ScanUnderWay'
  BY <1>2 DEF LockCache
<1>3. ASSUME NEW f \in Frames, CheckScanned(f) PROVE ScanUnderWay'
  BY <1>3 DEF CheckScanned
<1>4. ASSUME NEW f \in Frames, Collect(f) PROVE ScanUnderWay'
  BY <1>4 DEF Collect
<1>5. ASSUME NEW f \in Frames, CacheGet(f) PROVE ScanUnderWay'
  BY <1>5 DEF CacheGet
<1>6. ASSUME NEW f \in Frames, NoLoad(f) PROVE ScanUnderWay'
  BY <1>6 DEF NoLoad
<1>7. ASSUME NEW f \in Frames, OpenDep(f) PROVE ScanUnderWay'
  BY <1>7 DEF OpenDep
<1>8. ASSUME NEW f \in Frames, OpenSelf(f) PROVE ScanUnderWay'
  BY <1>8 DEF OpenSelf
<1>9. ASSUME NEW f \in Frames, CtorsDone(f) PROVE ScanUnderWay'
  BY <1>9 DEF CtorsDone
<1>10. ASSUME NEW f \in Frames, CachePut(f) PROVE ScanUnderWay'
  BY <1>10 DEF CachePut
<1>11. ASSUME NEW f \in Frames, AskedAll(f) PROVE ScanUnderWay'
  BY <1>11 DEF AskedAll
<1>12. ASSUME NEW f \in Frames, LockProviders(f) PROVE ScanUnderWay'
  BY <1>12 DEF LockProviders
<1>13. ASSUME NEW f \in Frames, Found(f) PROVE ScanUnderWay'
  BY <1>13 DEF Found
<1>14. ASSUME NEW f \in Frames, NoRoom(f) PROVE ScanUnderWay'
  BY <1>14 DEF NoRoom
<1>15. ASSUME NEW f \in Frames, Room(f) PROVE ScanUnderWay'
  BY <1>15 DEF Room
<1>16. ASSUME NEW f \in Frames, Insert(f) PROVE ScanUnderWay'
  BY <1>16 DEF Insert
<1>17. ASSUME NEW f \in Frames, Fill(f) PROVE ScanUnderWay'
  BY <1>17 DEF Fill
<1>18. ASSUME NEW f \in Frames, ReadEntry(f) PROVE ScanUnderWay'
  BY <1>18 DEF ReadEntry
<1>20. ASSUME NEW f \in Frames, PassThrough(f) PROVE ScanUnderWay'
  BY <1>20 DEF PassThrough, MayStart
<1>19. CASE UNCHANGED vars
  BY <1>19 DEF vars, frame, shared
<1> QED BY <1>1, <1>2, <1>3, <1>4, <1>5, <1>6, <1>7, <1>8, <1>9, <1>10, <1>11, <1>12, <1>13, <1>14, <1>15, <1>16, <1>17, <1>18, <1>19, <1>20
         DEF Next, Step

\* Nobody gets past the scan before it is complete.
LEMMA NextVersionsSettled == TypeOK /\ LocksInv /\ [Next]_vars => VersionsSettled'
<1> SUFFICES ASSUME TypeOK, LocksInv, [Next]_vars PROVE VersionsSettled'
  OBVIOUS
<1> USE LevelAssumption, OwnerAssumption DEF TypeOK, LocksInv, VersionsSettled, Goto, PCs, frame, shared, Ctors, Holders, ScanUnderWay
<1>1. ASSUME NEW f \in Frames, Start(f) PROVE VersionsSettled'
  BY <1>1 DEF Start, MayStart
<1>2. ASSUME NEW f \in Frames, LockCache(f) PROVE VersionsSettled'
  BY <1>2 DEF LockCache
<1>3. ASSUME NEW f \in Frames, CheckScanned(f) PROVE VersionsSettled'
  BY <1>3 DEF CheckScanned
<1>4. ASSUME NEW f \in Frames, Collect(f) PROVE VersionsSettled'
  BY <1>4 DEF Collect
<1>5. ASSUME NEW f \in Frames, CacheGet(f) PROVE VersionsSettled'
  BY <1>5 DEF CacheGet
<1>6. ASSUME NEW f \in Frames, NoLoad(f) PROVE VersionsSettled'
  BY <1>6 DEF NoLoad
<1>7. ASSUME NEW f \in Frames, OpenDep(f) PROVE VersionsSettled'
  BY <1>7 DEF OpenDep
<1>8. ASSUME NEW f \in Frames, OpenSelf(f) PROVE VersionsSettled'
  BY <1>8 DEF OpenSelf
<1>9. ASSUME NEW f \in Frames, CtorsDone(f) PROVE VersionsSettled'
  BY <1>9 DEF CtorsDone
<1>10. ASSUME NEW f \in Frames, CachePut(f) PROVE VersionsSettled'
  BY <1>10 DEF CachePut
<1>11. ASSUME NEW f \in Frames, AskedAll(f) PROVE VersionsSettled'
  BY <1>11 DEF AskedAll
<1>12. ASSUME NEW f \in Frames, LockProviders(f) PROVE VersionsSettled'
  BY <1>12 DEF LockProviders
<1>13. ASSUME NEW f \in Frames, Found(f) PROVE VersionsSettled'
  BY <1>13 DEF Found
<1>14. ASSUME NEW f \in Frames, NoRoom(f) PROVE VersionsSettled'
  BY <1>14 DEF NoRoom
<1>15. ASSUME NEW f \in Frames, Room(f) PROVE VersionsSettled'
  BY <1>15 DEF Room
<1>16. ASSUME NEW f \in Frames, Insert(f) PROVE VersionsSettled'
  BY <1>16 DEF Insert
<1>17. ASSUME NEW f \in Frames, Fill(f) PROVE VersionsSettled'
  BY <1>17 DEF Fill
<1>18. ASSUME NEW f \in Frames, ReadEntry(f) PROVE VersionsSettled'
  BY <1>18 DEF ReadEntry
<1>20. ASSUME NEW f \in Frames, PassThrough(f) PROVE VersionsSettled'
  BY <1>20 DEF PassThrough, MayStart
<1>19. CASE UNCHANGED vars
  BY <1>19 DEF vars, frame, shared
<1> QED BY <1>1, <1>2, <1>3, <1>4, <1>5, <1>6, <1>7, <1>8, <1>9, <1>10, <1>11, <1>12, <1>13, <1>14, <1>15, <1>16, <1>17, <1>18, <1>19, <1>20
         DEF Next, Step

\* What was found missing stays so until it is inserted: the lock is held.
LEMMA NextExtending == TypeOK /\ LocksInv /\ [Next]_vars => Extending'
<1> SUFFICES ASSUME TypeOK, LocksInv, [Next]_vars PROVE Extending'
  OBVIOUS
<1> USE LevelAssumption, OwnerAssumption DEF TypeOK, LocksInv, Extending, Goto, PCs, frame, shared, Ctors, Holders, Listed, HasRoom, TableSound, Entry
<1>1. ASSUME NEW f \in Frames, Start(f) PROVE Extending'
  BY <1>1 DEF Start, MayStart
<1>2. ASSUME NEW f \in Frames, LockCache(f) PROVE Extending'
  BY <1>2 DEF LockCache
<1>3. ASSUME NEW f \in Frames, CheckScanned(f) PROVE Extending'
  BY <1>3 DEF CheckScanned
<1>4. ASSUME NEW f \in Frames, Collect(f) PROVE Extending'
  BY <1>4 DEF Collect
<1>5. ASSUME NEW f \in Frames, CacheGet(f) PROVE Extending'
  BY <1>5 DEF CacheGet
<1>6. ASSUME NEW f \in Frames, NoLoad(f) PROVE Extending'
  BY <1>6 DEF NoLoad
<1>7. ASSUME NEW f \in Frames, OpenDep(f) PROVE Extending'
  BY <1>7 DEF OpenDep
<1>8. ASSUME NEW f \in Frames, OpenSelf(f) PROVE Extending'
  BY <1>8 DEF OpenSelf
<1>9. ASSUME NEW f \in Frames, CtorsDone(f) PROVE Extending'
  BY <1>9 DEF CtorsDone
<1>10. ASSUME NEW f \in Frames, CachePut(f) PROVE Extending'
  BY <1>10 DEF CachePut
<1>11. ASSUME NEW f \in Frames, AskedAll(f) PROVE Extending'
  BY <1>11 DEF AskedAll
<1>12. ASSUME NEW f \in Frames, LockProviders(f) PROVE Extending'
  BY <1>12 DEF LockProviders
<1>13. ASSUME NEW f \in Frames, Found(f) PROVE Extending'
  BY <1>13 DEF Found
<1>14. ASSUME NEW f \in Frames, NoRoom(f) PROVE Extending'
  BY <1>14 DEF NoRoom
<1>15. ASSUME NEW f \in Frames, Room(f) PROVE Extending'
  BY <1>15 DEF Room
<1>16. ASSUME NEW f \in Frames, Insert(f) PROVE Extending'
  BY <1>16 DEF Insert
<1>17. ASSUME NEW f \in Frames, Fill(f) PROVE Extending'
  BY <1>17 DEF Fill
<1>18. ASSUME NEW f \in Frames, ReadEntry(f) PROVE Extending'
  BY <1>18 DEF ReadEntry
<1>20. ASSUME NEW f \in Frames, PassThrough(f) PROVE Extending'
  BY <1>20 DEF PassThrough, MayStart
<1>19. CASE UNCHANGED vars
  BY <1>19 DEF vars, frame, shared
<1> QED BY <1>1, <1>2, <1>3, <1>4, <1>5, <1>6, <1>7, <1>8, <1>9, <1>10, <1>11, <1>12, <1>13, <1>14, <1>15, <1>16, <1>17, <1>18, <1>19, <1>20
         DEF Next, Step

\* An entry not yet filled is that of the lock's holder.
LEMMA NextOpenEntries == TypeOK /\ LocksInv /\ [Next]_vars => OpenEntries'
<1> SUFFICES ASSUME TypeOK, LocksInv, [Next]_vars PROVE OpenEntries'
  OBVIOUS
<1> USE LevelAssumption, OwnerAssumption DEF TypeOK, LocksInv, OpenEntries, Goto, PCs, frame, shared, Ctors
<1>1. ASSUME NEW f \in Frames, Start(f) PROVE OpenEntries'
  BY <1>1 DEF Start, MayStart
<1>2. ASSUME NEW f \in Frames, LockCache(f) PROVE OpenEntries'
  BY <1>2 DEF LockCache
<1>3. ASSUME NEW f \in Frames, CheckScanned(f) PROVE OpenEntries'
  BY <1>3 DEF CheckScanned
<1>4. ASSUME NEW f \in Frames, Collect(f) PROVE OpenEntries'
  BY <1>4 DEF Collect
<1>5. ASSUME NEW f \in Frames, CacheGet(f) PROVE OpenEntries'
  BY <1>5 DEF CacheGet
<1>6. ASSUME NEW f \in Frames, NoLoad(f) PROVE OpenEntries'
  BY <1>6 DEF NoLoad
<1>7. ASSUME NEW f \in Frames, OpenDep(f) PROVE OpenEntries'
  BY <1>7 DEF OpenDep
<1>8. ASSUME NEW f \in Frames, OpenSelf(f) PROVE OpenEntries'
  BY <1>8 DEF OpenSelf
<1>9. ASSUME NEW f \in Frames, CtorsDone(f) PROVE OpenEntries'
  BY <1>9 DEF CtorsDone
<1>10. ASSUME NEW f \in Frames, CachePut(f) PROVE OpenEntries'
  BY <1>10 DEF CachePut
<1>11. ASSUME NEW f \in Frames, AskedAll(f) PROVE OpenEntries'
  BY <1>11 DEF AskedAll
<1>12. ASSUME NEW f \in Frames, LockProviders(f) PROVE OpenEntries'
  BY <1>12 DEF LockProviders
<1>13. ASSUME NEW f \in Frames, Found(f) PROVE OpenEntries'
  BY <1>13 DEF Found
<1>14. ASSUME NEW f \in Frames, NoRoom(f) PROVE OpenEntries'
  BY <1>14 DEF NoRoom
<1>15. ASSUME NEW f \in Frames, Room(f) PROVE OpenEntries'
  BY <1>15 DEF Room
<1>16. ASSUME NEW f \in Frames, Insert(f) PROVE OpenEntries'
  BY <1>16 DEF Insert
<1>17. ASSUME NEW f \in Frames, Fill(f) PROVE OpenEntries'
  BY <1>17 DEF Fill
<1>18. ASSUME NEW f \in Frames, ReadEntry(f) PROVE OpenEntries'
  BY <1>18 DEF ReadEntry
<1>20. ASSUME NEW f \in Frames, PassThrough(f) PROVE OpenEntries'
  BY <1>20 DEF PassThrough, MayStart
<1>19. CASE UNCHANGED vars
  BY <1>19 DEF vars, frame, shared
<1> QED BY <1>1, <1>2, <1>3, <1>4, <1>5, <1>6, <1>7, <1>8, <1>9, <1>10, <1>11, <1>12, <1>13, <1>14, <1>15, <1>16, <1>17, <1>18, <1>19, <1>20
         DEF Next, Step

\* The table grows by one file it has not, within its bound.
LEMMA NextTableSound == TypeOK /\ LocksInv /\ [Next]_vars => TableSound'
<1> SUFFICES ASSUME TypeOK, LocksInv, [Next]_vars PROVE TableSound'
  OBVIOUS
<1> USE LevelAssumption, OwnerAssumption DEF TypeOK, LocksInv, TableSound, Goto, PCs, frame, shared, Ctors, Extending, Listed
<1>1. ASSUME NEW f \in Frames, Start(f) PROVE TableSound'
  BY <1>1 DEF Start, MayStart
<1>2. ASSUME NEW f \in Frames, LockCache(f) PROVE TableSound'
  BY <1>2 DEF LockCache
<1>3. ASSUME NEW f \in Frames, CheckScanned(f) PROVE TableSound'
  BY <1>3 DEF CheckScanned
<1>4. ASSUME NEW f \in Frames, Collect(f) PROVE TableSound'
  BY <1>4 DEF Collect
<1>5. ASSUME NEW f \in Frames, CacheGet(f) PROVE TableSound'
  BY <1>5 DEF CacheGet
<1>6. ASSUME NEW f \in Frames, NoLoad(f) PROVE TableSound'
  BY <1>6 DEF NoLoad
<1>7. ASSUME NEW f \in Frames, OpenDep(f) PROVE TableSound'
  BY <1>7 DEF OpenDep
<1>8. ASSUME NEW f \in Frames, OpenSelf(f) PROVE TableSound'
  BY <1>8 DEF OpenSelf
<1>9. ASSUME NEW f \in Frames, CtorsDone(f) PROVE TableSound'
  BY <1>9 DEF CtorsDone
<1>10. ASSUME NEW f \in Frames, CachePut(f) PROVE TableSound'
  BY <1>10 DEF CachePut
<1>11. ASSUME NEW f \in Frames, AskedAll(f) PROVE TableSound'
  BY <1>11 DEF AskedAll
<1>12. ASSUME NEW f \in Frames, LockProviders(f) PROVE TableSound'
  BY <1>12 DEF LockProviders
<1>13. ASSUME NEW f \in Frames, Found(f) PROVE TableSound'
  BY <1>13 DEF Found
<1>14. ASSUME NEW f \in Frames, NoRoom(f) PROVE TableSound'
  BY <1>14 DEF NoRoom
<1>15. ASSUME NEW f \in Frames, Room(f) PROVE TableSound'
  BY <1>15 DEF Room
<1>16. ASSUME NEW f \in Frames, Insert(f) PROVE TableSound'
  BY <1>16 DEF Insert
<1>17. ASSUME NEW f \in Frames, Fill(f) PROVE TableSound'
  BY <1>17 DEF Fill
<1>18. ASSUME NEW f \in Frames, ReadEntry(f) PROVE TableSound'
  BY <1>18 DEF ReadEntry
<1>20. ASSUME NEW f \in Frames, PassThrough(f) PROVE TableSound'
  BY <1>20 DEF PassThrough, MayStart
<1>19. CASE UNCHANGED vars
  BY <1>19 DEF vars, frame, shared
<1> QED BY <1>1, <1>2, <1>3, <1>4, <1>5, <1>6, <1>7, <1>8, <1>9, <1>10, <1>11, <1>12, <1>13, <1>14, <1>15, <1>16, <1>17, <1>18, <1>19, <1>20
         DEF Next, Step

\* What is read outside the lock has been filled.
LEMMA NextReadsAreComplete == TypeOK /\ LocksInv /\ [Next]_vars => ReadsAreComplete'
<1> SUFFICES ASSUME TypeOK, LocksInv, [Next]_vars PROVE ReadsAreComplete'
  OBVIOUS
<1> USE LevelAssumption, OwnerAssumption DEF TypeOK, LocksInv, ReadsAreComplete, Goto, PCs, frame, shared, Ctors, Extending, Entry
<1>1. ASSUME NEW f \in Frames, Start(f) PROVE ReadsAreComplete'
  BY <1>1 DEF Start, MayStart
<1>2. ASSUME NEW f \in Frames, LockCache(f) PROVE ReadsAreComplete'
  BY <1>2 DEF LockCache
<1>3. ASSUME NEW f \in Frames, CheckScanned(f) PROVE ReadsAreComplete'
  BY <1>3 DEF CheckScanned
<1>4. ASSUME NEW f \in Frames, Collect(f) PROVE ReadsAreComplete'
  BY <1>4 DEF Collect
<1>5. ASSUME NEW f \in Frames, CacheGet(f) PROVE ReadsAreComplete'
  BY <1>5 DEF CacheGet
<1>6. ASSUME NEW f \in Frames, NoLoad(f) PROVE ReadsAreComplete'
  BY <1>6 DEF NoLoad
<1>7. ASSUME NEW f \in Frames, OpenDep(f) PROVE ReadsAreComplete'
  BY <1>7 DEF OpenDep
<1>8. ASSUME NEW f \in Frames, OpenSelf(f) PROVE ReadsAreComplete'
  BY <1>8 DEF OpenSelf
<1>9. ASSUME NEW f \in Frames, CtorsDone(f) PROVE ReadsAreComplete'
  BY <1>9 DEF CtorsDone
<1>10. ASSUME NEW f \in Frames, CachePut(f) PROVE ReadsAreComplete'
  BY <1>10 DEF CachePut
<1>11. ASSUME NEW f \in Frames, AskedAll(f) PROVE ReadsAreComplete'
  BY <1>11 DEF AskedAll
<1>12. ASSUME NEW f \in Frames, LockProviders(f) PROVE ReadsAreComplete'
  BY <1>12 DEF LockProviders
<1>13. ASSUME NEW f \in Frames, Found(f) PROVE ReadsAreComplete'
  <2>1. \A i \in DOMAIN table : table[i].filled
    BY <1>13 DEF Found, OpenEntries, Holders
  <2> QED BY <1>13, <2>1 DEF Found
<1>14. ASSUME NEW f \in Frames, NoRoom(f) PROVE ReadsAreComplete'
  BY <1>14 DEF NoRoom
<1>15. ASSUME NEW f \in Frames, Room(f) PROVE ReadsAreComplete'
  BY <1>15 DEF Room
<1>16. ASSUME NEW f \in Frames, Insert(f) PROVE ReadsAreComplete'
  BY <1>16 DEF Insert
<1>17. ASSUME NEW f \in Frames, Fill(f) PROVE ReadsAreComplete'
  BY <1>17 DEF Fill
<1>18. ASSUME NEW f \in Frames, ReadEntry(f) PROVE ReadsAreComplete'
  BY <1>18 DEF ReadEntry
<1>20. ASSUME NEW f \in Frames, PassThrough(f) PROVE ReadsAreComplete'
  BY <1>20 DEF PassThrough, MayStart
<1>19. CASE UNCHANGED vars
  BY <1>19 DEF vars, frame, shared
<1> QED BY <1>1, <1>2, <1>3, <1>4, <1>5, <1>6, <1>7, <1>8, <1>9, <1>10, <1>11, <1>12, <1>13, <1>14, <1>15, <1>16, <1>17, <1>18, <1>19, <1>20
         DEF Next, Step

\* The parts together are inductive.
LEMMA NextLocksInv == TypeOK /\ LocksInv /\ [Next]_vars => LocksInv'
BY NextNested, NextHolders, NextScanUnderWay, NextVersionsSettled, NextExtending,
   NextOpenEntries, NextTableSound, NextReadsAreComplete DEF LocksInv
-----------------------------------------------------------------------------
\* TypeOK and LocksInv are inductive together.
LEMMA Inductive == Spec => [](TypeOK /\ LocksInv)
<1>1. Init => TypeOK /\ LocksInv
  BY InitType, InitLocksInv
<1>2. TypeOK /\ LocksInv /\ [Next]_vars => (TypeOK /\ LocksInv)'
  BY NextType, NextLocksInv
<1> QED BY <1>1, <1>2, PTL DEF Spec

\* The loader's shared tables keep their shape: cld_providers never grows past
\* its array.
THEOREM TypeCorrect == Spec => []TypeOK
BY Inductive, PTL

\* No constructor runs above a load that holds a lock.
THEOREM LocksNotReentered == Spec => []NoReentry
<1>1. LocksInv => NoReentry
  BY OwnerAssumption DEF LocksInv, NoReentry, Nested, Holders, Ctors
<1> QED BY <1>1, Inductive, PTL

\* Our libc's versions are all there for every load past the scan.
THEOREM VersionsComplete == Spec => []VersionsSettled
<1>1. LocksInv => VersionsSettled
  BY DEF LocksInv
<1> QED BY <1>1, Inductive, PTL

\* No file is listed twice, and what is read without the lock is complete.
THEOREM TableCorrect == Spec => [](TableSound /\ ReadsAreComplete)
<1>1. LocksInv => TableSound /\ ReadsAreComplete
  BY DEF LocksInv
<1> QED BY <1>1, Inductive, PTL

\* What is read of an entry without the lock is about the file asked for and
\* filled.
THEOREM ReadsComplete == Spec => []ReadsAreComplete
<1>1. LocksInv => ReadsAreComplete
  BY DEF LocksInv
<1> QED BY <1>1, Inductive, PTL

\* Loads that wait for each other across a lock of ours and the linker's wait
\* for good, however many other threads there are.
THEOREM CrossedStays == Spec => CrossedForGood
<1>1. ASSUME TypeOK, LocksInv, [Next]_vars,
             NEW f \in Frames, NEW g \in Frames, NEW h \in Frames, CrossedBy(f, g, h)
      PROVE  CrossedBy(f, g, h)'
  <2>1. f # g /\ f # h /\ ~LinkerFree(f)
    BY <1>1 DEF CrossedBy, LinkerFree
  <2>2. g # h /\ g[2] > h[2]
    <3>1. g # h /\ ~(h[2] > g[2])
      BY <1>1 DEF CrossedBy, LocksInv, Nested, Ctors
    <3>2. g = <<g[1], g[2]>> /\ h = <<h[1], h[2]>> /\ g[2] \in Nat /\ h[2] \in Nat
      BY LevelAssumption DEF Frames
    <3>3. g[2] # h[2]
      BY <1>1, <3>1, <3>2 DEF CrossedBy
    <3> QED BY <3>1, <3>2, <3>3
  <2>3. ~MayStart(f) /\ ~MayStart(g) /\ ~MayStart(h)
    BY <1>1 DEF CrossedBy, MayStart, Ctors
  \* The load under the lock cannot ask the linker ...
  <2>4. ~Step(f)
    BY <1>1, <2>1 DEF CrossedBy, Step, LockCache, CheckScanned, Collect, CacheGet, NoLoad,
       OpenDep, OpenSelf, CtorsDone, CachePut, AskedAll, LockProviders, Found, NoRoom, Room,
       Insert, Fill, ReadEntry, Ctors
  \* ... the one that waits cannot have the lock ...
  <2>5. ~Step(g)
    <3>1. pc[f] = "collect" => cacheLock # NoOne
      BY OwnerAssumption, <1>1 DEF LocksInv, Holders
    <3>2. pc[f] = "fill" => providerLock # NoOne
      BY OwnerAssumption, <1>1 DEF LocksInv, Holders
    <3> QED BY <1>1, <3>1, <3>2 DEF CrossedBy, Step, LockCache, CheckScanned, Collect,
       CacheGet, NoLoad, OpenDep, OpenSelf, CtorsDone, CachePut, AskedAll, LockProviders,
       Found, NoRoom, Room, Insert, Fill, ReadEntry, Ctors
  \* ... and the constructors it runs under do not come to their end.
  <2>6. ~Step(h)
    <3>1. pc[g] # "idle" /\ pc[h] \in Ctors /\ g[1] = h[1]
      BY <1>1 DEF CrossedBy
    <3> QED BY <2>2, <3>1 DEF Step, LockCache, CheckScanned, Collect, CacheGet, NoLoad,
       OpenDep, OpenSelf, CtorsDone, CachePut, AskedAll, LockProviders, Found, NoRoom, Room,
       Insert, Fill, ReadEntry, Ctors
  \* The others leave the three where they are.
  <2>7. ASSUME NEW k \in Frames, Start(k) \/ PassThrough(k) \/ Step(k), k \notin {f, g, h}
        PROVE  \A x \in {f, g, h} : /\ pc'[x] = pc[x] /\ file'[x] = file[x]
                                    /\ wants'[x] = wants[x]
    BY <1>1, <2>7 DEF TypeOK, Goto, frame, Step, Start, PassThrough, LockCache, CheckScanned,
       Collect, CacheGet, NoLoad, OpenDep, OpenSelf, CtorsDone, CachePut, AskedAll,
       LockProviders, Found, NoRoom, Room, Insert, Fill, ReadEntry
  <2>8. CASE Next
    <3>1. PICK k \in Frames : Start(k) \/ PassThrough(k) \/ Step(k)
      BY <2>8 DEF Next
    <3>2. k \notin {f, g, h}
      BY <2>3, <2>4, <2>5, <2>6, <3>1 DEF Start, PassThrough
    <3>3. \A x \in {f, g, h} : pc'[x] = pc[x] /\ file'[x] = file[x] /\ wants'[x] = wants[x]
      BY <2>7, <3>1, <3>2
    <3> QED BY <1>1, <3>3 DEF CrossedBy
  <2>9. CASE UNCHANGED vars
    BY <1>1, <2>9 DEF CrossedBy, vars, frame
  <2> QED BY <1>1, <2>8, <2>9
<1>2. TypeOK /\ LocksInv /\ [Next]_vars => [Crossed => Crossed']_vars
  BY <1>1 DEF Crossed
<1> QED BY <1>2, Inductive, PTL DEF Spec, CrossedForGood

\* Completed entries never change: only Fill writes one, and it is open.
THEOREM AnswersStay == Spec => AnswersNeverChange
<1> DEFINE Stay == \A i \in DOMAIN table :
                     table[i].filled => i \in DOMAIN table' /\ table'[i] = table[i]
<1>1. TypeOK /\ LocksInv /\ [Next]_vars => [Stay]_vars
  <2> SUFFICES ASSUME TypeOK, LocksInv, Next PROVE Stay
    BY DEF vars
  <2>1. PICK f \in Frames : Start(f) \/ PassThrough(f) \/ Step(f)
    BY DEF Next
  <2>2. CASE Insert(f)
    BY <2>2 DEF Insert, TypeOK
  <2>3. CASE Fill(f)
    BY <2>3 DEF Fill, TypeOK, LocksInv, Extending
  <2>4. CASE ~Insert(f) /\ ~Fill(f)
    <3>1. table' = table
      BY <2>1, <2>4 DEF Step, Start, PassThrough, LockCache, CheckScanned, Collect, CacheGet, NoLoad,
         OpenDep, OpenSelf, CtorsDone, CachePut, AskedAll, LockProviders, Found, NoRoom,
         Room, ReadEntry, shared
    <3> QED BY <3>1
  <2> QED BY <2>2, <2>3, <2>4
<1> QED BY <1>1, Inductive, PTL DEF Spec, AnswersNeverChange
-----------------------------------------------------------------------------
\* The conditions under which a load can take its next step: where it stands,
\* nobody else has the lock it needs, and no load is nested in it.
CanStep(f) ==
  \/ pc[f] \in {"check", "look", "insert", "read"}
  \/ pc[f] \in {"scan", "get", "put"} /\ cacheLock = NoOne
  \/ pc[f] = "ask" /\ (wants[f] = {} \/ providerLock = NoOne)
  \/ pc[f] \in {"collect", "noload", "deps", "load"} /\ LinkerFree(f)
  \/ pc[f] = "fill" /\ (file[f] \in BundledOnes \/ LinkerFree(f))
  \/ pc[f] \in Ctors /\ \A g \in Frames : g[1] = f[1] /\ g[2] > f[2] => pc[g] = "idle"

\* Constructors run on one thread at a time, the one that has the linker's lock.
OneLinkerUser == \A f, g \in Frames : pc[f] \in Ctors /\ pc[g] \in Ctors => f[1] = g[1]

LEMMA InitOneLinkerUser == Init => OneLinkerUser
BY DEF Init, OneLinkerUser, Ctors

\* What goes on to constructors found the linker's lock free or its own.
LEMMA NextOneLinkerUser == TypeOK /\ OneLinkerUser /\ [Next]_vars => OneLinkerUser'
<1> SUFFICES ASSUME TypeOK, OneLinkerUser, [Next]_vars PROVE OneLinkerUser'
  OBVIOUS
<1>1. ASSUME NEW f \in Frames, LinkerFree(f), \A g \in Frames \ {f} : pc'[g] = pc[g]
      PROVE  OneLinkerUser'
  BY <1>1 DEF OneLinkerUser, LinkerFree
<1>2. ASSUME NEW f \in Frames, PassThrough(f) \/ OpenDep(f) \/ OpenSelf(f)
      PROVE  LinkerFree(f) /\ \A g \in Frames \ {f} : pc'[g] = pc[g]
  BY <1>2 DEF PassThrough, OpenDep, OpenSelf, Goto, TypeOK
<1>3. ASSUME NEW f \in Frames, Start(f) \/ Step(f), ~OpenDep(f), ~OpenSelf(f)
      PROVE  \A g \in Frames : pc'[g] \in Ctors => pc[g] \in Ctors
  BY <1>3 DEF Start, Step, LockCache, CheckScanned, Collect, CacheGet, NoLoad, CtorsDone,
     CachePut, AskedAll, LockProviders, Found, NoRoom, Room, Insert, Fill, ReadEntry, Goto,
     TypeOK, Ctors
<1>4. CASE UNCHANGED vars
  BY <1>4 DEF vars, frame, OneLinkerUser
<1>5. CASE Next
  <2>1. PICK f \in Frames : Start(f) \/ PassThrough(f) \/ Step(f)
    BY <1>5 DEF Next
  <2>2. CASE PassThrough(f) \/ OpenDep(f) \/ OpenSelf(f)
    BY <1>1, <1>2, <2>2
  <2>3. CASE ~(PassThrough(f) \/ OpenDep(f) \/ OpenSelf(f))
    BY <1>3, <2>1, <2>3 DEF OneLinkerUser
  <2> QED BY <2>2, <2>3
<1> QED BY <1>4, <1>5

\* The deepest load of a thread: it is the one that is not nested in any other.
LEMMA DeepestExists ==
  ASSUME NEW t, NEW f \in Frames, f[1] = t, pc[f] # "idle"
  PROVE  \E g \in Frames : /\ g[1] = t /\ pc[g] # "idle"
                           /\ \A h \in Frames : h[1] = t /\ h[2] > g[2] => pc[h] = "idle"
<1> USE LevelAssumption
<1> DEFINE Busy == {l \in 0..MaxLevel : pc[<<t, l>>] # "idle"}
           Above == {MaxLevel - l : l \in Busy}
<1>1. \A g \in Frames : g = <<g[1], g[2]>> /\ g[1] \in Threads /\ g[2] \in 0..MaxLevel
  BY DEF Frames
<1>2. MaxLevel - f[2] \in Above /\ Above \subseteq Nat
  <2>1. f[2] \in Busy /\ Busy \subseteq 0..MaxLevel
    BY <1>1
  <2>2. \A l \in Busy : MaxLevel - l \in Nat
    BY <2>1
  <2> QED BY <2>1, <2>2
<1>3. PICK m \in Above : \A x \in Above : m <= x
  <2>1. Above \in SUBSET Nat /\ Above # {}
    BY <1>2
  <2> HIDE DEF Above
  <2> QED BY <2>1, LeastExists
<1>4. PICK l \in 0..MaxLevel : m = MaxLevel - l /\ pc[<<t, l>>] # "idle"
  BY <1>3
<1>5. <<t, l>> \in Frames
  BY <1>1, <1>4 DEF Frames
<1>6. ASSUME NEW h \in Frames, h[1] = t, h[2] > l, pc[h] # "idle" PROVE FALSE
  <2>1. h[2] \in Busy
    BY <1>1, <1>6
  <2>2. MaxLevel - h[2] \in Above
    BY <2>1
  <2>3. m <= MaxLevel - h[2]
    BY <1>3, <2>2
  <2> QED BY <1>1, <1>3, <1>4, <1>6, <2>3
<1> QED BY <1>4, <1>5, <1>6

\* The linker's lock is held on account of g's thread, so g's own load does not
\* wait for it; it waits for a lock of ours, whose holder waits for the linker.
LEMMA HolderIsCrossed ==
  ASSUME TypeOK, LocksInv, OneLinkerUser, \A f \in Frames : ~CanStep(f),
         NEW h \in Frames, pc[h] \in Ctors
  PROVE  Crossed
<1> USE LevelAssumption, OwnerAssumption
<1>1. PICK g \in Frames :
        /\ g[1] = h[1] /\ pc[g] # "idle"
        /\ \A k \in Frames : k[1] = h[1] /\ k[2] > g[2] => pc[k] = "idle"
  BY DeepestExists DEF Ctors
<1>2. LinkerFree(g) /\ pc[g] \notin Ctors
  BY <1>1 DEF LinkerFree, OneLinkerUser, CanStep
<1>3. ASSUME NEW k \in Frames, pc[k] \notin Ctors, pc[k] # "idle", k # g
      PROVE  k[1] # g[1]
  <2> SUFFICES ASSUME k[1] = g[1] PROVE FALSE
    OBVIOUS
  <2>1. k = <<k[1], k[2]>> /\ g = <<g[1], g[2]>> /\ k[2] \in Nat /\ g[2] \in Nat
    BY DEF Frames
  <2>2. k[2] # g[2]
    BY <1>3, <2>1
  <2>3. ~(k[2] > g[2])
    BY <1>1, <1>3
  <2>4. g[2] > k[2]
    BY <2>1, <2>2, <2>3
  <2> QED BY <1>1, <1>3, <2>4 DEF LocksInv, Nested
<1>4. CASE pc[g] \in {"scan", "get", "put"}
  <2>1. PICK k \in Frames : k = cacheLock
    BY <1>4 DEF CanStep, TypeOK
  <2>2. pc[k] \in {"check", "collect"}
    BY <2>1 DEF LocksInv, Holders
  <2>3. pc[k] = "collect"
    BY <2>2 DEF CanStep
  <2>4. k[1] # g[1]
    BY <1>3, <1>4, <2>3 DEF Ctors
  <2>5. CrossedBy(k, g, h)
    BY <1>1, <1>4, <2>3, <2>4 DEF CrossedBy
  <2> QED BY <2>5 DEF Crossed
<1>5. CASE pc[g] = "ask"
  <2>1. wants[g] # {} /\ providerLock # NoOne
    BY <1>5 DEF CanStep
  <2>2. PICK k \in Frames : k = providerLock
    BY <2>1 DEF TypeOK
  <2>3. pc[k] \in {"look", "insert", "fill"}
    BY <2>2 DEF LocksInv, Holders
  <2>4. pc[k] = "fill" /\ file[k] \notin BundledOnes
    BY <2>3 DEF CanStep
  <2>5. k[1] # g[1]
    BY <1>3, <1>5, <2>4 DEF Ctors
  <2>6. CrossedBy(k, g, h)
    BY <1>1, <1>5, <2>1, <2>4, <2>5 DEF CrossedBy
  <2> QED BY <2>6 DEF Crossed
<1>6. pc[g] \in PCs
  BY DEF TypeOK
<1> QED BY <1>1, <1>2, <1>4, <1>5, <1>6 DEF CanStep, PCs, Ctors

\* Whoever waits, waits at last for a thread that runs constructors.
LEMMA WaitsForCtors ==
  ASSUME TypeOK, LocksInv, \A f \in Frames : ~CanStep(f),
         NEW f \in Frames, pc[f] # "idle"
  PROVE  \E h \in Frames : pc[h] \in Ctors
<1>1. ASSUME NEW k \in Frames, ~LinkerFree(k) PROVE \E h \in Frames : pc[h] \in Ctors
  BY <1>1 DEF LinkerFree
<1>2. ASSUME NEW k \in Frames, pc[k] \in {"check", "collect", "look", "insert", "fill"}
      PROVE  ~LinkerFree(k)
  BY <1>2 DEF CanStep
<1>3. CASE pc[f] \in {"scan", "get", "put"}
  <2>1. cacheLock \in Frames
    BY <1>3 DEF CanStep, TypeOK
  <2> QED BY <1>1, <1>2, <2>1 DEF LocksInv, Holders
<1>4. CASE pc[f] = "ask"
  <2>1. providerLock \in Frames
    BY <1>4 DEF CanStep, TypeOK
  <2> QED BY <1>1, <1>2, <2>1 DEF LocksInv, Holders
<1>5. pc[f] \in PCs
  BY DEF TypeOK
<1> QED BY <1>1, <1>3, <1>4, <1>5 DEF CanStep, PCs, Ctors

\* While loads are under way one of them can take its next step, unless two
\* threads have crossed: the tables' two locks and the linker's leave no other
\* way for everybody to wait on everybody, at any number of threads and depth
\* of nesting.
THEOREM OnlyCrossedBlocks ==
  Spec => []((\E f \in Frames : pc[f] # "idle") => Crossed \/ \E f \in Frames : CanStep(f))
<1>1. TypeOK /\ LocksInv /\ OneLinkerUser
        => ((\E f \in Frames : pc[f] # "idle") => Crossed \/ \E f \in Frames : CanStep(f))
  BY WaitsForCtors, HolderIsCrossed
<1>2. Spec => []OneLinkerUser
  BY InitOneLinkerUser, NextOneLinkerUser, Inductive, PTL DEF Spec
<1> QED BY <1>1, <1>2, Inductive, PTL
=============================================================================
