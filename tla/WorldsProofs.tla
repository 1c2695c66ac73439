---------------------------- MODULE WorldsProofs ----------------------------
(* Proofs about Worlds: the discipline of registryMutex, and what it buys.   *)
EXTENDS Worlds, SequenceTheorems, TLAPS

\* Stages in which a thread keeps registryMutex.
Holding == {"flushing", "freeing", "creating", "sweeping", "storing", "backup", "copying"}

Discipline == \A t \in Thread : mutex = t <=> pc[t] \in Holding

\* The operands of what a thread is in the middle of.
Operands ==
    /\ \A t \in Thread :
          pc[t] \in {"saving", "writing", "reverting", "loading", "creating"}
              => ptr[t] # None
    /\ \A t \in Thread :
          pc[t] \in {"entering", "unloading", "flushing", "freeing", "naming",
                     "creating", "reverting", "loading", "storing", "backup", "copying"}
              => name[t] # None
    /\ \A p \in Player : pc[p] \in {"deleting", "erased"} => doomed[p] # None

\* What the mutex protects between two steps of its holder.
Held ==
    /\ \A t \in Thread :
          pc[t] \in {"flushing", "freeing", "storing", "backup", "copying"}
              => name[t] \in Loaded
    /\ \A t \in Thread :
          pc[t] = "creating" => name[t] \notin Loaded /\ ptr[t] \notin Live
    /\ pc[Server] \in {"sweeping", "storing", "backup", "copying"}
          => todo \subseteq Loaded
    /\ pc[Server] = "copying" => backups[name[Server]] # <<>>

Sound == TypeOK /\ Discipline /\ Operands /\ Held

\* getOrLoad gives a caller an object, or nothing; other levels stay as they are.
LEMMA GetOrLoadType ==
    ASSUME WorldsAssumption, TypeOK, NEW t \in Thread, NEW n \in Name,
           getOrLoad(t, n)
    PROVE  /\ levels' \in [Name -> Object \cup {None}]
           /\ block' \in [Object -> Content]
           /\ dirty' \subseteq Object
           /\ late' = late
           /\ ptr' \in [Thread -> Object \cup {None}]
           /\ \A u \in Thread \ {t} : ptr'[u] = ptr[u]
           /\ mutex = None
           /\ \A m \in Loaded : levels'[m] = levels[m]
<1> USE WorldsAssumption DEF WorldsAssumption, TypeOK, Loaded, Live
<1>1. CASE n \in Loaded
    BY <1>1 DEF getOrLoad, memory
<1>2. CASE n \notin Loaded /\ n \in known /\ file[n] # None
  <2>1. PICK o \in Object \ Live : ptr' = [ptr EXCEPT ![t] = o] /\ LoadFile(n, o)
    BY <1>2 DEF getOrLoad
  <2>2. file[n] \in Content
    BY <1>2
  <2> QED
    BY <1>2, <2>1, <2>2 DEF getOrLoad, LoadFile
<1>3. CASE n \notin Loaded /\ ~ (n \in known /\ file[n] # None)
    BY <1>3 DEF getOrLoad, memory
<1> QED
    BY <1>1, <1>2, <1>3

\* Closing a stream leaves a complete level or a torn one in the file.
LEMMA WriteType ==
    ASSUME WorldsAssumption, TypeOK, NEW t \in Thread, NEW content \in Content,
           Write(t, content)
    PROVE  /\ file' \in [Name -> Content \cup {None}]
           /\ out' \in [Thread -> Name \cup {None}]
           /\ mixed' \subseteq Name
<1> USE WorldsAssumption DEF WorldsAssumption, TypeOK, Content
<1>1. CASE out[t] = None
  BY <1>1 DEF Write
<1>2. CASE out[t] # None
  <2>1. PICK c \in {content} \cup (IF out[t] \in mixed THEN {Torn} ELSE {}) :
            file' = [file EXCEPT ![out[t]] = c]
    BY <1>2 DEF Write
  <2>2. c \in Content
    BY <2>1
  <2> QED
    BY <1>2, <2>1, <2>2 DEF Write
<1> QED
  BY <1>1, <1>2

\* Freeing a level keeps the types.
LEMMA FreeType ==
    ASSUME WorldsAssumption, TypeOK, NEW n \in Loaded, Free(n)
    PROVE  /\ levels' \in [Name -> Object \cup {None}]
           /\ block' \in [Object -> Content]
           /\ dirty' \subseteq Object
           /\ late' \subseteq Name
BY DEF WorldsAssumption, TypeOK, Free, Content, Loaded

\* Every step keeps the types.
LEMMA TypeStep ==
    ASSUME WorldsAssumption, Sound, [Next]_vars
    PROVE  TypeOK'
<1> USE WorldsAssumption
    DEF WorldsAssumption, Sound, TypeOK, Thread, PlayerStage, ServerStage,
        Content, Goto
<1>1. CASE UNCHANGED vars
    BY <1>1 DEF vars, memory, streams, disk, saver
<1>2. ASSUME NEW p \in Player, NEW command, NEW n \in Name, NEW stage \in PlayerStage,
             Begin(p, command, n, stage),
             name' \in [Thread -> Name \cup {None}]
      PROVE  TypeOK'
    BY <1>2, GetOrLoadType DEF Begin, disk, streams, saver
<1>3. ASSUME NEW p \in Player, Start(p)
      PROVE  TypeOK'
  <2>1. CASE edit(p)
    BY <2>1, <1>2 DEF edit
  <2>2. CASE save(p)
    BY <2>2, <1>2 DEF save
  <2>3. CASE quit(p)
    BY <2>3 DEF quit, memory, disk, streams, saver
  <2>4. ASSUME NEW n \in Name, revert(p, n)
        PROVE  TypeOK'
    <3>1. name' \in [Thread -> Name \cup {None}]
      BY <2>4 DEF revert
    <3> QED
      BY <2>4, <3>1, <1>2 DEF revert
  <2>5. ASSUME NEW n \in Name, join(p, n)
        PROVE  TypeOK'
    <3>1. name' \in [Thread -> Name \cup {None}]
      BY <2>5 DEF join
    <3> QED
      BY <2>5, <3>1, <1>2 DEF join
  <2>6. ASSUME NEW n \in Name, new(p, n)
        PROVE  TypeOK'
    BY <2>6 DEF new, memory, disk, streams, saver
  <2>7. ASSUME NEW n \in Name, del(p, n)
        PROVE  TypeOK'
    BY <2>7 DEF del, memory, disk, streams, saver
  <2> QED
    BY <1>3, <2>1, <2>2, <2>3, <2>4, <2>5, <2>6, <2>7 DEF Start
<1>4. ASSUME NEW p \in Player, Continue(p)
      PROVE  TypeOK'
  <2>1. ASSUME NEW v \in Value, setBlock(p, v)
        PROVE  TypeOK'
    BY <2>1 DEF setBlock, Poke, Live, Loaded, disk, streams, saver
  <2>2. CASE SaveOpen(p)
    BY <2>2 DEF SaveOpen, Open, memory, saver
  <2>3. CASE SaveWrite(p)
    <3>1. block[ptr[p]] \in Content
      BY <2>3 DEF SaveWrite, Operands
    <3> QED
      BY <2>3, <3>1, WriteType DEF SaveWrite, memory, saver
  <2>4. CASE RevertClear(p)
    BY <2>4 DEF RevertClear, Poke, Live, Loaded, disk, streams, saver
  <2>5. CASE RevertFill(p)
    <3>1. name[p] \in Name
      BY <2>5 DEF RevertFill, Operands
    <3>2. PICK k \in 1 .. Len(backups[name[p]]) : Poke(ptr[p], backups[name[p]][k])
      BY <2>5 DEF RevertFill
    <3>3. backups[name[p]][k] \in Content
      BY <3>1, <3>2
    <3>4. block' \in [Object -> Content]
      BY <3>2, <3>3 DEF Poke, Live, Loaded
    <3> QED
      BY <2>5, <3>4 DEF RevertFill, Live, Loaded, disk, streams, saver
  <2>6. CASE Arrive(p)
    BY <2>6 DEF Arrive, Operands, memory, disk, streams, saver
  <2>7. CASE SkipUnload(p)
    BY <2>7 DEF SkipUnload, Return, memory, disk, streams, saver
  <2>8. CASE UnloadOpen(p)
    BY <2>8 DEF UnloadOpen, Open, Loaded, memory, saver
  <2>9. CASE UnloadWrite(p)
    <3>1. name[p] \in Loaded
      BY <2>9 DEF UnloadWrite, Held
    <3>2. block[levels[name[p]]] \in Content
      BY <3>1 DEF Loaded
    <3> QED
      BY <2>9, <3>1, <3>2, WriteType DEF UnloadWrite, memory, saver
  <2>10. CASE NewFound(p)
    BY <2>10 DEF NewFound, LoadFile, Operands, memory, streams, saver
  <2>11. CASE NewGenerate(p)
    BY <2>11 DEF NewGenerate, Generate, Open, Operands, memory, saver
  <2>12. CASE Generated(p)
    BY <2>12 DEF Generated, Write, Operands, saver
  <2>13. ASSUME NEW q \in Player, Evict(p, q)
         PROVE  TypeOK'
    BY <2>13 DEF Evict, memory, disk, streams, saver
  <2>14. CASE Erase(p)
    BY <2>14, FreeType DEF Erase, memory, disk, streams, saver
  <2>15. CASE RemoveFile(p)
    BY <2>15 DEF RemoveFile, Operands, memory, saver
  <2>16. CASE UnloadFree(p)
    <3>1. name[p] \in Loaded
      BY <2>16 DEF UnloadFree, Held
    <3> QED
      BY <2>16, <3>1, FreeType DEF UnloadFree, Return, disk, streams, saver
  <2> QED
    BY <1>4, <2>1, <2>2, <2>3, <2>4, <2>5, <2>6, <2>7, <2>8, <2>9, <2>10, <2>11,
       <2>12, <2>13, <2>14, <2>15, <2>16 DEF Continue
<1>5. CASE Boot
  <2>1. CASE Generate(Server, Main)
    BY <2>1 DEF Generate, Open, memory, saver
  <2>2. CASE ~ Generate(Server, Main)
    <3>1. PICK o \in Object \ Live : LoadFile(Main, o)
      BY <1>5, <2>2 DEF Boot
    <3>2. file[Main] \in Content
      BY <1>5, <2>2 DEF Boot
    <3>3. /\ levels' \in [Name -> Object \cup {None}]
          /\ block' \in [Object -> Content]
          /\ dirty' \subseteq Object
          /\ late' = late
      BY <3>1, <3>2 DEF LoadFile
    <3>4. /\ known' = known \cup {Main}
          /\ Goto(Server, "sleeping")
          /\ UNCHANGED <<mutex, file, backups, ptr, name, streams, at, doomed,
                         toMove, saver>>
      BY <1>5, <2>2 DEF Boot
    <3> QED
      BY <3>3, <3>4 DEF streams, saver
  <2> QED
    BY <2>1, <2>2
<1>6. CASE Generated(Server)
  <2>1. name[Server] \in Name /\ ptr[Server] \in Object
    BY <1>6 DEF Generated, Operands
  <2> QED
    BY <1>6, <2>1, WriteType DEF Generated, saver
<1>7. CASE saveLoop
  <2>1. CASE Wake
    BY <2>1 DEF Wake, Loaded, memory, disk, streams
  <2>2. ASSUME NEW n \in Name, StoreOpen(n)
        PROVE  TypeOK'
    BY <2>2 DEF StoreOpen, Open, memory
  <2>3. CASE StoreWrite
    BY <2>3 DEF StoreWrite, Write, Held, Loaded, memory, saver
  <2>4. CASE backupLevel
    <3>1. name[Server] \in Name
      BY <2>4 DEF backupLevel, Operands
    <3>2. Append(backups[name[Server]], Torn) \in Seq(Content)
      BY <3>1
    <3> QED
      BY <2>4, <3>1, <3>2 DEF backupLevel, memory, streams, saver
  <2>5. CASE BackupCopy
    <3> DEFINE n == name[Server]
    <3>1. n \in Name /\ backups[n] # <<>>
      BY <2>5 DEF BackupCopy, Operands, Held
    <3>2. Len(backups[n]) \in 1 .. Len(backups[n])
      BY <3>1
    <3>3. CASE file[n] = None
      BY <2>5, <3>3 DEF BackupCopy, streams, saver
    <3>4. CASE file[n] # None
      <4>1. [backups[n] EXCEPT ![Len(backups[n])] = file[n]] \in Seq(Content)
        BY <3>1, <3>2, <3>4, ExceptSeq
      <4>2. backups' = [backups EXCEPT
                          ![n] = [backups[n] EXCEPT ![Len(backups[n])] = file[n]]]
        BY <2>5, <3>4 DEF BackupCopy
      <4>3. backups' \in [Name -> Seq(Content)]
        BY <3>1, <4>1, <4>2
      <4> QED
        BY <2>5, <4>3 DEF BackupCopy, streams, saver
    <3> QED
      BY <3>3, <3>4
  <2>6. CASE BackupFails
    BY <2>6 DEF BackupFails, disk, streams, saver
  <2>7. CASE PassDone
    BY <2>7 DEF PassDone, memory, disk, streams
  <2> QED
    BY <1>7, <2>1, <2>2, <2>3, <2>4, <2>5, <2>6, <2>7 DEF saveLoop
<1>8. CASE Crash
    BY <1>8 DEF Crash, disk
<1>9. CASE serverShutdown
    BY <1>9 DEF serverShutdown, Loaded, memory, saver
<1> QED
    BY <1>1, <1>3, <1>4, <1>5, <1>6, <1>7, <1>8, <1>9 DEF Next

\* registryMutex is taken and given back exactly where pc says so.
LEMMA DisciplineStep ==
    ASSUME WorldsAssumption, Sound, TypeOK', [Next]_vars
    PROVE  Discipline'
<1> USE WorldsAssumption
    DEF WorldsAssumption, Sound, TypeOK, Discipline, Holding, Thread, Goto
<1>1. CASE UNCHANGED vars
  BY <1>1 DEF vars
<1>2. ASSUME NEW p \in Player, Start(p)
      PROVE  Discipline'
  <2>1. CASE edit(p)
    BY <2>1 DEF edit, Begin
  <2>2. CASE save(p)
    BY <2>2 DEF save, Begin
  <2>3. CASE quit(p)
    BY <2>3 DEF quit
  <2>4. ASSUME NEW n \in Name, revert(p, n)
        PROVE  Discipline'
    BY <2>4 DEF revert, Begin
  <2>5. ASSUME NEW n \in Name, join(p, n)
        PROVE  Discipline'
    BY <2>5 DEF join, Begin
  <2>6. ASSUME NEW n \in Name, new(p, n)
        PROVE  Discipline'
    BY <2>6 DEF new
  <2>7. ASSUME NEW n \in Name, del(p, n)
        PROVE  Discipline'
    BY <2>7 DEF del
  <2> QED
    BY <1>2, <2>1, <2>2, <2>3, <2>4, <2>5, <2>6, <2>7 DEF Start
<1>3. ASSUME NEW p \in Player, Continue(p)
      PROVE  Discipline'
  <2>1. ASSUME NEW v \in Value, setBlock(p, v)
        PROVE  Discipline'
    BY <2>1 DEF setBlock
  <2>2. CASE SaveOpen(p)
    BY <2>2 DEF SaveOpen
  <2>3. CASE SaveWrite(p)
    BY <2>3 DEF SaveWrite
  <2>4. CASE RevertClear(p)
    BY <2>4 DEF RevertClear
  <2>5. CASE RevertFill(p)
    BY <2>5 DEF RevertFill
  <2>6. CASE Arrive(p)
    BY <2>6 DEF Arrive
  <2>7. CASE SkipUnload(p)
    BY <2>7 DEF SkipUnload, Return
  <2>8. CASE UnloadOpen(p)
    BY <2>8 DEF UnloadOpen
  <2>9. CASE UnloadWrite(p)
    BY <2>9 DEF UnloadWrite
  <2>10. CASE NewFound(p)
    BY <2>10 DEF NewFound
  <2>11. CASE NewGenerate(p)
    BY <2>11 DEF NewGenerate, Generate
  <2>12. CASE Generated(p)
    BY <2>12 DEF Generated
  <2>13. ASSUME NEW q \in Player, Evict(p, q)
         PROVE  Discipline'
    BY <2>13 DEF Evict
  <2>14. CASE Erase(p)
    BY <2>14 DEF Erase
  <2>15. CASE RemoveFile(p)
    BY <2>15 DEF RemoveFile
  <2>16. CASE UnloadFree(p)
    BY <2>16 DEF UnloadFree, Return
  <2> QED
    BY <1>3, <2>1, <2>2, <2>3, <2>4, <2>5, <2>6, <2>7, <2>8, <2>9, <2>10,
       <2>11, <2>12, <2>13, <2>14, <2>15, <2>16 DEF Continue
<1>4. CASE Boot
  BY <1>4 DEF Boot, Generate
<1>5. CASE Generated(Server)
  BY <1>5 DEF Generated
<1>6. CASE saveLoop
  <2>1. CASE Wake
    BY <2>1 DEF Wake
  <2>2. ASSUME NEW n \in Name, StoreOpen(n)
        PROVE  Discipline'
    BY <2>2 DEF StoreOpen
  <2>3. CASE StoreWrite
    BY <2>3 DEF StoreWrite
  <2>4. CASE backupLevel
    BY <2>4 DEF backupLevel
  <2>5. CASE BackupCopy
    BY <2>5 DEF BackupCopy
  <2>6. CASE BackupFails
    BY <2>6 DEF BackupFails
  <2>7. CASE PassDone
    BY <2>7 DEF PassDone
  <2> QED
    BY <1>6, <2>1, <2>2, <2>3, <2>4, <2>5, <2>6, <2>7 DEF saveLoop
<1>7. CASE Crash
  BY <1>7 DEF Crash
<1>8. CASE serverShutdown
  BY <1>8 DEF serverShutdown
<1> QED
  BY <1>1, <1>2, <1>3, <1>4, <1>5, <1>6, <1>7, <1>8 DEF Next

\* A thread in the middle of something has what it needs for the rest of it.
LEMMA OperandsStep ==
    ASSUME WorldsAssumption, Sound, TypeOK', [Next]_vars
    PROVE  Operands'
<1> USE WorldsAssumption
    DEF WorldsAssumption, Sound, TypeOK, Operands, Thread, Goto
<1>0. ASSUME NEW p \in Player, NEW command, NEW n \in Name, NEW stage,
             Begin(p, command, n, stage)
      PROVE  /\ \A t \in Thread \ {p} : pc'[t] = pc[t] /\ ptr'[t] = ptr[t]
             /\ pc'[p] = "idle" \/ (pc'[p] = stage /\ ptr'[p] # None)
             /\ doomed' = doomed
  BY <1>0, GetOrLoadType DEF Begin
<1>1. CASE UNCHANGED vars
  BY <1>1 DEF vars
<1>2. ASSUME NEW p \in Player, Start(p)
      PROVE  Operands'
  <2>1. CASE edit(p)
    <3>1. at[p] \in Name /\ UNCHANGED name
      BY <2>1 DEF edit
    <3>2. \A t \in Thread \ {p} : pc'[t] = pc[t] /\ ptr'[t] = ptr[t]
      BY <2>1, <3>1, <1>0 DEF edit
    <3>3. \/ pc'[p] = "idle"
          \/ pc'[p] = "editing" /\ ptr'[p] # None
      BY <2>1, <3>1, <1>0 DEF edit
    <3>4. UNCHANGED doomed
      BY <2>1, <3>1, <1>0 DEF edit
    <3> QED
      BY <3>1, <3>2, <3>3, <3>4
  <2>2. CASE save(p)
    <3>1. at[p] \in Name /\ UNCHANGED name
      BY <2>2 DEF save
    <3>2. \A t \in Thread \ {p} : pc'[t] = pc[t] /\ ptr'[t] = ptr[t]
      BY <2>2, <3>1, <1>0 DEF save
    <3>3. \/ pc'[p] = "idle"
          \/ pc'[p] = "saving" /\ ptr'[p] # None
      BY <2>2, <3>1, <1>0 DEF save
    <3>4. UNCHANGED doomed
      BY <2>2, <3>1, <1>0 DEF save
    <3> QED
      BY <3>1, <3>2, <3>3, <3>4
  <2>3. CASE quit(p)
    BY <2>3 DEF quit
  <2>4. ASSUME NEW n \in Name, revert(p, n)
        PROVE  Operands'
    <3>1. name' = [name EXCEPT ![p] = IF ptr'[p] = None THEN None ELSE n]
      BY <2>4 DEF revert
    <3>2. \/ pc'[p] = "idle"
          \/ pc'[p] = "reverting" /\ ptr'[p] # None /\ name'[p] # None
      BY <2>4, <3>1, <1>0 DEF revert
    <3> QED
      BY <2>4, <3>1, <3>2, <1>0 DEF revert
  <2>5. ASSUME NEW n \in Name, join(p, n)
        PROVE  Operands'
    <3>1. name' = [name EXCEPT ![p] = IF ptr'[p] = None THEN None ELSE n]
      BY <2>5 DEF join
    <3>2. \/ pc'[p] = "idle"
          \/ pc'[p] = "entering" /\ ptr'[p] # None /\ name'[p] # None
      BY <2>5, <3>1, <1>0 DEF join
    <3> QED
      BY <2>5, <3>1, <3>2, <1>0 DEF join
  <2>6. ASSUME NEW n \in Name, new(p, n)
        PROVE  Operands'
    BY <2>6 DEF new
  <2>7. ASSUME NEW n \in Name, del(p, n)
        PROVE  Operands'
    BY <2>7 DEF del
  <2> QED
    BY <1>2, <2>1, <2>2, <2>3, <2>4, <2>5, <2>6, <2>7 DEF Start
<1>3. ASSUME NEW p \in Player, Continue(p)
      PROVE  Operands'
  <2>1. ASSUME NEW v \in Value, setBlock(p, v)
        PROVE  Operands'
    BY <2>1 DEF setBlock
  <2>2. CASE SaveOpen(p)
    BY <2>2 DEF SaveOpen
  <2>3. CASE SaveWrite(p)
    BY <2>3 DEF SaveWrite
  <2>4. CASE RevertClear(p)
    BY <2>4 DEF RevertClear
  <2>5. CASE RevertFill(p)
    BY <2>5 DEF RevertFill
  <2>6. CASE Arrive(p)
    BY <2>6 DEF Arrive
  <2>7. CASE SkipUnload(p)
    BY <2>7 DEF SkipUnload, Return
  <2>8. CASE UnloadOpen(p)
    BY <2>8 DEF UnloadOpen
  <2>9. CASE UnloadWrite(p)
    BY <2>9 DEF UnloadWrite
  <2>10. CASE NewFound(p)
    BY <2>10 DEF NewFound
  <2>11. CASE NewGenerate(p)
    BY <2>11 DEF NewGenerate, Generate
  <2>12. CASE Generated(p)
    BY <2>12 DEF Generated
  <2>13. ASSUME NEW q \in Player, Evict(p, q)
         PROVE  Operands'
    BY <2>13 DEF Evict
  <2>14. CASE Erase(p)
    BY <2>14 DEF Erase
  <2>15. CASE RemoveFile(p)
    BY <2>15 DEF RemoveFile
  <2>16. CASE UnloadFree(p)
    BY <2>16 DEF UnloadFree, Return
  <2> QED
    BY <1>3, <2>1, <2>2, <2>3, <2>4, <2>5, <2>6, <2>7, <2>8, <2>9, <2>10,
       <2>11, <2>12, <2>13, <2>14, <2>15, <2>16 DEF Continue
<1>4. CASE Boot
  BY <1>4 DEF Boot, Generate
<1>5. CASE Generated(Server)
  BY <1>5 DEF Generated
<1>6. CASE saveLoop
  <2>1. CASE Wake
    BY <2>1 DEF Wake
  <2>2. ASSUME NEW n \in Name, StoreOpen(n)
        PROVE  Operands'
    BY <2>2 DEF StoreOpen
  <2>3. CASE StoreWrite
    BY <2>3 DEF StoreWrite
  <2>4. CASE backupLevel
    BY <2>4 DEF backupLevel
  <2>5. CASE BackupCopy
    BY <2>5 DEF BackupCopy
  <2>6. CASE BackupFails
    BY <2>6 DEF BackupFails
  <2>7. CASE PassDone
    BY <2>7 DEF PassDone
  <2> QED
    BY <1>6, <2>1, <2>2, <2>3, <2>4, <2>5, <2>6, <2>7 DEF saveLoop
<1>7. CASE Crash
  BY <1>7 DEF Crash
<1>8. CASE serverShutdown
  BY <1>8 DEF serverShutdown
<1> QED
  BY <1>1, <1>2, <1>3, <1>4, <1>5, <1>6, <1>7, <1>8 DEF Next

\* What the holder of registryMutex relies on stays, for nobody else changes
\* the registry.
LEMMA HeldStep ==
    ASSUME WorldsAssumption, Sound, TypeOK', Discipline', [Next]_vars
    PROVE  Held'
<1> USE WorldsAssumption
    DEF WorldsAssumption, Sound, TypeOK, Thread, Goto
<1>a. ASSUME mutex' = None
      PROVE  Held'
  BY <1>a DEF Discipline, Holding, Held
<1>b. ASSUME NEW p \in Player, UNCHANGED <<levels, backups, todo>>,
             \A t \in Thread \ {p} :
                 pc'[t] = pc[t] /\ ptr'[t] = ptr[t] /\ name'[t] = name[t],
             pc'[p] \notin Holding
      PROVE  Held'
  <2>1. Loaded' = Loaded /\ Live' = Live
    BY <1>b DEF Loaded, Live
  <2>2. \A t \in Thread : pc'[t] \in Holding =>
            pc'[t] = pc[t] /\ ptr'[t] = ptr[t] /\ name'[t] = name[t]
    BY <1>b
  <2> QED
    BY <1>b, <2>1, <2>2 DEF Held, Holding
<1>c. ASSUME mutex' # None,
             pc'[mutex'] \in {"flushing", "freeing", "storing", "backup", "copying"}
                 => name'[mutex'] \in Loaded',
             pc'[mutex'] = "creating"
                 => name'[mutex'] \notin Loaded' /\ ptr'[mutex'] \notin Live',
             pc'[mutex'] \in {"sweeping", "storing", "backup", "copying"}
                 => todo' \subseteq Loaded',
             pc'[Server] = "copying" => backups'[name'[Server]] # <<>>
      PROVE  Held'
  BY <1>c DEF Discipline, Holding, Held
<1>1. CASE UNCHANGED vars
  BY <1>1 DEF vars, memory, disk, saver, Held, Loaded, Live
<1>2. ASSUME NEW p \in Player, Start(p)
      PROVE  Held'
  <2>1. CASE edit(p)
    BY <2>1, <1>a, GetOrLoadType DEF edit, Begin
  <2>2. CASE save(p)
    BY <2>2, <1>a, GetOrLoadType DEF save, Begin
  <2>3. CASE quit(p)
    BY <2>3, <1>b DEF quit, memory, disk, saver, Holding
  <2>4. ASSUME NEW n \in Name, revert(p, n)
        PROVE  Held'
    BY <2>4, <1>a, GetOrLoadType DEF revert, Begin
  <2>5. ASSUME NEW n \in Name, join(p, n)
        PROVE  Held'
    BY <2>5, <1>a, GetOrLoadType DEF join, Begin
  <2>6. ASSUME NEW n \in Name, new(p, n)
        PROVE  Held'
    BY <2>6, <1>b DEF new, memory, disk, saver, Holding
  <2>7. ASSUME NEW n \in Name, del(p, n)
        PROVE  Held'
    BY <2>7, <1>b DEF del, memory, disk, saver, Holding
  <2> QED
    BY <1>2, <2>1, <2>2, <2>3, <2>4, <2>5, <2>6, <2>7 DEF Start
<1>3. ASSUME NEW p \in Player, Continue(p)
      PROVE  Held'
  <2>1. ASSUME NEW v \in Value, setBlock(p, v)
        PROVE  Held'
    BY <2>1, <1>b DEF setBlock, memory, disk, saver, Holding
  <2>2. CASE SaveOpen(p)
    BY <2>2, <1>b DEF SaveOpen, memory, disk, saver, Holding
  <2>3. CASE SaveWrite(p)
    BY <2>3, <1>b DEF SaveWrite, memory, disk, saver, Holding
  <2>4. CASE RevertClear(p)
    BY <2>4, <1>b DEF RevertClear, memory, disk, saver, Holding
  <2>5. CASE RevertFill(p)
    BY <2>5, <1>b DEF RevertFill, memory, disk, saver, Holding
  <2>6. CASE Arrive(p)
    BY <2>6, <1>b DEF Arrive, memory, disk, saver, Holding
  <2>7. CASE SkipUnload(p)
    BY <2>7, <1>b DEF SkipUnload, Return, memory, disk, saver, Holding
  <2>8. CASE UnloadOpen(p)
    BY <2>8, <1>c
       DEF UnloadOpen, Discipline, Holding, Held, Loaded, Live, memory, disk, saver
  <2>9. CASE UnloadWrite(p)
    BY <2>9, <1>c
       DEF UnloadWrite, Discipline, Holding, Held, Loaded, Live, memory, disk, saver
  <2>10. CASE NewFound(p)
    BY <2>10, <1>a DEF NewFound
  <2>11. CASE NewGenerate(p)
    <3>1. mutex' = p /\ pc'[p] = "creating" /\ UNCHANGED levels
      BY <2>11 DEF NewGenerate, Generate, memory
    <3>2. name'[p] \notin Loaded
      BY <2>11 DEF NewGenerate, Generate
    <3>3. ptr'[p] \notin Live
      BY <2>11 DEF NewGenerate, Generate
    <3>4. pc'[Server] # "copying"
      BY <2>11 DEF NewGenerate, Generate, Discipline, Holding
    <3> QED
      BY <3>1, <3>2, <3>3, <3>4, <1>c DEF Loaded, Live
  <2>12. CASE Generated(p)
    BY <2>12, <1>a DEF Generated
  <2>13. ASSUME NEW q \in Player, Evict(p, q)
         PROVE  Held'
    BY <2>13, <1>a DEF Evict
  <2>14. CASE Erase(p)
    BY <2>14, <1>a DEF Erase
  <2>15. CASE RemoveFile(p)
    BY <2>15, <1>b DEF RemoveFile, memory, disk, saver, Holding
  <2>16. CASE UnloadFree(p)
    BY <2>16, <1>a DEF UnloadFree
  <2> QED
    BY <1>3, <2>1, <2>2, <2>3, <2>4, <2>5, <2>6, <2>7, <2>8, <2>9, <2>10,
       <2>11, <2>12, <2>13, <2>14, <2>15, <2>16 DEF Continue
<1>4. CASE Boot
  <2>1. CASE Generate(Server, Main)
    <3>1. mutex' = Server /\ pc'[Server] = "creating" /\ UNCHANGED levels
      BY <2>1 DEF Generate, memory
    <3>2. name'[Server] \notin Loaded
      BY <2>1 DEF Generate
    <3>3. ptr'[Server] \notin Live
      BY <2>1 DEF Generate
    <3> QED
      BY <3>1, <3>2, <3>3, <1>c DEF Loaded, Live
  <2>2. CASE ~ Generate(Server, Main)
    BY <1>4, <2>2, <1>a DEF Boot
  <2> QED
    BY <2>1, <2>2
<1>5. CASE Generated(Server)
  BY <1>5, <1>a DEF Generated
<1>6. CASE saveLoop
  <2>1. CASE Wake
    BY <2>1, <1>c
       DEF Wake, Discipline, Holding, Held, Loaded, Live, memory, disk, saver
  <2>2. ASSUME NEW n \in Name, StoreOpen(n)
        PROVE  Held'
    BY <2>2, <1>c
       DEF StoreOpen, Discipline, Holding, Held, Loaded, Live, memory, disk, saver
  <2>3. CASE StoreWrite
    BY <2>3, <1>c
       DEF StoreWrite, Discipline, Holding, Held, Loaded, Live, memory, disk, saver
  <2>4. CASE backupLevel
    <3>1. mutex = Server /\ name[Server] \in Loaded /\ todo \subseteq Loaded
      BY <2>4 DEF backupLevel, Discipline, Holding, Held
    <3>2. Append(backups[name[Server]], Torn) # <<>>
      <4>1. backups[name[Server]] \in Seq(Content) /\ Torn \in Content
        BY <3>1 DEF Loaded, Content
      <4> HIDE DEF TypeOK
      <4> QED
        BY <4>1, AppendProperties
    <3>3. backups'[name[Server]] # <<>>
      BY <2>4, <3>1, <3>2 DEF backupLevel, Loaded
    <3> QED
      BY <2>4, <3>1, <3>3, <1>c DEF backupLevel, Loaded, memory, saver
  <2>5. CASE BackupCopy
    BY <2>5, <1>c
       DEF BackupCopy, Discipline, Holding, Held, Loaded, Live, memory, disk, saver
  <2>6. CASE BackupFails
    BY <2>6, <1>c
       DEF BackupFails, Discipline, Holding, Held, Loaded, Live, memory, disk, saver
  <2>7. CASE PassDone
    BY <2>7, <1>a DEF PassDone
  <2> QED
    BY <1>6, <2>1, <2>2, <2>3, <2>4, <2>5, <2>6, <2>7 DEF saveLoop
<1>7. CASE Crash
  BY <1>7, <1>a DEF Crash
<1>8. CASE serverShutdown
  BY <1>8, <1>a DEF serverShutdown
<1> QED
  BY <1>1, <1>2, <1>3, <1>4, <1>5, <1>6, <1>7, <1>8 DEF Next

\* Sound holds at the start.
LEMMA SoundInit ==
    ASSUME WorldsAssumption, Init
    PROVE  Sound
<1> USE WorldsAssumption
    DEF WorldsAssumption, Init, Started, Thread, PlayerStage, ServerStage
<1>1. TypeOK
  BY DEF TypeOK, Content
<1>2. Discipline
  BY DEF Discipline, Holding
<1>3. Operands
  BY DEF Operands
<1>4. Held
  BY DEF Held
<1> QED
  BY <1>1, <1>2, <1>3, <1>4 DEF Sound

\* The mutex discipline holds in every run: a holder's level stays loaded and
\* the registry stays as the holder has read it, whoever runs in between.
THEOREM Soundness == Spec => []Sound
<1>1. Init => Sound
  BY WorldsAssumption, SoundInit
<1>2. Sound /\ [Next]_vars => Sound'
  <2> SUFFICES ASSUME Sound, [Next]_vars
               PROVE  Sound'
    OBVIOUS
  <2>1. TypeOK'
    BY WorldsAssumption, TypeStep
  <2>2. Discipline'
    BY WorldsAssumption, <2>1, DisciplineStep
  <2>3. Operands'
    BY WorldsAssumption, <2>1, OperandsStep
  <2>4. Held'
    BY WorldsAssumption, <2>1, <2>2, HeldStep
  <2> QED
    BY <2>1, <2>2, <2>3, <2>4 DEF Sound
<1> QED
  BY <1>1, <1>2, PTL DEF Spec

\* Every variable of Worlds keeps its type: no thread uses a null Level* or a
\* name it has not set, and no backup is copied to a number that is not there.
THEOREM TypeCorrect == Spec => []TypeOK
<1>1. Sound => TypeOK
  BY DEF Sound
<1> QED
  BY <1>1, Soundness, PTL

\* Two actions write backups: one appends, the other fills the last.
LEMMA BackupWriters ==
    ASSUME Next, ~ backupLevel, ~ BackupCopy
    PROVE  UNCHANGED backups
<1>1. ASSUME NEW p \in Player, NEW command, NEW m, NEW stage,
             Begin(p, command, m, stage)
      PROVE  UNCHANGED backups
  BY <1>1 DEF Begin, disk
<1>2. ASSUME NEW p \in Player, Start(p)
      PROVE  UNCHANGED backups
  BY <1>1, <1>2 DEF Start, edit, save, quit, revert, join, new, del, disk
<1>3. ASSUME NEW p \in Player, Continue(p)
      PROVE  UNCHANGED backups
  BY <1>3 DEF Continue, setBlock, SaveOpen, SaveWrite, RevertClear,
     RevertFill, Arrive, SkipUnload, UnloadOpen, UnloadWrite, UnloadFree, NewFound,
     NewGenerate, Generate, Generated, Evict, Erase, RemoveFile, disk
<1>4. CASE Boot
  BY <1>4 DEF Boot, Generate, disk
<1>5. CASE Generated(Server)
  BY <1>5 DEF Generated
<1>6. CASE Crash
  BY <1>6 DEF Crash, disk
<1>7. CASE serverShutdown
  BY <1>7 DEF serverShutdown
<1>8. CASE Wake
  BY <1>8 DEF Wake, disk
<1>9. CASE StoreWrite
  BY <1>9 DEF StoreWrite
<1>10. CASE BackupFails
  BY <1>10 DEF BackupFails, disk
<1>11. CASE PassDone
  BY <1>11 DEF PassDone, disk
<1>12. ASSUME NEW m \in Name, StoreOpen(m)
       PROVE  UNCHANGED backups
  BY <1>12 DEF StoreOpen
<1> QED
  BY <1>2, <1>3, <1>4, <1>5, <1>6, <1>7, <1>8, <1>9, <1>10, <1>11, <1>12
     DEF Next, saveLoop

\* A step touches the backups only where backupLevel makes a new one or
\* fills it: the numbers before it stay as they are.
THEOREM BackupsAreKept == Spec => BackupsKept
<1>1. ASSUME Sound, Next, NEW n \in Name, NEW i \in 1 .. Finished(n)
      PROVE  i \in DOMAIN backups'[n] /\ backups'[n][i] = backups[n][i]
  <2> USE WorldsAssumption
      DEF WorldsAssumption, Sound, TypeOK, Discipline, Held, Holding, Thread,
          Loaded
  <2>0. backups[n] \in Seq(Content) /\ i \in 1 .. Len(backups[n])
    BY <1>1 DEF Finished
  <2>1. CASE UNCHANGED backups
    BY <2>0, <2>1
  <2>2. CASE backupLevel
    <3>1. Torn \in Content
      BY DEF Content
    <3>2. backups' = [backups EXCEPT ![name[Server]] = Append(@, Torn)]
      BY <2>2 DEF backupLevel
    <3>3. CASE n # name[Server]
      BY <1>1, <2>0, <3>2, <3>3
    <3>4. CASE n = name[Server]
      <4>1. backups'[n] = Append(backups[n], Torn)
        BY <1>1, <3>2, <3>4
      <4> QED
        BY <2>0, <3>1, <4>1
    <3> QED
      BY <3>3, <3>4
  <2>3. CASE BackupCopy
    <3>1. CASE n # name[Server]
      BY <1>1, <2>0, <2>3, <3>1 DEF BackupCopy
    <3>2. CASE n = name[Server]
      <4>1. i # Len(backups[n])
        BY <1>1, <2>0, <2>3, <3>2 DEF BackupCopy, Finished
      <4>2. \/ UNCHANGED backups
            \/ backups'[n] = [backups[n] EXCEPT ![Len(backups[n])] = file[n]]
        BY <1>1, <2>3, <3>2 DEF BackupCopy
      <4> QED
        BY <2>0, <4>1, <4>2
    <3> QED
      BY <3>1, <3>2
  <2>4. CASE ~ (backupLevel \/ BackupCopy)
    BY <1>1, <2>1, <2>4, BackupWriters
  <2> QED
    BY <2>2, <2>3, <2>4
<1>2. Sound /\ [Next]_vars =>
        [\A n \in Name : \A i \in 1 .. Finished(n) :
            i \in DOMAIN backups'[n] /\ backups'[n][i] = backups[n][i]]_vars
  BY <1>1
<1> QED
  BY <1>2, Soundness, PTL DEF Spec, BackupsKept

-----------------------------------------------------------------------------
(* LevelsWhole: what the critical sections are worth while nobody uses /save *)
(* or /revert, whenever the process ends.                                    *)

\* No thread works on a file or on a level's blocks outside the mutex.
Quiet ==
    \A p \in Player : pc[p] \notin {"saving", "writing", "reverting", "loading"}

\* A stream is open in a critical section only, and an incomplete file is
\* one that a stream leads to.
Streams ==
    /\ mixed = {}
    /\ \A t \in Thread : out[t] # None => pc[t] \in {"flushing", "creating", "storing"}
    /\ \A n \in Name : file[n] = Torn => \E t \in Thread : out[t] = n

\* No two names share an object, and every loaded level is complete, or what an
\* earlier process left of it.
Memory ==
    /\ \A m, n \in Loaded : levels[m] = levels[n] => m = n
    /\ \A n \in Loaded : block[levels[n]] # Torn

\* A stream leads to the file of the level its thread works on; the file of a
\* level that is being unloaded is there, or the stream leads nowhere.
Aimed ==
    /\ \A t \in Thread : out[t] # None => out[t] = name[t]
    /\ \A t \in Thread :
          pc[t] = "flushing" /\ out[t] = None => file[name[t]] = None

\* Between the save and the delete of an unload the file holds the level, unless
\* a /del took it away or a handler edited the level meanwhile.
Saved ==
    \A p \in Player : pc[p] = "freeing" =>
        \/ file[name[p]] = None
        \/ name[p] \in late
        \/ file[name[p]] = block[levels[name[p]]]

Whole == Quiet /\ Streams /\ Memory /\ Aimed /\ Saved

\* Nobody comes into the stages of a /save or a /revert.
LEMMA QuietStep ==
    ASSUME WorldsAssumption, Sound, TypeOK', Discipline', Calm, Whole, Next
    PROVE  Quiet'
<1> USE WorldsAssumption
    DEF WorldsAssumption, Sound, TypeOK, Calm, Thread, Goto
<1>a. ASSUME NEW p \in Player, \A t \in Player \ {p} : pc'[t] = pc[t],
             pc'[p] \notin {"saving", "writing", "reverting", "loading"}
      PROVE  Quiet'
  BY <1>a DEF Whole, Quiet
<1>2. ASSUME NEW p \in Player, Start(p)
      PROVE  Quiet'
  <2>1. CASE edit(p)
    BY <2>1, <1>a DEF edit, Begin
  <2>2. CASE save(p)
    BY <2>2 DEF save, Begin
  <2>3. CASE quit(p)
    BY <2>3, <1>a DEF quit
  <2>4. ASSUME NEW n \in Name, revert(p, n)
        PROVE  Quiet'
    BY <2>4 DEF revert, Begin
  <2>5. ASSUME NEW n \in Name, join(p, n)
        PROVE  Quiet'
    BY <2>5, <1>a DEF join, Begin
  <2>6. ASSUME NEW n \in Name, new(p, n)
        PROVE  Quiet'
    BY <2>6, <1>a DEF new
  <2>7. ASSUME NEW n \in Name, del(p, n)
        PROVE  Quiet'
    BY <2>7, <1>a DEF del
  <2> QED
    BY <1>2, <2>1, <2>2, <2>3, <2>4, <2>5, <2>6, <2>7 DEF Start
<1>3. ASSUME NEW p \in Player, Continue(p)
      PROVE  Quiet'
  <2>1. ASSUME NEW v \in Value, setBlock(p, v)
        PROVE  Quiet'
    BY <2>1, <1>a DEF setBlock
  <2>2. CASE SaveOpen(p)
    BY <2>2 DEF SaveOpen, Whole, Quiet
  <2>3. CASE SaveWrite(p)
    BY <2>3 DEF SaveWrite, Whole, Quiet
  <2>4. CASE RevertClear(p)
    BY <2>4 DEF RevertClear, Whole, Quiet
  <2>5. CASE RevertFill(p)
    BY <2>5 DEF RevertFill, Whole, Quiet
  <2>6. CASE Arrive(p)
    BY <2>6, <1>a DEF Arrive
  <2>7. CASE SkipUnload(p)
    BY <2>7, <1>a DEF SkipUnload, Return
  <2>8. CASE UnloadOpen(p)
    BY <2>8, <1>a DEF UnloadOpen
  <2>9. CASE UnloadWrite(p)
    BY <2>9, <1>a DEF UnloadWrite
  <2>10. CASE NewFound(p)
    BY <2>10, <1>a DEF NewFound
  <2>11. CASE NewGenerate(p)
    BY <2>11, <1>a DEF NewGenerate, Generate
  <2>12. CASE Generated(p)
    BY <2>12, <1>a DEF Generated
  <2>13. ASSUME NEW q \in Player, Evict(p, q)
         PROVE  Quiet'
    BY <2>13, <1>a DEF Evict
  <2>14. CASE Erase(p)
    BY <2>14, <1>a DEF Erase
  <2>15. CASE RemoveFile(p)
    BY <2>15, <1>a DEF RemoveFile
  <2>16. CASE UnloadFree(p)
    BY <2>16, <1>a DEF UnloadFree, Return
  <2> QED
    BY <1>3, <2>1, <2>2, <2>3, <2>4, <2>5, <2>6, <2>7, <2>8, <2>9, <2>10,
       <2>11, <2>12, <2>13, <2>14, <2>15, <2>16 DEF Continue
<1>4. CASE Boot
  BY <1>4 DEF Boot, Generate, Whole, Quiet
<1>5. CASE Generated(Server)
  BY <1>5 DEF Generated, Whole, Quiet
<1>6. CASE saveLoop
  <2>1. CASE Wake
    BY <2>1 DEF Wake, Whole, Quiet
  <2>2. ASSUME NEW n \in Name, StoreOpen(n)
        PROVE  Quiet'
    BY <2>2 DEF StoreOpen, Whole, Quiet
  <2>3. CASE StoreWrite
    BY <2>3 DEF StoreWrite, Whole, Quiet
  <2>4. CASE backupLevel
    BY <2>4 DEF backupLevel, Whole, Quiet
  <2>5. CASE BackupCopy
    BY <2>5 DEF BackupCopy, Whole, Quiet
  <2>6. CASE BackupFails
    BY <2>6 DEF BackupFails, Whole, Quiet
  <2>7. CASE PassDone
    BY <2>7 DEF PassDone, Whole, Quiet
  <2> QED
    BY <1>6, <2>1, <2>2, <2>3, <2>4, <2>5, <2>6, <2>7 DEF saveLoop
<1>7. CASE Crash
  BY <1>7 DEF Crash, Quiet
<1>8. CASE serverShutdown
  BY <1>8 DEF serverShutdown, Whole, Quiet
<1> QED
  BY <1>2, <1>3, <1>4, <1>5, <1>6, <1>7, <1>8 DEF Next

\* Files are opened and closed by the holder of the mutex, so a writer is
\* alone and closes a complete file.
LEMMA StreamsStep ==
    ASSUME WorldsAssumption, Sound, TypeOK', Discipline', Calm, Whole, Next
    PROVE  Streams'
<1> USE WorldsAssumption
    DEF WorldsAssumption, Sound, TypeOK, Calm, Thread, Goto
<1>a. ASSUME UNCHANGED <<file, out, mixed>>,
             \A t \in Thread : out[t] # None => pc'[t] = pc[t]
      PROVE  Streams'
  BY <1>a DEF Whole, Streams
<1>b. ASSUME NEW t \in Thread, mutex \in {t, None}
      PROVE  \A u \in Thread \ {t} : out[u] = None
  <2> SUFFICES ASSUME NEW u \in Thread \ {t}, out[u] # None
               PROVE  FALSE
    OBVIOUS
  <2>1. pc[u] \in Holding
    BY DEF Whole, Streams, Holding
  <2>2. mutex = u
    BY <2>1 DEF Discipline
  <2> QED
    BY <1>b, <2>2
<1>c. ASSUME NEW t \in Thread, NEW n \in Name, mutex \in {t, None},
             out[t] = None, Open(t, n),
             pc'[t] \in {"flushing", "creating", "storing"}
      PROVE  Streams'
  <2>1. \A u \in Thread \ {t} : out[u] = None
    BY <1>b, <1>c
  <2>2. mixed' = {}
    BY <1>c, <2>1 DEF Open, Whole, Streams
  <2>3. \A u \in Thread : out'[u] = IF u = t THEN n ELSE None
    BY <1>c, <2>1 DEF Open
  <2>4. \A m \in Name \ {n} : file'[m] # Torn
    <3>1. \A m \in Name \ {n} : file'[m] = file[m]
      BY <1>c DEF Open
    <3>2. \A u \in Thread : out[u] \in {None, n}
      BY <1>c, <2>1
    <3> QED
      BY <3>1, <3>2 DEF Whole, Streams
  <2> QED
    BY <1>c, <2>2, <2>3, <2>4 DEF Streams
<1>d. ASSUME NEW t \in Thread, NEW content \in Content, mutex = t, Write(t, content),
             content # Torn
      PROVE  Streams'
  <2>1. \A u \in Thread : out'[u] = None
    BY <1>b, <1>d DEF Write
  <2>2. mixed' = {}
    BY <1>d DEF Write, Whole, Streams
  <2>3. \A n \in Name : file'[n] # Torn
    <3>1. CASE out[t] = None
      <4>1. \A u \in Thread : out[u] = None
        BY <1>b, <1>d, <3>1
      <4> QED
        BY <1>d, <3>1, <4>1 DEF Write, Whole, Streams
    <3>2. CASE out[t] # None
      <4>1. file' = [file EXCEPT ![out[t]] = content]
        BY <1>d, <3>2 DEF Write, Whole, Streams
      <4>2. \A n \in Name \ {out[t]} : file'[n] = file[n]
        BY <4>1
      <4>3. \A u \in Thread : out[u] \in {None, out[t]}
        BY <1>b, <1>d
      <4>4. \A n \in Name \ {out[t]} : file[n] # Torn
        BY <4>3 DEF Whole, Streams
      <4>5. file'[out[t]] = content
        BY <3>2, <4>1
      <4> QED
        BY <1>d, <3>2, <4>2, <4>4, <4>5
    <3> QED
      BY <3>1, <3>2
  <2> QED
    BY <2>1, <2>2, <2>3 DEF Streams
<1>2. ASSUME NEW p \in Player, Start(p)
      PROVE  Streams'
  <2>1. CASE edit(p)
    BY <2>1, <1>a DEF edit, Begin, Whole, Streams, streams, disk
  <2>2. CASE save(p)
    BY <2>2 DEF save, Begin
  <2>3. CASE quit(p)
    BY <2>3, <1>a DEF quit, Whole, Streams, streams, disk
  <2>4. ASSUME NEW n \in Name, revert(p, n)
        PROVE  Streams'
    BY <2>4 DEF revert, Begin
  <2>5. ASSUME NEW n \in Name, join(p, n)
        PROVE  Streams'
    BY <2>5, <1>a DEF join, Begin, Whole, Streams, streams, disk
  <2>6. ASSUME NEW n \in Name, new(p, n)
        PROVE  Streams'
    BY <2>6, <1>a DEF new, Whole, Streams, streams, disk
  <2>7. ASSUME NEW n \in Name, del(p, n)
        PROVE  Streams'
    BY <2>7, <1>a DEF del, Whole, Streams, streams, disk
  <2> QED
    BY <1>2, <2>1, <2>2, <2>3, <2>4, <2>5, <2>6, <2>7 DEF Start
<1>3. ASSUME NEW p \in Player, Continue(p)
      PROVE  Streams'
  <2>1. ASSUME NEW v \in Value, setBlock(p, v)
        PROVE  Streams'
    BY <2>1, <1>a DEF setBlock, Whole, Streams, streams, disk
  <2>2. CASE SaveOpen(p)
    BY <2>2 DEF SaveOpen, Whole, Quiet
  <2>3. CASE SaveWrite(p)
    BY <2>3 DEF SaveWrite, Whole, Quiet
  <2>4. CASE RevertClear(p)
    BY <2>4 DEF RevertClear, Whole, Quiet
  <2>5. CASE RevertFill(p)
    BY <2>5 DEF RevertFill, Whole, Quiet
  <2>6. CASE Arrive(p)
    BY <2>6, <1>a DEF Arrive, Whole, Streams, streams, disk
  <2>7. CASE SkipUnload(p)
    BY <2>7, <1>a DEF SkipUnload, Return, Whole, Streams, streams, disk
  <2>8. CASE UnloadOpen(p)
    BY <2>8, <1>c DEF UnloadOpen, Loaded, Whole, Streams
  <2>9. CASE UnloadWrite(p)
    <3>1. name[p] \in Loaded /\ mutex = p
      BY <2>9 DEF UnloadWrite, Held, Discipline, Holding
    <3>2. /\ block[levels[name[p]]] \in Content
          /\ block[levels[name[p]]] # Torn
      BY <3>1 DEF Whole, Memory, Aimed, Loaded
    <3> QED
      BY <2>9, <3>1, <3>2, <1>d DEF UnloadWrite
  <2>10. CASE NewFound(p)
    BY <2>10, <1>a DEF NewFound, Whole, Streams, streams, disk
  <2>11. CASE NewGenerate(p)
    <3>1. name[p] \in Name
      BY <2>11 DEF NewGenerate, Operands
    <3>2. out[p] = None
      BY <2>11 DEF NewGenerate, Whole, Streams
    <3> QED
      BY <2>11, <3>1, <3>2, <1>c DEF NewGenerate, Generate
  <2>12. CASE Generated(p)
    BY <2>12, <1>d DEF Generated, Discipline, Holding, Content, Fresh, Torn
  <2>13. ASSUME NEW q \in Player, Evict(p, q)
         PROVE  Streams'
    BY <2>13, <1>a DEF Evict, Whole, Streams, streams, disk
  <2>14. CASE Erase(p)
    BY <2>14, <1>a DEF Erase, Whole, Streams, streams, disk
  <2>15. CASE RemoveFile(p)
    <3>1. /\ file' = [file EXCEPT ![doomed[p]] = None]
          /\ out' = [t \in Thread |-> IF out[t] = doomed[p] THEN None ELSE out[t]]
          /\ mixed' = mixed \ {doomed[p]}
          /\ out[p] = None
          /\ doomed[p] \in Name
      <4>1. out[p] = None
        BY <2>15 DEF RemoveFile, Whole, Streams
      <4> QED
        BY <2>15, <4>1 DEF RemoveFile, Operands
    <3>2. \A t \in Thread \ {p} : pc'[t] = pc[t]
      BY <2>15 DEF RemoveFile
    <3>3. \A t \in Thread : out'[t] # None => out[t] # None /\ pc'[t] = pc[t]
      BY <3>1, <3>2
    <3>4. \A n \in Name : file'[n] = Torn => n # doomed[p] /\ file[n] = Torn
      BY <3>1
    <3>5. \A n \in Name \ {doomed[p]} : \A t \in Thread : out[t] = n => out'[t] = n
      BY <3>1
    <3>6. \A t \in Thread : out'[t] # None
              => pc'[t] \in {"flushing", "creating", "storing"}
      BY <3>3 DEF Whole, Streams
    <3>7. \A n \in Name : file'[n] = Torn => \E t \in Thread : out'[t] = n
      <4> SUFFICES ASSUME NEW n \in Name, file'[n] = Torn
                   PROVE  \E t \in Thread : out'[t] = n
        OBVIOUS
      <4>1. PICK t \in Thread : out[t] = n
        BY <3>4 DEF Whole, Streams
      <4> QED
        BY <3>4, <3>5, <4>1
    <3>8. mixed' = {}
      BY <3>1 DEF Whole, Streams
    <3> QED
      BY <3>6, <3>7, <3>8 DEF Streams
  <2>16. CASE UnloadFree(p)
    BY <2>16, <1>a DEF UnloadFree, Return, Whole, Streams, streams, disk
  <2> QED
    BY <1>3, <2>1, <2>2, <2>3, <2>4, <2>5, <2>6, <2>7, <2>8, <2>9, <2>10,
       <2>11, <2>12, <2>13, <2>14, <2>15, <2>16 DEF Continue
<1>4. CASE Boot
  <2>1. CASE Generate(Server, Main)
    <3>1. out[Server] = None
      BY <1>4 DEF Boot, Generate, Whole, Streams
    <3> QED
      BY <1>4, <2>1, <3>1, <1>c DEF Generate
  <2>2. CASE ~ Generate(Server, Main)
    BY <1>4, <2>2, <1>a DEF Boot, Whole, Streams, streams
  <2> QED
    BY <2>1, <2>2
<1>5. CASE Generated(Server)
  BY <1>5, <1>d DEF Generated, Discipline, Holding, Content, Fresh, Torn
<1>6. CASE saveLoop
  <2>1. CASE Wake
    BY <2>1, <1>a DEF Wake, Whole, Streams, streams, disk
  <2>2. ASSUME NEW n \in Name, StoreOpen(n)
        PROVE  Streams'
    BY <2>2, <1>c DEF StoreOpen, Discipline, Holding, Whole, Streams
  <2>3. CASE StoreWrite
    <3>1. name[Server] \in Loaded /\ mutex = Server
      BY <2>3 DEF StoreWrite, Held, Discipline, Holding
    <3>2. /\ block[levels[name[Server]]] \in Content
          /\ block[levels[name[Server]]] # Torn
      BY <3>1 DEF Whole, Memory, Aimed, Loaded
    <3> QED
      BY <2>3, <3>1, <3>2, <1>d DEF StoreWrite
  <2>4. CASE backupLevel
    BY <2>4, <1>a DEF backupLevel, Whole, Streams, streams, disk
  <2>5. CASE BackupCopy
    BY <2>5, <1>a DEF BackupCopy, Whole, Streams, streams, disk
  <2>6. CASE BackupFails
    BY <2>6, <1>a DEF BackupFails, Whole, Streams, streams, disk
  <2>7. CASE PassDone
    BY <2>7, <1>a DEF PassDone, Whole, Streams, streams, disk
  <2> QED
    BY <1>6, <2>1, <2>2, <2>3, <2>4, <2>5, <2>6, <2>7 DEF saveLoop
<1>7. CASE Crash
  <2>1. \A n \in Name : file'[n] # Torn
    BY <1>7 DEF Crash, Whole, Streams, Cut, Torn
  <2> QED
    BY <1>7, <2>1 DEF Crash, Streams
<1>8. CASE serverShutdown
  <2>1. \A t \in Thread : out[t] = None
    BY <1>8, <1>b DEF serverShutdown, Discipline, Whole, Streams, Holding
  <2>2. /\ out' = out /\ mixed' = {}
        /\ \A n \in Name : file'[n] = IF n \in Loaded THEN block[levels[n]] ELSE file[n]
    BY <1>8, <2>1 DEF serverShutdown, Whole, Streams
  <2>3. \A n \in Name : file'[n] # Torn
    <3>1. \A n \in Loaded : file'[n] # Torn
      BY <2>2 DEF Whole, Memory, Loaded
    <3>2. \A n \in Name : file[n] # Torn
      BY <2>1 DEF Whole, Streams
    <3> QED
      BY <2>2, <3>1, <3>2
  <2> QED
    BY <2>1, <2>2, <2>3 DEF Streams
<1> QED
  BY <1>2, <1>3, <1>4, <1>5, <1>6, <1>7, <1>8 DEF Next

\* A level enters the registry complete, in memory of its own, and leaves it
\* with nobody else in that memory.
LEMMA MemoryStep ==
    ASSUME WorldsAssumption, Sound, TypeOK', Discipline', Calm, Whole, Next
    PROVE  Memory'
<1> USE WorldsAssumption
    DEF WorldsAssumption, Sound, TypeOK, Calm, Thread, Goto
<1>a. ASSUME UNCHANGED <<levels, block>>
      PROVE  Memory'
  BY <1>a DEF Whole, Memory, Loaded
<1>b. ASSUME mutex = None
      PROVE  \A n \in Name : file[n] # Torn
  <2>1. \A t \in Thread : pc[t] \notin Holding
    BY <1>b DEF Discipline
  <2>2. \A t \in Thread : out[t] = None
    BY <2>1 DEF Whole, Streams, Holding
  <2> QED
    BY <2>2 DEF Whole, Streams
<1>c. ASSUME NEW n \in Name \ Loaded, NEW o \in Object \ Live,
             mutex = None, file[n] # None, LoadFile(n, o)
      PROVE  Memory'
  <2>1. file[n] # Torn
    BY <1>b, <1>c
  <2>2. Loaded' = Loaded \cup {n}
    BY <1>c DEF LoadFile, Loaded
  <2>3. \A m \in Loaded : levels'[m] = levels[m] /\ levels[m] # o
    BY <1>c DEF LoadFile, Loaded, Live
  <2>4. levels'[n] = o /\ block'[o] = file[n]
    BY <1>c DEF LoadFile
  <2>5. \A m \in Loaded : block'[levels[m]] = block[levels[m]]
    BY <1>c, <2>3 DEF LoadFile, Loaded
  <2> QED
    BY <2>1, <2>2, <2>3, <2>4, <2>5 DEF Whole, Memory
<1>d. ASSUME NEW n \in Loaded, Free(n)
      PROVE  Memory'
  <2>1. Loaded' = Loaded \ {n}
    BY <1>d DEF Free, Loaded
  <2>2. \A m \in Loaded' : levels'[m] = levels[m] /\ levels[m] # levels[n]
    BY <1>d, <2>1 DEF Free, Loaded, Whole, Memory
  <2>3. \A m \in Loaded' : block'[levels[m]] = block[levels[m]]
    BY <1>d, <2>1, <2>2 DEF Free, Loaded
  <2> QED
    BY <2>1, <2>2, <2>3 DEF Whole, Memory
<1>e. ASSUME NEW t \in Thread, NEW n \in Name, getOrLoad(t, n)
      PROVE  Memory'
  <2>1. CASE n \notin Loaded /\ n \in known /\ file[n] # None
    BY <1>c, <1>e, <2>1 DEF getOrLoad
  <2>2. CASE ~ (n \notin Loaded /\ n \in known /\ file[n] # None)
    BY <1>a, <1>e, <2>2 DEF getOrLoad, memory
  <2> QED
    BY <2>1, <2>2
<1>f. ASSUME NEW t \in Thread, Generated(t)
      PROVE  Memory'
  <2>1. /\ name[t] \in Name \ Loaded
        /\ ptr[t] \in Object \ Live
    BY <1>f DEF Generated, Operands, Held
  <2>2. /\ levels' = [levels EXCEPT ![name[t]] = ptr[t]]
        /\ block' = [block EXCEPT ![ptr[t]] = Fresh]
    BY <1>f DEF Generated
  <2>3. Loaded' = Loaded \cup {name[t]}
    BY <2>1, <2>2 DEF Loaded
  <2>4. \A m \in Loaded : levels'[m] = levels[m] /\ levels[m] # ptr[t]
    BY <2>1, <2>2 DEF Loaded, Live
  <2>5. \A m \in Loaded : block'[levels[m]] = block[levels[m]]
    BY <2>2, <2>4 DEF Loaded
  <2>6. levels'[name[t]] = ptr[t] /\ block'[ptr[t]] = Fresh /\ Fresh # Torn
    BY <2>1, <2>2 DEF Fresh, Torn
  <2> QED
    BY <2>3, <2>4, <2>5, <2>6 DEF Whole, Memory
<1>2. ASSUME NEW p \in Player, Start(p)
      PROVE  Memory'
  <2>1. CASE edit(p)
    BY <2>1, <1>e DEF edit, Begin
  <2>2. CASE save(p)
    BY <2>2 DEF save, Begin
  <2>3. CASE quit(p)
    BY <2>3, <1>a DEF quit, memory
  <2>4. ASSUME NEW n \in Name, revert(p, n)
        PROVE  Memory'
    BY <2>4 DEF revert, Begin
  <2>5. ASSUME NEW n \in Name, join(p, n)
        PROVE  Memory'
    BY <2>5, <1>e DEF join, Begin
  <2>6. ASSUME NEW n \in Name, new(p, n)
        PROVE  Memory'
    BY <2>6, <1>a DEF new, memory
  <2>7. ASSUME NEW n \in Name, del(p, n)
        PROVE  Memory'
    BY <2>7, <1>a DEF del, memory
  <2> QED
    BY <1>2, <2>1, <2>2, <2>3, <2>4, <2>5, <2>6, <2>7 DEF Start
<1>3. ASSUME NEW p \in Player, Continue(p)
      PROVE  Memory'
  <2>1. ASSUME NEW v \in Value, setBlock(p, v)
        PROVE  Memory'
    BY <2>1 DEF setBlock, Poke, Whole, Memory, Loaded, Live
  <2>2. CASE SaveOpen(p)
    BY <2>2 DEF SaveOpen, Whole, Quiet
  <2>3. CASE SaveWrite(p)
    BY <2>3 DEF SaveWrite, Whole, Quiet
  <2>4. CASE RevertClear(p)
    BY <2>4 DEF RevertClear, Whole, Quiet
  <2>5. CASE RevertFill(p)
    BY <2>5 DEF RevertFill, Whole, Quiet
  <2>6. CASE Arrive(p)
    BY <2>6, <1>a DEF Arrive, memory
  <2>7. CASE SkipUnload(p)
    BY <2>7, <1>a DEF SkipUnload, Return, memory
  <2>8. CASE UnloadOpen(p)
    BY <2>8, <1>a DEF UnloadOpen, memory
  <2>9. CASE UnloadWrite(p)
    BY <2>9, <1>a DEF UnloadWrite, memory
  <2>10. CASE NewFound(p)
    <3>1. name[p] \in Name
      BY <2>10 DEF NewFound, Operands
    <3>2. CASE name[p] \in Loaded
      BY <2>10, <3>2, <1>a DEF NewFound, memory
    <3>3. CASE name[p] \notin Loaded
      BY <2>10, <3>1, <3>3, <1>c DEF NewFound
    <3> QED
      BY <3>2, <3>3
  <2>11. CASE NewGenerate(p)
    BY <2>11, <1>a DEF NewGenerate, Generate, memory
  <2>12. CASE Generated(p)
    BY <2>12, <1>f
  <2>13. ASSUME NEW q \in Player, Evict(p, q)
         PROVE  Memory'
    BY <2>13, <1>a DEF Evict, memory
  <2>14. CASE Erase(p)
    BY <2>14, <1>a, <1>d DEF Erase, memory
  <2>15. CASE RemoveFile(p)
    BY <2>15, <1>a DEF RemoveFile, memory
  <2>16. CASE UnloadFree(p)
    BY <2>16, <1>d DEF UnloadFree, Held
  <2> QED
    BY <1>3, <2>1, <2>2, <2>3, <2>4, <2>5, <2>6, <2>7, <2>8, <2>9, <2>10,
       <2>11, <2>12, <2>13, <2>14, <2>15, <2>16 DEF Continue
<1>4. CASE Boot
  <2>1. CASE Generate(Server, Main)
    BY <1>4, <2>1, <1>a DEF Generate, memory
  <2>2. CASE ~ Generate(Server, Main)
    BY <1>4, <2>2, <1>c DEF Boot
  <2> QED
    BY <2>1, <2>2
<1>5. CASE Generated(Server)
  BY <1>5, <1>f
<1>6. CASE saveLoop
  <2>1. CASE Wake
    BY <2>1, <1>a DEF Wake, memory
  <2>2. ASSUME NEW n \in Name, StoreOpen(n)
        PROVE  Memory'
    BY <2>2, <1>a DEF StoreOpen, memory
  <2>3. CASE StoreWrite
    BY <2>3, <1>a DEF StoreWrite, memory
  <2>4. CASE backupLevel
    BY <2>4, <1>a DEF backupLevel, memory
  <2>5. CASE BackupCopy
    BY <2>5, <1>a DEF BackupCopy, memory
  <2>6. CASE BackupFails
    BY <2>6, <1>a DEF BackupFails, memory
  <2>7. CASE PassDone
    BY <2>7, <1>a DEF PassDone, memory
  <2> QED
    BY <1>6, <2>1, <2>2, <2>3, <2>4, <2>5, <2>6, <2>7 DEF saveLoop
<1>7. CASE Crash
  BY <1>7 DEF Crash, Memory, Loaded
<1>8. CASE serverShutdown
  BY <1>8, <1>a DEF serverShutdown, memory
<1> QED
  BY <1>2, <1>3, <1>4, <1>5, <1>6, <1>7, <1>8 DEF Next

\* Streams stay with the levels they were opened for.
LEMMA AimedStep ==
    ASSUME WorldsAssumption, Sound, TypeOK', Calm, Whole, Next
    PROVE  Aimed'
<1> USE WorldsAssumption
    DEF WorldsAssumption, Sound, TypeOK, Calm, Thread, Goto
<1>o. \A t \in Thread : out[t] # None => pc[t] \in {"flushing", "creating", "storing"}
  BY DEF Whole, Streams
<1>a. ASSUME UNCHANGED <<file, out>>,
             \A t \in Thread : pc[t] \in {"flushing", "creating", "storing"} => name'[t] = name[t],
             \A t \in Thread : pc'[t] = "flushing" => pc[t] = "flushing"
      PROVE  Aimed'
  BY <1>a, <1>o DEF Whole, Aimed
<1>b. ASSUME NEW t \in Thread, mutex \in {t, None}
      PROVE  \A u \in Thread \ {t} : pc[u] \notin Holding /\ out[u] = None
  <2>1. \A u \in Thread \ {t} : pc[u] \notin Holding
    BY <1>b DEF Discipline
  <2> QED
    BY <2>1, <1>o DEF Holding
<1>c. ASSUME NEW t \in Thread, NEW n \in Name, mutex \in {t, None}, Open(t, n),
             name'[t] = n, \A u \in Thread \ {t} : pc'[u] = pc[u]
      PROVE  Aimed'
  <2>1. \A u \in Thread \ {t} : pc'[u] # "flushing" /\ out'[u] = None
    BY <1>b, <1>c DEF Open, Holding
  <2>2. out'[t] = n /\ n # None
    BY <1>c DEF Open
  <2> QED
    BY <1>c, <2>1, <2>2 DEF Whole, Aimed
<1>d. ASSUME NEW t \in Thread, NEW content, mutex = t, Write(t, content),
             pc'[t] # "flushing", \A u \in Thread \ {t} : pc'[u] = pc[u]
      PROVE  Aimed'
  <2>1. \A u \in Thread : pc'[u] # "flushing" /\ out'[u] = None
    BY <1>b, <1>d DEF Write, Holding
  <2> QED
    BY <2>1 DEF Whole, Aimed
<1>2. ASSUME NEW p \in Player, Start(p)
      PROVE  Aimed'
  <2>1. CASE edit(p)
    BY <2>1, <1>a DEF edit, Begin, streams, disk
  <2>2. CASE save(p)
    BY <2>2 DEF save, Begin
  <2>3. CASE quit(p)
    BY <2>3, <1>a DEF quit, streams, disk
  <2>4. ASSUME NEW n \in Name, revert(p, n)
        PROVE  Aimed'
    BY <2>4 DEF revert, Begin
  <2>5. ASSUME NEW n \in Name, join(p, n)
        PROVE  Aimed'
    BY <2>5, <1>a DEF join, Begin, streams, disk
  <2>6. ASSUME NEW n \in Name, new(p, n)
        PROVE  Aimed'
    BY <2>6, <1>a DEF new, streams, disk
  <2>7. ASSUME NEW n \in Name, del(p, n)
        PROVE  Aimed'
    BY <2>7, <1>a DEF del, streams, disk
  <2> QED
    BY <1>2, <2>1, <2>2, <2>3, <2>4, <2>5, <2>6, <2>7 DEF Start
<1>3. ASSUME NEW p \in Player, Continue(p)
      PROVE  Aimed'
  <2>1. ASSUME NEW v \in Value, setBlock(p, v)
        PROVE  Aimed'
    BY <2>1, <1>a DEF setBlock, streams, disk
  <2>2. CASE SaveOpen(p) \/ SaveWrite(p) \/ RevertClear(p) \/ RevertFill(p)
    BY <2>2 DEF SaveOpen, SaveWrite, RevertClear, RevertFill, Whole, Quiet
  <2>3. CASE Arrive(p)
    BY <2>3, <1>a DEF Arrive, streams, disk
  <2>4. CASE SkipUnload(p)
    BY <2>4, <1>a DEF SkipUnload, Return, streams, disk
  <2>5. CASE UnloadOpen(p)
    BY <2>5, <1>c DEF UnloadOpen, Loaded
  <2>6. CASE UnloadWrite(p)
    <3>1. mutex = p
      BY <2>6 DEF UnloadWrite, Discipline, Holding
    <3> QED
      BY <2>6, <3>1, <1>d DEF UnloadWrite
  <2>7. CASE NewFound(p)
    BY <2>7, <1>a DEF NewFound, streams, disk
  <2>8. CASE NewGenerate(p)
    <3>1. name[p] \in Name
      BY <2>8 DEF NewGenerate, Operands
    <3> QED
      BY <2>8, <3>1, <1>c DEF NewGenerate, Generate
  <2>9. CASE Generated(p)
    BY <2>9, <1>d DEF Generated, Discipline, Holding
  <2>10. ASSUME NEW q \in Player, Evict(p, q)
         PROVE  Aimed'
    BY <2>10, <1>a DEF Evict, streams, disk
  <2>11. CASE Erase(p)
    BY <2>11, <1>a DEF Erase, streams, disk
  <2>12. CASE RemoveFile(p)
    <3>1. /\ file' = [file EXCEPT ![doomed[p]] = None]
          /\ out' = [t \in Thread |-> IF out[t] = doomed[p] THEN None ELSE out[t]]
          /\ name' = name /\ pc' = [pc EXCEPT ![p] = "idle"]
          /\ doomed[p] \in Name
      BY <2>12 DEF RemoveFile, Operands
    <3>2. ASSUME NEW t \in Thread, out'[t] # None PROVE out'[t] = name'[t]
      BY <3>1, <3>2 DEF Whole, Aimed
    <3>3. ASSUME NEW t \in Thread, pc'[t] = "flushing", out'[t] = None
          PROVE  file'[name'[t]] = None
      <4>1. pc[t] = "flushing" /\ name[t] \in Name
        BY <3>1, <3>3 DEF Operands
      <4>2. file[name[t]] = None \/ name[t] = doomed[p]
        BY <3>1, <3>3, <4>1 DEF Whole, Aimed
      <4> QED
        BY <3>1, <4>1, <4>2
    <3> QED
      BY <3>2, <3>3 DEF Whole, Aimed
  <2>13. CASE UnloadFree(p)
    BY <2>13, <1>a DEF UnloadFree, Return, streams, disk
  <2> QED
    BY <1>3, <2>1, <2>2, <2>3, <2>4, <2>5, <2>6, <2>7, <2>8, <2>9, <2>10,
       <2>11, <2>12, <2>13 DEF Continue
<1>4. CASE Boot
  <2>1. CASE Generate(Server, Main)
    BY <1>4, <2>1, <1>c DEF Generate
  <2>2. CASE ~ Generate(Server, Main)
    BY <1>4, <2>2, <1>a DEF Boot, streams
  <2> QED
    BY <2>1, <2>2
<1>5. CASE Generated(Server)
  BY <1>5, <1>d DEF Generated, Discipline, Holding
<1>6. CASE saveLoop
  <2>1. CASE Wake
    BY <2>1, <1>a DEF Wake, streams, disk
  <2>2. ASSUME NEW n \in Name, StoreOpen(n)
        PROVE  Aimed'
    BY <2>2, <1>c DEF StoreOpen, Discipline, Holding
  <2>3. CASE StoreWrite
    BY <2>3, <1>d DEF StoreWrite, Discipline, Holding
  <2>4. CASE backupLevel
    BY <2>4, <1>a DEF backupLevel, streams, disk
  <2>5. CASE BackupCopy
    BY <2>5, <1>a DEF BackupCopy, streams, disk
  <2>6. CASE BackupFails
    BY <2>6, <1>a DEF BackupFails, streams, disk
  <2>7. CASE PassDone
    BY <2>7, <1>a DEF PassDone, streams, disk
  <2> QED
    BY <1>6, <2>1, <2>2, <2>3, <2>4, <2>5, <2>6, <2>7 DEF saveLoop
<1>7. CASE Crash
  BY <1>7 DEF Crash, Aimed
<1>8. CASE serverShutdown
  <2>1. \A t \in Thread : pc[t] # "flushing"
    BY <1>8 DEF serverShutdown, Discipline, Holding
  <2> QED
    BY <1>8, <2>1 DEF serverShutdown, Whole, Aimed
<1> QED
  BY <1>2, <1>3, <1>4, <1>5, <1>6, <1>7, <1>8 DEF Next

\* What an unload has saved stays, but for an edit and a /del.
LEMMA SavedStep ==
    ASSUME WorldsAssumption, Sound, TypeOK', Discipline', Calm, Whole, Next
    PROVE  Saved'
<1> USE WorldsAssumption
    DEF WorldsAssumption, Sound, TypeOK, Calm, Thread, Goto
<1>a. ASSUME UNCHANGED <<memory, file>>,
             \A t \in Player : pc'[t] = "freeing" => pc[t] = "freeing" /\ name'[t] = name[t]
      PROVE  Saved'
  BY <1>a DEF Whole, Saved, memory
\* Nobody is between a save and a delete while another holds the mutex, or nobody.
<1>b. ASSUME NEW t \in Thread, mutex' \in {t, None}, pc'[t] # "freeing"
      PROVE  Saved'
  BY <1>b DEF Discipline, Holding, Saved
<1>2. ASSUME NEW p \in Player, Start(p)
      PROVE  Saved'
  <2>1. ASSUME NEW command, NEW n \in Name, NEW stage, stage # "freeing",
               Begin(p, command, n, stage)
        PROVE  Saved'
    BY <2>1, <1>b, GetOrLoadType DEF Begin
  <2>2. CASE edit(p) \/ save(p)
    BY <2>2, <2>1 DEF edit, save
  <2>3. CASE quit(p)
    BY <2>3, <1>a DEF quit, disk
  <2>4. ASSUME NEW n \in Name, revert(p, n) \/ join(p, n)
        PROVE  Saved'
    BY <2>4, <2>1 DEF revert, join
  <2>5. ASSUME NEW n \in Name, new(p, n) \/ del(p, n)
        PROVE  Saved'
    BY <2>5, <1>a DEF new, del, disk
  <2> QED
    BY <1>2, <2>2, <2>3, <2>4, <2>5 DEF Start
<1>3. ASSUME NEW p \in Player, Continue(p)
      PROVE  Saved'
  <2>1. ASSUME NEW v \in Value, setBlock(p, v)
        PROVE  Saved'
    <3> SUFFICES ASSUME NEW t \in Player, pc'[t] = "freeing",
                        file'[name'[t]] # None, name'[t] \notin late'
                 PROVE  file'[name'[t]] = block'[levels'[name'[t]]]
      BY DEF Saved
    <3>1. /\ pc[t] = "freeing" /\ name'[t] = name[t] /\ file' = file /\ levels' = levels
      BY <2>1 DEF setBlock, disk
    <3>2. name[t] \in Loaded
      BY <3>1 DEF Held
    <3>3. name[t] \notin late /\ levels[name[t]] # ptr[p]
      BY <2>1, <3>1, <3>2 DEF setBlock
    <3>4. block'[levels[name[t]]] = block[levels[name[t]]]
      BY <2>1, <3>2, <3>3 DEF setBlock, Poke, Loaded
    <3> QED
      BY <3>1, <3>3, <3>4 DEF Whole, Saved
  <2>2. CASE SaveOpen(p) \/ SaveWrite(p) \/ RevertClear(p) \/ RevertFill(p)
    BY <2>2 DEF SaveOpen, SaveWrite, RevertClear, RevertFill, Whole, Quiet
  <2>3. CASE Arrive(p)
    BY <2>3, <1>a DEF Arrive, disk
  <2>4. CASE SkipUnload(p)
    BY <2>4, <1>a DEF SkipUnload, Return, disk
  <2>5. CASE UnloadOpen(p)
    BY <2>5, <1>b DEF UnloadOpen
  <2>6. CASE UnloadWrite(p)
    <3>1. /\ mutex = p /\ name[p] \in Loaded
          /\ pc' = [pc EXCEPT ![p] = "freeing"] /\ UNCHANGED <<memory, name>>
      BY <2>6 DEF UnloadWrite, Discipline, Holding, Held
    <3>2. \A t \in Player \ {p} : pc[t] # "freeing"
      BY <3>1 DEF Discipline, Holding
    <3>3. CASE out[p] = None
      <4>1. file' = file /\ file[name[p]] = None
        BY <2>6, <3>3 DEF UnloadWrite, Write, Whole, Aimed
      <4> QED
        BY <3>1, <3>2, <4>1 DEF Saved
    <3>4. CASE out[p] # None
      <4>1. file' = [file EXCEPT ![name[p]] = block[levels[name[p]]]]
        BY <2>6, <3>4 DEF UnloadWrite, Write, Whole, Aimed, Streams
      <4> QED
        BY <3>1, <3>2, <4>1 DEF Saved, Loaded, memory
    <3> QED
      BY <3>3, <3>4
  <2>7. CASE UnloadFree(p)
    BY <2>7, <1>b DEF UnloadFree, Return
  <2>8. CASE NewFound(p)
    BY <2>8, <1>b DEF NewFound
  <2>9. CASE NewGenerate(p)
    BY <2>9, <1>b DEF NewGenerate, Generate
  <2>10. CASE Generated(p)
    BY <2>10, <1>b DEF Generated
  <2>11. ASSUME NEW q \in Player, Evict(p, q)
         PROVE  Saved'
    BY <2>11, <1>b DEF Evict
  <2>12. CASE Erase(p)
    BY <2>12, <1>b DEF Erase
  <2>13. CASE RemoveFile(p)
    <3>1. /\ file' = [file EXCEPT ![doomed[p]] = None]
          /\ UNCHANGED <<memory, name>>
          /\ \A t \in Player : pc'[t] = "freeing" => pc[t] = "freeing"
      BY <2>13 DEF RemoveFile
    <3> QED
      BY <3>1 DEF Whole, Saved, Operands, memory
  <2> QED
    BY <1>3, <2>1, <2>2, <2>3, <2>4, <2>5, <2>6, <2>7, <2>8, <2>9, <2>10,
       <2>11, <2>12, <2>13 DEF Continue
<1>4. CASE Boot
  BY <1>4, <1>b DEF Boot, Generate
<1>5. CASE Generated(Server)
  BY <1>5, <1>b DEF Generated
<1>6. CASE saveLoop
  <2>1. mutex' \in {Server, None} /\ pc'[Server] # "freeing"
    BY <1>6 DEF saveLoop, Wake, StoreOpen, StoreWrite, backupLevel, BackupCopy,
                BackupFails, PassDone, Discipline, Holding, ServerStage
  <2> QED
    BY <2>1, <1>b
<1>7. CASE Crash
  BY <1>7 DEF Crash, Saved
<1>8. CASE serverShutdown
  BY <1>8, <1>b DEF serverShutdown, Discipline, Holding, ServerStage
<1> QED
  BY <1>2, <1>3, <1>4, <1>5, <1>6, <1>7, <1>8 DEF Next

\* Every step keeps Whole.
LEMMA WholeStep ==
    ASSUME WorldsAssumption, Sound, Calm, Whole, [Next]_vars
    PROVE  Whole'
<1>1. CASE UNCHANGED vars
  BY <1>1 DEF vars, memory, streams, disk, Loaded, Thread,
              Whole, Quiet, Streams, Memory, Aimed, Saved
<1>2. CASE Next
  <2>1. TypeOK' /\ Discipline'
    BY <1>2, TypeStep, DisciplineStep
  <2> QED
    BY <1>2, <2>1, QuietStep, StreamsStep, MemoryStep, AimedStep,
       SavedStep DEF Whole
<1> QED
  BY <1>1, <1>2

\* While nobody uses /save or /revert, files and levels stay whole.
LEMMA WholeInvariant == Spec => [](Sound /\ (Calm => Whole))
<1>1. Init /\ Calm => Whole
  BY WorldsAssumption
     DEF WorldsAssumption, Init, Started, Thread, Loaded, Live, Fresh, Torn,
         Whole, Quiet, Streams, Memory, Aimed, Saved
<1>2. Sound /\ (Calm => Whole) /\ [Next]_vars => (Calm => Whole)'
  BY WorldsAssumption, WholeStep DEF Calm
<1> QED
  BY <1>1, <1>2, Soundness, PTL DEF Spec

\* While nobody uses /save or /revert, a loaded level is a complete one, and a
\* file is incomplete only while the holder of registryMutex writes it: the end
\* of the process, whenever it comes, costs no more than the file open then.
THEOREM LevelsAreWhole == Spec => []LevelsWhole
<1>1. Sound /\ (Calm => Whole) => LevelsWhole
  <2> SUFFICES ASSUME Sound, Calm, Whole
               PROVE  LevelsWhole
    BY DEF LevelsWhole
  <2>1. \A t \in Thread : out[t] # None => mutex = t
    BY DEF Sound, Discipline, Holding, Whole, Streams
  <2>2. \A n \in Name : file[n] = Torn => \E t \in Thread : out[t] = n
    BY DEF Whole, Streams
  <2>3. \A m, n \in Name : file[m] = Torn /\ file[n] = Torn => m = n
    BY <2>1, <2>2, WorldsAssumption DEF WorldsAssumption
  <2> QED
    BY <2>2, <2>3 DEF Whole, Memory, LevelsWhole
<1> QED
  BY <1>1, WholeInvariant, PTL

-----------------------------------------------------------------------------
(* VersionsKept and MainStays: what a level is, and where main is. *)

\* A step that changes what a level is, is one of those that are meant to.
LEMMA VersionsStep ==
    ASSUME WorldsAssumption, Sound, Calm, Whole, Next,
           NEW n \in Name, Version(n)' # Version(n)
    PROVE  Alters(n)
<1> USE WorldsAssumption
    DEF WorldsAssumption, Sound, TypeOK, Calm, Thread, Goto
<1>a. ~ UNCHANGED <<levels, block, file>>
  BY DEF Version, Loaded
\* Files of loaded levels do not count.
<1>b. ASSUME UNCHANGED <<levels, block>>, NEW m \in Loaded,
             \A k \in Name \ {m} : file'[k] = file[k]
      PROVE  FALSE
  BY <1>b DEF Version, Loaded
\* What is loaded is what was in the file.
<1>c. ASSUME NEW m \in Name \ Loaded, NEW o \in Object \ Live, LoadFile(m, o), file' = file
      PROVE  FALSE
  <2>1. \A k \in Loaded : k # m /\ levels'[k] = levels[k] /\ levels[k] # o /\ levels[k] \in Object
    BY <1>c DEF LoadFile, Loaded, Live
  <2>2. CASE n \in Loaded
    BY <1>c, <2>1, <2>2 DEF LoadFile, Loaded, Version
  <2>3. CASE n = m
    <3>1. levels'[m] = o /\ o # None /\ block'[o] = file[m]
      BY <1>c DEF LoadFile
    <3> QED
      BY <1>c, <2>3, <3>1 DEF Loaded, Version
  <2>4. CASE n \notin Loaded /\ n # m
    BY <1>c, <2>4 DEF LoadFile, Loaded, Version
  <2> QED
    BY <2>2, <2>3, <2>4
<1>d. ASSUME NEW t \in Thread, NEW m \in Name, getOrLoad(t, m), file' = file
      PROVE  FALSE
  <2>1. CASE m \notin Loaded /\ m \in known /\ file[m] # None
    BY <1>c, <1>d, <2>1 DEF getOrLoad
  <2>2. CASE ~ (m \notin Loaded /\ m \in known /\ file[m] # None)
    BY <1>a, <1>d, <2>2 DEF getOrLoad, memory
  <2> QED
    BY <2>1, <2>2
\* Freeing a level leaves the others as they are.
<1>e. ASSUME NEW m \in Loaded, Free(m), m # n
      PROVE  levels'[n] = levels[n] /\ (n \in Loaded => block'[levels[n]] = block[levels[n]])
  BY <1>e DEF Free, Loaded, Whole, Memory
<1>f. ASSUME NEW t \in Thread, NEW m \in Name, Generate(t, m)
      PROVE  Alters(n)
  <2>1. CASE m = n
    BY <1>f, <2>1 DEF Generate, Alters
  <2>2. CASE m # n
    BY <1>f, <2>2 DEF Generate, Open, Version, Loaded, memory
  <2> QED
    BY <2>1, <2>2
<1>g. ASSUME NEW t \in Thread, Generated(t)
      PROVE  Alters(n)
  <2>1. CASE name[t] = n
    BY <1>g, <2>1 DEF Generated, Alters
  <2>2. CASE name[t] # n
    <3>1. name[t] \in Name /\ ptr[t] \in Object \ Live
      BY <1>g DEF Generated, Operands, Held
    <3>2. levels'[n] = levels[n] /\ (n \in Loaded => block'[levels[n]] = block[levels[n]])
      BY <1>g, <2>2, <3>1 DEF Generated, Loaded, Live
    <3>3. file'[n] = file[n]
      BY <1>g, <2>2 DEF Generated, Write, Whole, Aimed
    <3> QED
      BY <3>2, <3>3 DEF Version, Loaded
  <2> QED
    BY <2>1, <2>2
<1>2. ASSUME NEW p \in Player, Start(p)
      PROVE  Alters(n)
  <2>1. CASE edit(p)
    BY <2>1, <1>d DEF edit, Begin, disk
  <2>2. CASE save(p)
    BY <2>2 DEF save, Begin
  <2>3. CASE quit(p)
    BY <2>3, <1>a DEF quit, memory, disk
  <2>4. ASSUME NEW m \in Name, revert(p, m)
        PROVE  Alters(n)
    BY <2>4 DEF revert, Begin
  <2>5. ASSUME NEW m \in Name, join(p, m)
        PROVE  Alters(n)
    BY <2>5, <1>d DEF join, Begin, disk
  <2>6. ASSUME NEW m \in Name, new(p, m) \/ del(p, m)
        PROVE  Alters(n)
    BY <2>6, <1>a DEF new, del, memory, disk
  <2> QED
    BY <1>2, <2>1, <2>2, <2>3, <2>4, <2>5, <2>6 DEF Start
<1>3. ASSUME NEW p \in Player, Continue(p)
      PROVE  Alters(n)
  <2>1. ASSUME NEW v \in Value, setBlock(p, v)
        PROVE  Alters(n)
    <3>1. n \in Loaded /\ levels[n] = ptr[p] /\ Version(n)' = v
      BY <2>1 DEF setBlock, Poke, Version, Loaded, disk, Live
    <3> QED
      BY <2>1, <3>1 DEF setBlock, Alters
  <2>2. CASE SaveOpen(p) \/ SaveWrite(p) \/ RevertClear(p) \/ RevertFill(p)
    BY <2>2 DEF SaveOpen, SaveWrite, RevertClear, RevertFill, Whole, Quiet
  <2>3. CASE Arrive(p)
    BY <2>3, <1>a DEF Arrive, memory, disk
  <2>4. CASE SkipUnload(p)
    BY <2>4, <1>a DEF SkipUnload, memory, disk
  <2>5. CASE UnloadOpen(p)
    BY <2>5, <1>b DEF UnloadOpen, Open, memory
  <2>6. CASE UnloadWrite(p)
    <3>1. name[p] \in Loaded
      BY <2>6 DEF UnloadWrite, Held
    <3>2. \A k \in Name \ {name[p]} : file'[k] = file[k]
      BY <2>6 DEF UnloadWrite, Write, Whole, Aimed
    <3> QED
      BY <2>6, <3>1, <3>2, <1>b DEF UnloadWrite, memory
  <2>7. CASE NewFound(p)
    <3>1. name[p] \in Name
      BY <2>7 DEF NewFound, Operands
    <3> QED
      BY <2>7, <3>1, <1>a, <1>c DEF NewFound, memory
  <2>8. CASE NewGenerate(p)
    <3>1. name[p] \in Name
      BY <2>8 DEF NewGenerate, Operands
    <3> QED
      BY <2>8, <3>1, <1>f DEF NewGenerate
  <2>9. CASE Generated(p)
    BY <2>9, <1>g
  <2>10. ASSUME NEW q \in Player, Evict(p, q)
         PROVE  Alters(n)
    BY <2>10, <1>a DEF Evict, memory, disk
  <2>11. CASE Erase(p)
    <3>1. CASE doomed[p] = n
      BY <2>11, <3>1 DEF Erase, Alters
    <3>2. CASE doomed[p] # n
      BY <2>11, <3>2, <1>a, <1>e DEF Erase, Version, Loaded, memory, disk
    <3> QED
      BY <3>1, <3>2
  <2>12. CASE RemoveFile(p)
    <3>1. CASE doomed[p] = n
      BY <2>12, <3>1 DEF RemoveFile, Alters
    <3>2. CASE doomed[p] # n
      BY <2>12, <3>2 DEF RemoveFile, Version, Loaded, memory
    <3> QED
      BY <3>1, <3>2
  <2>13. CASE UnloadFree(p)
    <3>1. name[p] \in Loaded /\ levels[name[p]] \in Object /\ file' = file
      BY <2>13 DEF UnloadFree, Held, Loaded, disk
    <3>2. CASE name[p] # n
      <4>1. levels'[n] = levels[n] /\ (n \in Loaded => block'[levels[n]] = block[levels[n]])
        BY <2>13, <3>1, <3>2, <1>e DEF UnloadFree
      <4> QED
        BY <3>1, <4>1 DEF Version, Loaded
    <3>3. CASE name[p] = n
      <4>1. levels'[n] = None
        BY <2>13, <3>3 DEF UnloadFree, Free
      <4>2. file[n] # block[levels[n]]
        BY <3>1, <3>3, <4>1 DEF Version, Loaded
      <4>3. file[n] = None \/ n \in late
        BY <2>13, <3>3, <4>2 DEF UnloadFree, Whole, Saved
      <4> QED
        BY <2>13, <3>3, <4>3 DEF UnloadFree, Alters
    <3> QED
      BY <3>2, <3>3
  <2> QED
    BY <1>3, <2>1, <2>2, <2>3, <2>4, <2>5, <2>6, <2>7, <2>8, <2>9, <2>10,
       <2>11, <2>12, <2>13 DEF Continue
<1>4. CASE Boot
  <2>1. CASE Generate(Server, Main)
    BY <2>1, <1>f
  <2>2. CASE ~ Generate(Server, Main)
    BY <1>4, <2>2, <1>c DEF Boot
  <2> QED
    BY <2>1, <2>2
<1>5. CASE Generated(Server)
  BY <1>5, <1>g
<1>6. CASE saveLoop
  <2>1. CASE Wake
    BY <2>1, <1>a DEF Wake, memory, disk
  <2>2. ASSUME NEW m \in Name, StoreOpen(m)
        PROVE  Alters(n)
    <3>1. m \in Loaded
      BY <2>2 DEF StoreOpen, Held
    <3> QED
      BY <2>2, <3>1, <1>b DEF StoreOpen, Open, memory
  <2>3. CASE StoreWrite
    <3>1. name[Server] \in Loaded
      BY <2>3 DEF StoreWrite, Held
    <3>2. \A k \in Name \ {name[Server]} : file'[k] = file[k]
      BY <2>3 DEF StoreWrite, Write, Whole, Aimed
    <3> QED
      BY <2>3, <3>1, <3>2, <1>b DEF StoreWrite, memory
  <2>4. CASE backupLevel
    BY <2>4, <1>a DEF backupLevel, memory
  <2>5. CASE BackupCopy
    BY <2>5, <1>a DEF BackupCopy
  <2>6. CASE BackupFails
    BY <2>6, <1>a DEF BackupFails, disk
  <2>7. CASE PassDone
    BY <2>7, <1>a DEF PassDone, memory, disk
  <2> QED
    BY <1>6, <2>1, <2>2, <2>3, <2>4, <2>5, <2>6, <2>7 DEF saveLoop
<1>7. CASE Crash
  BY <1>7 DEF Crash, Alters
<1>8. CASE serverShutdown
  <2>1. \A t \in Thread : out[t] = None
    <3>1. \A t \in Thread : pc[t] \notin Holding
      BY <1>8 DEF serverShutdown, Discipline
    <3> QED
      BY <3>1 DEF Whole, Streams, Holding
  <2>2. \A m \in Name : file'[m] = IF m \in Loaded THEN block[levels[m]] ELSE file[m]
    BY <1>8, <2>1 DEF serverShutdown
  <2> QED
    BY <1>8, <2>2 DEF serverShutdown, Version, Loaded, memory
<1> QED
  BY <1>2, <1>3, <1>4, <1>5, <1>6, <1>7, <1>8 DEF Next

\* While nobody uses /save or /revert, what a level is changes by an edit, /new
\* and /del only, by the end of the process, and by an unload during which the
\* level was edited through a pointer looked up before: no load, save, pass of
\* saveLoop, other unload or shutdown, in whatever order and with whatever dirty
\* flags, loses an edit of a loaded level or brings an older one back.
THEOREM VersionsAreKept == Spec => VersionsKept
<1>1. Sound /\ (Calm => Whole) /\ [Next]_vars =>
        [Calm => \A n \in Name : Version(n)' # Version(n) => Alters(n)]_vars
  <2> SUFFICES ASSUME Sound, Calm, Whole, Next,
                      NEW n \in Name, Version(n)' # Version(n)
               PROVE  Alters(n)
    OBVIOUS
  <2> QED
    BY WorldsAssumption, VersionsStep
<1>2. [][Calm => \A n \in Name : Version(n)' # Version(n) => Alters(n)]_vars => VersionsKept
  BY DEF VersionsKept
<1> QED
  BY <1>1, <1>2, WholeInvariant, PTL DEF Spec

-----------------------------------------------------------------------------

\* What threads are about to delete, and to unload.
NotMain ==
    \A p \in Player : doomed[p] # Main /\ (pc[p] \in {"flushing", "freeing"} => name[p] # Main)

\* Nobody is ever about to unload or delete main.
LEMMA NotMainStep ==
    ASSUME WorldsAssumption, Sound, NotMain, [Next]_vars
    PROVE  NotMain'
<1> USE WorldsAssumption DEF WorldsAssumption, Sound, TypeOK, Thread, Goto, NotMain
<1>1. CASE UNCHANGED vars
  BY <1>1 DEF vars
<1>2. ASSUME NEW p \in Player, NEW command, NEW n \in Name, NEW stage,
             stage \notin {"flushing", "freeing"},
             Begin(p, command, n, stage),
             \A q \in Player \ {p} : name'[q] = name[q]
      PROVE  NotMain'
  BY <1>2 DEF Begin
<1>3. ASSUME NEW p \in Player, Start(p)
      PROVE  NotMain'
  <2>1. CASE edit(p) \/ save(p)
    <3>1. at[p] \in Name /\ name' = name
      BY <2>1 DEF edit, save
    <3>2. Begin(p, "edit", at[p], "editing") \/ Begin(p, "save", at[p], "saving")
      BY <2>1 DEF edit, save
    <3>3. CASE Begin(p, "edit", at[p], "editing")
      BY <3>1, <3>3 DEF Begin
    <3>4. CASE Begin(p, "save", at[p], "saving")
      BY <3>1, <3>4 DEF Begin
    <3> QED
      BY <3>2, <3>3, <3>4
  <2>2. CASE quit(p)
    BY <2>2 DEF quit
  <2>3. ASSUME NEW n \in Name, revert(p, n)
        PROVE  NotMain'
    <3>1. \A q \in Player \ {p} : name'[q] = name[q]
      BY <2>3 DEF revert
    <3> QED
      BY <2>3, <3>1, <1>2 DEF revert
  <2>4. ASSUME NEW n \in Name, join(p, n)
        PROVE  NotMain'
    <3>1. \A q \in Player \ {p} : name'[q] = name[q]
      BY <2>4 DEF join
    <3> QED
      BY <2>4, <3>1, <1>2 DEF join
  <2>5. ASSUME NEW n \in Name, new(p, n) \/ del(p, n)
        PROVE  NotMain'
    BY <2>5 DEF new, del
  <2> QED
    BY <1>3, <2>1, <2>2, <2>3, <2>4, <2>5 DEF Start
<1>4. ASSUME NEW p \in Player, Continue(p)
      PROVE  NotMain'
  <2>1. ASSUME NEW v \in Value, setBlock(p, v)
        PROVE  NotMain'
    BY <2>1 DEF setBlock
  <2>2. CASE SaveOpen(p) \/ SaveWrite(p) \/ RevertClear(p) \/ RevertFill(p)
    BY <2>2 DEF SaveOpen, SaveWrite, RevertClear, RevertFill
  <2>3. CASE Arrive(p)
    BY <2>3 DEF Arrive
  <2>4. CASE SkipUnload(p) \/ UnloadWrite(p) \/ UnloadFree(p)
    BY <2>4 DEF SkipUnload, UnloadWrite, UnloadFree, Return
  <2>5. CASE UnloadOpen(p)
    BY <2>5 DEF UnloadOpen
  <2>6. CASE NewFound(p)
    BY <2>6 DEF NewFound
  <2>7. CASE NewGenerate(p)
    BY <2>7 DEF NewGenerate, Generate
  <2>8. CASE Generated(p)
    BY <2>8 DEF Generated
  <2>9. ASSUME NEW q \in Player, Evict(p, q)
        PROVE  NotMain'
    BY <2>9 DEF Evict
  <2>10. CASE Erase(p) \/ RemoveFile(p)
    BY <2>10 DEF Erase, RemoveFile
  <2> QED
    BY <1>4, <2>1, <2>2, <2>3, <2>4, <2>5, <2>6, <2>7, <2>8, <2>9, <2>10 DEF Continue
<1>5. ASSUME Boot \/ Generated(Server) \/ saveLoop
      PROVE  NotMain'
  <2>1. \A p \in Player : doomed'[p] = doomed[p] /\ name'[p] = name[p] /\ pc'[p] = pc[p]
    BY <1>5 DEF Boot, Generate, Generated, saveLoop, Wake, StoreOpen, StoreWrite,
                backupLevel, BackupCopy, BackupFails, PassDone
  <2> QED
    BY <2>1
<1>6. CASE Crash \/ serverShutdown
  BY <1>6 DEF Crash, serverShutdown
<1> QED
  BY <1>1, <1>3, <1>4, <1>5, <1>6 DEF Next

\* No step but the end of the process moves main in memory.
LEMMA MainStep ==
    ASSUME WorldsAssumption, Sound, NotMain, Next, levels[Main] # None
    PROVE  levels'[Main] = levels[Main] \/ pc'[Server] = "booting"
<1> DEFINE Stays == levels'[Main] = levels[Main]
<1> USE WorldsAssumption DEF WorldsAssumption, Sound, TypeOK, Thread, Loaded
<1>1. ASSUME NEW p \in Player, NEW command, NEW n \in Name, NEW stage,
             Begin(p, command, n, stage)
      PROVE  Stays
  BY <1>1, GetOrLoadType DEF Begin
<1>2. ASSUME NEW n \in Name, n \notin Loaded, NEW o, LoadFile(n, o)
      PROVE  Stays
  BY <1>2 DEF LoadFile
<1>3. ASSUME NEW n \in Name, n # Main, Free(n)
      PROVE  Stays
  BY <1>3 DEF Free
<1>4. ASSUME NEW p \in Player, Start(p)
      PROVE  Stays
  BY <1>4, <1>1 DEF Start, edit, save, quit, revert, join, new, del, memory
<1>5. ASSUME NEW t \in Thread, Generated(t)
      PROVE  Stays
  BY <1>5 DEF Generated, Held
<1>6. ASSUME NEW p \in Player, Continue(p)
      PROVE  Stays
  <2>1. ASSUME NEW v \in Value, setBlock(p, v)
        PROVE  Stays
    BY <2>1 DEF setBlock
  <2>2. CASE SaveOpen(p) \/ SaveWrite(p) \/ RevertClear(p) \/ RevertFill(p)
    BY <2>2 DEF SaveOpen, SaveWrite, RevertClear, RevertFill, memory
  <2>3. CASE Arrive(p) \/ SkipUnload(p) \/ UnloadOpen(p)
    BY <2>3 DEF Arrive, SkipUnload, UnloadOpen, memory
  <2>4. CASE UnloadWrite(p)
    BY <2>4 DEF UnloadWrite, memory
  <2>10. CASE UnloadFree(p)
    BY <2>10, <1>3 DEF UnloadFree, Held, NotMain
  <2>5. CASE NewFound(p)
    BY <2>5, <1>2 DEF NewFound, memory, Operands
  <2>6. CASE NewGenerate(p)
    BY <2>6 DEF NewGenerate, Generate, memory
  <2>7. ASSUME NEW q \in Player, Evict(p, q)
        PROVE  Stays
    BY <2>7 DEF Evict, memory
  <2>8. CASE Erase(p)
    BY <2>8, <1>3 DEF Erase, memory, NotMain
  <2>9. CASE RemoveFile(p)
    BY <2>9 DEF RemoveFile, memory
  <2> QED
    BY <1>6, <1>5, <2>1, <2>2, <2>3, <2>4, <2>5, <2>6, <2>7, <2>8, <2>9, <2>10 DEF Continue
<1>7. CASE Boot
  BY <1>7, <1>2 DEF Boot, Generate, memory
<1>8. CASE saveLoop
  BY <1>8 DEF saveLoop, Wake, StoreOpen, StoreWrite, backupLevel, BackupCopy,
              BackupFails, PassDone, memory
<1>9. CASE serverShutdown
  BY <1>9 DEF serverShutdown, memory
<1>10. CASE Crash
  BY <1>10 DEF Crash
<1> QED
  BY <1>4, <1>5, <1>6, <1>7, <1>8, <1>9, <1>10 DEF Next

\* main stays where it is in memory until the process ends, for every set of
\* commands: /join, quit and /del reach unloadIfEmpty and erase with other names.
THEOREM MainAlwaysStays == Spec => MainStays
<1>1. Init => NotMain
  BY WorldsAssumption DEF WorldsAssumption, Init, Started, Thread, NotMain
<1>2. Sound /\ NotMain /\ [Next]_vars => NotMain'
  BY WorldsAssumption, NotMainStep
<1>3. Sound /\ NotMain /\ [Next]_vars =>
        [levels[Main] # None => levels'[Main] = levels[Main] \/ pc'[Server] = "booting"]_vars
  BY WorldsAssumption, MainStep
<1>4. [][levels[Main] # None => levels'[Main] = levels[Main] \/ pc'[Server] = "booting"]_vars
        => MainStays
  BY DEF MainStays
<1> QED
  BY <1>1, <1>2, <1>3, <1>4, Soundness, PTL DEF Spec
=============================================================================
