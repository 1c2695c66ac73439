-------------------------------- MODULE Worlds --------------------------------
(***************************************************************************)
(* The levels: loaded ones in the LevelRegistry (level.hpp), their files   *)
(* maps/<name>.lvl, their rows in the world database and their backups.    *)
(* Threads are the players' handlers, which edit, /save, /join, /new,      *)
(* /del, /revert and leave, and Server: main() while it starts, saveLoop   *)
(* afterwards.                                                             *)
(*                                                                         *)
(* What a level holds is reduced to one value: that of any one of its      *)
(* cells, which a save reads once between the opening and the closing of   *)
(* the file, so that an edit meanwhile may come before or after it.        *)
(* Whatever is not a complete level (a file being written, or written by   *)
(* two threads at once, the memory of a deleted level, a level read from   *)
(* such a file) is Torn; a file whose writing the end of the process cut   *)
(* short, and what is read from it, is Cut.  registryMutex guards the      *)
(* registry and most, not all, of the writes of files: /save, /revert and  *)
(* remove() do not take it, and a Level* is used after it was given back.  *)
(***************************************************************************)
EXTENDS Naturals, Sequences, FiniteSets

CONSTANTS
    Player,      \* threads of connected players
    Server,      \* main(), then saveLoop
    Name,        \* level names
    Main,        \* "main"
    Object,      \* places in memory a Level may occupy
    Value,       \* what players turn a level into
    Commands,    \* what players and the world do: see the assumption
    MaxBackups,  \* bound: a backup beyond it cannot be written (disk full)
    None

Fresh == "fresh"  \* what newFile generates
Torn == "torn"    \* anything but a complete level
Cut == "cut"      \* ... and in particular what a process left that ended in a save

ASSUME WorldsAssumption ==
    /\ Server \notin Player /\ None \notin Player \cup {Server}
    /\ Main \in Name /\ None \notin Name
    /\ None \notin Object
    /\ None \notin Value /\ Value \cap {Fresh, Torn, Cut} = {}
    /\ None \notin {Fresh, Torn, Cut}
    /\ MaxBackups \in Nat
    /\ Commands \subseteq
         {"edit", "save", "join", "new", "del", "revert", "crash", "shutdown"}
    /\ "shutdown" \in Commands => "crash" \in Commands

VARIABLES
    levels,   \* the registry: the object of a loaded level
    block,    \* what an object holds
    dirty,    \* objects whose dirty flag is set
    late,     \* history: levels edited after their unload read them, before
              \* it deletes them
    mutex,    \* holder of registryMutex between two steps
    file,     \* maps/<name>.lvl
    known,    \* names with a row in table worlds
    backups,  \* maps/backups/<name>.lvl.d/1.lvl, 2.lvl, ...
    pc,       \* where each thread is
    ptr,      \* the Level* a thread works with
    name,     \* the level name a thread works with
    out,      \* the file a thread's open stream leads to
    mixed,    \* files that two streams write at a time
    at,       \* Player::currentLevel
    doomed,   \* the level a /del removes
    toMove,   \* players that /del still has to send to main
    todo,     \* levels the running pass of saveLoop still has to save
    pass      \* 1: saveAll; 2: saveLoop's own loop, with backups

memory == <<levels, block, dirty, late>>
streams == <<out, mixed>>
disk == <<file, known, backups>>
saver == <<todo, pass>>
vars == <<memory, mutex, disk, pc, ptr, name, streams, at, doomed, toMove,
          saver>>

Thread == Player \cup {Server}
Content == Value \cup {Fresh, Torn, Cut}
PlayerStage == {"idle", "editing", "saving", "writing", "entering", "unloading",
                "flushing", "freeing", "naming", "creating", "deleting", "erased",
                "reverting", "loading"}
ServerStage == {"booting", "creating", "sleeping", "sweeping", "storing",
                "backup", "copying"}

TypeOK ==
    /\ levels \in [Name -> Object \cup {None}]
    /\ block \in [Object -> Content]
    /\ dirty \subseteq Object
    /\ late \subseteq Name
    /\ mutex \in Thread \cup {None}
    /\ file \in [Name -> Content \cup {None}]
    /\ known \subseteq Name
    /\ backups \in [Name -> Seq(Content)]
    /\ pc \in [Thread -> PlayerStage \cup ServerStage]
    /\ \A p \in Player : pc[p] \in PlayerStage
    /\ pc[Server] \in ServerStage
    /\ ptr \in [Thread -> Object \cup {None}]
    /\ name \in [Thread -> Name \cup {None}]
    /\ out \in [Thread -> Name \cup {None}]
    /\ mixed \subseteq Name
    /\ at \in [Player -> Name]
    /\ doomed \in [Player -> Name \cup {None}]
    /\ toMove \in [Player -> SUBSET Player]
    /\ todo \subseteq Name
    /\ pass \in {1, 2}

\* A process that has just started.
Started ==
    /\ levels = [n \in Name |-> None]
    /\ block = [o \in Object |-> Torn]
    /\ dirty = {} /\ late = {} /\ mutex = None
    /\ pc = [t \in Thread |-> IF t = Server THEN "booting" ELSE "idle"]
    /\ ptr = [t \in Thread |-> None]
    /\ name = [t \in Thread |-> None]
    /\ out = [t \in Thread |-> None]
    /\ mixed = {}
    /\ at = [p \in Player |-> Main]
    /\ doomed = [p \in Player |-> None]
    /\ toMove = [p \in Player |-> {}]
    /\ todo = {} /\ pass = 1

\* Earlier runs left some levels, complete and with their rows, or none.
Init ==
    /\ Started
    /\ known \in SUBSET Name
    /\ file = [n \in Name |-> IF n \in known THEN Fresh ELSE None]
    /\ backups = [n \in Name |-> <<>>]

-----------------------------------------------------------------------------
(* Files and objects. *)

Goto(t, stage) == pc' = [pc EXCEPT ![t] = stage]
Loaded == {n \in Name : levels[n] # None}
Live == {levels[n] : n \in Loaded}

\* ofstream file(path): the file is empty from here on.
Open(t, n) ==
    /\ out' = [out EXCEPT ![t] = n]
    /\ file' = [file EXCEPT ![n] = Torn]
    /\ mixed' = IF \E u \in Thread \ {t} : out[u] = n
                THEN mixed \cup {n} ELSE mixed \ {n}

\* The loop of Level::save and file.close().  A stream whose file was removed
\* writes to nowhere; two streams at a time may interleave their records.
Write(t, content) ==
    /\ out' = [out EXCEPT ![t] = None]
    /\ IF out[t] = None
       THEN UNCHANGED file
       ELSE \E c \in {content} \cup (IF out[t] \in mixed THEN {Torn} ELSE {}) :
                file' = [file EXCEPT ![out[t]] = c]
    /\ UNCHANGED mixed

\* delete level; levels.erase(name).
Free(n) ==
    /\ levels' = [levels EXCEPT ![n] = None]
    /\ block' = [o \in Object |-> IF o = levels[n] THEN Torn ELSE block[o]]
    /\ dirty' = dirty \ {levels[n]}
    /\ late' = late \ {n}

\* A write through a Level*: it is lost when the level was deleted meanwhile
\* and hits another one when the memory was given to it.
Poke(o, content) ==
    block' = IF o \in Live THEN [block EXCEPT ![o] = content] ELSE block

\* Level::load into a new object: setBlock marks the level dirty for every
\* record of the file (a file cut short may have none).
LoadFile(n, o) ==
    /\ levels' = [levels EXCEPT ![n] = o]
    /\ block' = [block EXCEPT ![o] = file[n]]
    /\ \/ dirty' = dirty \cup {o}
       \/ file[n] \in {Torn, Cut} /\ dirty' = dirty
    /\ UNCHANGED late

\* Fault: the registry is searched without the mutex.
getOrLoad_Unlocked(t, n) ==
    \/ /\ n \in Loaded
       /\ ptr' = [ptr EXCEPT ![t] = levels[n]]
       /\ UNCHANGED memory
    \/ /\ n \notin Loaded /\ n \in known /\ file[n] # None
       /\ \E o \in Object \ Live :
             ptr' = [ptr EXCEPT ![t] = o] /\ LoadFile(n, o)
    \/ /\ n \notin Loaded /\ ~ (n \in known /\ file[n] # None)
       /\ ptr' = [ptr EXCEPT ![t] = None]
       /\ UNCHANGED memory

\* Fault: a level with a row is loaded without looking whether its file is there.
getOrLoad_NoFile(t, n) ==
    /\ mutex = None
    /\ \/ /\ n \in Loaded
          /\ ptr' = [ptr EXCEPT ![t] = levels[n]]
          /\ UNCHANGED memory
       \/ /\ n \notin Loaded /\ n \in known
          /\ \E o \in Object \ Live :
                ptr' = [ptr EXCEPT ![t] = o] /\ LoadFile(n, o)
       \/ /\ n \notin Loaded /\ n \notin known
          /\ ptr' = [ptr EXCEPT ![t] = None]
          /\ UNCHANGED memory

\* getOrLoad(n), for a caller that keeps the pointer: an entry, a level that
\* has a row and a file, or nothing.
getOrLoad(t, n) ==
    /\ mutex = None
    /\ \/ /\ n \in Loaded
          /\ ptr' = [ptr EXCEPT ![t] = levels[n]]
          /\ UNCHANGED memory
       \/ /\ n \notin Loaded /\ n \in known /\ file[n] # None
          /\ \E o \in Object \ Live :
                ptr' = [ptr EXCEPT ![t] = o] /\ LoadFile(n, o)
       \/ /\ n \notin Loaded /\ ~ (n \in known /\ file[n] # None)
          /\ ptr' = [ptr EXCEPT ![t] = None]
          /\ UNCHANGED memory

\* A command of p that needs a level: it ends here when there is none.
Begin(p, command, n, stage) ==
    /\ pc[p] = "idle" /\ pc[Server] \notin {"booting", "creating"}
    /\ command \in Commands
    /\ getOrLoad(p, n)
    /\ Goto(p, IF ptr'[p] = None THEN "idle" ELSE stage)
    /\ UNCHANGED <<mutex, disk, streams, at, doomed, toMove, saver>>

-----------------------------------------------------------------------------
(* Editing and saving. *)

\* Packet 0x05 looks the level up and then writes the block without the mutex.
edit(p) == Begin(p, "edit", at[p], "editing") /\ UNCHANGED name

setBlock(p, v) ==
    /\ pc[p] = "editing"
    /\ Goto(p, "idle")
    /\ Poke(ptr[p], v)
    /\ dirty' = dirty \cup (Live \cap {ptr[p]})
    /\ late' = late \cup {n \in Loaded : levels[n] = ptr[p] /\
                                \E t \in Player : pc[t] = "freeing" /\ name[t] = n}
    /\ ptr' = [ptr EXCEPT ![p] = None]
    /\ UNCHANGED <<levels, mutex, disk, name, streams, at, doomed, toMove, saver>>

\* /save reads currentLevel once for the level and again for the path.
save(p) == Begin(p, "save", at[p], "saving") /\ UNCHANGED name

SaveOpen(p) ==
    /\ pc[p] = "saving"
    /\ Goto(p, "writing")
    /\ Open(p, IF name[p] = None THEN at[p] ELSE name[p])
    /\ UNCHANGED <<memory, mutex, known, backups, ptr, name, at, doomed, toMove,
                   saver>>

SaveWrite(p) ==
    /\ pc[p] = "writing"
    /\ Goto(p, "idle")
    /\ Write(p, block[ptr[p]])
    /\ ptr' = [ptr EXCEPT ![p] = None]
    /\ name' = [name EXCEPT ![p] = None]
    /\ UNCHANGED <<memory, mutex, known, backups, at, doomed, toMove, saver>>

\* /revert fills the loaded level from a backup and saves it, without the mutex.
revert(p, n) ==
    /\ backups[n] # <<>>
    /\ Begin(p, "revert", n, "reverting")
    /\ name' = [name EXCEPT ![p] = IF ptr'[p] = None THEN None ELSE n]

RevertClear(p) ==
    /\ pc[p] = "reverting"
    /\ Goto(p, "loading")
    /\ Poke(ptr[p], Torn)
    /\ UNCHANGED <<levels, dirty, late, mutex, disk, ptr, name, streams, at, doomed,
                   toMove, saver>>

RevertFill(p) ==
    /\ pc[p] = "loading"
    /\ Goto(p, "saving")
    /\ \E k \in 1 .. Len(backups[name[p]]) : Poke(ptr[p], backups[name[p]][k])
    /\ dirty' = dirty \cup (Live \cap {ptr[p]})
    /\ UNCHANGED <<levels, late, mutex, disk, ptr, name, streams, at, doomed,
                   toMove, saver>>

-----------------------------------------------------------------------------
(* Moving between levels. *)

\* switchWorld: look the target up ...
join(p, n) ==
    /\ n # at[p]
    /\ Begin(p, "join", n, "entering")
    /\ name' = [name EXCEPT ![p] = IF ptr'[p] = None THEN None ELSE n]

\* ... enter it, and unload the one left behind, whoever else is there.
Arrive(p) ==
    /\ pc[p] = "entering"
    /\ Goto(p, "unloading")
    /\ at' = [at EXCEPT ![p] = name[p]]
    /\ name' = [name EXCEPT ![p] = at[p]]
    /\ ptr' = [ptr EXCEPT ![p] = None]
    /\ UNCHANGED <<memory, mutex, disk, streams, doomed, toMove, saver>>

\* The player leaves; its thread stands for the next one, which starts on main.
quit(p) ==
    /\ pc[p] = "idle" /\ at[p] # Main
    /\ Goto(p, "unloading")
    /\ at' = [at EXCEPT ![p] = Main]
    /\ name' = [name EXCEPT ![p] = at[p]]
    /\ UNCHANGED <<memory, mutex, disk, ptr, streams, doomed, toMove, saver>>

\* Where unloadIfEmpty returns to.
Return(p) ==
    /\ Goto(p, IF doomed[p] = None THEN "idle" ELSE "deleting")
    /\ name' = [name EXCEPT ![p] = None]

\* Fault: main is unloaded like any other level.
UnloadOpen_Main(p) ==
    /\ pc[p] = "unloading"
    /\ mutex = None /\ name[p] \in Loaded
    /\ mutex' = p
    /\ Goto(p, "flushing")
    /\ Open(p, name[p])
    /\ UNCHANGED <<memory, known, backups, ptr, name, at, doomed, toMove, saver>>

\* Fault: a level that is not dirty is unloaded without being saved.
UnloadOpen_DirtyOnly(p) ==
    /\ pc[p] = "unloading" /\ name[p] # Main
    /\ mutex = None /\ name[p] \in Loaded
    /\ mutex' = p
    /\ Goto(p, "flushing")
    /\ IF levels[name[p]] \in dirty THEN Open(p, name[p]) ELSE UNCHANGED <<file, streams>>
    /\ UNCHANGED <<memory, known, backups, ptr, name, at, doomed, toMove, saver>>

\* unloadIfEmpty: never main, and nothing that is not loaded; otherwise the
\* level is saved, deleted and erased in one critical section, which a handler
\* that holds its Level* does not take.
SkipUnload(p) ==
    /\ pc[p] = "unloading"
    /\ name[p] = Main \/ (mutex = None /\ name[p] \notin Loaded)
    /\ Return(p)
    /\ UNCHANGED <<memory, mutex, disk, ptr, streams, at, doomed, toMove, saver>>

UnloadOpen(p) ==
    /\ pc[p] = "unloading" /\ name[p] # Main
    /\ mutex = None /\ name[p] \in Loaded
    /\ mutex' = p
    /\ Goto(p, "flushing")
    /\ Open(p, name[p])
    /\ UNCHANGED <<memory, known, backups, ptr, name, at, doomed, toMove, saver>>

UnloadWrite(p) ==
    /\ pc[p] = "flushing"
    /\ Goto(p, "freeing")
    /\ Write(p, block[levels[name[p]]])
    /\ UNCHANGED <<memory, mutex, known, backups, ptr, name, at, doomed, toMove,
                   saver>>

UnloadFree(p) ==
    /\ pc[p] = "freeing"
    /\ mutex' = None
    /\ Free(name[p])
    /\ Return(p)
    /\ UNCHANGED <<disk, ptr, streams, at, doomed, toMove, saver>>

-----------------------------------------------------------------------------
(* /new and /del. *)

\* A level whose file exists is refused, before any lock is taken.
new(p, n) ==
    /\ pc[p] = "idle" /\ pc[Server] \notin {"booting", "creating"}
    /\ "new" \in Commands
    /\ file[n] = None
    /\ Goto(p, "naming")
    /\ name' = [name EXCEPT ![p] = n]
    /\ UNCHANGED <<memory, mutex, disk, ptr, streams, at, doomed, toMove, saver>>

\* getOrLoad(name, true) where there is nothing to generate.
NewFound(p) ==
    LET n == name[p] IN
    /\ pc[p] = "naming" /\ mutex = None
    /\ \/ n \in Loaded /\ UNCHANGED memory
       \/ n \notin Loaded /\ file[n] # None /\ \E o \in Object \ Live : LoadFile(n, o)
    /\ known' = IF n \in Loaded THEN known ELSE known \cup {n}
    /\ Goto(p, "idle")
    /\ name' = [name EXCEPT ![p] = None]
    /\ UNCHANGED <<mutex, file, backups, ptr, streams, at, doomed, toMove, saver>>

\* getOrLoad(n, true) generates: a row, an object, and the file, under the mutex.
Generate(t, n) ==
    /\ mutex = None /\ n \notin Loaded /\ file[n] = None
    /\ mutex' = t
    /\ known' = known \cup {n}
    /\ \E o \in Object \ Live : ptr' = [ptr EXCEPT ![t] = o]
    /\ name' = [name EXCEPT ![t] = n]
    /\ Goto(t, "creating")
    /\ Open(t, n)
    /\ UNCHANGED <<memory, backups, at, doomed, toMove, saver>>

NewGenerate(p) == pc[p] = "naming" /\ Generate(p, name[p])

Generated(t) ==
    /\ pc[t] = "creating"
    /\ mutex' = None
    /\ Write(t, Fresh)
    /\ levels' = [levels EXCEPT ![name[t]] = ptr[t]]
    /\ block' = [block EXCEPT ![ptr[t]] = Fresh]
    /\ dirty' = dirty \ {ptr[t]}
    /\ UNCHANGED late
    /\ ptr' = [ptr EXCEPT ![t] = None]
    /\ name' = [name EXCEPT ![t] = None]
    /\ Goto(t, IF t = Server THEN "sleeping" ELSE "idle")
    /\ UNCHANGED <<known, backups, at, doomed, toMove, saver>>

\* /del lists the players on the level ...
del(p, n) ==
    /\ pc[p] = "idle" /\ pc[Server] \notin {"booting", "creating"}
    /\ "del" \in Commands
    /\ n # Main
    /\ Goto(p, "deleting")
    /\ doomed' = [doomed EXCEPT ![p] = n]
    /\ toMove' = [toMove EXCEPT ![p] = {q \in Player : at[q] = n}]
    /\ UNCHANGED <<memory, mutex, disk, ptr, name, streams, at, saver>>

\* ... runs switchWorld(q, "main") for each, which unloads what q leaves ...
Evict(p, q) ==
    /\ pc[p] = "deleting" /\ q \in toMove[p] /\ mutex = None
    /\ Goto(p, "unloading")
    /\ toMove' = [toMove EXCEPT ![p] = @ \ {q}]
    /\ at' = [at EXCEPT ![q] = Main]
    /\ name' = [name EXCEPT ![p] = at[q]]
    /\ UNCHANGED <<memory, mutex, disk, ptr, streams, doomed, saver>>

\* ... deletes the level from the registry ...
Erase(p) ==
    /\ pc[p] = "deleting" /\ toMove[p] = {} /\ mutex = None
    /\ Goto(p, "erased")
    /\ IF doomed[p] \in Loaded THEN Free(doomed[p]) ELSE UNCHANGED memory
    /\ UNCHANGED <<mutex, disk, ptr, name, streams, at, doomed, toMove, saver>>

\* ... and removes the file, outside the mutex.
RemoveFile(p) ==
    LET n == doomed[p] IN
    /\ pc[p] = "erased"
    /\ Goto(p, "idle")
    /\ doomed' = [doomed EXCEPT ![p] = None]
    /\ file' = [file EXCEPT ![n] = None]
    /\ out' = [t \in Thread |-> IF out[t] = n THEN None ELSE out[t]]
    /\ mixed' = mixed \ {n}
    /\ UNCHANGED <<memory, mutex, known, backups, ptr, name, at, toMove, saver>>

-----------------------------------------------------------------------------
(* main() and saveLoop. *)

\* main() starts with getOrLoad("main", true).
Boot ==
    /\ pc[Server] = "booting"
    /\ \/ Generate(Server, Main)
       \/ /\ mutex = None /\ Main \notin Loaded /\ file[Main] # None
          /\ \E o \in Object \ Live : LoadFile(Main, o)
          /\ known' = known \cup {Main}
          /\ Goto(Server, "sleeping")
          /\ UNCHANGED <<mutex, file, backups, ptr, name, streams, at, doomed,
                         toMove, saver>>

\* Fault: only levels that are dirty are saved.
Wake_DirtyOnly ==
    /\ pc[Server] = "sleeping" /\ mutex = None
    /\ mutex' = Server
    /\ todo' = {n \in Loaded : levels[n] \in dirty}
    /\ Goto(Server, "sweeping")
    /\ UNCHANGED <<memory, disk, ptr, name, streams, at, doomed, toMove, pass>>

\* saveAll, and then the loop of saveLoop: two critical sections alike.
Wake ==
    /\ pc[Server] = "sleeping" /\ mutex = None
    /\ mutex' = Server
    /\ todo' = Loaded
    /\ Goto(Server, "sweeping")
    /\ UNCHANGED <<memory, disk, ptr, name, streams, at, doomed, toMove, pass>>

StoreOpen(n) ==
    /\ pc[Server] = "sweeping" /\ n \in todo
    /\ Goto(Server, "storing")
    /\ todo' = todo \ {n}
    /\ name' = [name EXCEPT ![Server] = n]
    /\ Open(Server, n)
    /\ UNCHANGED <<memory, mutex, known, backups, ptr, at, doomed, toMove, pass>>

StoreWrite ==
    LET o == levels[name[Server]] IN
    /\ pc[Server] = "storing"
    /\ Write(Server, block[o])
    /\ Goto(Server, IF pass = 2 /\ o \in dirty THEN "backup" ELSE "sweeping")
    /\ UNCHANGED <<memory, mutex, known, backups, ptr, name, at, doomed, toMove,
                   saver>>

\* Fault: the number of the last backup is used again.
backupLevel_Reuses ==
    LET n == name[Server] IN
    /\ pc[Server] = "backup"
    /\ Goto(Server, "copying")
    /\ backups' = [backups EXCEPT ![n] =
            IF @ = <<>> THEN <<Torn>> ELSE [@ EXCEPT ![Len(@)] = Torn]]
    /\ UNCHANGED <<memory, mutex, file, known, ptr, name, streams, at, doomed,
                   toMove, saver>>

\* backupLevel creates the next number that has no file ...
backupLevel ==
    LET n == name[Server] IN
    /\ pc[Server] = "backup" /\ Len(backups[n]) < MaxBackups
    /\ Goto(Server, "copying")
    /\ backups' = [backups EXCEPT ![n] = Append(@, Torn)]
    /\ UNCHANGED <<memory, mutex, file, known, ptr, name, streams, at, doomed,
                   toMove, saver>>

\* ... and copies the level's file; the level counts as backed up.
BackupCopy ==
    LET n == name[Server] IN
    /\ pc[Server] = "copying"
    /\ Goto(Server, "sweeping")
    /\ IF file[n] = None
       THEN UNCHANGED backups
       ELSE backups' = [backups EXCEPT ![n][Len(backups[n])] = file[n]]
    /\ dirty' = dirty \ {levels[n]}
    /\ UNCHANGED <<levels, block, late, mutex, file, known, ptr, name, streams, at,
                   doomed, toMove, saver>>

\* The new file cannot be created: logged, and the level counts as backed up.
BackupFails ==
    /\ pc[Server] = "backup" /\ Len(backups[name[Server]]) = MaxBackups
    /\ Goto(Server, "sweeping")
    /\ dirty' = dirty \ {levels[name[Server]]}
    /\ UNCHANGED <<levels, block, late, mutex, disk, ptr, name, streams, at, doomed,
                   toMove, saver>>

PassDone ==
    /\ pc[Server] = "sweeping" /\ todo = {}
    /\ Goto(Server, "sleeping")
    /\ mutex' = None
    /\ pass' = 3 - pass
    /\ name' = [name EXCEPT ![Server] = None]
    /\ UNCHANGED <<memory, disk, ptr, streams, at, doomed, toMove, todo>>

\* serverShutdown saves every level first; a file that a /save or /revert is
\* writing at the same time may come out mixed.  The other threads go on until
\* exit(0), which is a Crash.
serverShutdown ==
    /\ "shutdown" \in Commands
    /\ mutex = None
    /\ \E torn \in SUBSET {n \in Loaded : \E t \in Thread : out[t] = n} :
          file' = [n \in Name |-> IF n \in torn THEN Torn
                                  ELSE IF n \in Loaded THEN block[levels[n]]
                                  ELSE file[n]]
    /\ mixed' = mixed \cup {n \in Loaded : \E t \in Thread : out[t] = n}
    /\ UNCHANGED <<memory, mutex, known, backups, pc, ptr, name, out, at, doomed,
                   toMove, saver>>

\* The process ends at any point, by exit(0) or otherwise, and is started again.
Crash ==
    /\ "crash" \in Commands
    /\ levels' = [n \in Name |-> None]
    /\ block' = [o \in Object |-> Torn]
    /\ dirty' = {} /\ late' = {} /\ mutex' = None
    /\ pc' = [t \in Thread |-> IF t = Server THEN "booting" ELSE "idle"]
    /\ ptr' = [t \in Thread |-> None]
    /\ name' = [t \in Thread |-> None]
    /\ out' = [t \in Thread |-> None]
    /\ mixed' = {}
    /\ at' = [p \in Player |-> Main]
    /\ doomed' = [p \in Player |-> None]
    /\ toMove' = [p \in Player |-> {}]
    /\ todo' = {} /\ pass' = 1
    /\ file' = [n \in Name |-> IF file[n] = Torn /\ \E t \in Thread : out[t] = n
                              THEN Cut ELSE file[n]]
    /\ UNCHANGED <<known, backups>>

-----------------------------------------------------------------------------

Start(p) ==
    \/ edit(p) \/ save(p) \/ quit(p)
    \/ \E n \in Name : revert(p, n) \/ join(p, n) \/ new(p, n) \/ del(p, n)

Continue(p) ==
    \/ \E v \in Value : setBlock(p, v)
    \/ SaveOpen(p) \/ SaveWrite(p) \/ RevertClear(p) \/ RevertFill(p)
    \/ Arrive(p) \/ SkipUnload(p) \/ UnloadOpen(p) \/ UnloadWrite(p)
    \/ UnloadFree(p)
    \/ NewFound(p) \/ NewGenerate(p) \/ Generated(p)
    \/ \E q \in Player : Evict(p, q)
    \/ Erase(p) \/ RemoveFile(p)

saveLoop ==
    \/ Wake \/ StoreWrite \/ backupLevel \/ BackupCopy \/ BackupFails \/ PassDone
    \/ \E n \in Name : StoreOpen(n)

Next ==
    \/ \E p \in Player : Start(p) \/ Continue(p)
    \/ Boot \/ Generated(Server) \/ saveLoop
    \/ Crash \/ serverShutdown

Spec == Init /\ [][Next]_vars

\* Threads are scheduled, saveLoop's sleep ends, and registryMutex is fair
\* enough that the saver gets it although players take it again and again.
FairSpec ==
    /\ Spec
    /\ \A p \in Player : WF_vars(Continue(p))
    /\ WF_vars(Boot \/ Generated(Server))
    /\ SF_vars(saveLoop)

-----------------------------------------------------------------------------
(* Properties. *)

\* /save and /revert write files outside registryMutex.
Calm == Commands \cap {"save", "revert"} = {}

\* While they are not used, a loaded level is always a complete one, or what an
\* earlier process left of it, and a file is incomplete only while it is being
\* written, one at a time: the critical sections keep loads, saves, unloads,
\* /new, /del and serverShutdown from meeting in a file.  So a process that
\* dies, whenever it does, costs the one level whose file was open.
LevelsWhole ==
    Calm =>
        /\ \A n \in Loaded : block[levels[n]] # Torn
        /\ \A n \in Name : file[n] = Torn => \E t \in Thread : out[t] = n
        /\ \A m, n \in Name : file[m] = Torn /\ file[n] = Torn => m = n

\* What a level is, wherever it is kept.
Version(n) == IF n \in Loaded THEN block[levels[n]] ELSE file[n]

\* The steps that may change what a level is: an edit, /new or the first start,
\* a /del, the end of the process, after which a level is what its file holds,
\* and an unload whose file a /del has taken away, or during which a handler
\* edited the level through a pointer it looked up before: the unload drops an
\* edit of a cell it has already read.
Alters(n) ==
    \/ \E t \in Thread :
        \/ pc[t] = "editing" /\ ptr[t] = levels[n] /\ Version(n)' \in Value
        \/ pc'[t] = "creating" /\ name'[t] = n
        \/ pc[t] = "creating" /\ name[t] = n
        \/ t \in Player /\ pc[t] \in {"deleting", "erased"} /\ doomed[t] = n /\ pc'[t] # pc[t]
        \/ pc[t] = "freeing" /\ name[t] = n /\ (file[n] = None \/ n \in late)
    \/ pc'[Server] = "booting"

\* Otherwise loading, saving, backing up, unloading and the saves of
\* serverShutdown are invisible, whichever threads they run in and whatever
\* dirty says: an edit made before an unload reads the level is in its file, one
\* made while saveLoop or a shutdown saves it stays in memory.
VersionsKept ==
    [][Calm => \A n \in Name : Version(n)' # Version(n) => Alters(n)]_vars

\* The backups that are complete: the last one may be in the making.
Finished(n) ==
    IF pc[Server] = "copying" /\ name[Server] = n
    THEN Len(backups[n]) - 1 ELSE Len(backups[n])

\* A backup once made is never changed, renumbered or lost, whatever is
\* reverted, deleted, created again under the same name, or killed.
BackupsKept ==
    [][\A n \in Name : \A i \in 1 .. Finished(n) :
            i \in DOMAIN backups'[n] /\ backups'[n][i] = backups[n][i]]_vars

\* main stays where it is in memory until the process ends, so that nobody
\* ever edits, saves or reverts it through a pointer that leads elsewhere:
\* whoever left it last, whatever is deleted, it is neither unloaded nor erased.
MainStays ==
    [][levels[Main] # None => levels'[Main] = levels[Main] \/ pc'[Server] = "booting"]_vars

\* What the players made of the main level reaches its file, or is
\* replaced before: no edit falls between saveLoop's reads and the reset of
\* the dirty flag, since what is saved does not depend on that flag.
MainHolds(v) == Main \in Loaded /\ block[levels[Main]] = v
MainSaved ==
    \A v \in Value : MainHolds(v) ~> (file[Main] = v \/ ~ MainHolds(v))

-----------------------------------------------------------------------------
(* What a help text says and the code does not keep.                     *)

\* "Deletes a world with world file with given name": a file that is not there
\* comes into being by /new (or the first start) only.
DelStays ==
    [][\A n \in Name : file[n] = None /\ file'[n] # None =>
            \E t \in Thread : pc'[t] = "creating" /\ name'[t] = n]_vars
=============================================================================
