------------------------------ MODULE Presence ------------------------------
(***************************************************************************)
(* Who sees whom.  Every client shows the players it was told to spawn and *)
(* not yet told to despawn; the server tells it when a player joins,       *)
(* leaves, or is moved to another level by switchWorld (level.cpp), which  *)
(* /join, /main, /tp and /del call.                                        *)
(*                                                                         *)
(* switchWorld is not atomic: it reads the old level, despawns the player  *)
(* in one critical section on playersMutex, writes currentLevel without    *)
(* any lock, sends the level, and spawns the player in a second critical   *)
(* section.  /tp runs all of it inside the mutex and passes the target's   *)
(* currentLevel by reference; /del runs it for players of other threads.   *)
(*                                                                         *)
(* A Player is a player id with the thread that serves it.  Ids are        *)
(* distinct while they are online (Roster!DistinctIds).                    *)
(***************************************************************************)
EXTENDS Naturals, FiniteSets

CONSTANTS
    Player,  \* player ids, each with its handlePlayer thread
    World,   \* levels that exist
    Main,    \* the level a player starts on
    Moves,   \* commands in use: "join" (and /main), "tp", "del"
    None     \* no player, no world

ASSUME PresenceAssumption ==
    /\ Main \in World
    /\ Moves \subseteq {"join", "tp", "del"}
    /\ None \notin Player /\ None \notin World
    /\ Player \cap World = {}

VARIABLES
    pc,        \* where each thread is
    level,     \* Player::currentLevel
    seen,      \* players whose entity a client shows
    subject,   \* the player a thread's switchWorld moves
    target,    \* switchWorld's targetName: a world, or (after /tp) the
               \*   player whose currentLevel the reference is bound to
    oldLevel,  \* switchWorld's oldLevel, handlePlayer's leftLevel
    toMove,    \* players /del still has to move
    doomed,    \* the level /del is about to remove
    holder,    \* thread that keeps playersMutex between two steps
    stray      \* history: players whose /tp was led astray, see SetLevel

switch == <<subject, target, oldLevel>>
deletion == <<toMove, doomed>>
vars == <<pc, level, seen, switch, deletion, holder, stray>>

\* Stages of a thread: in switchWorld, and as an owner of an entry of the map.
Switching == {"entered", "resolved", "despawned", "moved"}
Serving == {"serving", "emptying", "unloading"}
Listed == Switching \cup Serving \cup {"joining", "leaving"}
Stage == Listed \cup {"offline", "stopping"}

\* The keys of `players`.
Online == {p \in Player : pc[p] \in Listed}

TypeOK ==
    /\ pc \in [Player -> Stage]
    /\ level \in [Player -> World]
    /\ seen \in [Player -> SUBSET Player]
    /\ subject \in [Player -> Player \cup {None}]
    /\ target \in [Player -> World \cup Player \cup {None}]
    /\ \A t \in Player :
          pc[t] \in Switching => subject[t] # None /\ target[t] # None
    /\ oldLevel \in [Player -> World \cup {None}]
    /\ toMove \in [Player -> SUBSET Player]
    /\ doomed \in [Player -> World \cup {None}]
    /\ holder \in Player \cup {None}
    /\ stray \subseteq Player

Init ==
    /\ pc = [p \in Player |-> "offline"]
    /\ level = [p \in Player |-> Main]
    /\ seen = [p \in Player |-> {}]
    /\ subject = [p \in Player |-> None]
    /\ target = [p \in Player |-> None]
    /\ oldLevel = [p \in Player |-> None]
    /\ toMove = [p \in Player |-> {}]
    /\ doomed = [p \in Player |-> None]
    /\ holder = None
    /\ stray = {}

-----------------------------------------------------------------------------

Goto(t, stage) == pc' = [pc EXCEPT ![t] = stage]

\* playersMutex is recursive: its holder may lock it again.
MayLock(t) == holder \in {None, t}

\* The players, other than p, that a walk over the map finds on level w.
OthersOn(p, w) == {q \in Online \ {p} : level[q] = w}

\* Spawn (despawn) packets in both directions between p and each of others.
Meet(p, others) ==
    seen' = [q \in Player |->
                IF q = p THEN seen[q] \cup others
                ELSE IF q \in others THEN seen[q] \cup {p} ELSE seen[q]]
Part(p, others) ==
    seen' = [q \in Player |->
                IF q = p THEN seen[q] \ others
                ELSE IF q \in others THEN seen[q] \ {p} ELSE seen[q]]

\* What targetName reads now.
TargetName(t) == IF target[t] \in Player THEN level[target[t]] ELSE target[t]

-----------------------------------------------------------------------------
(* handlePlayer. *)

\* A new Player, on main, takes a free id and enters the map.
Register(p) ==
    /\ pc[p] = "offline" /\ MayLock(p)
    /\ Goto(p, "joining")
    /\ level' = [level EXCEPT ![p] = Main]
    /\ seen' = [seen EXCEPT ![p] = {}]
    /\ stray' = stray \ {p}
    /\ UNCHANGED <<switch, deletion, holder>>

\* The level is sent; spawns for everybody else on it.
JoinSpawn(p) ==
    /\ pc[p] = "joining" /\ MayLock(p)
    /\ Goto(p, "serving")
    /\ Meet(p, OthersOn(p, level[p]))
    /\ UNCHANGED <<level, switch, deletion, holder, stray>>

\* The loop ends; leftLevel is read before the mutex is taken ...
Disconnect(p) ==
    /\ pc[p] = "serving"
    /\ Goto(p, "leaving")
    /\ oldLevel' = [oldLevel EXCEPT ![p] = level[p]]
    /\ UNCHANGED <<level, seen, subject, target, deletion, holder, stray>>

\* ... then the player is erased and the others on that level are told.
Leave(p) ==
    /\ pc[p] = "leaving" /\ MayLock(p)
    /\ Goto(p, "stopping")
    /\ seen' = [q \in Player |-> IF q \in OthersOn(p, oldLevel[p])
                                 THEN seen[q] \ {p} ELSE seen[q]]
    /\ oldLevel' = [oldLevel EXCEPT ![p] = None]
    /\ UNCHANGED <<level, subject, target, deletion, holder, stray>>

\* The Player is deleted.  Nothing keeps a /del that still has a pointer to
\* it from using it afterwards; the model ends such a /del first.
Finish(p) ==
    /\ pc[p] = "stopping"
    /\ \A t \in Player : subject[t] # p /\ p \notin toMove[t]
    /\ Goto(p, "offline")
    /\ UNCHANGED <<level, seen, switch, deletion, holder, stray>>

-----------------------------------------------------------------------------
(* The commands. *)

\* /join and /main: to a level other than the current one.
join(p, w) ==
    /\ "join" \in Moves
    /\ pc[p] = "serving" /\ w # level[p]
    /\ Goto(p, "entered")
    /\ subject' = [subject EXCEPT ![p] = p]
    /\ target' = [target EXCEPT ![p] = w]
    /\ UNCHANGED <<level, seen, oldLevel, deletion, holder, stray>>

\* /tp to a player of another level: the mutex stays locked to the end, and
\* switchWorld gets a reference to the level name of the other player.
tp(p, q) ==
    /\ "tp" \in Moves
    /\ pc[p] = "serving" /\ holder = None
    /\ q \in Online \ {p} /\ level[q] # level[p]
    /\ Goto(p, "entered")
    /\ holder' = p
    /\ subject' = [subject EXCEPT ![p] = p]
    /\ target' = [target EXCEPT ![p] = q]
    /\ UNCHANGED <<level, seen, oldLevel, deletion, stray>>

\* /del collects the players of the level under the mutex, moves them one by
\* one without it, and then unloads the level and removes the file.
del(p, w) ==
    /\ "del" \in Moves
    /\ pc[p] = "serving" /\ w # Main /\ MayLock(p)
    /\ Goto(p, "emptying")
    /\ toMove' = [toMove EXCEPT ![p] = {q \in Online : level[q] = w}]
    /\ doomed' = [doomed EXCEPT ![p] = w]
    /\ UNCHANGED <<level, seen, switch, holder, stray>>

MoveNext(p, q) ==
    /\ pc[p] = "emptying" /\ q \in toMove[p]
    /\ Goto(p, "entered")
    /\ toMove' = [toMove EXCEPT ![p] = @ \ {q}]
    /\ subject' = [subject EXCEPT ![p] = q]
    /\ target' = [target EXCEPT ![p] = Main]
    /\ UNCHANGED <<level, seen, oldLevel, doomed, holder, stray>>

AllMoved(p) ==
    /\ pc[p] = "emptying" /\ toMove[p] = {}
    /\ Goto(p, "unloading")
    /\ UNCHANGED <<level, seen, switch, deletion, holder, stray>>

Unload(p) ==
    /\ pc[p] = "unloading"
    /\ Goto(p, "serving")
    /\ doomed' = [doomed EXCEPT ![p] = None]
    /\ UNCHANGED <<level, seen, switch, toMove, holder, stray>>

-----------------------------------------------------------------------------
(* switchWorld(subject[t], target[t]), run by thread t. *)

ReadOldLevel(t) ==
    /\ pc[t] = "entered"
    /\ Goto(t, "resolved")
    /\ oldLevel' = [oldLevel EXCEPT ![t] = level[subject[t]]]
    /\ UNCHANGED <<level, seen, subject, target, deletion, holder, stray>>

\* Fault: the arguments are reset too early.
DespawnOld_Resets(t) ==
    /\ pc[t] = "resolved" /\ MayLock(t)
    /\ Goto(t, "despawned")
    /\ Part(subject[t], OthersOn(subject[t], oldLevel[t]))
    /\ target' = [target EXCEPT ![t] = None]
    /\ UNCHANGED <<level, subject, oldLevel, deletion, holder, stray>>

DespawnOld(t) ==
    /\ pc[t] = "resolved" /\ MayLock(t)
    /\ Goto(t, "despawned")
    /\ Part(subject[t], OthersOn(subject[t], oldLevel[t]))
    /\ UNCHANGED <<level, switch, deletion, holder, stray>>

\* The players that were put on p's level by a /tp to p and not yet spawned
\* there: a new level for p changes what their switchWorld compares with.
LedBy(p) ==
    {subject[u] : u \in {v \in Player : pc[v] = "moved" /\ target[v] = p}}

\* currentLevel = targetName, under no lock of its own.  (stray: the player
\* that moves is where it is said to go, those it leads are not.)
SetLevel(t) ==
    /\ pc[t] = "despawned"
    /\ Goto(t, "moved")
    /\ level' = [level EXCEPT ![subject[t]] = TargetName(t)]
    /\ stray' = IF level[subject[t]] = TargetName(t)
                THEN stray \ {subject[t]}
                ELSE (stray \ {subject[t]}) \cup LedBy(subject[t])
    /\ UNCHANGED <<seen, switch, deletion, holder>>

SpawnNew(t) ==
    /\ pc[t] = "moved" /\ MayLock(t)
    /\ Goto(t, IF doomed[t] = None THEN "serving" ELSE "emptying")
    /\ Meet(subject[t], OthersOn(subject[t], TargetName(t)))
    /\ subject' = [subject EXCEPT ![t] = None]
    /\ target' = [target EXCEPT ![t] = None]
    /\ oldLevel' = [oldLevel EXCEPT ![t] = None]
    /\ holder' = None
    /\ UNCHANGED <<level, deletion, stray>>

\* Fault: currentLevel is written last, after the spawns.
SpawnEarly(t) ==
    /\ pc[t] = "despawned" /\ MayLock(t)
    /\ Goto(t, "moved")
    /\ Meet(subject[t], OthersOn(subject[t], TargetName(t)))
    /\ UNCHANGED <<level, switch, deletion, holder, stray>>
SetLevelLate(t) ==
    /\ pc[t] = "moved"
    /\ Goto(t, IF doomed[t] = None THEN "serving" ELSE "emptying")
    /\ level' = [level EXCEPT ![subject[t]] = TargetName(t)]
    /\ subject' = [subject EXCEPT ![t] = None]
    /\ target' = [target EXCEPT ![t] = None]
    /\ oldLevel' = [oldLevel EXCEPT ![t] = None]
    /\ holder' = None
    /\ UNCHANGED <<seen, deletion, stray>>
switchWorld_LevelLast(t) ==
    ReadOldLevel(t) \/ DespawnOld(t) \/ SpawnEarly(t) \/ SetLevelLate(t)

switchWorld(t) == ReadOldLevel(t) \/ DespawnOld(t) \/ SetLevel(t) \/ SpawnNew(t)

-----------------------------------------------------------------------------

Thread(p) ==
    \/ Register(p) \/ JoinSpawn(p) \/ Disconnect(p) \/ Leave(p) \/ Finish(p)
    \/ switchWorld(p) \/ AllMoved(p) \/ Unload(p)
    \/ \E w \in World : join(p, w) \/ del(p, w)
    \/ \E q \in Player : tp(p, q) \/ MoveNext(p, q)

Next == \E p \in Player : Thread(p)

Spec == Init /\ [][Next]_vars

-----------------------------------------------------------------------------
(* Properties. *)

\* No thread is moving p, and p went through its join.
Settled(p) ==
    /\ pc[p] \in Serving \cup {"leaving"}
    /\ \A t \in Player : subject[t] # p

\* Two players that have arrived on the same level see each other, however
\* their joins, moves, /tps and /dels overlapped: the writes of currentLevel
\* before the second critical section are what makes this true without a
\* lock around both.  The one exception is a /tp whose target changed level
\* between the write and the spawns, which then went to the wrong players.
AllMet ==
    \A p, q \in Player \ stray :
        p # q /\ Settled(p) /\ Settled(q) /\ level[p] = level[q]
            => q \in seen[p] /\ p \in seen[q]

-----------------------------------------------------------------------------
(* What comments of the code say and the code does not keep. *)

\* "despawn player for others on old level": a client shows nobody who has
\* gone or is settled on another level.
NoGhosts ==
    \A p, q \in Player :
        Settled(p) /\ q \in seen[p] =>
            q \in Online /\ (Settled(q) => level[q] = level[p])
===============================================================================
