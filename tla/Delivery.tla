------------------------------ MODULE Delivery ------------------------------
(***************************************************************************)
(* How what is said to everybody reaches the clients, and the locks on the *)
(* way.  A broadcast walks the map `players` under playersMutex and puts   *)
(* a packet into every player's sendQueue, under that player's sendMutex.  *)
(* A sender thread per player flushes its queue into the socket and keeps  *)
(* sendMutex while it does, also while send() waits for a client that does *)
(* not read.  A level is sent around the queue, by the handler itself; /tp *)
(* does so with playersMutex held, and takes registryMutex as well.        *)
(* serverShutdown takes playersMutex, flushes the queues itself, and then  *)
(* saves the levels under registryMutex; it may run in a signal handler    *)
(* on any thread.                                                          *)
(*                                                                         *)
(* Messages said to everybody (chat, "joined the game", "left the game")   *)
(* are numbered in the order in which they are said.  Packets for a part   *)
(* of the players take the same locks and are not kept.  Nor is what a     *)
(* handler sends one client, for which it takes no mutex of the map; that  *)
(* such a packet may follow the goodbye of a shutdown is kept.             *)
(***************************************************************************)
EXTENDS Naturals, Sequences, FiniteSets

CONSTANTS
    Player,   \* player ids (keys of `players`), each with its two threads
    Room,     \* packets that fit a socket whose client does not read
    MaxSaid,  \* bound: messages said
    Struck,   \* threads a signal may be delivered to
    Commands, \* what goes on besides chat, see the ASSUME
    Saver,    \* as holders of a mutex: saveLoop,
    Sender,   \*   a player's sender thread,
    Down,     \*   and serverShutdown
    None      \* no thread, no player

Bye == 0        \* the Disconnect packet of a shutdown

ASSUME DeliveryAssumption ==
    /\ Player \subseteq Nat
    /\ Room \in Nat \ {0} /\ MaxSaid \in Nat
    /\ Commands \subseteq {"tp", "save", "shutdown"}
    /\ Player \cap {None, Saver, Sender, Down} = {}
    /\ None \notin {Saver, Sender, Down} /\ Down \notin {Saver, Sender}

VARIABLES
    pc,            \* where each handler is
    players,       \* keys of the map `players`
    todo,          \* players a handler's walk has yet to visit
    playersMutex,  \* who holds it: a player's handler, Down, or None
    registryMutex, \* likewise: Saver, for whoever has it for a while, or None
    sendMutex,     \* of each player: None, or in flushQueue: Sender, Down
    sendQueue,     \* Player::sendQueue
    wire,          \* packets in the socket, not yet read by the client
    broken,        \* connections whose client is gone; receiver thread and
                   \*   Player::disconnected follow, see enqueue
    shutting,      \* where serverShutdown is
    victim,        \* the thread it runs on, which does nothing else any more
    farewell,      \* players it has yet to disconnect
    flushing,      \* the player whose queue it flushes
    said,          \* history: messages said to everybody
    heard,         \* history: the last of them each client read
    trailing       \* history: handlers that sent a client more behind the
                   \*   Disconnect packet of the shutdown

locks == <<playersMutex, registryMutex>>
output == <<sendMutex, sendQueue, wire>>
shutdown == <<shutting, victim, farewell, flushing>>
history == <<said, heard, trailing>>
vars == <<pc, players, todo, locks, output, broken, shutdown, history>>

\* Stages in which a handler walks over the map.
Walks == {"telling", "parting", "meeting"}
\* ... and in which it keeps playersMutex.
Busy == Walks \cup {"arriving", "moving"}
Stage == Walks \cup {"away", "joining", "announcing", "idle", "arriving", "moving",
                     "stopping"}
Thread == ({"handler", "sender"} \X Player) \cup {<<"saver", 0>>, <<"main", 0>>}

TypeOK ==
    /\ pc \in [Player -> Stage]
    /\ players \subseteq {p \in Player : pc[p] # "away"}
    /\ todo \in [Player -> SUBSET Player]
    /\ playersMutex \in Player \cup {Down, None}
    /\ registryMutex \in {Saver, None}
    /\ sendMutex \in [Player -> {None, Sender, Down}]
    /\ sendQueue \in [Player -> Seq(Nat)]
    /\ wire \in [Player -> Seq(Nat)]
    /\ \A p \in Player : Len(wire[p]) <= Room
    /\ broken \subseteq Player
    /\ shutting \in {"no", "asked", "telling", "locking", "flushing", "over"}
    /\ victim \in Thread \cup {None}
    /\ farewell \subseteq players
    /\ flushing \in Player \cup {None}
    /\ shutting \in {"locking", "flushing"} => flushing # None
    /\ said \in Nat /\ heard \in [Player -> Nat] /\ trailing \subseteq Player
    \* No walk meets a player who has left the map.
    /\ \A t \in Player : pc[t] \in Walks => todo[t] \subseteq players

Init ==
    /\ pc = [p \in Player |-> "away"]
    /\ players = {}
    /\ todo = [p \in Player |-> {}]
    /\ playersMutex = None /\ registryMutex = None
    /\ sendMutex = [p \in Player |-> None]
    /\ sendQueue = [p \in Player |-> <<>>]
    /\ wire = [p \in Player |-> <<>>]
    /\ broken = {}
    /\ shutting = "no" /\ victim = None /\ farewell = {} /\ flushing = None
    /\ said = 0 /\ heard = [p \in Player |-> 0] /\ trailing = {}

-----------------------------------------------------------------------------

\* A thread runs until serverShutdown runs on it, or ends the process.
Runs(thread) == victim # thread /\ shutting # "over"
Handles(t) == Runs(<<"handler", t>>)

Goto(t, stage) == pc' = [pc EXCEPT ![t] = stage]

\* playersMutex is recursive; in switchWorld, /tp locks it again.
MayLock(t) == playersMutex = None

\* A walk goes through the map by id.
FirstOf(S) == CHOOSE p \in S : \A q \in S : p <= q

\* Fault: a queue is kept short.
enqueue_Bounded(q, m) ==
    sendQueue' = IF q \in broken \/ sendQueue[q] # <<>> THEN sendQueue
                 ELSE [sendQueue EXCEPT ![q] = Append(@, m)]

\* A packet for a broken connection goes nowhere: before its receiver has set
\* `disconnected` the packet is queued and send() loses it, afterwards enqueue
\* drops it.  (An input that overflows sets the flag as well, see Inbox; a client
\* who did that and still reads is promised no more than one who is gone.)
enqueue(q, m) ==
    sendQueue' = IF q \in broken THEN sendQueue
                 ELSE [sendQueue EXCEPT ![q] = Append(@, m)]

\* send() returns when the packet fits, or at once when the peer is gone.
Sendable(p) == p \in broken \/ Len(wire[p]) < Room

-----------------------------------------------------------------------------
(* Walks of a handler. *)

\* Fault: the mutex protects the snapshot of the map, not the walk.
Begin_Snapshot(t, S) ==
    /\ MayLock(t) /\ said < MaxSaid
    /\ said' = said + 1
    /\ todo' = [todo EXCEPT ![t] = S]
    /\ Goto(t, "telling")
    /\ UNCHANGED <<locks, output, broken, shutdown, heard, trailing>>

\* The mutex is taken and a message for everybody begins its walk over S.
Begin(t, S) ==
    /\ MayLock(t) /\ said < MaxSaid
    /\ playersMutex' = t
    /\ said' = said + 1
    /\ todo' = [todo EXCEPT ![t] = S]
    /\ Goto(t, "telling")
    /\ UNCHANGED <<registryMutex, output, broken, shutdown, heard, trailing>>

\* A walk of switchWorld goes over some others, and tells t about each.
MeetSome(t) ==
    \E others \in SUBSET (players \ {t}) :
        todo' = [todo EXCEPT ![t] = IF others = {} THEN {} ELSE others \cup {t}]

\* The next player on the walk gets its packet.
Visit(t) ==
    LET q == FirstOf(todo[t]) IN
    /\ Handles(t) /\ pc[t] \in Walks /\ todo[t] # {}
    /\ sendMutex[q] = None
    /\ todo' = [todo EXCEPT ![t] = @ \ {q}]
    /\ IF pc[t] = "telling" THEN enqueue(q, said) ELSE UNCHANGED sendQueue
    /\ UNCHANGED <<pc, players, locks, sendMutex, wire, broken, shutdown, history>>

\* The end of a walk.  A message has been said; or, in /tp, the despawns are
\* done and the level follows, or the spawns are, unloadIfEmpty follows once
\* registryMutex is free, and the mutex is given back.
WalkDone(t) ==
    /\ Handles(t) /\ pc[t] \in Walks /\ todo[t] = {}
    /\ \/ /\ pc[t] = "telling"
          /\ playersMutex' = None
          /\ Goto(t, IF t \in players THEN "idle" ELSE "stopping")
       \/ /\ pc[t] = "parting"
          /\ Goto(t, "moving")
          /\ UNCHANGED playersMutex
       \/ /\ pc[t] = "meeting" /\ registryMutex = None
          /\ playersMutex' = None
          /\ Goto(t, "idle")
    /\ UNCHANGED <<players, todo, registryMutex, output, broken, shutdown, history>>

-----------------------------------------------------------------------------
(* handlePlayer. *)

\* A new Player enters the map; its two threads are started.
Register(t) ==
    /\ shutting # "over" /\ pc[t] = "away" /\ MayLock(t)
    /\ Goto(t, "joining")
    /\ players' = players \cup {t}
    /\ heard' = [heard EXCEPT ![t] = said]
    /\ UNCHANGED <<todo, locks, output, broken, shutdown, said, trailing>>

\* The shutdown has said goodbye to p.
Dismissed(p) == playersMutex = Down /\ p \in players \ farewell

\* A packet from t's handler for q alone, which the mutex of the map has nothing
\* to do with.
SendAlone(t, q) == trailing' = IF Dismissed(q) THEN trailing \cup {t} ELSE trailing

\* getOrLoad; the identification and the level go straight into the socket:
\* the handler is done when the last part of them fits.
SendLevel(t) ==
    /\ Handles(t) /\ pc[t] = "joining" /\ registryMutex = None /\ Sendable(t)
    /\ Goto(t, "announcing")
    /\ SendAlone(t, t)
    /\ UNCHANGED <<players, todo, locks, output, broken, shutdown, said, heard>>

\* The spawn position, the level of a /join, the answer to a command, the
\* Disconnect packet for an unknown packet; or, in a /del, the main level for
\* another player: straight into the socket once it fits, or into the queue once
\* sendMutex is free.
Reply(t) ==
    /\ Handles(t) /\ pc[t] = "idle"
    /\ \E q \in players :
          /\ Sendable(q) \/ sendMutex[q] = None
          /\ SendAlone(t, q)
    /\ UNCHANGED <<pc, players, todo, locks, output, broken, shutdown, said, heard>>

\* "... joined the game"
Announce(t) ==
    /\ Handles(t) /\ pc[t] = "announcing"
    /\ Begin(t, players)
    /\ UNCHANGED players

\* Chat.
Speak(t) ==
    /\ Handles(t) /\ pc[t] = "idle" /\ t \notin broken
    /\ Begin(t, players)
    /\ UNCHANGED players

\* /tp keeps playersMutex from here to the end of switchWorld.
tp(t) ==
    /\ Handles(t) /\ pc[t] = "idle" /\ "tp" \in Commands
    /\ t \notin broken
    /\ MayLock(t) /\ players # {t}
    /\ playersMutex' = t
    /\ Goto(t, "arriving")
    /\ UNCHANGED <<players, todo, registryMutex, output, broken, shutdown, history>>

\* getOrLoad in switchWorld, under playersMutex.
Arrive(t) ==
    /\ Handles(t) /\ pc[t] = "arriving" /\ registryMutex = None
    /\ Goto(t, "parting")
    /\ MeetSome(t)
    /\ UNCHANGED <<players, locks, output, broken, shutdown, history>>

\* The level of a /tp, in the middle of switchWorld; whom the spawns go to is
\* decided after it.
MoveLevel(t) ==
    /\ Handles(t) /\ pc[t] = "moving" /\ Sendable(t)
    /\ Goto(t, "meeting")
    /\ MeetSome(t)
    /\ UNCHANGED <<players, locks, output, broken, shutdown, history>>

\* Fault: the player is erased before the mutex is taken.
Leave_Unlocked(t) ==
    /\ Handles(t) /\ pc[t] = "idle"
    /\ Goto(t, "stopping")
    /\ players' = players \ {t}
    /\ UNCHANGED <<todo, locks, output, broken, shutdown, history>>

\* The packet loop ends, on a broken connection or an unknown packet: the
\* player leaves the map, and "... left the game" goes to the others.
Leave(t) ==
    /\ Handles(t) /\ pc[t] = "idle"
    /\ Begin(t, players \ {t})
    /\ players' = players \ {t}

\* unloadIfEmpty, socket closed, Player deleted.  The code only sleeps 50 ms
\* for the sender thread; what happens if it is still in send() has no defined
\* outcome, and the model waits for it.
Close(t) ==
    /\ Handles(t) /\ pc[t] = "stopping" /\ registryMutex = None /\ sendMutex[t] = None
    /\ Goto(t, "away")
    /\ sendQueue' = [sendQueue EXCEPT ![t] = <<>>]
    /\ wire' = [wire EXCEPT ![t] = <<>>]
    /\ broken' = broken \ {t}
    /\ UNCHANGED <<players, todo, locks, sendMutex, shutdown, history>>

-----------------------------------------------------------------------------
(* flushQueue, in the sender thread and in serverShutdown. *)

\* Fault: the sender waits until there is more to send.
TakeQueue_Batches(p) ==
    /\ Runs(<<"sender", p>>) /\ pc[p] # "away"
    /\ sendMutex[p] = None /\ Len(sendQueue[p]) > 1
    /\ sendMutex' = [sendMutex EXCEPT ![p] = Sender]
    /\ UNCHANGED <<pc, players, todo, locks, sendQueue, wire, broken, shutdown, history>>

\* Fault: the sender thread waits for packets with sendMutex locked.
TakeQueue_WaitsInside(p) ==
    /\ Runs(<<"sender", p>>) /\ pc[p] # "away"
    /\ sendMutex[p] = None
    /\ sendMutex' = [sendMutex EXCEPT ![p] = Sender]
    /\ UNCHANGED <<pc, players, todo, locks, sendQueue, wire, broken, shutdown, history>>

\* The sender thread wakes up and finds packets.
TakeQueue(p) ==
    /\ Runs(<<"sender", p>>) /\ pc[p] # "away"
    /\ sendMutex[p] = None /\ sendQueue[p] # <<>>
    /\ sendMutex' = [sendMutex EXCEPT ![p] = Sender]
    /\ UNCHANGED <<pc, players, todo, locks, sendQueue, wire, broken, shutdown, history>>

\* The thread that flushes p's queue goes on.
Flushes(p) ==
    \/ sendMutex[p] = Sender /\ Runs(<<"sender", p>>)
    \/ sendMutex[p] = Down /\ shutting # "over"

\* Fault: a packet that send() could not deliver is tried again.
SendFront_Retries(p) ==
    /\ Flushes(p) /\ p \notin broken /\ Len(wire[p]) < Room
    /\ sendQueue' = [sendQueue EXCEPT ![p] = Tail(@)]
    /\ wire' = [wire EXCEPT ![p] = Append(@, Head(sendQueue[p]))]
    /\ sendMutex' = IF Len(sendQueue[p]) = 1 THEN [sendMutex EXCEPT ![p] = None]
                    ELSE sendMutex
    /\ shutting' = IF sendMutex[p] = Down /\ Len(sendQueue[p]) = 1 THEN "telling"
                   ELSE shutting
    /\ UNCHANGED <<pc, players, todo, locks, broken, victim, farewell, flushing, history>>

\* send, and pop: to a peer that is gone, the packet is lost.  After the last
\* one sendMutex is given back.
SendFront(p) ==
    /\ Flushes(p) /\ Sendable(p)
    /\ sendQueue' = [sendQueue EXCEPT ![p] = Tail(@)]
    /\ wire' = IF p \in broken THEN wire
               ELSE [wire EXCEPT ![p] = Append(@, Head(sendQueue[p]))]
    /\ sendMutex' = IF Len(sendQueue[p]) = 1 THEN [sendMutex EXCEPT ![p] = None]
                    ELSE sendMutex
    /\ shutting' = IF sendMutex[p] = Down /\ Len(sendQueue[p]) = 1 THEN "telling"
                   ELSE shutting
    /\ UNCHANGED <<pc, players, todo, locks, broken, victim, farewell, flushing, history>>

-----------------------------------------------------------------------------
(* The client. *)

\* The Disconnect packet is the last it will read.
Read(p) ==
    /\ pc[p] # "away" /\ wire[p] # <<>> /\ Head(wire[p]) # Bye
    /\ wire' = [wire EXCEPT ![p] = Tail(@)]
    /\ heard' = [heard EXCEPT ![p] = Head(wire[p])]
    /\ UNCHANGED <<pc, players, todo, locks, sendMutex, sendQueue, broken, shutdown, said,
                   trailing>>

Hangup(p) ==
    /\ pc[p] # "away" /\ p \notin broken /\ shutting # "over"
    /\ broken' = broken \cup {p}
    /\ wire' = [wire EXCEPT ![p] = <<>>]
    /\ UNCHANGED <<pc, players, todo, locks, sendMutex, sendQueue, shutdown, history>>

-----------------------------------------------------------------------------
(* saveLoop and serverShutdown. *)

SaverLocks ==
    /\ Runs(<<"saver", 0>>) /\ "save" \in Commands
    /\ registryMutex = None
    /\ registryMutex' = Saver
    /\ UNCHANGED <<pc, players, todo, playersMutex, output, broken, shutdown, history>>

SaverUnlocks ==
    /\ Runs(<<"saver", 0>>) /\ registryMutex = Saver
    /\ registryMutex' = None
    /\ UNCHANGED <<pc, players, todo, playersMutex, output, broken, shutdown, history>>

\* serverShutdown begins on a thread: by /shutdown on the operator's handler,
\* between packets; by a signal on any thread, wherever it is.
BeginShutdown(v) ==
    /\ shutting = "no"
    /\ \/ "shutdown" \in Commands /\ v[1] = "handler" /\ pc[v[2]] = "idle"
       \/ v \in Struck
    /\ v[1] \in {"handler", "sender"} => pc[v[2]] # "away"
    /\ shutting' = "asked" /\ victim' = v
    /\ UNCHANGED <<pc, players, todo, locks, output, broken, farewell, flushing, history>>

\* Fault: the levels are locked before the players.
ShutdownLocks_RegistryFirst ==
    \/ /\ shutting = "asked" /\ registryMutex = None
       /\ registryMutex' = Saver /\ victim # <<"saver", 0>>
       /\ UNCHANGED <<pc, players, todo, playersMutex, output, broken, shutdown, history>>
    \/ /\ shutting = "asked" /\ registryMutex = Saver
       /\ playersMutex = None
       /\ playersMutex' = Down /\ registryMutex' = None
       /\ shutting' = "telling" /\ farewell' = players
       /\ UNCHANGED <<pc, players, todo, output, broken, victim, flushing, history>>

\* It takes playersMutex, which its thread may hold already, for good.
ShutdownLocks ==
    /\ shutting = "asked"
    /\ playersMutex = None \/ victim = <<"handler", playersMutex>>
    /\ playersMutex' = Down
    /\ shutting' = "telling" /\ farewell' = players
    /\ UNCHANGED <<pc, players, todo, registryMutex, output, broken, victim, flushing,
                   history>>

\* Fault: the packet is left to the sender thread.
SayBye_Queues ==
    LET q == FirstOf(farewell) IN
    /\ shutting = "telling" /\ farewell # {}
    /\ sendMutex[q] = None
    /\ enqueue(q, Bye)
    /\ farewell' = farewell \ {q}
    /\ UNCHANGED <<pc, players, todo, locks, sendMutex, wire, broken, shutting, flushing,
                   victim, history>>

\* sendDisconnect for the next player, then flushQueue for it.
SayBye ==
    LET q == FirstOf(farewell) IN
    /\ shutting = "telling" /\ farewell # {}
    /\ sendMutex[q] = None
    /\ enqueue(q, Bye)
    /\ farewell' = farewell \ {q} /\ flushing' = q
    /\ shutting' = "locking"
    /\ UNCHANGED <<pc, players, todo, locks, sendMutex, wire, broken, victim, history>>

BeginFlush ==
    /\ shutting = "locking" /\ sendMutex[flushing] = None
    /\ IF sendQueue[flushing] = <<>>
       THEN /\ shutting' = "telling"
            /\ UNCHANGED sendMutex
       ELSE /\ shutting' = "flushing"
            /\ sendMutex' = [sendMutex EXCEPT ![flushing] = Down]
    /\ UNCHANGED <<pc, players, todo, locks, sendQueue, wire, broken, victim, farewell,
                   flushing, history>>

\* Everybody was told: saveAll, which waits for registryMutex, and exit.
SaveAndExit ==
    /\ shutting = "telling" /\ farewell = {} /\ registryMutex = None
    /\ shutting' = "over"
    /\ UNCHANGED <<pc, players, todo, locks, output, broken, victim, farewell, flushing,
                   history>>

-----------------------------------------------------------------------------

\* What a handler does once it has begun something.
HandlerGoesOn(t) ==
    Visit(t) \/ WalkDone(t) \/ SendLevel(t) \/ Arrive(t) \/ MoveLevel(t) \/ Close(t)

\* What a client, or the operator, makes a handler begin.
HandlerBegins(t) ==
    Register(t) \/ Announce(t) \/ Speak(t) \/ Reply(t) \/ tp(t) \/ Leave(t)

Sends(p) == TakeQueue(p) \/ SendFront(p)
Client(p) == Read(p) \/ Hangup(p)

serverShutdown == ShutdownLocks \/ SayBye \/ BeginFlush \/ SaveAndExit

Next ==
    \/ \E p \in Player :
          \/ HandlerGoesOn(p) \/ HandlerBegins(p)
          \/ Sends(p) \/ Client(p)
    \/ SaverLocks \/ SaverUnlocks
    \/ \E v \in Thread : BeginShutdown(v)
    \/ serverShutdown

Spec == Init /\ [][Next]_vars

\* Threads are scheduled.  Under contention a mutex is not kept from a waiting
\* thread for ever (SF).  A client reads what it is sent, or its connection
\* ends: nothing in the code does without that, since send() has no timeout.
FairSpec ==
    /\ Spec
    /\ \A p \in Player :
          SF_vars(HandlerGoesOn(p)) /\ WF_vars(Sends(p)) /\ WF_vars(Read(p))
    /\ WF_vars(SaverUnlocks)
    /\ SF_vars(serverShutdown)

-----------------------------------------------------------------------------
(* Properties. *)

\* Everybody hears the same messages in the same order, none left out in
\* between and none twice: walks do not overlap, and queue, sender and socket
\* keep the order, also when a client comes and goes.
ChatView == INSTANCE Chat WITH present <- {p \in Player : pc[p] # "away"}
ChatSpec == ChatView!Spec

InFlight(p) == {wire[p][i] : i \in DOMAIN wire[p]}
                  \cup {sendQueue[p][i] : i \in DOMAIN sendQueue[p]}

\* Whatever was said since a player came in is on its way to it, or has been
\* read, unless the walk that brings the last message has yet to reach it.
AllServed ==
    \A p \in players \ broken :
        \A n \in heard[p] + 1 .. said :
            \/ n \in InFlight(p)
            \/ n = said /\ \E t \in Player : pc[t] = "telling" /\ p \in todo[t]

\* "Stops the game disconnecting all players": when the process ends, every
\* client that was there has been sent the Disconnect packet, behind all it was told
\* of what everybody is told.  What may still follow it is for that client alone, and
\* comes from a handler the shutdown does not run on.
Farewell ==
    shutting = "over" =>
        /\ \A p \in players \ broken : wire[p] # <<>> /\ wire[p][Len(wire[p])] = Bye
        /\ \A t \in trailing : victim # <<"handler", t>>

\* serverShutdown runs on a thread that holds a mutex.
VictimHolds ==
    \/ \E p \in Player :
          \/ victim = <<"handler", p>> /\ playersMutex = p
          \/ victim = <<"sender", p>> /\ sendMutex[p] = Sender
    \/ victim = <<"saver", 0>> /\ registryMutex = Saver

\* A send to p returns once p's client reads: it has room, or something to read.
Drains(p) == Sendable(p) \/ Head(wire[p]) # Bye

\* Nobody waits for a lock in a circle.  Who has a sendMutex waits for nothing
\* but the client it sends to, and who has registryMutex for nothing; so the
\* handler that has playersMutex, also in a /tp, and the shutdown, which has it
\* to the end, wait for threads that go on, or for a client.
NoCircle ==
    ~VictimHolds /\ shutting # "over" =>
        /\ \A p \in Player :
              sendMutex[p] # None => sendQueue[p] # <<>> /\ Flushes(p) /\ Drains(p)
        /\ registryMutex = Saver => Runs(<<"saver", 0>>)
        /\ \A t \in Player :
              playersMutex = t => /\ Handles(t) /\ pc[t] \in Busy
                                  /\ pc[t] = "moving" => Drains(t)
        /\ \A p \in Player : sendMutex[p] = Down => playersMutex = Down

\* As long as clients read or hang up, playersMutex always comes back: no lock
\* is waited for in a circle, and a client that is gone holds nobody up.
MutexReturned == []<>(playersMutex \notin Player \/ VictimHolds)

\* What is said reaches everybody who is there, stays and reads.
Heard ==
    \A p \in Player, n \in 1 .. MaxSaid :
        (p \in players /\ n <= said)
            ~> \/ heard[p] >= n
               \/ p \notin players \/ p \in broken
               \/ shutting # "no"

\* A shutdown ends the process, if it runs on a thread that holds no mutex.
ShutdownEnds == (shutting = "asked" /\ ~VictimHolds) ~> (shutting = "over")
=============================================================================
