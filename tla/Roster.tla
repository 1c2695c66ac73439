------------------------------- MODULE Roster -------------------------------
(***************************************************************************)
(* The life of a connection (handlePlayer in main.cpp) and the map         *)
(* `players` all connections share: login against the player database,     *)
(* the user name check, the assignment of a player id, the packet loop     *)
(* with the commands that reach other players (/kick, /op, /deop, /ban,    *)
(* /unban), and the way out.                                               *)
(*                                                                         *)
(* One Session is one handlePlayer thread.  Every critical section on      *)
(* playersMutex is one step, and what a thread does on its own Player      *)
(* between two steps is merged with the next.  A closed session may        *)
(* connect again: it stands for the next connection accepted, with a new   *)
(* Player object.                                                          *)
(*                                                                         *)
(* Of the player database this module keeps the steps the rights depend    *)
(* on: the search for a row, its INSERT and the read of the record in      *)
(* loginPlayer, the UPDATE of setOp and setBanned.  Accounts has the       *)
(* statements one by one; it shows when a name leads to the row of another *)
(* account, and that case, and the failure of an UPDATE, are choices here. *)
(***************************************************************************)
EXTENDS Naturals, FiniteSets

CONSTANTS
    Session,    \* connection threads
    Username,   \* names clients log in with (case matters)
    Account,    \* rows the player database may hold
    AccountOf,  \* the row a name resolves to (COLLATE NOCASE: not injective)
    OpsFile,    \* names listed in ops.txt
    Blacklist,  \* names listed in blacklist.txt
    IdLimit,    \* number of ids assignId hands out: 127 in the code
    Commands,   \* the operator commands in use
    None        \* no session, no name

FullId == 255   \* what assignId returns when all ids are taken

ASSUME RosterAssumption ==
    /\ AccountOf \in [Username -> Account]
    /\ OpsFile \subseteq Username
    /\ Blacklist \subseteq Username
    /\ IdLimit \in Nat \ {0} /\ IdLimit <= FullId
    /\ Commands \subseteq {"kick", "op", "deop", "ban", "unban"}
    /\ None \notin Session /\ None \notin Username \cup Account

VARIABLES
    pc,            \* where each handlePlayer thread is
    username,      \* Player::username
    id,            \* Player::id
    isOP,          \* sessions with Player::isOP set
    isBanned,      \* sessions with Player::isBanned set (written, never read)
    recOp,         \* sessions whose login record has isOp set (local `rec`)
    disconnected,  \* sessions with Player::disconnected set
    dismissed,     \* sessions sent a Disconnect packet (0x0e)
    cmd,           \* the command a session is in the middle of
    players,       \* the map `players`: None where there is no key
    rows,          \* accounts with a row in table players
    ops,           \* accounts with is_op = 1
    bans,          \* accounts with is_banned = 1
    astray,        \* history: accounts whose INSERT failed or met another, as
                   \* in Accounts: their names may lead to any row
    unsaved,       \* history: accounts with an /op whose UPDATE failed
    missed,        \* history: sessions a /ban could not reach, see ban, and
                   \* those that came in on another account's record
    late           \* history: sessions another of their name overtook, see Register

object == <<username, id, isOP, isBanned, recOp, disconnected, dismissed, missed>>
database == <<rows, ops, bans, astray, unsaved>>
vars == <<pc, object, cmd, players, late, database>>

Ids == 0 .. (IdLimit - 1)
Key == Ids \cup {FullId}
NoCommand == [kind |-> "none", who |-> None]

\* A session between its insertion into `players` and its removal.
Online == {"joining", "serving", "handling", "scanning", "leaving"}
\* A session whose record was read and that was not turned away.
PastLogin == Online \cup {"lookup", "checked"}
\* A session inside loginPlayer.
LoggingIn == {"inserting", "reading"}
Stage == PastLogin \cup LoggingIn \cup {"closed", "stopping"}

TypeOK ==
    /\ pc \in [Session -> Stage]
    /\ username \in [Session -> Username \cup {None}]
    /\ \A s \in Session : username[s] = None => pc[s] = "closed"
    /\ id \in [Session -> Key \cup {0}]
    /\ isOP \subseteq Session /\ isBanned \subseteq Session
    /\ recOp \subseteq Session
    /\ disconnected \subseteq Session /\ dismissed \subseteq Session
    /\ cmd \in [Session -> [kind : {"none", "op", "deop", "ban"},
                            who : Username \cup {None}]]
    /\ players \in [Key -> Session \cup {None}]
    /\ rows \subseteq Account /\ ops \subseteq Account /\ bans \subseteq Account
    /\ astray \subseteq Account /\ unsaved \subseteq Account
    /\ missed \subseteq Session /\ late \subseteq Session

\* The database is what earlier runs of the server (or a hand edit) left; all
\* names in it still lead to their own rows.
Init ==
    /\ pc = [s \in Session |-> "closed"]
    /\ username = [s \in Session |-> None]
    /\ id = [s \in Session |-> 0]
    /\ isOP = {} /\ isBanned = {} /\ recOp = {}
    /\ disconnected = {} /\ dismissed = {}
    /\ cmd = [s \in Session |-> NoCommand]
    /\ players = [k \in Key |-> None]
    /\ rows \in SUBSET Account
    /\ ops \in SUBSET rows
    /\ bans \in SUBSET rows
    /\ astray = {} /\ unsaved = {} /\ missed = {} /\ late = {}

-----------------------------------------------------------------------------
(* Reading the map. *)

\* The keys under which a player of that name is registered, and the one a
\* walk over the (ordered) map meets first.
KeysOf(n) == {k \in Key : players[k] # None /\ username[players[k]] = n}
FirstNamed(n) ==
    players[CHOOSE k \in KeysOf(n) : \A j \in KeysOf(n) : k <= j]

\* Fault: the loop over ids runs one too far.
FreeIds_OneTooMany == {k \in 0 .. IdLimit : k \in Key => players[k] = None}

FreeIds == {k \in Ids : players[k] = None}

\* Fault: the next id is the number of players.
assignId_Count ==
    LET n == Cardinality({k \in Key : players[k] # None})
    IN  IF n < IdLimit THEN n ELSE FullId

\* Fault: an id that was given back is not given out again before the end.
assignId_Ascending ==
    LET free == {k \in FreeIds : \A j \in Ids : players[j] # None => j < k}
    IN  IF free = {} THEN FullId ELSE CHOOSE k \in free : \A j \in free : k <= j

assignId ==
    IF FreeIds = {} THEN FullId
                    ELSE CHOOSE k \in FreeIds : \A j \in FreeIds : k <= j

\* enqueue on a player drops the packet once the player is disconnected.
sendDisconnect(s) == dismissed' = dismissed \cup ({s} \ disconnected)

Goto(s, stage) == pc' = [pc EXCEPT ![s] = stage]

\* closesocket and delete player.
Discard(s) ==
    /\ Goto(s, "closed")
    /\ username' = [username EXCEPT ![s] = None]
    /\ id' = [id EXCEPT ![s] = 0]
    /\ isOP' = isOP \ {s}
    /\ isBanned' = isBanned \ {s}
    /\ recOp' = recOp \ {s}
    /\ disconnected' = disconnected \ {s}
    /\ dismissed' = dismissed \ {s}
    /\ missed' = missed \ {s}

-----------------------------------------------------------------------------
(* Coming in. *)

\* findPlayerRowid: the rows that a name of account a leads to.
Finds(a) == IF a \in astray THEN rows ELSE {a} \cap rows

\* recvPlayerId read an identification whose verKey matches; the two files
\* set the flags of the new Player, and loginPlayer looks for its row.  (With a
\* broken pipe or a wrong key the thread ends before it touches anything shared.)
recvPlayerId(s, n) ==
    /\ pc[s] = "closed"
    /\ \/ Finds(AccountOf[n]) # {} /\ Goto(s, "reading")
       \/ AccountOf[n] \notin rows /\ Goto(s, "inserting")
    /\ username' = [username EXCEPT ![s] = n]
    /\ isOP' = IF n \in OpsFile THEN isOP \cup {s} ELSE isOP
    /\ isBanned' = IF n \in Blacklist THEN isBanned \cup {s} ELSE isBanned
    /\ UNCHANGED <<id, recOp, disconnected, dismissed, missed, cmd, players, late,
                   database>>

\* The INSERT of a first login: it makes the row, and the record that is read is
\* this row's; or it fails, on UNIQUE or otherwise, or meets another INSERT, and
\* last_insert_rowid leads anywhere.
InsertPlayer(s) ==
    LET account == AccountOf[username[s]] IN
    /\ pc[s] = "inserting"
    /\ Goto(s, "reading")
    /\ \/ account \notin rows /\ rows' = rows \cup {account} /\ UNCHANGED astray
       \/ rows' \in {rows, rows \cup {account}} /\ astray' = astray \cup {account}
    /\ UNCHANGED <<object, cmd, players, late, ops, bans, unsaved>>

\* loginPlayer returns a copy of the record, an empty one where the rowid leads
\* nowhere; a banned record ends the connection.
loginPlayer(s) ==
    LET account == AccountOf[username[s]] IN
    /\ pc[s] = "reading"
    /\ \E record \in Finds(account) \cup (IF account \in astray THEN {None} ELSE {}) :
          IF record \in bans
          THEN Discard(s)
          ELSE /\ Goto(s, "lookup")
               /\ recOp' = IF record \in ops THEN recOp \cup {s} ELSE recOp
               /\ missed' = IF record = account THEN missed ELSE missed \cup {s}
               /\ UNCHANGED <<username, id, isOP, isBanned, disconnected, dismissed>>
    /\ UNCHANGED <<cmd, players, late, database>>

\* Fault: a name that is taken is waited for.
CheckName_Waits(s) ==
    /\ pc[s] = "lookup"
    /\ KeysOf(username[s]) = {}
    /\ Goto(s, "checked")
    /\ UNCHANGED <<object, cmd, players, late, database>>

\* Fault: a refused login leaves by the common way out.
CheckName_Erases(s) ==
    /\ pc[s] = "lookup"
    /\ IF KeysOf(username[s]) # {}
       THEN Discard(s) /\ players' = [players EXCEPT ![id[s]] = None]
       ELSE Goto(s, "checked") /\ UNCHANGED <<object, players>>
    /\ UNCHANGED <<cmd, late, database>>

\* First critical section: refuse a name that is already in the map.
CheckName(s) ==
    /\ pc[s] = "lookup"
    /\ IF KeysOf(username[s]) # {}
       THEN Discard(s)
       ELSE Goto(s, "checked") /\ UNCHANGED object
    /\ UNCHANGED <<cmd, players, late, database>>

\* The sessions that found the name of s free, and are still to enter the map.
Overtaken(s) == {t \in Session \ {s} : pc[t] = "checked" /\ username[t] = username[s]}

\* Second critical section: take an id and enter the map.  The operator flag
\* of the login record has just replaced the one from ops.txt (and the record
\* is not looked at again).
Register(s) ==
    /\ pc[s] = "checked"
    /\ Goto(s, "joining")
    /\ isOP' = IF s \in recOp THEN isOP \cup {s} ELSE isOP \ {s}
    /\ recOp' = recOp \ {s}
    /\ id' = [id EXCEPT ![s] = assignId]
    /\ players' = [players EXCEPT ![assignId] = s]
    /\ late' = late \cup Overtaken(s)
    /\ UNCHANGED <<username, isBanned, disconnected, dismissed, missed, cmd, database>>

\* Identification, level, greetings and spawns have been sent.
EnterLoop(s) ==
    /\ pc[s] = "joining"
    /\ Goto(s, "serving")
    /\ UNCHANGED <<object, cmd, players, late, database>>

-----------------------------------------------------------------------------
(* The packet loop and the operator commands. *)

\* The loop found `disconnected` unset and popped a whole packet.  The flag may
\* be set from here on: the packet is handled all the same.
TakePacket(s) ==
    /\ pc[s] = "serving" /\ s \notin disconnected
    /\ Goto(s, "handling")
    /\ UNCHANGED <<object, cmd, players, late, database>>

\* Chat, a move, a block, a command that is refused or reads only.
OtherPacket(s) ==
    /\ pc[s] = "handling"
    /\ Goto(s, "serving")
    /\ UNCHANGED <<object, cmd, players, late, database>>

\* The sender of command c passes the isOP test.
MayRun(s, c) == pc[s] = "handling" /\ s \in isOP /\ c \in Commands

kick(s, n) ==
    /\ MayRun(s, "kick")
    /\ n # username[s]
    /\ KeysOf(n) # {}
    /\ Goto(s, "serving")
    /\ sendDisconnect(FirstNamed(n))
    /\ UNCHANGED <<username, id, isOP, isBanned, recOp, disconnected, missed, cmd,
                   players, late, database>>

\* /op, /deop and /ban change the database first; the name must lead to a row,
\* setOp and setBanned fail otherwise.  Whether the UPDATE worked is not asked.
StartScan(s, c, n) ==
    /\ MayRun(s, c)
    /\ Goto(s, "scanning")
    /\ cmd' = [cmd EXCEPT ![s] = [kind |-> c, who |-> n]]
    /\ UNCHANGED <<username, id, isOP, isBanned, recOp, disconnected, dismissed,
                   players, late, rows, astray>>

\* Fault: only the flag of the player who is online is set.
op_Unsaved(s, n) ==
    /\ StartScan(s, "op", n)
    /\ Finds(AccountOf[n]) # {}
    /\ UNCHANGED <<ops, unsaved, bans, missed>>

op(s, n) ==
    /\ StartScan(s, "op", n)
    /\ \E a \in Finds(AccountOf[n]) :
          \/ ops' = ops \cup {a} /\ UNCHANGED unsaved
          \/ a \notin ops /\ unsaved' = unsaved \cup {AccountOf[n]} /\ UNCHANGED ops
    /\ UNCHANGED <<bans, missed>>

deop(s, n) ==
    /\ StartScan(s, "deop", n)
    /\ \E a \in Finds(AccountOf[n]) : ops' \in {ops, ops \ {a}}
    /\ UNCHANGED <<bans, unsaved, missed>>

\* The sessions that are past their login into an account.
SessionsOf(a) == {t \in Session : pc[t] \in PastLogin /\ AccountOf[username[t]] = a}

\* /ban n, which leads to account a, can reach a session that is alone in that
\* account, online under exactly that name, and has a key of its own.
Reaches(n, a) ==
    \E t \in Session :
        /\ SessionsOf(a) = {t}
        /\ pc[t] \in Online /\ username[t] = n /\ id[t] # FullId

ban(s, n) ==
    /\ StartScan(s, "ban", n)
    /\ \E a \in Finds(AccountOf[n]) :
          \/ /\ bans' = bans \cup {a}
             /\ missed' = IF Reaches(n, a) THEN missed ELSE missed \cup SessionsOf(a)
          \/ UNCHANGED <<bans, missed>>
    /\ UNCHANGED <<ops, unsaved>>

unban(s, n) ==
    /\ MayRun(s, "unban")
    /\ \E a \in Finds(AccountOf[n]) : bans' \in {bans, bans \ {a}}
    /\ Goto(s, "serving")
    /\ UNCHANGED <<object, cmd, players, late, rows, ops, astray, unsaved>>

\* Fault: the scan passes over players that are still being sent the level.
ScanPlayers_Settled(s) ==
    LET n == cmd[s].who
        found == KeysOf(n) # {} /\ pc[FirstNamed(n)] # "joining"
    IN
    /\ pc[s] = "scanning"
    /\ Goto(s, "serving")
    /\ cmd' = [cmd EXCEPT ![s] = NoCommand]
    /\ isOP' = CASE cmd[s].kind = "op" /\ found -> isOP \cup {FirstNamed(n)}
                 [] cmd[s].kind = "deop" /\ found -> isOP \ {FirstNamed(n)}
                 [] OTHER -> isOP
    /\ IF cmd[s].kind = "ban" /\ found
       THEN sendDisconnect(FirstNamed(n)) ELSE UNCHANGED dismissed
    /\ UNCHANGED <<username, id, isBanned, recOp, disconnected, missed, players, late,
                   database>>

\* ... and then, in a critical section of its own, the first player of that
\* exact name in the map, if there is one.
ScanPlayers(s) ==
    LET n == cmd[s].who IN
    /\ pc[s] = "scanning"
    /\ Goto(s, "serving")
    /\ cmd' = [cmd EXCEPT ![s] = NoCommand]
    /\ IF KeysOf(n) = {}
       THEN UNCHANGED <<isOP, dismissed>>
       ELSE \/ /\ cmd[s].kind = "op"
               /\ isOP' = isOP \cup {FirstNamed(n)}
               /\ UNCHANGED dismissed
            \/ /\ cmd[s].kind = "deop"
               /\ isOP' = isOP \ {FirstNamed(n)}
               /\ UNCHANGED dismissed
            \/ /\ cmd[s].kind = "ban"
               /\ sendDisconnect(FirstNamed(n))
               /\ UNCHANGED isOP
    /\ UNCHANGED <<username, id, isBanned, recOp, disconnected, missed, players, late,
                   database>>

-----------------------------------------------------------------------------
(* Going out. *)

\* The receiver thread saw the end of the stream, or the input overflowed.
Hangup(s) ==
    /\ pc[s] \in Online
    /\ disconnected' = disconnected \cup {s}
    /\ UNCHANGED <<pc, username, id, isOP, isBanned, recOp, dismissed, missed, cmd,
                   players, late, database>>

\* Fault: the loop ends on a broken connection only after a Disconnect packet.
NoticeHangup_Dismissed(s) ==
    /\ pc[s] = "serving" /\ s \in disconnected \cap dismissed
    /\ Goto(s, "leaving")
    /\ UNCHANGED <<object, cmd, players, late, database>>

\* The packet loop polls the flag.
NoticeHangup(s) ==
    /\ pc[s] = "serving" /\ s \in disconnected
    /\ Goto(s, "leaving")
    /\ UNCHANGED <<object, cmd, players, late, database>>

\* An unknown packet id makes the server end the session itself.
UnknownPacket(s) ==
    /\ pc[s] = "handling"
    /\ sendDisconnect(s)
    /\ Goto(s, "leaving")
    /\ UNCHANGED <<username, id, isOP, isBanned, recOp, disconnected, missed, cmd,
                   players, late, database>>

\* Fault: the entry stays in the map.
Leave_Forgets(s) ==
    /\ pc[s] = "leaving"
    /\ Goto(s, "stopping")
    /\ UNCHANGED <<object, cmd, players, late, database>>

\* players.erase(player->id), whoever the entry belongs to.
Leave(s) ==
    /\ pc[s] = "leaving"
    /\ Goto(s, "stopping")
    /\ players' = [players EXCEPT ![id[s]] = None]
    /\ late' = late \ {s}
    /\ UNCHANGED <<object, cmd, database>>

\* Sender stopped, socket closed, Player deleted.
Finish(s) ==
    /\ pc[s] = "stopping"
    /\ Discard(s)
    /\ UNCHANGED <<cmd, players, late, database>>

-----------------------------------------------------------------------------

\* What a handler thread does without waiting for its client.
Handler(s) ==
    \/ InsertPlayer(s) \/ loginPlayer(s) \/ CheckName(s) \/ Register(s)
    \/ OtherPacket(s) \/ UnknownPacket(s) \/ ScanPlayers(s)
    \/ NoticeHangup(s) \/ Leave(s) \/ Finish(s)
    \/ \E n \in Username :
          kick(s, n) \/ op(s, n) \/ deop(s, n) \/ ban(s, n) \/ unban(s, n)

\* What a client makes happen; it enters the loop once it took the level.
Client(s) ==
    \/ EnterLoop(s) \/ TakePacket(s) \/ Hangup(s)
    \/ \E n \in Username : recvPlayerId(s, n)

Next == \E s \in Session : Handler(s) \/ Client(s)

Spec == Init /\ [][Next]_vars

\* Threads are scheduled, and the loops under playersMutex end as long as the
\* clients in the map read what they are sent: then a handler that can step
\* without its own client does, and sending the level to a socket whose peer
\* is gone fails instead of waiting.  Clients owe nothing else.
FairSpec ==
    /\ Spec
    /\ \A s \in Session :
          /\ WF_vars(Handler(s))
          /\ WF_vars(s \in disconnected /\ EnterLoop(s))

-----------------------------------------------------------------------------
(* Properties. *)

\* An entry of `players` always leads to a live Player that knows its key:
\* no broadcast or command ever dereferences a deleted player.
RosterSound ==
    \A k \in Key : players[k] # None =>
        id[players[k]] = k /\ pc[players[k]] \in Online

\* From its registration to its removal a session that got a real id is in
\* the map under it, so every broadcast and command in between reaches it.
SlotOwned ==
    \A s \in Session : pc[s] \in Online /\ id[s] # FullId => players[id[s]] = s

\* Two players that are online together never carry the same real id, which
\* is what their packets are told apart by at every client.
DistinctIds ==
    \A s, t \in Session :
        pc[s] \in Online /\ pc[t] \in Online /\ id[s] = id[t] /\ id[s] # FullId
            => s = t

\* Two players of one name are online together only if their logins overlapped
\* in that one window, or the entry of one was lost because ids had run out: no
\* order of exits, kicks and later logins makes the name check miss a player.
NameShared ==
    \A s, t \in Session :
        /\ s # t /\ username[s] = username[t]
        /\ pc[s] \in Online /\ pc[t] \in Online
        => {s, t} \cap late # {} \/ FullId \in {id[s], id[t]}

\* A real id changes hands only through the exit of the session that holds
\* it: nobody is pushed out of the map or removed by another's exit.
OnlyHolderVacates ==
    [][\A k \in Ids : players[k] # None /\ players'[k] # players[k]
            => pc[players[k]] = "leaving" /\ players'[k] = None]_vars

\* The ids are given out as seats are: one that is free, and the shared FullId
\* only while all are held by players who are online.  No id leaks on any of
\* the ways out.
Seats == INSTANCE Seating WITH
    Person <- Session, Seat <- Ids, Standing <- FullId,
    inside <- {s \in Session : pc[s] \in Online},
    seat <- [s \in Session |-> IF pc[s] \in Online THEN id[s] ELSE FullId]
SeatingSpec == Seats!Spec

\* While nobody is ever deopped, an operator flag in a session is backed by the
\* database, whatever ops.txt says, although it is set from a copy of the record
\* that is read before the name check, and by an /op in a scan after its UPDATE.
\* Apart are accounts whose first login went wrong, which come in on the record
\* of others, and those whose /op could not be written.
FlagBacked ==
    \A s \in Session :
        pc[s] \in Online /\ s \in isOP =>
            AccountOf[username[s]] \in ops \cup astray \cup unsaved

\* A banned player whom the /ban could reach (see Reaches) is never left
\* undisturbed: it was told to go, its connection is broken, or the /ban that
\* will tell it is still at work.  So nobody comes in on a banned record of its
\* own, the scan finds exactly the session the ban was for, and no later login,
\* exit or /unban makes a ban hit the wrong session or none.
BanReaches ==
    \A s \in Session \ missed :
        pc[s] \in PastLogin /\ AccountOf[username[s]] \in bans =>
            \/ s \in dismissed \cup disconnected
            \/ \E t \in Session :
                  pc[t] = "scanning" /\ cmd[t] = [kind |-> "ban", who |-> username[s]]

\* A connection that broke is always cleaned up: its handler comes back from
\* whatever it is doing, gives the id back and deletes the player.
HangupEnds == \A s \in Session : (s \in disconnected) ~> (pc[s] = "closed")

\* A login is always answered: refused, or let into the map.
LoginResolves ==
    \A s \in Session : (pc[s] \in LoggingIn) ~> (pc[s] \in Online \cup {"closed"})

-----------------------------------------------------------------------------
(* What the documentation, the messages and the comments claim and the code *)
(* does not keep.                                                           *)

\* A name is online at most once: "Username '...' already taken".
UniqueNames ==
    \A s, t \in Session :
        pc[s] \in Online /\ pc[t] \in Online /\ username[s] = username[t] => s = t

\* "You may want to give yourself admin abilities to the server. To do that,
\* create a new `ops.txt` file next to the executable, then write in your
\* nickname": where nobody is deopped, whoever is listed and plays is an operator.
OpsFileCounts ==
    "deop" \notin Commands =>
        \A s \in Session : pc[s] \in Online /\ username[s] \in OpsFile => s \in isOP
=============================================================================
