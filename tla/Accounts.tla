------------------------------ MODULE Accounts ------------------------------
(***************************************************************************)
(* The three databases of the server (playerdb.cpp, worlddb.cpp,           *)
(* blocklog.cpp) and the threads that use them.  Every SQL statement       *)
(* commits on its own and is one step; the threads share one connection    *)
(* per database, and with it the connection's last_insert_rowid, which     *)
(* loginPlayer and createWorld read after their INSERT as if it were       *)
(* theirs.  playerDB is used without a lock, worldDB under registryMutex.  *)
(*                                                                         *)
(* What SQLite does is external: UNIQUE and FOREIGN KEY make an INSERT     *)
(* fail, OR IGNORE leaves a duplicate out, a successful INSERT sets        *)
(* last_insert_rowid, and LIMIT 1 returns any one match.  Who may use the  *)
(* operator commands is the business of Roster; levels are not unloaded    *)
(* here (Worlds does that).                                                *)
(*                                                                         *)
(* The code looks at no result of a statement that writes: each of them    *)
(* may fail here, for whatever reason (a full disk, a database in use), and *)
(* the thread goes on.  What only reads does not fail.                     *)
(***************************************************************************)
EXTENDS Naturals, FiniteSets, Sequences

CONSTANTS
    Thread,     \* connection threads
    Account,    \* user names up to case, which is how the database compares them
    Address,    \* addresses of clients
    Columns,    \* those of the columns is_op and is_banned that commands set
    Level, main,
    None        \* no thread, no name

ASSUME AccountsAssumption ==
    /\ Columns \subseteq {"is_op", "is_banned"}
    /\ main \in Level
    /\ None \notin Thread /\ None \notin Account

VARIABLES
    pc,         \* where each thread is
    username,   \* Player::username, up to case
    rowid,      \* the local `rowid` of loginPlayer, setOp, ...
    target,     \* the command or edit the thread is in the middle of
    playerRows, \* table players: row i belongs to account playerRows[i]
    flags,      \* rows and columns of it that are set
    aliases,    \* table player_aliases: pairs of row and alias
    ips,        \* table player_ips: pairs of row and address
    lastPlayer, \* last_insert_rowid of the connection to players.db
    worldRows,  \* table worlds: row i has the name worldRows[i]
    lastWorld,  \* last_insert_rowid of the connection to worlds.db
    files,      \* levels with a file in maps/
    levels,     \* LevelRegistry::levels
    worldId,    \* Level::worldId of those
    holder,     \* who holds registryMutex
    astray      \* history: accounts whose INSERT failed in loginPlayer, or met
                \* another thread's INSERT

locals == <<pc, username, rowid, target>>
players == <<playerRows, flags, aliases, ips, lastPlayer, astray>>
worlds == <<worldRows, lastWorld, files, levels, worldId, holder>>
vars == <<locals, players, worlds>>

PlayerRow == 1 .. Len(playerRows)
WorldRow == 1 .. Len(worldRows)
NoTarget == [account |-> None, column |-> None, value |-> FALSE, level |-> main]

LoggingIn == {"inserting", "reading", "aliasing", "addressing", "fetching"}
Stage == LoggingIn \cup {"out", "finding", "in", "updating", "wanting",
                         "creating", "created", "editing", "logging"}

\* The thread is inside loginPlayer's INSERT and read of last_insert_rowid.
FirstLogin == {"inserting", "reading"}

TypeOK ==
    /\ pc \in [Thread -> Stage]
    /\ username \in [Thread -> Account \cup {None}]
    /\ \A t \in Thread : pc[t] # "out" => username[t] # None
    /\ rowid \in [Thread -> Nat]
    /\ target \in [Thread -> [account : Account \cup {None}, column : Columns \cup {None},
                              value : BOOLEAN, level : Level]]
    /\ \A t \in Thread : pc[t] = "updating" => /\ rowid[t] \in PlayerRow
                                               /\ target[t].column \in Columns
    /\ playerRows \in Seq(Account)
    /\ flags \subseteq PlayerRow \X Columns
    /\ aliases \subseteq PlayerRow \X Account
    /\ ips \subseteq PlayerRow \X Address
    /\ IsFiniteSet(aliases) /\ IsFiniteSet(ips)
    /\ lastPlayer \in Nat
    /\ worldRows \in Seq(Level) /\ lastWorld \in Nat
    /\ files \subseteq Level /\ levels \subseteq files
    /\ worldId \in [Level -> Nat]
    /\ holder \in Thread \cup {None}
    /\ astray \subseteq Account

\* New databases; the server has not loaded the main level yet.
Init ==
    /\ pc = [t \in Thread |-> "out"]
    /\ username = [t \in Thread |-> None]
    /\ rowid = [t \in Thread |-> 0]
    /\ target = [t \in Thread |-> NoTarget]
    /\ playerRows = <<>> /\ flags = {} /\ aliases = {} /\ ips = {} /\ lastPlayer = 0
    /\ worldRows = <<>> /\ lastWorld = 0
    /\ files = {} /\ levels = {} /\ worldId = [w \in Level |-> 0] /\ holder = None
    /\ astray = {}

-----------------------------------------------------------------------------
(* Statements. *)

Goto(t, stage) == pc' = [pc EXCEPT ![t] = stage]

\* A command or an edit is over, and its locals with it.
Done(t) ==
    /\ Goto(t, "in")
    /\ rowid' = [rowid EXCEPT ![t] = 0]
    /\ target' = [target EXCEPT ![t] = NoTarget]
    /\ UNCHANGED username

HasAccount(a) == \E r \in PlayerRow : playerRows[r] = a

\* The rows findPlayerRowid may return: by name or by alias, up to case.
Matches(a) ==
    {r \in PlayerRow : playerRows[r] = a \/ <<r, a>> \in aliases}

\* ... or 0 where there is none.
findPlayerRowid(a) == IF Matches(a) = {} THEN {0} ELSE Matches(a)

\* The first logins of other threads that an INSERT of t falls into.
Crossing(t) ==
    {username[u] : u \in {v \in Thread \ {t} : pc[v] \in FirstLogin}}

\* An INSERT of t makes r the last_insert_rowid of players.db.
Inserted(t, r) ==
    /\ lastPlayer' = r
    /\ astray' = astray \cup Crossing(t)

NotInserted == UNCHANGED <<lastPlayer, astray>>

\* Fault: foreign keys are not switched on.
InsertRelation_Unchecked(t, table, row) ==
    /\ table' = table \cup {row}
    /\ IF row \in table THEN NotInserted ELSE Inserted(t, Cardinality(table) + 1)

\* INSERT OR IGNORE into a table whose rows refer to a player.  Whether an
\* INSERT that fails, on the FOREIGN KEY or otherwise, moves last_insert_rowid
\* is left open.
InsertRelation(t, table, row) ==
    \/ /\ table' = table
       /\ NotInserted
    \/ /\ row \notin table
       /\ table' = table \/ (row[1] \in PlayerRow /\ table' = table \cup {row})
       /\ Inserted(t, Cardinality(table) + 1)

-----------------------------------------------------------------------------
(* loginPlayer *)

Connect(t, a) ==
    /\ pc[t] = "out" /\ main \in levels
    /\ Goto(t, "finding")
    /\ username' = [username EXCEPT ![t] = a]
    /\ UNCHANGED <<rowid, target, players, worlds>>

\* The UPDATE of last_seen changes nothing that is modelled.
Find(t, r) ==
    /\ pc[t] = "finding"
    /\ r \in findPlayerRowid(username[t])
    /\ rowid' = [rowid EXCEPT ![t] = r]
    /\ Goto(t, IF r = 0 THEN "inserting" ELSE "aliasing")
    /\ UNCHANGED <<username, target, players, worlds>>

\* The result of the INSERT is not looked at: it fails where the name has got a
\* row meanwhile, and may fail anywhere.
InsertPlayer(t) ==
    LET r == Len(playerRows) + 1
        name == username[t] IN
    /\ pc[t] = "inserting"
    /\ \/ /\ ~HasAccount(name)
          /\ playerRows' = Append(playerRows, name)
          /\ Inserted(t, r)
       \/ /\ UNCHANGED playerRows
          /\ \/ lastPlayer' = lastPlayer /\ astray' = astray \cup {name}
             \/ lastPlayer' = r /\ astray' = astray \cup {name} \cup Crossing(t)
    /\ Goto(t, "reading")
    /\ UNCHANGED <<username, rowid, target, flags, aliases, ips, worlds>>

\* Fault: the id of the new row is not read.
ReadRowid_Not(t) ==
    /\ pc[t] = "reading"
    /\ Goto(t, "aliasing")
    /\ UNCHANGED <<username, rowid, target, players, worlds>>

ReadRowid(t) ==
    /\ pc[t] = "reading"
    /\ rowid' = [rowid EXCEPT ![t] = lastPlayer]
    /\ Goto(t, "aliasing")
    /\ UNCHANGED <<username, target, players, worlds>>

InsertAlias(t) ==
    /\ pc[t] = "aliasing"
    /\ InsertRelation(t, aliases, <<rowid[t], username[t]>>)
    /\ Goto(t, "addressing")
    /\ UNCHANGED <<username, rowid, target, playerRows, flags, ips, worlds>>

InsertAddress(t, ip) ==
    /\ pc[t] = "addressing"
    /\ InsertRelation(t, ips, <<rowid[t], ip>>)
    /\ Goto(t, "fetching")
    /\ UNCHANGED <<username, rowid, target, playerRows, flags, aliases, worlds>>

\* getById, and what handlePlayer makes of the record: a banned player is sent
\* away, a record that was not found bans nobody.
GetRecord(t) ==
    /\ pc[t] = "fetching"
    /\ rowid' = [rowid EXCEPT ![t] = 0]
    /\ IF <<rowid[t], "is_banned">> \in flags
       THEN Goto(t, "out") /\ username' = [username EXCEPT ![t] = None]
       ELSE Goto(t, "in") /\ UNCHANGED username
    /\ UNCHANGED <<target, players, worlds>>

Leave(t) ==
    /\ pc[t] = "in"
    /\ Goto(t, "out")
    /\ username' = [username EXCEPT ![t] = None]
    /\ UNCHANGED <<rowid, target, players, worlds>>

-----------------------------------------------------------------------------
(* setOp and setBanned, of any name. *)

FindTarget(t, a, r, c, v) ==
    /\ pc[t] = "in"
    /\ r \in Matches(a)
    /\ rowid' = [rowid EXCEPT ![t] = r]
    /\ target' = [target EXCEPT ![t] = [NoTarget EXCEPT !.account = a,
                                                        !.column = c, !.value = v]]
    /\ Goto(t, "updating")
    /\ UNCHANGED <<username, players, worlds>>

\* Fault: UPDATE without its WHERE.
Update_All(t) ==
    /\ pc[t] = "updating"
    /\ LET cells == PlayerRow \X {target[t].column} IN
       flags' = IF target[t].value THEN flags \cup cells ELSE flags \ cells
    /\ Done(t)
    /\ UNCHANGED <<playerRows, aliases, ips, lastPlayer, astray, worlds>>

Update(t) ==
    /\ pc[t] = "updating"
    /\ LET cell == <<rowid[t], target[t].column>> IN
       \/ flags' = IF target[t].value THEN flags \cup {cell} ELSE flags \ {cell}
       \/ UNCHANGED flags
    /\ Done(t)
    /\ UNCHANGED <<playerRows, aliases, ips, lastPlayer, astray, worlds>>

-----------------------------------------------------------------------------
(* getOrLoad *)

Names(i, w) == i \in WorldRow /\ worldRows[i] = w
HasRow(w) == \E i \in WorldRow : worldRows[i] = w
RowOf(w) == CHOOSE i \in WorldRow : worldRows[i] = w

\* The level is made, with its file where there was none, and registered.
Publish(w, i) ==
    /\ levels' = levels \cup {w}
    /\ files' = files \cup {w}
    /\ worldId' = [worldId EXCEPT ![w] = i]

\* /new looks for the file before it calls getOrLoad.
new(t, w) ==
    /\ pc[t] = "in" /\ w \notin files
    /\ target' = [target EXCEPT ![t] = [NoTarget EXCEPT !.level = w]]
    /\ Goto(t, "wanting")
    /\ UNCHANGED <<username, rowid, players, worlds>>

\* Fault: what is not in the registry is inserted.
FindWorld_Inserts(t) ==
    /\ pc[t] = "wanting" /\ holder = None
    /\ IF target[t].level \in levels
       THEN Done(t) /\ UNCHANGED holder
       ELSE /\ Goto(t, "creating")
            /\ holder' = t
            /\ UNCHANGED <<username, rowid, target>>
    /\ UNCHANGED <<players, worldRows, lastWorld, files, levels, worldId>>

\* getOrLoad(name, true): found in the registry, found in the table, or to be
\* inserted.
FindWorld(t) ==
    LET w == target[t].level IN
    /\ pc[t] = "wanting" /\ holder = None
    /\ IF w \in levels \/ HasRow(w)
       THEN /\ IF w \in levels THEN UNCHANGED <<files, levels, worldId>>
                               ELSE Publish(w, RowOf(w))
            /\ Done(t)
            /\ UNCHANGED holder
       ELSE /\ Goto(t, "creating")
            /\ holder' = t
            /\ UNCHANGED <<username, rowid, target, files, levels, worldId>>
    /\ UNCHANGED <<players, worldRows, lastWorld>>

\* createWorld's INSERT.  It may fail (a full disk, a database in use), which
\* is logged and otherwise not noticed.
InsertWorld(w) ==
    \/ /\ ~HasRow(w)
       /\ worldRows' = Append(worldRows, w)
       /\ lastWorld' = Len(worldRows) + 1
    \/ UNCHANGED <<worldRows, lastWorld>>

createWorld(t) ==
    /\ pc[t] = "creating"
    /\ InsertWorld(target[t].level)
    /\ Goto(t, "created")
    /\ UNCHANGED <<username, rowid, target, players, files, levels, worldId, holder>>

Created(t) ==
    /\ pc[t] = "created"
    /\ Publish(target[t].level, lastWorld)
    /\ Done(t)
    /\ holder' = None
    /\ UNCHANGED <<players, worldRows, lastWorld>>

\* The main level, before there are other threads.
Boot ==
    /\ main \notin levels
    /\ IF HasRow(main)
       THEN Publish(main, RowOf(main)) /\ UNCHANGED <<worldRows, lastWorld>>
       ELSE InsertWorld(main) /\ Publish(main, lastWorld')
    /\ UNCHANGED <<locals, players, holder>>

-----------------------------------------------------------------------------
(* Set block. *)

\* getOrLoad(currentLevel): a level that is not loaded needs row and file.
edit(t, w) ==
    /\ pc[t] = "in" /\ holder = None
    /\ \/ w \in levels /\ UNCHANGED <<files, levels, worldId>>
       \/ w \in files \ levels /\ HasRow(w) /\ Publish(w, RowOf(w))
    /\ target' = [target EXCEPT ![t] = [NoTarget EXCEPT !.level = w]]
    /\ Goto(t, "editing")
    /\ UNCHANGED <<username, rowid, players, worldRows, lastWorld, holder>>

\* Fault: the row that is found is not used.
FindEditor_Unused(t, r) ==
    /\ pc[t] = "editing"
    /\ r \in findPlayerRowid(username[t])
    /\ Goto(t, "logging")
    /\ UNCHANGED <<username, rowid, target, players, worlds>>

FindEditor(t, r) ==
    /\ pc[t] = "editing"
    /\ r \in findPlayerRowid(username[t])
    /\ rowid' = [rowid EXCEPT ![t] = r]
    /\ Goto(t, "logging")
    /\ UNCHANGED <<username, target, players, worlds>>

\* Nobody reads the table: what the row <<user, world>> says is judged when it
\* is appended (LogTrue), and then left out.
LogRow(t) == [user |-> rowid[t], world |-> worldId[target[t].level]]

logBlockChange(t) ==
    /\ pc[t] = "logging"
    /\ Done(t)
    /\ UNCHANGED <<players, worlds>>

-----------------------------------------------------------------------------

\* The process dies.  What was committed stays, and so do the files.
Crash ==
    /\ main \in levels
    /\ pc' = [t \in Thread |-> "out"]
    /\ username' = [t \in Thread |-> None]
    /\ rowid' = [t \in Thread |-> 0]
    /\ target' = [t \in Thread |-> NoTarget]
    /\ lastPlayer' = 0 /\ lastWorld' = 0
    /\ levels' = {} /\ worldId' = [w \in Level |-> 0] /\ holder' = None
    /\ UNCHANGED <<playerRows, flags, aliases, ips, worldRows, files, astray>>

Login(t) ==
    \/ \E a \in Account : Connect(t, a)
    \/ \E r \in 0 .. Len(playerRows) : Find(t, r)
    \/ InsertPlayer(t) \/ ReadRowid(t) \/ InsertAlias(t)
    \/ \E ip \in Address : InsertAddress(t, ip)
    \/ GetRecord(t) \/ Leave(t)

Command(t) ==
    \/ \E a \in Account, r \in PlayerRow, c \in Columns, v \in BOOLEAN :
          FindTarget(t, a, r, c, v)
    \/ Update(t)
    \/ \E w \in Level : new(t, w) \/ edit(t, w)
    \/ FindWorld(t) \/ createWorld(t) \/ Created(t)
    \/ \E r \in 0 .. Len(playerRows) : FindEditor(t, r)
    \/ logBlockChange(t)

Next == Boot \/ Crash \/ \E t \in Thread : Login(t) \/ Command(t)

Spec == Init /\ [][Next]_vars

-----------------------------------------------------------------------------
(* Properties. *)

\* Row r is the row of account a, or the account has gone astray: its INSERT in
\* loginPlayer failed, or met another thread's INSERT.
Owns(a, r) == (r \in PlayerRow /\ playerRows[r] = a) \/ a \in astray

\* A player is let in with its own record, and every alias leads to its own
\* account, unless the account went astray when it was made: reading
\* last_insert_rowid is safe but for that.
OwnRecord ==
    /\ \A t \in Thread :
          pc[t] \in {"aliasing", "addressing", "fetching"} => Owns(username[t], rowid[t])
    /\ \A e \in aliases : Owns(e[2], e[1])

\* Nobody is made an operator or banned, or stops being so, but the account
\* the command names, unless that account went astray when it was made.
RightsAsMeant ==
    [][\A r \in PlayerRow : \A c \in Columns :
          (<<r, c>> \in flags) # (<<r, c>> \in flags')
              => \E t \in Thread : /\ pc[t] = "updating"
                                   /\ Owns(target[t].account, r)]_vars

\* A loaded level that has a row goes by its id: registryMutex keeps the INSERT
\* and the read of last_insert_rowid of two createWorlds apart.
WorldIds ==
    \A w \in levels : HasRow(w) => Names(worldId[w], w)

\* What goes into the block log names the player and the level, unless the
\* account went astray when it was made, or the level's INSERT failed.
LogTrue ==
    \A t \in Thread : pc[t] = "logging" =>
        /\ Owns(username[t], LogRow(t).user)
        /\ HasRow(target[t].level) => Names(LogRow(t).world, target[t].level)
=============================================================================
