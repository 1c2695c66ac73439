# ccraft2: specifications, model checking and proofs

ccraft2 is a Minecraft Classic server: one process, one thread per connected
player, three threads of its own, three SQLite databases and a directory of
level files. This directory holds TLA+ modules translated from its C++ code, the
TLC configurations that check them on small instances, and TLAPS proofs about
them. Source paths below are relative to `src/src/`.

## 1. The system

| part | state | operations | shared with |
|---|---|---|---|
| connection handler (`main.cpp` `handlePlayer`) | one `Player` per connection | login, registration, packet loop, way out | everything below |
| player map (`player.hpp`, `main.cpp`) | `players`, `playersMutex` (recursive) | `assignId`, insert, erase, walks by every broadcast and command | all handlers, heartbeat, shutdown |
| commands (`commands.cpp`, `command.hpp`) | none | 20 commands, from chat lines that start with `/` | run in the sender's handler thread |
| visibility (`level.cpp` `switchWorld`, `packet.hpp`) | `Player::currentLevel`; what each client shows | spawns and despawns on join, leave, `/join`, `/main`, `/tp`, `/del` | handlers, through `players` |
| level registry (`level.hpp`) | `levels`, `registryMutex`, `Level::dirty` | `getOrLoad`, `unloadIfEmpty`, `saveAll` | handlers, `saveLoop`, shutdown |
| level files and backups (`level.hpp`, `level.cpp`) | `maps/*.lvl`, `maps/backups/*/N.lvl` | `save`, `load`, `backupLevel`, `/new`, `/del`, `/revert`, `/backtp` | handlers, `saveLoop`, the next process |
| player database (`playerdb.cpp`) | rows, aliases, `is_op`, `is_banned` | `loginPlayer`, `setOp`, `setBanned` | one connection, all handlers |
| world database, block log (`worlddb.cpp`, `blocklog.cpp`) | level rows; appended changes | `createWorld`, `getByName`; `logBlockChange` | handlers |
| queues of a connection (`player.hpp`) | input bytes (limit 65536), output packets | `pushByte`, `popExact`, `enqueue`, `flushQueue` | handler, receiver and sender thread |
| packets (`packet.hpp`, `packet.cpp`) | none | encoding, level compression, message wrapping | handlers |
| heartbeat, shutdown, config, socket, logger, md5 | little or none | | |

What is hard about it:

* **Interleavings.** A login, a level switch and a `/del` are each several
  critical sections with unlocked reads and writes in between, and other
  handlers run in the gaps.
* **Stale values.** A login acts on a copy of its database row; a `Level*` and a
  `Player*` are used after the mutex that protected them was given back.
* **Failure.** The process may die at any point of a save or of a backup; a
  client may hang up, or stop reading, at any point of a command.
* **Limits.** 127 player ids and an overflow id that is shared; a bounded input
  queue; numbered backups.
* **Liveness.** A broken connection must be cleaned up, a login answered, a mutex
  given back, an edit saved.

`PROJECT.json` lists the hazards line by line, with the properties that would
catch them, and the components that are not modelled, with the reasons.

What makes each part correct:

* player map: an entry leads to a live `Player`; real ids are unique and change
  hands only through their holder's exit; names are unique;
* login and operators: every login ends; without a `/deop` no flag outruns the
  database; a ban reaches whom it can;
* visibility: players that have arrived on one level see each other and nobody
  else;
* levels: nobody ever loads half a level; edits reach the file; a deleted level
  stays deleted;
* backups: append-only;
* databases: a login gets its own record; rights go to the account the command
  names; ids in the level registry and in the block log are the right ones;
* input: the handler is never out of step with its client, and ends when the
  connection does;
* output: all clients hear the same messages in the same order, without gaps; no
  client that is gone holds the others up; a shutdown tells everybody and ends.

## 2. Modules

| module | models | extended by |
|---|---|---|
| `Roster` | handlers, `players`, operator commands | `MCRoster`, `RosterProofs` |
| `Seating` | abstract: ids as seats; `Roster` implements it | |
| `Presence` | `switchWorld` and who sees whom | `MCPresence`, `Ghosts` |
| `Ghosts` | `Presence` with a history of spawns and despawns that go astray | `PresenceProofs` |
| `Worlds` | registry, files, backups, `saveLoop`, shutdown, restarts | `MCWorlds`, `WorldsProofs` |
| `Accounts` | the three databases and the threads that use them | `MCAccounts`, `AccountsProofs` |
| `Inbox` | input queue, receiver and handler thread of a connection | `MCInbox`, `InboxProofs` |
| `ByteStream` | abstract: a channel of whole parts; `Inbox` implements it | |
| `Delivery` | broadcasts, output queues, sender threads, mutexes, shutdown | `MCDelivery`, `DeliveryProofs` |
| `Chat` | abstract: one conversation for all; `Delivery` implements it | |
| `NatSets` | a lemma about least elements | `RosterProofs`, `DeliveryProofs` |

The `MC` modules only define the instances (sets of model values, symmetry);
the `Proofs` modules only hold theorems. `Ghosts` adds a history variable to
`Presence`: its `HSpec` is `Spec` with an `Observe` that says what the history is
after each step, so it neither adds behaviours nor takes any away, and every
theorem about `Spec` holds of it. Each module looks at one part of the
state of a connection: `Roster` at its way through login, map and commands,
`Inbox` and `Delivery` at its bytes and packets, `Presence` and `Worlds` at its
level, `Accounts` at its rows. They meet in `players` (`Presence` and `Delivery`
use ids that `Roster` shows to be distinct) and in `registryMutex` (`Worlds` and
`Accounts` say what happens under it, `Delivery` who waits for it).

### Roster

A `Session` is one `handlePlayer` thread; `pc` says where it is:

    closed --recvPlayerId--> (inserting --InsertPlayer-->) reading --loginPlayer-->
      lookup --CheckName--> checked
      --Register--> joining --EnterLoop--> serving <--> handling (--> scanning)
      --NoticeHangup / UnknownPacket--> leaving --Leave--> stopping --Finish--> closed

Every critical section on `playersMutex` is one step. Of the player database the
module keeps the steps that rights depend on: the search for a row (with
`recvPlayerId`), the INSERT of a first login (`InsertPlayer`), the read of the record
(`loginPlayer`), and a search with its UPDATE in a command; `Accounts` has the
statements one by one. What `Accounts` shows of them is a choice here: where the
INSERT failed or met another thread's, the account is in `astray`, and from then on
its name may lead to any row (`Finds`), in a login and in a command; an UPDATE may do
nothing. Work a thread does on its own `Player` is merged with a neighbouring step.
`players` is a function from keys to sessions or `None`;
`id`, `isOP`, `isBanned`, `disconnected` are the fields of the same names;
`recOp` is the operator flag of the local copy `rec`; `dismissed` is "has been
sent packet 0x0e". `rows`, `ops`, `bans` are the columns of the player database
that the handler uses, and `AccountOf` is name resolution with `COLLATE NOCASE`.
`ScanPlayers` is the second half of `/op`, `/deop` and `/ban`: the walk over the
map, in a critical section of its own, after the database was changed. A
`TakePacket` step separates the test of `disconnected` from the handling of the
packet, since the flag may be set in between.

`missed` is a history variable: the sessions that came in on the record of another
account, and those that, when a `/ban` of their account changed the database, it
could not reach (`Reaches`): because they were past the
reading of their record and not yet in the map, were online under the name in
another case, shared the account with another session, or had the overflow id.
The code does nothing about these: they play on. `unsaved` is another: the accounts
with an `/op` that set the flag of a session but not that of the database.

`blacklist.txt` sets `isBanned`, which nothing reads; the record decides. `ops.txt` sets
`isOP`, which `Register` overwrites with the flag of the record.

`late` is another: the sessions that had passed the name check when a session of the
same name entered the map (`Overtaken`), until they leave it.

`Seats` is the refinement mapping: persons inside are the sessions that are
`Online`, their seats the ids, and 255 is to stand.

Left out: the contents of packets, chat, positions. A login with a wrong key
ends before it touches shared state and is not modelled.

### Presence

A `Player` is an id with its thread. `level` is `currentLevel`, `seen[p]` is the
set of players that p's client was told to spawn and not to despawn. A
`switchWorld` runs as `ReadOldLevel`, `DespawnOld`, `SetLevel`, `SpawnNew`, the
second and fourth under `playersMutex`. Thread `t` moves `subject[t]` (itself,
or in `/del` somebody else) to `target[t]`, which after `/tp` is a *player*: the
code passes `target->currentLevel` by reference, so `TargetName` reads that
player's level again each time the code reads the parameter. `holder` is the
thread that keeps `playersMutex` between steps, which only `/tp` does. `/del`
is `del`, `MoveNext` for each player of its list, `AllMoved`, `Unload`.

`stray` is a history variable: the players that a `/tp` put on the level of a
target which changed its level before the spawns, which then compare with another
level than the one the player is on. They see nobody, and nobody sees them,
until their next move.

`blurred` (in `Ghosts`) holds the players that were spawned with somebody between
the despawn and the write of their own switch, or on a level they were not on,
or despawned on a level they were no longer on, until no client shows them and
they show nobody.

Left out: the messages, the level data, `getOrLoad` failing (`World` is the set
of levels that exist). The code lets `/del` use a `Player*` after the deletion
of that player; the model makes `Finish` wait, because what such a `/del` does
is undefined.

### Worlds

What a level holds is one value, that of any one of its cells: `Fresh` (`newFile`), one of `Value` (players'
work), or `Torn`, which stands for everything that is not a complete level: a
file that was truncated and not yet written, one that two streams write at a
time, freed memory, a level read from such a file. `levels` is the registry (a
pointer to an `Object`), `block` and `dirty` the fields of `Level`, `ptr[t]` a
`Level*` that thread t keeps. A `save` is two steps, `Open` (truncate) and
`Write`, the latter being the moment at which the cell is read; a stream whose file
was removed writes to nowhere. The critical
sections on `registryMutex` that contain a save keep `mutex` in between: an unload is
`UnloadOpen`, `UnloadWrite` (`freeing` from then on) and `UnloadFree`, which deletes and
erases. A handler that looked its `Level*` up before may edit the level in between; the
history variable `late` keeps the levels this happened to after their cell was read.
`/save` and `/revert` do not take it. A `Poke` through a pointer to a deleted
level is lost, or hits the level that was given the same memory.

`Server` is `main()` while it boots and `saveLoop` afterwards. `pass` 1 is
`saveAll`, `pass` 2 the loop of `saveLoop`, which also backs up: `backupLevel`
creates the next number, `BackupCopy` copies the file and resets `dirty`.
`serverShutdown` saves every level in one step under the mutex; where another
thread has the file open the result may be mixed. The other threads go on until
its `exit(0)`, which is a `Crash`: the process ends at any point, and the files
and the table of worlds stay.

A file that is being written when the process ends becomes `Cut`, and so does what
is read from it. The code cannot tell `Cut` from `Torn`; the properties can, so that
they say what a crash may cost. `Version(n)` is what level n is, wherever it is kept:
its object while it is loaded, its file otherwise.

Left out: which block changed, the walk over `players` that sends a reverted
level again, `/backtp` (reads only), a crash in the middle of a shutdown's own
`saveAll` (as far as files go, a crash in a pass of `saveLoop`), the locks that a
signal handler may find taken, files that cannot be opened other than the next
backup.

### Accounts

Every SQL statement commits on its own and is one step. The code looks at no result
of a statement that writes, so each of them may fail here, for whatever reason: UNIQUE,
a foreign key, a full disk, a database in use. `playerRows` and
`worldRows` are the tables with AUTOINCREMENT keys, `flags` the columns `is_op`
and `is_banned`, `aliases` and `ips` the relations of a player. `lastPlayer` and
`lastWorld` are `last_insert_rowid` of the two connections, which all threads
share: *any* successful INSERT on the connection sets it, also one into the
aliases. A login is `Connect`, `Find`, (`InsertPlayer`, `ReadRowid`),
`InsertAlias`, `InsertAddress`, `GetRecord`. `LIMIT 1` without an order is any match.
Whether an INSERT that fails moves `last_insert_rowid` is left open.
`astray` is a history variable: the accounts whose INSERT in a first login failed, or
had another thread's INSERT between itself and the read of `last_insert_rowid`, or
between the lookup and itself. Such a login may go on with the record, and the
rights, of another account, and its name becomes an alias of it for good.

`getOrLoad(name, true)` is `FindWorld`, `createWorld`, `Created` under
`registryMutex` (`holder`). createWorld's INSERT may fail, which the code does not
notice; the level then goes by whatever row id came last. A row of the block log
is judged when it is written, since nothing reads it.

Left out: reasons and dates, the functions that only read and that nothing
calls, databases that cannot be opened, what the levels hold.

### Inbox

One connection. The client sends bytes (their positions, 1, 2, ...), and may
hang up. The receiver thread takes up to `Chunk` of them with a `recv` and
pushes them one by one; the handler thread pops the parts of its packets. A
packet id is read as any known packet (`ReadId`) or as none (`UnknownPacket`).
`disconnected` and the size of the queue are read in separate steps, as the code
does. `stopSender`, `Delete` and the end of the receiver are there for what the
detached receiver does after `delete player`. `dropped` and `refused` are
history variables.

`Stream` is the refinement mapping to `ByteStream`: what was popped is what was
read, and the channel is over when the handler left its loop.

Left out: the values of the bytes, what a packet does (it may take any time).

### Delivery

Messages for everybody are numbered. `Begin` locks `playersMutex` and starts the
walk; `Visit` enqueues for the next player, which waits for that player's
`sendMutex`; `WalkDone` gives the mutex back. `TakeQueue` and `SendFront` are
`flushQueue` in the sender thread: `sendMutex` is held until the queue is empty,
also while the socket has no room (`Sendable`). `Read` and `Hangup` are the
client. `/tp` keeps `playersMutex` through `Arrive`, `Visit`s, `MoveLevel`,
`Visit`s and `WalkDone`. `serverShutdown` is `ShutdownLocks`, for each player
`SayBye`, `BeginFlush` and `SendFront`s, then `SaveAndExit`. It runs on a thread,
the `victim`: on the handler of an operator by `/shutdown`, or on any thread in
`Struck` by a signal, wherever that thread is; the victim does nothing else any
more, and keeps the mutexes it has. If it has `playersMutex`, it may lock it again,
since that one is recursive; the others are not.

Abstractions: packets for a part of the players (spawns, despawns, positions) and
the level take the same locks and room, and are not kept. Nor is what a handler sends
one client (`SendLevel`, `Reply`: identification, level, spawn position, answers to
commands, the Disconnect for an unknown packet; in a `/del` the main level for other
players): it takes no `playersMutex`, so it may follow the goodbye of a shutdown while
`saveAll` runs. `trailing`, a history variable, keeps which handlers did so. Where the
handler only takes `registryMutex` for a moment (`getOrLoad`, `unloadIfEmpty`) it
is one step that waits until the mutex is free; `Saver` stands for whoever holds
it longer. A connection whose client is gone (`broken`) loses its packets at
once, while the code queues them until the receiver sets `disconnected` and then
loses them in `send`. An input that overflows sets `disconnected` as well, on a client
that may still read: `enqueue` drops its packets from then on, and the model counts it
as gone. `Close` waits for the sender thread; the code sleeps 50 ms.
There is one shutdown.

`ChatView` is the refinement mapping: present are the players whose `Player`
exists, and each has heard what its client has read.

## 3. What the runs check

| run | instance | shows | states |
|---|---|---|---|
| `roster` | 3 sessions, 2 names of 1 account, 2 real ids, `/kick` `/deop` | `TypeOK`, `RosterSound`, `SlotOwned`, `DistinctIds`, `NameShared`, `OnlyHolderVacates`, `SeatingSpec` | 3.5 M |
| `roster_live` | 2 sessions, 1 real id, `/op` `/ban` `/unban`, ops.txt, failing statements | `FlagBacked`, `BanReaches`, `HangupEnds`, `LoginResolves` | 890 k |
| `presence` | 3 players, 2 levels, `/join` `/tp` `/del` | `TypeOK`, `AllMet` | 11.6 M |
| `worlds` | 2 players, 2 levels, edits, `/join` `/new` `/del`, shutdowns, crashes | `TypeOK`, `LevelsWhole`, `MainSaved`, `VersionsKept` | 1.4 M |
| `worlds_crash` | 1 player, 2 levels, all commands but edits, shutdowns, crashes | `BackupsKept`, `MainStays` | 6.8 M |
| `accounts` | 2 threads, 2 accounts, 2 levels, bans, failing statements, crashes | `TypeOK`, `OwnRecord`, `WorldIds`, `LogTrue`, `RightsAsMeant` | 6.2 M |
| `inbox` | a queue of 3 bytes, 2 packets, 9 bytes sent | `TypeOK`, `InStep`, `ReceiverEnds`, `StreamSpec`, `PartArrives`, `BrokenEnds` | 15 k |
| `delivery` | 2 players, sockets with room for 1 packet, 2 messages, `/tp`, a saver, shutdown by command or signal | `TypeOK`, `AllServed`, `Farewell`, `NoCircle`, `ChatSpec`, `MutexReturned`, `Heard`, `ShutdownEnds` | 296 k |

* `RosterSound`: no walk over `players` meets a deleted `Player`.
  `OnlyHolderVacates`: nobody's entry is overwritten or erased by somebody else,
  as long as the entry has a real id. For the overflow id 255 both happen.
  `SeatingSpec`: an id is free when it is given out, the overflow id is given out
  only when all are taken, and an id is kept until its session's exit.
* `NameShared`: the name check is wrong in one window only (`bug_names`). Two players
  of one name are online together because the login of one, in `late`, fell into
  it, or because the overflow id lost one of them its entry; no order of exits,
  kicks and later logins makes the check miss a player.
* `FlagBacked`: while nobody is deopped a session's flag does not outrun the database,
  although it is written three times, from `ops.txt`, from the copy of the record and
  by the walk of an `/op` that follows its UPDATE. Apart are the accounts in `astray`,
  which may play with the rights of another one, and those in `unsaved`.
* `BanReaches`: outside `missed`, a session with a banned record was told to go,
  broke, or has a `/ban` at work that will tell it. A ban and the walk that follows
  are two steps, and exits, logins and an `/unban` may come in between.
* `AllMet` holds although `currentLevel` is written outside the mutex, because
  each mover writes it *before* its spawn section: whoever is second there finds
  the other. The players in `stray` are the only exception.
* `LevelsWhole`: with loads, saves, unloads, `/new`, `/del` and shutdowns in any
  interleaving nobody loads a file that is being written. Files are written one at a
  time, so a crash costs one level, the one it leaves `Cut`, and no other. `/save`
  and `/revert` write outside the mutex and break this; the property says so in its
  hypothesis (`Calm`).
* `VersionsKept`: a level changes only by an edit, a `/new`, a `/del`, the end of the
  process, an unload that a `/del` overtook, or one during which a handler edited the
  level through a pointer it had before (`late`): such an edit, of a cell already
  written, is lost (`Alters`). Otherwise loading, saving, backing up and unloading are
  invisible, so a level that is unloaded and loaded again is the
  one it was. It needs `unloadIfEmpty` to save whatever `dirty` says, since
  `saveLoop` loses the flag.
* `MainStays`: `Level*` of the main level never dangle, as nothing frees it.
* `MainSaved`: `saveLoop` resets `dirty` without having seen a block that changed
  after its save, so a saver that trusted `dirty` would lose edits; this one saves
  every level each time. The lost flag costs only the backup.
* `BackupsKept`: complete backups stay under their numbers through `/revert`,
  `/del`, `/new` of the same name, and crashes in the middle of a backup. It says nothing
  of a file that `/save` and `saveLoop` write at a time.
* `OwnRecord`, `RightsAsMeant`: the unlocked statements of logins, bans and
  crashes in between never lead to another account's row, but for the accounts
  in `astray`. `WorldIds`, `LogTrue`: `registryMutex` is enough to make
  `last_insert_rowid` safe for levels; a failed INSERT is the only exception.
* `InStep`, `StreamSpec`: once a byte was dropped the receiver still pushes later
  ones, behind a gap. The handler may have tested `disconnected` before; it takes at
  most one more part, and the queue holds a whole part in front of the gap
  because it was full. `PartArrives`: the limit never keeps the handler waiting
  for bytes that were sent. `ReceiverEnds`: on a connection that broke by itself
  the receiver does not touch the deleted `Player`.
* `GhostsExplained` in `Ghosts` is proved (section 5) but in no run: the history makes
  three players too many for one. With the constants of `presence.cfg`, two players
  and `HSpec` TLC finds it true in 12 401 states.
* `ChatSpec`: the mutex around the walk, not the queues, makes the order the same
  for all. `AllServed` locates each message between the walk and the client.
  `NoCircle` is the lock order as an invariant: whoever holds a `sendMutex` waits
  for its client only, whoever holds `registryMutex` for nothing, and whoever holds
  `playersMutex` for those. `MutexReturned`: neither the nested locks of `/tp` nor a
  client that stops reading for a while or hangs up stops the server for good.
  `Heard` is what a player may expect of chat. `Farewell`, `ShutdownEnds`: a
  shutdown may strike a handler in the middle of a broadcast, and says goodbye to
  everybody behind all that was said to everybody. It is not the last packet a client
  may get: handlers that go on may send one client more, as `trailing` records, but
  never the handler the shutdown runs on. A signal on a thread that holds
  `registryMutex` or a `sendMutex` is excluded (`VictimHolds`): there the code waits
  for itself.

Each property has a mutant in its module (a definition commented "Fault") under
which TLC finds it violated.

Runs that find what a comment, a message or the documentation says violated:

| run | says | the code |
|---|---|---|
| `bug_names` | "Username '...' already taken" (`main.cpp:125`) | check and insertion are two critical sections; two logins both pass |
| `bug_ghost` | "despawn player for others on old level" (`level.cpp:89`) | who enters the old level between that section and the write of `currentLevel` keeps an entity for ever |
| `bug_ops` | "to give yourself admin abilities ... create a new `ops.txt` file ... then write in your nickname" (`../README.md:135`) | `main.cpp:139` overwrites the flag of ops.txt with that of the database record |
| `bug_del` | "Deletes a world with world file" (`commands.cpp:368`) | a level loaded between `erase` and `remove()` is saved again |

Noted while modelling, without a run of their own: `blacklist.txt` keeps nobody out,
although `../README.md:137` offers it "to prevent some players from joining to the
server"; `Level::load` sets `dirty` for every block (`level.hpp:104`), so a level that is
only loaded is backed up, although `../changelog.md:75` says "Backups are now saved only
if block changes in map are detected"; the sessions in `missed` play on
although `/ban` "Bans the given player from the server" (`commands.cpp:202`); the
players in `stray` are spawned to nobody although `level.cpp:114` says "others on
new level for new player, new player for them"; `/revert` with a level name and no
number prints the number of backups, while its help says it "reverts given level to
last backup" (`commands.cpp:495`); and it reports "saved as backup" a number that
saveLoop's next backup will get (`commands.cpp:547`, `:569`).

### Bounds and why they are enough

Two sessions show every race of two logins; a third is needed for the overflow
id to be shared while a real id is held, with `IdLimit` 2 (127 in the code:
the theorems of section 5 hold for any). Names: two, for two accounts. In
`roster_live` bob is an operator and not banned throughout (`BobIsOperator`, a
constraint): the commands come from him, and ann is the one who can go astray.
Three players are a mover, one it meets or follows, and one that interferes; two
levels are the old and the new one. In `Worlds` two levels are main, which is
never unloaded, and one that is; two objects are enough for both to be loaded, and
for the memory of a deleted one to be used again. `MaxBackups` 2 lets a backup
follow a complete one and a torn one. With `MaxBackups` 0 every backup fails, which
`worlds` uses to keep the state space finite; `dirty` is reset in that case too, as
in the code. `worlds_crash` leaves the edits to `worlds`: a level that is loaded is
dirty anyway, and a backup may hold a complete, a cut or a torn level without them.

In `Accounts` two threads are the one that reads `last_insert_rowid` and the one
that moves it; there are at most as many rows as names. The constraint `OnCourse` ends
a behaviour when both accounts have gone astray, after which nothing is claimed of
either, and leaves the second level to behaviours in which neither has, as levels and
accounts meet in the block log only. In `Inbox` the queue holds `Limit + 1` = 3 bytes, which is the longest part
(65 bytes in the code, against 65537), so that a full queue is exactly one part,
the tightest case; `MaxBytes` 9 is a full queue three times over. In `Delivery` a
socket has room for one packet and two messages are said: a message in the socket,
one in the queue and a walk that waits for the flush are the longest chain there is.
Two players are the one who speaks and the one who does not read.
`IdLimit`, `MaxBackups`, `MaxBytes`, `Limit`, `Chunk`, `Room`, `MaxSaid`, `Struck`,
`Commands`, `Columns` and `Moves` are the only bounds besides these two constraints, and
the proofs are for any value of them, without the constraints.

### Fairness

* `Roster`: threads are scheduled (`WF` of `Handler(s)`), which includes that
  the loops under `playersMutex` end: the clients in the map read what they are
  sent, or their connection breaks. `Delivery` shows that this follows
  (`MutexReturned`). A client itself owes nothing: it may never
  finish its login, never send a packet, or ignore a Disconnect; only when its
  connection is gone does sending it the level fail and let the handler go on.
* `Worlds`: threads are scheduled, `saveLoop`'s sleep ends, and the saver gets
  `registryMutex` in spite of players that take it again and again (`SF`):
  they hold it for one load or save between two packets, and it is free most of
  the time. A crash ends what `MainSaved` waits for: what was not saved is lost.
* `Inbox`: both threads are scheduled (`WF`); the client owes nothing. A packet
  takes finite time to handle.
* `Delivery`: handlers go on with what they began, and a thread that waits for a
  mutex that is free again and again gets it (`SF` of `HandlerGoesOn(p)` and of
  `serverShutdown`); sender threads run (`WF`), and `saveLoop` gives its mutex
  back. A client that is connected reads (`WF` of `Read`), or hangs up, which
  needs no fairness since it only shortens the wait: `send` has no timeout, and
  nothing in the code would help against a client that does neither. Nobody has to
  speak, join or leave.

## 4. Deadlock

TLC checks deadlock in every run but two: in `inbox` both threads of the
connection end, and in `delivery` a shutdown ends the process (or waits for ever
in its signal handler, see `VictimHolds`). The order in the code is
`playersMutex` (recursive) before `registryMutex` and before a player's `sendMutex`;
nothing takes them the other way round. `NoCircle` says that this, with the blocking
sends in between, is free of circles, and is proved for any number of players;
`MutexReturned` adds, with fairness, that the mutex does come back.

## 5. What is proved

For every value of the constants that satisfies the module's assumption:

* `RosterProofs!TypeCorrect`, one lemma (`TypeStep`) with one step per action.
  `AssignIdFree` gives what `assignId` returns: the least free id, or 255
  exactly when there is none. It needs the least element of a set of naturals
  (`LeastElement`, from well-foundedness of strict subset on finite sets).
* `RosterAlwaysSound`, `SlotAlwaysOwned`, `IdsAlwaysDistinct`,
  `IdsChangeHandsByExit` all follow from one inductive invariant, `MapAgrees`:
  an entry of `players` leads to an online session with that key as its id, and
  an online session with a real id is found under it. None of the four is
  inductive without the other half. `Register` preserves it because the id is
  free in the map and, by the second half, free among the online sessions;
  `Leave` because the entry erased is the session's own unless it has id 255.
  The assumption `IdLimit <= 255` keeps 255 apart from the real ids.
* `ImplementsSeating`: `Spec => SeatingSpec`, from `MapAgrees` too. Only `Register`
  and `Leave` change who is inside; all other steps stutter.
* `FlagAlwaysBacked` (no `/deop`): the invariant `RightsBacked` follows the flag from
  the record to the copy, the session, and an `/op` between its two halves; at each of
  them it is in the database, or its account is in `astray` or `unsaved` (`Backed`).
* `BansAlwaysReach`: the invariant `BansCaught` says of a banned session outside
  `missed`, which came in on its own record, that it is alone in its account, so that the walk, which takes the
  first player of the name, finds it, whatever logs in or out in between.
* `NamesSharedByOverlap`: the invariant `NamesAccounted` says of two sessions of one
  name, one of them online and the other past its name check, that one is in `late`
  or has the overflow id. `CheckName` preserves it because, by `MapAgrees`, an online
  session with a real id is in the map, where the check looks; `Register` because
  whoever of the name was only `checked` becomes late.
* `PresenceProofs!AllMeet`: `Spec => []AllMet`, with all commands.
  `AllMet` speaks of settled players and is not inductive. The invariant
  `ArrivedMet` is about players that have *arrived*: nobody still has to write
  their level, or to spawn them on the level they are on. Only `JoinSpawn` and
  `SpawnNew` create new pairs (`NoArrival`), and they look at everybody online;
  `SetLevel` takes a player out of the pairs it was in, and those it leads by a
  `/tp` into `stray`. `Referenced` says that a `/tp` uses its reference under the
  mutex only, so that its target cannot leave the map meanwhile.
* `GhostsAreExplained`: `HSpec => [](GhostsExplained /\ (blurred = {} => NoGhosts))`, so
  the windows in `blurred` are all there is to `bug_ghost`. The invariant
  `Explained` says that, `blurred` apart, whom a client shows is there, on its level,
  and that a player in transit neither shows nor is shown. A switch that despawns
  with the level it has read leaves the mover without pairs (`GhostDespawn`), so
  that writing the new level disturbs none (`GhostSetLevel`).

* `WorldsProofs!Soundness`: the inductive invariant `Sound` behind the other
  theorems about `Worlds`, one lemma per part. `TypeOK` is not inductive: that a
  thread never uses a null `Level*` needs `Operands`, and that the holder of
  `registryMutex` finds its level still loaded needs `Held`, which needs
  `Discipline` (a thread holds the mutex exactly in the stages of `Holding`).
* `LevelsAreWhole`: while `/save` and `/revert` are not among the commands,
  `Spec => []LevelsWhole`, with crashes and shutdowns. To the invariant come `Streams`
  (a file is open in a critical section only, by one thread, and an incomplete
  file is one that is open), `Memory` (no two names share an object, and nothing
  loaded is `Torn`) and `Aimed` (a stream leads to the file of the level its thread
  works on). A load takes a complete file because, the mutex being free, no stream
  is open; a save writes a complete level because `Memory` says so; a deleted level
  takes no other with it because objects are not shared. Two incomplete files would
  be open by two holders of one mutex.
* `VersionsAreKept`, under the same hypothesis and from the same invariant: a load
  makes `Version` move from the file to an object that is filled from it, an unload
  back again because the file was written from the object and nobody else could
  open it, so that file and object agree in `freeing` until an edit makes the level
  `late` (`Saved`), and a save touches the file of a level that is loaded.
* `MainAlwaysStays`: `Spec => MainStays`, for all commands. `NotMain` says that no
  thread is about to erase or to free the main level: `/del` and `unloadIfEmpty`
  test for it when they begin, and the name they keep does not change.
* `BackupsAreKept`: `Spec => BackupsKept` for all commands and with crashes.
  Two actions touch `backups` (`BackupWriters`): one appends, and the other fills
  the last, which `Finished` does not count while `pc[Server] = "copying"`.

* `AccountsProofs`: `OwnRecordAlways` and `RightsGoAsMeant` from `Sound`, whose part
  `ThreadSound` says for each stage of a login what the thread may count on: before
  its read, that `last_insert_rowid` is its row, unless the account is in `astray`.
  Another thread's step keeps this because an INSERT adds every first login it meets to
  `astray` (`OtherThread`), the own step because an INSERT that fails adds its account.
  `WorldIdsAlways` and `LogAlwaysTrue` from `WorldSound`: who creates a level holds
  `registryMutex` from its lookup to the read of the row id.
* `InboxProofs`: `AlwaysInStep` and `Implements` from `Flow`: before a byte is dropped
  the queue holds exactly what was pushed and not taken; afterwards, if the
  handler is still about to pop, the first `Limit + 1` bytes of the queue have no
  gap. The assumption that no part is longer than `Limit + 1` is used there.
  `ReceiverHasEnded` needs `Ending`: `disconnected` is set only when the receiver is
  done or a byte was dropped, and the handler leaves its loop only when it is set or
  the client was refused.
* `DeliveryProofs`: the invariant has two halves. `Locks` says that a handler in
  the middle of a walk holds `playersMutex`, or a shutdown on its own thread does,
  so that walks exclude each other (`Exclusive`), and ties a shutdown's stage to
  what it holds. `Delivers` says of each player that socket and queue together are
  the messages after the last it heard, in order, and then, if it was
  dismissed, the Disconnect packet; and counts them: they reach to the last one
  said, or to the one before if the current walk still owes it. `ServedAlways`,
  `FarewellAlways` and `Implements` follow, for any number of players, and
  wherever a signal strikes; the part of `Farewell` about `trailing` is an invariant of
  its own (`OnlyOthersTrail`).
* `NoCircleAlways`: from `Locks`, `Delivers` and two more facts: who has
  `playersMutex` is in the middle of a walk or a `/tp` (`HolderBusyStep`), and a client
  whose socket is full has something to read, since the only packet it does not
  wait for is the Disconnect, which is the last (`ClientDrains`).

Only model-checked: the liveness properties `HangupEnds`, `LoginResolves`,
`MainSaved`, `PartArrives`, `BrokenEnds`, `MutexReturned`, `Heard`, `ShutdownEnds`
(liveness under fairness is out of the prover's reach), and the four violations.

## 6. Not modelled

* What a use of a deleted `Player` or of a reused id does: the detached threads
  and `/del` may meet one (`main.cpp:155`, `:174`, `commands.cpp:401`). The models
  show where the code is safe from it, and end the other user first elsewhere.
* A client that neither reads nor hangs up: `send` has no timeout, and everybody
  waits. There is nothing to check but the missing timeout.
* Single blocks, and with them the order in which edits of one block are made and
  broadcast (`main.cpp:259`); partial writes of `send`.
* A refinement of `Presence` by an abstract map of levels: with `NoGhosts` violated
  there is none that says more than `AllMet`.
* Formatting: field layout, compression and chunking of a level (`packet.cpp`), the
  wrapping of long messages, help pages, argument splitting, `config.toml`.
* The heartbeat, socket, logger and md5 parts, which are input and output or
  constants; `sqlite3.h`, which is third-party and whose behaviour `Accounts`
  takes from how `playerdb.cpp` and `worlddb.cpp` use it; the level converter.
