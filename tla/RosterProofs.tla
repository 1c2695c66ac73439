---------------------------- MODULE RosterProofs ----------------------------
(* Proofs about Roster: for any set of sessions, any names and any number   *)
(* of ids, the map `players` leads to live players only, a real player id   *)
(* has one holder, and it changes hands through that holder's exit alone.   *)
EXTENDS Roster, NatSets, TLAPS

\* assignId returns the smallest id nobody holds, or FullId when all are held.
LEMMA AssignIdFree ==
    ASSUME RosterAssumption
    PROVE  \/ /\ assignId \in FreeIds
              /\ \A j \in FreeIds : assignId <= j
           \/ FreeIds = {} /\ assignId = FullId
<1>1. FreeIds \in SUBSET Nat
    BY DEF FreeIds, Ids, FullId
<1>2. CASE FreeIds = {}
    BY <1>2 DEF assignId
<1>3. CASE FreeIds # {}
  <2>1. \E k \in FreeIds : \A j \in FreeIds : k <= j
    BY <1>1, <1>3, LeastElement
  <2> QED
    BY <1>3, <2>1 DEF assignId
<1> QED
    BY <1>2, <1>3

-----------------------------------------------------------------------------

\* The key assignId picks is a key of the map, and no real id is its second
\* holder's.
LEMMA AssignIdKey ==
    ASSUME RosterAssumption
    PROVE  /\ assignId \in Key
           /\ assignId # FullId => assignId \in Ids /\ players[assignId] = None
           /\ Ids \subseteq Nat /\ FullId \notin Ids
<1>1. FullId \notin Ids /\ Ids \subseteq Nat
    BY DEF RosterAssumption, Ids, FullId
<1> QED
    BY <1>1, AssignIdFree DEF FreeIds, Key

\* The walk over the map stops at a session.
LEMMA FirstNamedSession ==
    ASSUME RosterAssumption, TypeOK
    PROVE  \A n : KeysOf(n) # {} => FirstNamed(n) \in Session
<1> SUFFICES ASSUME NEW n, KeysOf(n) # {}
             PROVE  FirstNamed(n) \in Session
    OBVIOUS
<1>1. KeysOf(n) \in SUBSET Nat
    BY AssignIdKey DEF KeysOf, Key, FullId
<1>2. \E k \in KeysOf(n) : \A j \in KeysOf(n) : k <= j
    BY <1>1, LeastElement
<1>3. \A k \in KeysOf(n) : players[k] \in Session
    BY DEF KeysOf, TypeOK
<1> QED
    BY <1>2, <1>3 DEF FirstNamed

\* Every component of the state keeps its type.
LEMMA TypeStep ==
    ASSUME RosterAssumption, TypeOK, [Next]_vars
    PROVE  TypeOK'
<1> USE RosterAssumption DEF TypeOK, RosterAssumption, Stage, PastLogin, LoggingIn, Online
<1>1. CASE UNCHANGED vars
    BY <1>1 DEF vars, object, database
<1>2. ASSUME NEW s \in Session, Handler(s)
      PROVE  TypeOK'
  <2>1. CASE loginPlayer(s)
    <3>1. CASE Discard(s) /\ UNCHANGED <<cmd, players, late, database>>
        BY <3>1 DEF Discard, Goto, database, Key
    <3>2. CASE Goto(s, "lookup")
      <4>1. /\ pc[s] = "reading" /\ recOp' \subseteq Session /\ missed' \subseteq Session
            /\ UNCHANGED <<username, id, isOP, isBanned, disconnected, dismissed>>
            /\ UNCHANGED <<cmd, players, late, database>>
          BY <2>1, <3>2 DEF loginPlayer, Discard, Goto
      <4> QED
          BY <3>2, <4>1 DEF Goto, database
    <3> QED
        BY <2>1, <3>1, <3>2 DEF loginPlayer
  <2>2. CASE CheckName(s)
    BY <2>2 DEF CheckName, Discard, Goto, object, database, Key
  <2>3. CASE Register(s)
    <3>1. assignId \in Key
        BY AssignIdKey
    <3> QED
        BY <2>3, <3>1 DEF Register, Overtaken, Goto, database
  <2>4. CASE OtherPacket(s)
    BY <2>4 DEF OtherPacket, Goto, object, database
  <2>5. CASE UnknownPacket(s)
    BY <2>5 DEF UnknownPacket, sendDisconnect, Goto, database
  <2>6. CASE ScanPlayers(s)
    BY <2>6, FirstNamedSession DEF ScanPlayers, sendDisconnect, Goto, NoCommand, database
  <2>7. CASE NoticeHangup(s)
    BY <2>7 DEF NoticeHangup, Goto, object, database
  <2>8. CASE Leave(s)
    BY <2>8 DEF Leave, Goto, object, database
  <2>9. CASE Finish(s)
    BY <2>9 DEF Finish, Discard, Goto, database, Key
  <2>10. ASSUME NEW n \in Username,
                kick(s, n) \/ op(s, n) \/ deop(s, n) \/ ban(s, n) \/ unban(s, n)
         PROVE  TypeOK'
    <3>1. CASE kick(s, n)
        BY <3>1, FirstNamedSession DEF kick, MayRun, sendDisconnect, Goto, database
    <3>2. CASE op(s, n)
      <4>1. PICK a \in Finds(AccountOf[n]) :
               \/ ops' = ops \cup {a} /\ unsaved' = unsaved
               \/ ops' = ops /\ unsaved' = unsaved \cup {AccountOf[n]}
          BY <3>2 DEF op
      <4>2. a \in Account
          BY DEF Finds
      <4> QED
          BY <3>2, <4>1, <4>2 DEF op, StartScan, MayRun, Goto
    <3>3. CASE deop(s, n)
        BY <3>3 DEF deop, StartScan, MayRun, Goto
    <3>4. CASE ban(s, n)
      <4>1. PICK a \in Finds(AccountOf[n]) :
               \/ bans' = bans \cup {a} /\ missed' \subseteq missed \cup SessionsOf(a)
               \/ bans' = bans /\ missed' = missed
          BY <3>4 DEF ban
      <4>2. a \in Account /\ SessionsOf(a) \subseteq Session
          BY DEF Finds, SessionsOf
      <4> QED
          BY <3>4, <4>1, <4>2 DEF ban, StartScan, MayRun, Goto
    <3>5. CASE unban(s, n)
        BY <3>5 DEF unban, MayRun, Goto, object
    <3> QED
        BY <2>10, <3>1, <3>2, <3>3, <3>4, <3>5
  <2>11. CASE InsertPlayer(s)
    <3>1. username[s] \in Username
        BY <2>11 DEF InsertPlayer
    <3> QED
        BY <2>11, <3>1 DEF InsertPlayer, Goto, object
  <2> QED
    BY <1>2, <2>1, <2>2, <2>3, <2>4, <2>5, <2>6, <2>7, <2>8, <2>9, <2>10, <2>11 DEF Handler
<1>3. ASSUME NEW s \in Session, Client(s)
      PROVE  TypeOK'
  <2>1. CASE EnterLoop(s)
    BY <2>1 DEF EnterLoop, Goto, object, database
  <2>2. CASE TakePacket(s)
    BY <2>2 DEF TakePacket, Goto, object, database
  <2>3. CASE Hangup(s)
    BY <2>3 DEF Hangup, database
  <2>4. ASSUME NEW n \in Username, recvPlayerId(s, n)
        PROVE  TypeOK'
    BY <2>4 DEF recvPlayerId, Goto, database
  <2> QED
    BY <1>3, <2>1, <2>2, <2>3, <2>4 DEF Client
<1> QED
    BY <1>1, <1>2, <1>3 DEF Next

\* Every component of the state has its type in every reachable state.
THEOREM TypeCorrect == Spec => []TypeOK
<1>1. Init => TypeOK
    BY RosterAssumption, SMTT(20)
       DEF RosterAssumption, Init, TypeOK, Stage, PastLogin, LoggingIn, Online, NoCommand, Ids, Key
<1>2. TypeOK /\ [Next]_vars => TypeOK'
    BY RosterAssumption, TypeStep
<1> QED
    BY <1>1, <1>2, PTL DEF Spec

-----------------------------------------------------------------------------

\* The map and the sessions agree.  Each half needs the other: a registration
\* must not push out a session that believes it owns the id (SlotOwned), an
\* exit must find nobody else under its key (RosterSound).
MapAgrees == RosterSound /\ SlotOwned

\* A step that leaves ids, the map and membership of Online alone keeps it.
LEMMA QuietStep ==
    ASSUME TypeOK, MapAgrees, id' = id, players' = players,
           \A t \in Session : pc'[t] \in Online <=> pc[t] \in Online
    PROVE  MapAgrees'
BY DEF MapAgrees, RosterSound, SlotOwned, TypeOK

\* A session that is not registered may be discarded: no key leads to it.
LEMMA DiscardStep ==
    ASSUME RosterAssumption, TypeOK, MapAgrees,
           NEW s \in Session, pc[s] \notin Online,
           Discard(s), players' = players
    PROVE  MapAgrees'
<1>1. \A k \in Key : players[k] # s
    BY DEF MapAgrees, RosterSound, RosterAssumption
<1>2. \A t \in Session : pc'[t] \in Online => t # s /\ pc[t] \in Online
    BY DEF Discard, Goto, TypeOK, Online
<1> QED
    BY <1>1, <1>2
       DEF MapAgrees, RosterSound, SlotOwned, Discard, Goto, TypeOK

\* Registration: the chosen key is free, or it is the shared FullId.
LEMMA RegisterStep ==
    ASSUME RosterAssumption, TypeOK, MapAgrees, NEW s \in Session, Register(s)
    PROVE  MapAgrees'
<1>1. assignId \in Key /\ (assignId # FullId => players[assignId] = None)
    BY AssignIdKey
<1>2. \A k \in Key : players[k] # s
    BY DEF MapAgrees, RosterSound, Register, Online, RosterAssumption
<1>3. /\ players' = [players EXCEPT ![assignId] = s]
      /\ id' = [id EXCEPT ![s] = assignId]
      /\ pc' = [pc EXCEPT ![s] = "joining"]
    BY DEF Register, Goto
<1>4. RosterSound'
    BY <1>1, <1>2, <1>3 DEF MapAgrees, RosterSound, TypeOK, Online
<1>5. SlotOwned'
  <2> SUFFICES ASSUME NEW t \in Session, pc'[t] \in Online, id'[t] # FullId
               PROVE  players'[id'[t]] = t
    BY DEF SlotOwned
  <2>1. CASE t = s
    BY <1>1, <1>3, <2>1 DEF TypeOK
  <2>2. CASE t # s
    <3>1. players[id[t]] = t /\ id[t] # FullId /\ id'[t] = id[t]
        BY <1>3, <2>2 DEF MapAgrees, SlotOwned, TypeOK
    <3>2. id[t] # assignId
        BY <1>1, <3>1, RosterAssumption DEF RosterAssumption
    <3> QED
        BY <1>1, <1>3, <3>1, <3>2 DEF TypeOK
  <2> QED
    BY <2>1, <2>2
<1> QED
    BY <1>4, <1>5 DEF MapAgrees

\* Exit: the key given back is the leaver's own, or the shared one.
LEMMA LeaveStep ==
    ASSUME RosterAssumption, TypeOK, MapAgrees, NEW s \in Session, Leave(s)
    PROVE  MapAgrees'
<1>1. /\ players' = [players EXCEPT ![id[s]] = None]
      /\ id' = id
      /\ pc[s] = "leaving"
      /\ pc' = [pc EXCEPT ![s] = "stopping"]
    BY DEF Leave, Goto, object
<1>2. \A t \in Session : pc'[t] \in Online => t # s /\ pc[t] \in Online
    BY <1>1 DEF TypeOK, Online
<1>3. RosterSound'
    BY <1>1 DEF MapAgrees, RosterSound, TypeOK, Online
<1>4. SlotOwned'
  <2> SUFFICES ASSUME NEW t \in Session, pc'[t] \in Online, id[t] # FullId
               PROVE  players'[id[t]] = t
    BY <1>1 DEF SlotOwned
  <2>1. players[id[t]] = t /\ t # s
    BY <1>2 DEF MapAgrees, SlotOwned
  <2>2. id[t] # id[s]
    BY <1>1, <2>1 DEF MapAgrees, SlotOwned, Online
  <2> QED
    BY <1>1, <2>1, <2>2 DEF TypeOK
<1> QED
    BY <1>3, <1>4 DEF MapAgrees

\* Every step keeps MapAgrees.
LEMMA MapStep ==
    ASSUME RosterAssumption, TypeOK, MapAgrees, [Next]_vars
    PROVE  MapAgrees'
<1>1. CASE UNCHANGED vars
    BY <1>1, QuietStep DEF vars, object
<1>2. ASSUME NEW s \in Session, Handler(s)
      PROVE  MapAgrees'
  <2>1. CASE loginPlayer(s)
    <3>1. pc[s] \notin Online /\ players' = players
        BY <2>1 DEF loginPlayer, Online
    <3>2. CASE Discard(s)
        BY <3>1, <3>2, DiscardStep
    <3>3. CASE ~ Discard(s)
        BY <2>1, <3>3, QuietStep DEF loginPlayer, Goto, TypeOK, Online
    <3> QED
        BY <3>2, <3>3
  <2>2. CASE CheckName(s)
    <3>1. pc[s] \notin Online /\ players' = players
        BY <2>2 DEF CheckName, Online
    <3>2. CASE Discard(s)
        BY <3>1, <3>2, DiscardStep
    <3>3. CASE ~ Discard(s)
        BY <2>2, <3>3, QuietStep DEF CheckName, Goto, TypeOK, Online, object
    <3> QED
        BY <3>2, <3>3
  <2>3. CASE Register(s)
    BY <2>3, RegisterStep
  <2>4. CASE OtherPacket(s)
    BY <2>4, QuietStep DEF OtherPacket, Goto, TypeOK, Online, object
  <2>5. CASE UnknownPacket(s)
    BY <2>5, QuietStep DEF UnknownPacket, Goto, TypeOK, Online
  <2>6. CASE ScanPlayers(s)
    BY <2>6, QuietStep DEF ScanPlayers, Goto, TypeOK, Online
  <2>7. CASE NoticeHangup(s)
    BY <2>7, QuietStep DEF NoticeHangup, Goto, TypeOK, Online, object
  <2>8. CASE Leave(s)
    BY <2>8, LeaveStep
  <2>9. CASE Finish(s)
    BY <2>9, DiscardStep DEF Finish, Online
  <2>10. ASSUME NEW n \in Username,
                kick(s, n) \/ op(s, n) \/ deop(s, n) \/ ban(s, n) \/ unban(s, n)
         PROVE  MapAgrees'
    BY <2>10, QuietStep
       DEF kick, op, deop, ban, unban, StartScan, MayRun, Goto, TypeOK, Online, object
  <2>11. CASE InsertPlayer(s)
    BY <2>11, QuietStep DEF InsertPlayer, Goto, TypeOK, Online, object
  <2> QED
    BY <1>2, <2>1, <2>2, <2>3, <2>4, <2>5, <2>6, <2>7, <2>8, <2>9, <2>10, <2>11 DEF Handler
<1>3. ASSUME NEW s \in Session, Client(s)
      PROVE  MapAgrees'
  <2>1. CASE EnterLoop(s)
    BY <2>1, QuietStep DEF EnterLoop, Goto, TypeOK, Online, object
  <2>2. CASE TakePacket(s)
    BY <2>2, QuietStep DEF TakePacket, Goto, TypeOK, Online, object
  <2>3. CASE Hangup(s)
    BY <2>3, QuietStep DEF Hangup
  <2>4. ASSUME NEW n \in Username, recvPlayerId(s, n)
        PROVE  MapAgrees'
    BY <2>4, QuietStep DEF recvPlayerId, Goto, TypeOK, Online
  <2> QED
    BY <1>3, <2>1, <2>2, <2>3, <2>4 DEF Client
<1> QED
    BY <1>1, <1>2, <1>3 DEF Next

\* Map and sessions always agree.
LEMMA MapInvariant == Spec => [](TypeOK /\ MapAgrees)
<1>1. Init => MapAgrees
    BY DEF Init, MapAgrees, RosterSound, SlotOwned, Online
<1>2. TypeOK /\ MapAgrees /\ [Next]_vars => MapAgrees'
    BY RosterAssumption, MapStep
<1> QED
    BY <1>1, <1>2, TypeCorrect, PTL DEF Spec

\* Whatever the clients do and however the threads interleave, an entry of
\* `players` leads to a live player that knows its key.
THEOREM RosterAlwaysSound == Spec => []RosterSound
BY MapInvariant, PTL DEF MapAgrees

\* A session with a real id stays reachable through the map.
THEOREM SlotAlwaysOwned == Spec => []SlotOwned
BY MapInvariant, PTL DEF MapAgrees

\* Real ids are never shared by sessions that are online together.
THEOREM IdsAlwaysDistinct == Spec => []DistinctIds
<1>1. MapAgrees => DistinctIds
    BY DEF MapAgrees, SlotOwned, DistinctIds
<1> QED
    BY <1>1, MapInvariant, PTL

\* Only the exit of its holder takes a real id out of the map, and only a free
\* one is given out.
THEOREM IdsChangeHandsByExit == Spec => OnlyHolderVacates
<1> DEFINE Vacated == \A k \in Ids :
              players[k] # None /\ players'[k] # players[k]
                  => pc[players[k]] = "leaving" /\ players'[k] = None
<1>1. ASSUME TypeOK, MapAgrees, [Next]_vars
      PROVE  Vacated
  <2> SUFFICES ASSUME NEW k \in Ids, players[k] # None, players'[k] # players[k]
               PROVE  pc[players[k]] = "leaving" /\ players'[k] = None
    OBVIOUS
  <2>1. PICK s \in Session : Register(s) \/ Leave(s)
    <3>1. PICK s \in Session : Handler(s) \/ Client(s)
        BY <1>1 DEF Next, vars
    <3>2. Client(s) => players' = players
        BY DEF Client, EnterLoop, TakePacket, Hangup, recvPlayerId
    <3>3. Handler(s) /\ players' # players => Register(s) \/ Leave(s)
        BY DEF Handler, InsertPlayer, loginPlayer, CheckName, OtherPacket, UnknownPacket,
           ScanPlayers, NoticeHangup, Finish, kick, op, deop, ban, unban, StartScan
    <3> QED
        BY <3>1, <3>2, <3>3
  <2>2. k \in Key /\ k # FullId
    BY RosterAssumption, AssignIdKey DEF Key
  <2>3. CASE Register(s)
    <3>1. players' = [players EXCEPT ![assignId] = s]
        BY <2>3 DEF Register
    <3>2. k # assignId
        BY <2>2, RosterAssumption, AssignIdKey
    <3> QED
        BY <1>1, <2>2, <3>1, <3>2 DEF TypeOK
  <2>4. CASE Leave(s)
    <3>1. players' = [players EXCEPT ![id[s]] = None] /\ pc[s] = "leaving"
        BY <2>4 DEF Leave
    <3>2. k = id[s]
        BY <1>1, <2>2, <3>1 DEF TypeOK
    <3>3. players[k] = s
        BY <1>1, <2>2, <3>1, <3>2 DEF MapAgrees, SlotOwned, Online
    <3> QED
        BY <1>1, <2>2, <3>1, <3>2, <3>3 DEF TypeOK
  <2> QED
    BY <2>1, <2>3, <2>4
<1>2. TypeOK /\ MapAgrees /\ [Next]_vars => [Vacated]_vars
    BY <1>1
<1> QED
    BY <1>2, MapInvariant, PTL DEF Spec, OnlyHolderVacates

-----------------------------------------------------------------------------

\* Ids are seats: who comes online takes one that nobody online has, or stands
\* because all are taken, and leaving online gives it back.
THEOREM ImplementsSeating == Spec => SeatingSpec
<1> DEFINE inside == {s \in Session : pc[s] \in Online}
           seat == [s \in Session |-> IF pc[s] \in Online THEN id[s] ELSE FullId]
<1>1. Init => Seats!Init
    BY DEF Init, Seats!Init, Online
<1>2. TypeOK /\ MapAgrees /\ [Next]_vars => [Seats!Next]_(Seats!vars)
  <2> SUFFICES ASSUME TypeOK, MapAgrees, [Next]_vars
               PROVE  (\E s \in Session : Seats!Enter(s) \/ Seats!Exit(s)) \/ UNCHANGED <<inside, seat>>
    BY DEF Seats!Next, Seats!vars
  <2>1. ASSUME NEW s \in Session, Register(s)
        PROVE  Seats!Enter(s)
    <3>1. /\ pc[s] = "checked" /\ pc' = [pc EXCEPT ![s] = "joining"]
          /\ id' = [id EXCEPT ![s] = assignId]
        BY <2>1 DEF Register, Goto
    <3>2. s \notin inside /\ inside' = inside \cup {s}
        BY <3>1 DEF TypeOK, Online
    <3>3. seat' = [seat EXCEPT ![s] = assignId]
        BY <3>1 DEF TypeOK, Online
    <3>4. CASE assignId \in FreeIds
      <4>1. assignId \in Ids /\ assignId # FullId /\ players[assignId] = None
          BY <3>4, RosterAssumption, AssignIdKey DEF FreeIds
      <4>2. \A p \in inside : seat[p] # assignId
          BY <4>1, RosterAssumption DEF MapAgrees, SlotOwned, RosterAssumption
      <4>3. ~Seats!Taken(assignId)
          BY <4>2 DEF Seats!Taken
      <4> QED
          BY <3>2, <3>3, <4>1, <4>3 DEF Seats!Enter
    <3>5. CASE FreeIds = {} /\ assignId = FullId
      <4>1. ASSUME NEW k \in Ids PROVE Seats!Taken(k)
        <5>1. players[k] # None /\ k \in Key
            BY <3>5 DEF FreeIds, Key
        <5>2. players[k] \in Session /\ id[players[k]] = k /\ pc[players[k]] \in Online
            BY <5>1 DEF MapAgrees, RosterSound, TypeOK
        <5> QED
            BY <5>2 DEF Seats!Taken
      <4> QED
          BY <3>2, <3>3, <3>5, <4>1 DEF Seats!Enter
    <3> QED
        BY <3>4, <3>5, RosterAssumption, AssignIdFree
  <2>2. ASSUME NEW s \in Session, Leave(s)
        PROVE  Seats!Exit(s)
    <3>1. pc[s] = "leaving" /\ pc' = [pc EXCEPT ![s] = "stopping"] /\ id' = id
        BY <2>2 DEF Leave, Goto, object
    <3>2. s \in inside /\ inside' = inside \ {s}
        BY <3>1 DEF TypeOK, Online
    <3>3. seat' = [seat EXCEPT ![s] = FullId]
        BY <3>1 DEF TypeOK, Online
    <3> QED
        BY <3>2, <3>3 DEF Seats!Exit
  <2>3. ASSUME \A t \in Session : (pc'[t] \in Online <=> pc[t] \in Online)
                                  /\ (pc[t] \in Online => id'[t] = id[t])
        PROVE  UNCHANGED <<inside, seat>>
    BY <2>3
  <2>4. ASSUME NEW s \in Session,
               \/ InsertPlayer(s) \/ loginPlayer(s) \/ CheckName(s) \/ Finish(s)
               \/ \E n \in Username : recvPlayerId(s, n)
        PROVE  UNCHANGED <<inside, seat>>
    <3>1. /\ pc[s] \notin Online /\ pc'[s] \notin Online
          /\ \A t \in Session : t # s => pc'[t] = pc[t] /\ id'[t] = id[t]
        BY <2>4 DEF InsertPlayer, loginPlayer, CheckName, Finish, recvPlayerId, Discard, Goto, object,
           Online, TypeOK
    <3>2. \A t \in Session : (pc'[t] \in Online <=> pc[t] \in Online)
                              /\ (pc[t] \in Online => id'[t] = id[t])
        BY <3>1
    <3> QED
        BY <2>3, <3>2
  <2>5. ASSUME NEW s \in Session,
               \/ OtherPacket(s) \/ UnknownPacket(s) \/ ScanPlayers(s) \/ NoticeHangup(s)
               \/ EnterLoop(s) \/ TakePacket(s) \/ Hangup(s)
               \/ \E n \in Username : kick(s, n) \/ op(s, n) \/ deop(s, n) \/ ban(s, n) \/ unban(s, n)
        PROVE  UNCHANGED <<inside, seat>>
    <3>1. /\ id' = id /\ pc[s] \in Online /\ pc'[s] \in Online
          /\ \A t \in Session : t # s => pc'[t] = pc[t]
        BY <2>5 DEF OtherPacket, UnknownPacket, ScanPlayers, NoticeHangup, kick, op, deop, ban,
           unban, StartScan, MayRun, EnterLoop, TakePacket, Hangup, Goto, object, Online, TypeOK
    <3>2. \A t \in Session : (pc'[t] \in Online <=> pc[t] \in Online)
                              /\ (pc[t] \in Online => id'[t] = id[t])
        BY <3>1
    <3> QED
        BY <2>3, <3>2
  <2>6. CASE UNCHANGED vars
    BY <2>6, <2>3 DEF vars, object
  <2> QED
    BY <2>1, <2>2, <2>4, <2>5, <2>6 DEF Next, Handler, Client
<1> QED
    BY <1>1, <1>2, MapInvariant, PTL DEF Spec, SeatingSpec, Seats!Spec

-----------------------------------------------------------------------------

\* The accounts that may have operators: the database has them, or they are one
\* of the two exceptions.
Backed == ops \cup astray \cup unsaved

\* While nobody is deopped: what a session knows of its rights, from the copy of
\* its record on, the database knows too, and so it does of an /op at work.
RightsBacked ==
    \A s \in Session :
        /\ pc[s] \notin {"lookup", "checked"} => s \notin recOp
        /\ s \in recOp => AccountOf[username[s]] \in Backed
        /\ pc[s] \in Online /\ s \in isOP => AccountOf[username[s]] \in Backed
        /\ pc[s] = "scanning" =>
              /\ cmd[s].kind # "deop"
              /\ cmd[s].kind = "op" => AccountOf[cmd[s].who] \in Backed

\* A scan finds a player of the name it looks for.
LEMMA FirstNamedFound ==
    ASSUME RosterAssumption, TypeOK, MapAgrees, NEW n, KeysOf(n) # {}
    PROVE  /\ FirstNamed(n) \in Session /\ username[FirstNamed(n)] = n
           /\ pc[FirstNamed(n)] \in Online
<1>1. KeysOf(n) \in SUBSET Nat
    BY AssignIdKey DEF KeysOf, Key, FullId
<1>2. \E k \in KeysOf(n) : \A j \in KeysOf(n) : k <= j
    BY <1>1, LeastElement
<1>3. \A k \in KeysOf(n) :
         players[k] \in Session /\ username[players[k]] = n /\ pc[players[k]] \in Online
    BY DEF KeysOf, TypeOK, MapAgrees, RosterSound
<1> QED
    BY <1>2, <1>3 DEF FirstNamed

\* Every step keeps the flags backed, without /deop.
LEMMA RightsStep ==
    ASSUME RosterAssumption, "deop" \notin Commands, TypeOK, MapAgrees, RightsBacked, [Next]_vars
    PROVE  RightsBacked'
<1> USE RosterAssumption
<1>1. CASE UNCHANGED vars
    BY <1>1 DEF vars, object, database, Backed, RightsBacked
<1>2. ASSUME NEW s \in Session, Handler(s) \/ Client(s)
      PROVE  RightsBacked'
  <2>1. CASE loginPlayer(s)
    <3>1. CASE Discard(s) /\ UNCHANGED <<cmd, players, late, database>>
        BY <3>1 DEF Discard, Goto, database, Backed, RightsBacked, TypeOK, Online
    <3>2. CASE Goto(s, "lookup")
      <4>1. PICK record \in Finds(AccountOf[username[s]])
                   \cup (IF AccountOf[username[s]] \in astray THEN {None} ELSE {}) :
               recOp' = IF record \in ops THEN recOp \cup {s} ELSE recOp
          BY <2>1, <3>2 DEF loginPlayer, Discard, Goto, TypeOK
      <4>2. record \in ops => AccountOf[username[s]] \in Backed
          BY <4>1 DEF Finds, Backed
      <4>3. /\ pc[s] = "reading" /\ pc' = [pc EXCEPT ![s] = "lookup"]
            /\ UNCHANGED <<username, isOP, cmd, ops, astray, unsaved>>
          BY <2>1, <3>2 DEF loginPlayer, Discard, Goto, database, TypeOK
      <4> QED
          BY <4>1, <4>2, <4>3 DEF RightsBacked, Backed, TypeOK, Online
    <3> QED
        BY <2>1, <3>1, <3>2 DEF loginPlayer
  <2>2. CASE CheckName(s) \/ Finish(s)
    BY <2>2 DEF CheckName, Finish, Discard, Goto, object, database, Backed, RightsBacked,
       TypeOK, Online
  <2>3. CASE Register(s)
    BY <2>3 DEF Register, Goto, database, Backed, RightsBacked, TypeOK, Online
  <2>4. CASE \/ OtherPacket(s) \/ UnknownPacket(s) \/ NoticeHangup(s) \/ Leave(s)
             \/ EnterLoop(s) \/ TakePacket(s) \/ Hangup(s) \/ InsertPlayer(s)
    BY <2>4 DEF OtherPacket, UnknownPacket, NoticeHangup, Leave, EnterLoop, TakePacket, Hangup,
       InsertPlayer, Goto, object, database, Backed, RightsBacked, TypeOK, Online
  <2>5. CASE ScanPlayers(s)
    <3>1. /\ pc[s] = "scanning" /\ pc' = [pc EXCEPT ![s] = "serving"] /\ Backed' = Backed
          /\ username' = username /\ recOp' = recOp
          /\ cmd' = [cmd EXCEPT ![s] = NoCommand]
        BY <2>5 DEF ScanPlayers, Goto, database, Backed
    <3>d. cmd[s].kind # "deop"
        BY <3>1 DEF RightsBacked
    <3>2. \A t \in isOP' \ isOP : AccountOf[username[t]] \in Backed
        BY <2>5, <3>1, <3>d, FirstNamedFound DEF ScanPlayers, RightsBacked
    <3>3. \A t \in Session : pc'[t] = pc[t] \/ (pc'[t] = "serving" /\ pc[t] \in Online)
        BY <3>1 DEF TypeOK, Online
    <3> QED
        BY <3>1, <3>2, <3>3 DEF RightsBacked, TypeOK, Online
  <2>6. ASSUME NEW n \in Username,
               kick(s, n) \/ op(s, n) \/ deop(s, n) \/ ban(s, n) \/ unban(s, n) \/ recvPlayerId(s, n)
        PROVE  RightsBacked'
    <3>1. CASE kick(s, n) \/ unban(s, n)
        BY <3>1 DEF kick, unban, MayRun, Goto, object, database, Backed, RightsBacked, TypeOK,
           Online
    <3>2. CASE op(s, n)
      <4>1. PICK a \in Finds(AccountOf[n]) :
               \/ ops' = ops \cup {a} /\ unsaved' = unsaved
               \/ a \notin ops /\ ops' = ops /\ unsaved' = unsaved \cup {AccountOf[n]}
          BY <3>2 DEF op
      <4>2. AccountOf[n] \in Backed' /\ Backed \subseteq Backed'
          BY <3>2, <4>1 DEF op, StartScan, Finds, Backed
      <4>3. /\ pc[s] = "handling" /\ pc' = [pc EXCEPT ![s] = "scanning"]
            /\ cmd' = [cmd EXCEPT ![s] = [kind |-> "op", who |-> n]]
            /\ UNCHANGED <<username, isOP, recOp>>
          BY <3>2 DEF op, StartScan, MayRun, Goto
      <4> QED
          BY <4>2, <4>3 DEF RightsBacked, TypeOK, Online
    <3>3. CASE ban(s, n)
        BY <3>3 DEF ban, StartScan, MayRun, Goto, Backed, RightsBacked, TypeOK, Online
    <3>4. CASE deop(s, n)
        BY <3>4 DEF deop, StartScan, MayRun
    <3>5. CASE recvPlayerId(s, n)
        BY <3>5 DEF recvPlayerId, Goto, database, Backed, RightsBacked, TypeOK, Online
    <3> QED
        BY <2>6, <3>1, <3>2, <3>3, <3>4, <3>5
  <2> QED
    BY <1>2, <2>1, <2>2, <2>3, <2>4, <2>5, <2>6 DEF Handler, Client
<1> QED
    BY <1>1, <1>2 DEF Next

\* Without /deop, an operator flag in a session is always backed by the database,
\* but in the account of a first login that went wrong, or of an /op that could
\* not be written.
THEOREM FlagAlwaysBacked ==
    ASSUME "deop" \notin Commands
    PROVE  Spec => []FlagBacked
<1>1. Init => RightsBacked
    BY DEF Init, RightsBacked, Online
<1>2. TypeOK /\ MapAgrees /\ RightsBacked /\ [Next]_vars => RightsBacked'
    BY RosterAssumption, RightsStep
<1>3. RightsBacked => FlagBacked
    BY DEF RightsBacked, Backed, FlagBacked
<1> QED
    BY <1>1, <1>2, <1>3, MapInvariant, PTL DEF Spec

-----------------------------------------------------------------------------

\* A session with a banned record that no /ban missed has its name and a key to
\* itself, and was told to go or is about to be.
Doomed(s) ==
    /\ pc[s] \in Online /\ id[s] # FullId
    /\ \A t \in Session :
          pc[t] \in Online \cup {"checked"} /\ username[t] = username[s] => t = s
    /\ \/ s \in dismissed \cup disconnected
       \/ \E t \in Session :
             pc[t] = "scanning" /\ cmd[t] = [kind |-> "ban", who |-> username[s]]

BansCaught ==
    \A s \in Session \ missed :
        pc[s] \in PastLogin /\ AccountOf[username[s]] \in bans => Doomed(s)

\* A step that lets nobody past the login or the name check, bans nobody, and
\* ends no /ban.
LEMMA BansQuiet ==
    ASSUME TypeOK, BansCaught,
           bans' \subseteq bans,
           \A t \in Session :
              /\ t \notin missed' => t \notin missed \/ pc'[t] \notin PastLogin
              /\ pc'[t] \in Online \cup {"checked"} => pc[t] \in Online \cup {"checked"}
              /\ pc'[t] \in PastLogin =>
                    /\ pc[t] \in PastLogin /\ username'[t] = username[t]
                    /\ pc[t] \in Online => pc'[t] \in Online /\ id'[t] = id[t]
                    /\ t \in dismissed => t \in dismissed'
                    /\ t \in disconnected => t \in disconnected'
              /\ pc[t] = "scanning" => pc'[t] = "scanning" /\ cmd'[t] = cmd[t]
    PROVE  BansCaught'
<1> SUFFICES ASSUME NEW s \in Session, s \notin missed', pc'[s] \in PastLogin,
                    AccountOf[username'[s]] \in bans'
             PROVE  Doomed(s)'
    BY DEF BansCaught
<1>1. pc[s] \in PastLogin /\ username'[s] = username[s] /\ s \notin missed
    OBVIOUS
<1>2. Doomed(s)
    BY <1>1 DEF BansCaught
<1>3. pc'[s] \in Online /\ id'[s] # FullId
    BY <1>2 DEF Doomed
<1>4. ASSUME NEW t \in Session, pc'[t] \in Online \cup {"checked"}, username'[t] = username'[s]
      PROVE  t = s
    BY <1>1, <1>2, <1>4 DEF Doomed, PastLogin
<1>5. \/ s \in dismissed' \cup disconnected'
      \/ \E t \in Session :
            pc'[t] = "scanning" /\ cmd'[t] = [kind |-> "ban", who |-> username'[s]]
    BY <1>1, <1>2 DEF Doomed
<1> QED
    BY <1>3, <1>4, <1>5 DEF Doomed

\* The session of a name that is to go keeps its key, and whatever it is asked.
LEMMA DoomedHasKey ==
    ASSUME RosterAssumption, TypeOK, MapAgrees, NEW s \in Session, Doomed(s)
    PROVE  KeysOf(username[s]) # {}
<1>1. players[id[s]] = s /\ id[s] \in Key /\ s # None
    BY DEF Doomed, MapAgrees, SlotOwned, TypeOK, Key, Ids, RosterAssumption
<1> QED
    BY <1>1 DEF KeysOf

\* A login that succeeds on its own record was not banned; on the record of
\* another account it counts as missed.
LEMMA LoginStep ==
    ASSUME RosterAssumption, TypeOK, BansCaught, NEW u \in Session, loginPlayer(u)
    PROVE  BansCaught'
<1>1. pc[u] = "reading" /\ UNCHANGED <<cmd, players, late, database>>
    BY DEF loginPlayer
<1>2. CASE Discard(u)
    <2>1. /\ pc' = [pc EXCEPT ![u] = "closed"]
          /\ username' = [username EXCEPT ![u] = None] /\ id' = [id EXCEPT ![u] = 0]
          /\ dismissed' = dismissed \ {u} /\ disconnected' = disconnected \ {u}
          /\ missed' = missed \ {u}
        BY <1>2 DEF Discard, Goto
    <2> QED
        BY <1>1, <2>1, BansQuiet DEF database, TypeOK, PastLogin, Online
<1>3. CASE ~ Discard(u)
    <2>1. /\ pc' = [pc EXCEPT ![u] = "lookup"]
          /\ UNCHANGED <<username, id, dismissed, disconnected>>
          /\ missed' \in {missed, missed \cup {u}}
          /\ u \notin missed' => AccountOf[username[u]] \notin bans
        BY <1>3 DEF loginPlayer, Goto
    <2> SUFFICES ASSUME NEW s \in Session, s \notin missed', pc'[s] \in PastLogin,
                        AccountOf[username[s]] \in bans
                 PROVE  Doomed(s)'
        BY <1>1, <2>1 DEF BansCaught, database
    <2>2. s # u /\ pc'[s] = pc[s] /\ s \notin missed
        BY <2>1 DEF TypeOK
    <2>3. Doomed(s)
        BY <2>2 DEF BansCaught
    <2> QED
        BY <1>1, <2>1, <2>2, <2>3 DEF Doomed, TypeOK, Online
<1> QED
    BY <1>2, <1>3

\* Nobody passes the name check under the name of a session that is to go.
LEMMA CheckStep ==
    ASSUME RosterAssumption, TypeOK, MapAgrees, BansCaught, NEW u \in Session, CheckName(u)
    PROVE  BansCaught'
<1>1. pc[u] = "lookup" /\ UNCHANGED <<cmd, players, late, database>>
    BY DEF CheckName
<1>2. CASE Discard(u)
    <2>1. /\ pc' = [pc EXCEPT ![u] = "closed"]
          /\ username' = [username EXCEPT ![u] = None] /\ id' = [id EXCEPT ![u] = 0]
          /\ dismissed' = dismissed \ {u} /\ disconnected' = disconnected \ {u}
          /\ missed' = missed \ {u}
        BY <1>2 DEF Discard, Goto
    <2> QED
        BY <1>1, <2>1, BansQuiet DEF database, TypeOK, PastLogin, Online
<1>3. CASE ~ Discard(u)
    <2>1. KeysOf(username[u]) = {} /\ pc' = [pc EXCEPT ![u] = "checked"] /\ UNCHANGED object
        BY <1>3 DEF CheckName, Goto
    <2> SUFFICES ASSUME NEW s \in Session, s \notin missed, pc'[s] \in PastLogin,
                        AccountOf[username[s]] \in bans
                 PROVE  Doomed(s)'
        BY <1>1, <2>1 DEF BansCaught, database, object
    <2>2. pc[s] \in PastLogin
        BY <1>1, <2>1 DEF TypeOK, PastLogin
    <2>3. Doomed(s)
        BY <2>2 DEF BansCaught
    <2>4. s # u /\ username[s] # username[u]
        BY <1>1, <2>1, <2>3, DoomedHasKey DEF Doomed, Online
    <2> QED
        BY <1>1, <2>1, <2>3, <2>4 DEF Doomed, object, TypeOK, Online
<1> QED
    BY <1>2, <1>3

\* A /ban reaches the session it is for, or all of the account count as missed.
LEMMA BanStep ==
    ASSUME RosterAssumption, TypeOK, BansCaught,
           NEW u \in Session, NEW n \in Username, ban(u, n)
    PROVE  BansCaught'
<1>1. /\ pc[u] = "handling" /\ pc' = [pc EXCEPT ![u] = "scanning"]
      /\ cmd' = [cmd EXCEPT ![u] = [kind |-> "ban", who |-> n]]
      /\ UNCHANGED <<username, id, dismissed, disconnected>>
    BY DEF ban, StartScan, MayRun, Goto
<1>2. \A t \in Session :
         /\ pc'[t] \in PastLogin <=> pc[t] \in PastLogin
         /\ pc'[t] \in Online <=> pc[t] \in Online
         /\ pc'[t] = "checked" <=> pc[t] = "checked"
    BY <1>1 DEF TypeOK, PastLogin, Online
<1>3. PICK a \in Account :
         \/ /\ bans' = bans \cup {a}
            /\ missed' = IF Reaches(n, a) THEN missed ELSE missed \cup SessionsOf(a)
         \/ UNCHANGED <<bans, missed>>
    BY DEF ban, Finds, TypeOK
<1> SUFFICES ASSUME NEW s \in Session, s \notin missed', pc'[s] \in PastLogin,
                    AccountOf[username[s]] \in bans'
             PROVE  Doomed(s)'
    BY <1>1 DEF BansCaught
<1>4. s \notin missed /\ pc[s] \in PastLogin
    BY <1>2, <1>3
<1>5. CASE AccountOf[username[s]] \in bans
    <2>1. Doomed(s)
        BY <1>4, <1>5 DEF BansCaught
    <2>2. \/ s \in dismissed' \cup disconnected'
          \/ \E t \in Session :
                pc'[t] = "scanning" /\ cmd'[t] = [kind |-> "ban", who |-> username'[s]]
        BY <1>1, <2>1 DEF Doomed, TypeOK
    <2> QED
        BY <1>1, <1>2, <2>1, <2>2 DEF Doomed
<1>6. CASE AccountOf[username[s]] \notin bans
    <2>1. s \in SessionsOf(a) /\ Reaches(n, a)
        BY <1>3, <1>4, <1>6 DEF SessionsOf
    <2>2. SessionsOf(a) = {s} /\ pc[s] \in Online /\ username[s] = n /\ id[s] # FullId
        BY <2>1 DEF Reaches
    <2>3. ASSUME NEW t \in Session, pc[t] \in Online \cup {"checked"}, username[t] = username[s]
          PROVE  t = s
        BY <2>1, <2>2, <2>3 DEF SessionsOf, PastLogin
    <2>4. pc'[u] = "scanning" /\ cmd'[u] = [kind |-> "ban", who |-> username'[s]]
        BY <1>1, <2>2 DEF TypeOK
    <2> QED
        BY <1>1, <1>2, <2>2, <2>3, <2>4 DEF Doomed
<1> QED
    BY <1>5, <1>6

\* The scan of a /ban finds the session the ban is for: it is in the map, and no
\* other has its name.
LEMMA ScanStep ==
    ASSUME RosterAssumption, TypeOK, MapAgrees, BansCaught, NEW u \in Session, ScanPlayers(u)
    PROVE  BansCaught'
<1>1. /\ pc[u] = "scanning" /\ pc' = [pc EXCEPT ![u] = "serving"]
      /\ cmd' = [cmd EXCEPT ![u] = NoCommand]
      /\ bans' = bans /\ missed' = missed /\ username' = username /\ id' = id
      /\ disconnected' = disconnected
    BY DEF ScanPlayers, Goto, database
<1>2. dismissed \subseteq dismissed'
    BY DEF ScanPlayers, sendDisconnect
<1>3. \A t \in Session :
         /\ pc'[t] \in PastLogin <=> pc[t] \in PastLogin
         /\ pc'[t] \in Online <=> pc[t] \in Online
         /\ pc'[t] = "checked" <=> pc[t] = "checked"
    BY <1>1 DEF TypeOK, PastLogin, Online
<1> SUFFICES ASSUME NEW s \in Session, s \notin missed, pc'[s] \in PastLogin,
                    AccountOf[username[s]] \in bans
             PROVE  Doomed(s)'
    BY <1>1 DEF BansCaught
<1>4. Doomed(s)
    BY <1>3 DEF BansCaught
<1>5. \/ s \in dismissed' \cup disconnected'
      \/ \E t \in Session :
            pc'[t] = "scanning" /\ cmd'[t] = [kind |-> "ban", who |-> username'[s]]
    <2>1. CASE cmd[u] = [kind |-> "ban", who |-> username[s]]
        <3>1. KeysOf(username[s]) # {}
            BY <1>4, DoomedHasKey
        <3> DEFINE r == FirstNamed(username[s])
        <3>2. r \in Session /\ username[r] = username[s] /\ pc[r] \in Online
            BY <3>1, FirstNamedFound
        <3>3. r = s
            BY <1>4, <3>2 DEF Doomed
        <3>4. sendDisconnect(r)
            BY <2>1, <3>1 DEF ScanPlayers
        <3> QED
            BY <1>1, <3>3, <3>4 DEF sendDisconnect
    <2>2. CASE cmd[u] # [kind |-> "ban", who |-> username[s]]
        BY <1>1, <1>2, <1>4, <2>2 DEF Doomed, TypeOK
    <2> QED
        BY <2>1, <2>2
<1> QED
    BY <1>1, <1>3, <1>4, <1>5 DEF Doomed

\* Every step keeps the invariant about bans.
LEMMA BansStep ==
    ASSUME RosterAssumption, TypeOK, MapAgrees, BansCaught, [Next]_vars
    PROVE  BansCaught'
<1> USE RosterAssumption DEF Goto
<1>1. CASE UNCHANGED vars
    BY <1>1, BansQuiet DEF vars, object, database
<1>2. ASSUME NEW u \in Session, Handler(u) \/ Client(u)
      PROVE  BansCaught'
  <2>1. CASE loginPlayer(u)
    BY <2>1, LoginStep
  <2>2. CASE ScanPlayers(u)
    BY <2>2, ScanStep
  <2>3. CASE Finish(u)
    <3>1. /\ pc[u] = "stopping" /\ pc' = [pc EXCEPT ![u] = "closed"]
          /\ username' = [username EXCEPT ![u] = None] /\ id' = [id EXCEPT ![u] = 0]
          /\ dismissed' = dismissed \ {u} /\ disconnected' = disconnected \ {u}
          /\ missed' = missed \ {u} /\ UNCHANGED <<bans, cmd>>
        BY <2>3 DEF Finish, Discard, database
    <3> QED
        BY <3>1, BansQuiet DEF TypeOK, PastLogin, Online
  <2>10. CASE CheckName(u)
    BY <2>10, CheckStep
  <2>11. CASE InsertPlayer(u)
    <3>1. /\ pc[u] = "inserting" /\ pc' = [pc EXCEPT ![u] = "reading"]
          /\ UNCHANGED <<username, id, dismissed, disconnected, bans, missed, cmd>>
        BY <2>11 DEF InsertPlayer, object
    <3> QED
        BY <3>1, BansQuiet DEF TypeOK, PastLogin, Online
  <2>4. CASE Register(u)
    <3>1. /\ pc[u] = "checked" /\ pc' = [pc EXCEPT ![u] = "joining"]
          /\ id' = [id EXCEPT ![u] = assignId] /\ username' = username
          /\ UNCHANGED <<dismissed, disconnected, bans, missed, cmd>>
        BY <2>4 DEF Register, database
    <3> QED
        BY <3>1, BansQuiet DEF TypeOK, PastLogin, Online
  <2>5. CASE \/ OtherPacket(u) \/ UnknownPacket(u) \/ NoticeHangup(u)
             \/ EnterLoop(u) \/ TakePacket(u) \/ Hangup(u)
             \/ \E n \in Username : kick(u, n) \/ unban(u, n)
    <3>1. /\ pc[u] \in Online /\ pc'[u] \in Online
          /\ pc[u] = "scanning" => pc'[u] = "scanning"
          /\ \A t \in Session : t # u => pc'[t] = pc[t]
          /\ dismissed \subseteq dismissed' /\ disconnected \subseteq disconnected'
          /\ bans' \subseteq bans /\ UNCHANGED <<username, id, missed, cmd>>
        BY <2>5 DEF OtherPacket, UnknownPacket, NoticeHangup, EnterLoop, TakePacket, Hangup, kick,
           unban, MayRun, sendDisconnect, object, database, TypeOK, Online
    <3> QED
        BY <3>1, BansQuiet DEF PastLogin
  <2>6. CASE Leave(u)
    <3>1. /\ pc[u] = "leaving" /\ pc' = [pc EXCEPT ![u] = "stopping"]
          /\ UNCHANGED <<username, id, dismissed, disconnected, bans, missed, cmd>>
        BY <2>6 DEF Leave, object, database
    <3> QED
        BY <3>1, BansQuiet DEF TypeOK, PastLogin, Online
  <2>7. ASSUME NEW n \in Username, recvPlayerId(u, n)
        PROVE  BansCaught'
    <3>1. /\ pc[u] = "closed" /\ pc'[u] \in LoggingIn
          /\ \A t \in Session : t # u => pc'[t] = pc[t]
          /\ username' = [username EXCEPT ![u] = n]
          /\ UNCHANGED <<id, dismissed, disconnected, bans, missed, cmd>>
        BY <2>7 DEF recvPlayerId, LoggingIn, database, TypeOK
    <3> QED
        BY <3>1, BansQuiet DEF TypeOK, LoggingIn, PastLogin, Online
  <2>8. ASSUME NEW n \in Username, op(u, n) \/ deop(u, n)
        PROVE  BansCaught'
    <3>1. /\ pc[u] = "handling" /\ pc' = [pc EXCEPT ![u] = "scanning"]
          /\ \A t \in Session : t # u => cmd'[t] = cmd[t]
          /\ UNCHANGED <<username, id, dismissed, disconnected, bans, missed>>
        BY <2>8 DEF op, deop, StartScan, MayRun, TypeOK
    <3> QED
        BY <3>1, BansQuiet DEF TypeOK, PastLogin, Online
  <2>9. ASSUME NEW n \in Username, ban(u, n)
        PROVE  BansCaught'
    BY <2>9, BanStep
  <2> QED
    BY <1>2, <2>1, <2>2, <2>3, <2>4, <2>5, <2>6, <2>7, <2>8, <2>9, <2>10, <2>11
       DEF Handler, Client
<1> QED
    BY <1>1, <1>2 DEF Next

\* A /ban that can reach its target does: the target was told to go, is gone, or
\* the /ban is still at work.
THEOREM BansAlwaysReach == Spec => []BanReaches
<1>1. Init => BansCaught
    BY DEF Init, BansCaught, PastLogin, Online
<1>2. TypeOK /\ MapAgrees /\ BansCaught /\ [Next]_vars => BansCaught'
    BY RosterAssumption, BansStep
<1>3. BansCaught => BanReaches
    BY DEF BansCaught, Doomed, BanReaches
<1> QED
    BY <1>1, <1>2, <1>3, MapInvariant, PTL DEF Spec

-----------------------------------------------------------------------------

\* NameShared with the sessions that are about to register: what the name check
\* found still holds for them, but for those that registered since.
NamesAccounted ==
    \A s, t \in Session :
        /\ s # t /\ username[s] = username[t]
        /\ pc[s] \in Online /\ pc[t] \in Online \cup {"checked"}
        => \/ {s, t} \cap late # {}
           \/ id[s] = FullId
           \/ pc[t] \in Online /\ id[t] = FullId

\* Nobody registers or passes the name check, and nobody's name or id changes.
LEMMA NamesQuiet ==
    ASSUME NamesAccounted,
           \A t \in Session :
              /\ t \in late /\ pc'[t] \in Online \cup {"checked"} => t \in late'
              /\ pc'[t] \in Online => pc[t] \in Online /\ id'[t] = id[t]
              /\ pc'[t] = "checked" => pc[t] = "checked"
              /\ pc'[t] \in Online \cup {"checked"} => username'[t] = username[t]
    PROVE  NamesAccounted'
<1> SUFFICES ASSUME NEW s \in Session, NEW t \in Session, s # t,
                    username'[s] = username'[t],
                    pc'[s] \in Online, pc'[t] \in Online \cup {"checked"}
             PROVE  \/ {s, t} \cap late' # {}
                    \/ id'[s] = FullId
                    \/ pc'[t] \in Online /\ id'[t] = FullId
  BY DEF NamesAccounted
<1>1. username[s] = username[t] /\ pc[s] \in Online /\ pc[t] \in Online \cup {"checked"}
  OBVIOUS
<1>2. \A u \in {s, t} : u \in late => u \in late'
  OBVIOUS
<1>3. pc[t] \in Online => pc'[t] \in Online
  BY DEF Online
<1> QED
  BY <1>1, <1>2, <1>3 DEF NamesAccounted

\* Who passes the name check finds the name under no key: a player who carries
\* it has lost his.
LEMMA NamesChecked ==
    ASSUME RosterAssumption, TypeOK, MapAgrees, NamesAccounted,
           NEW p \in Session, CheckName(p)
    PROVE  NamesAccounted'
<1>1. CASE Discard(p)
  BY <1>1, NamesQuiet DEF CheckName, Discard, Goto, Online, TypeOK
<1>2. CASE ~ Discard(p)
  <2>1. KeysOf(username[p]) = {} /\ pc' = [pc EXCEPT ![p] = "checked"]
        /\ username' = username /\ id' = id /\ pc[p] = "lookup"
    BY <1>2 DEF CheckName, Goto, object
  <2>2. \A s \in Session : pc[s] \in Online /\ username[s] = username[p] => id[s] = FullId
    <3> SUFFICES ASSUME NEW s \in Session, pc[s] \in Online, username[s] = username[p],
                        id[s] # FullId
                 PROVE  FALSE
      OBVIOUS
    <3>1. players[id[s]] = s
      BY DEF MapAgrees, SlotOwned
    <3>2. id[s] \in Key
      BY RosterAssumption DEF RosterAssumption, TypeOK, Key, Ids
    <3>3. s # None
      BY RosterAssumption DEF RosterAssumption
    <3>4. id[s] \in KeysOf(username[p])
      BY <3>1, <3>2, <3>3 DEF KeysOf
    <3> QED
      BY <2>1, <3>4
  <2> SUFFICES ASSUME NEW s \in Session, NEW t \in Session, s # t,
                      username[s] = username[t],
                      pc'[s] \in Online, pc'[t] \in Online \cup {"checked"}
               PROVE  \/ {s, t} \cap late' # {}
                      \/ id[s] = FullId
                      \/ pc'[t] \in Online /\ id[t] = FullId
    BY <2>1 DEF NamesAccounted
  <2>3. s # p /\ pc[s] \in Online /\ (t # p => pc'[t] = pc[t])
    BY <2>1 DEF TypeOK, Online
  <2>4. CASE t = p
    BY <2>2, <2>3, <2>4
  <2>5. CASE t # p
    <3>1. late' = late
      BY DEF CheckName
    <3> QED
      BY <2>3, <2>5, <3>1 DEF NamesAccounted
  <2> QED
    BY <2>4, <2>5
<1> QED
  BY <1>1, <1>2

\* Who registers overtakes all who passed the name check for the same name.
LEMMA NamesRegistered ==
    ASSUME RosterAssumption, TypeOK, NamesAccounted,
           NEW p \in Session, Register(p)
    PROVE  NamesAccounted'
<1>1. /\ pc[p] = "checked" /\ pc' = [pc EXCEPT ![p] = "joining"]
      /\ username' = username /\ pc'[p] = "joining"
      /\ \A t \in Session \ {p} : pc'[t] = pc[t] /\ id'[t] = id[t]
  BY DEF Register, Goto, TypeOK
<1> SUFFICES ASSUME NEW s \in Session, NEW t \in Session, s # t,
                    username[s] = username[t],
                    pc'[s] \in Online, pc'[t] \in Online \cup {"checked"}
             PROVE  \/ {s, t} \cap late' # {}
                    \/ id'[s] = FullId
                    \/ pc'[t] \in Online /\ id'[t] = FullId
  BY <1>1 DEF NamesAccounted
<1>2. late' = late \cup Overtaken(p)
  BY DEF Register
<1>3. CASE s = p /\ pc[t] = "checked"
  <2>1. t \in Overtaken(p)
    BY <1>1, <1>3 DEF Overtaken
  <2> QED
    BY <1>2, <2>1
<1>4. CASE s = p /\ pc[t] # "checked"
  <2>1. pc[t] \in Online /\ pc'[t] = pc[t] /\ id'[t] = id[t]
    BY <1>1, <1>4
  <2>2. {s, t} \cap late # {} \/ id[t] = FullId
    BY <1>1, <1>4, <2>1 DEF NamesAccounted, Online
  <2> QED
    BY <1>2, <2>1, <2>2
<1>5. CASE s # p
  <2>1. pc[s] \in Online /\ id'[s] = id[s] /\ pc[t] \in Online \cup {"checked"}
    BY <1>1, <1>5
  <2>2. \/ {s, t} \cap late # {}
        \/ id[s] = FullId
        \/ pc[t] \in Online /\ id[t] = FullId
    BY <2>1 DEF NamesAccounted
  <2>3. pc[t] \in Online => pc'[t] \in Online /\ id'[t] = id[t]
    BY <1>1 DEF Online
  <2> QED
    BY <1>2, <2>1, <2>2, <2>3
<1> QED
  BY <1>3, <1>4, <1>5

\* Every step keeps NamesAccounted.
LEMMA NamesStep ==
    ASSUME RosterAssumption, TypeOK, MapAgrees, NamesAccounted, Next
    PROVE  NamesAccounted'
<1> USE DEF TypeOK, Goto, Online, object
<1>1. ASSUME NEW s \in Session, Handler(s)
      PROVE  NamesAccounted'
  <2>1. CASE InsertPlayer(s) \/ loginPlayer(s)
    BY <2>1, NamesQuiet DEF InsertPlayer, loginPlayer, Discard
  <2>2. CASE CheckName(s)
    BY <2>2, NamesChecked
  <2>3. CASE Register(s)
    BY <2>3, NamesRegistered
  <2>4. CASE OtherPacket(s) \/ UnknownPacket(s) \/ ScanPlayers(s)
    BY <2>4, NamesQuiet DEF OtherPacket, UnknownPacket, ScanPlayers
  <2>5. CASE NoticeHangup(s) \/ Leave(s)
    BY <2>5, NamesQuiet DEF NoticeHangup, Leave
  <2>6. CASE Finish(s)
    BY <2>6, NamesQuiet DEF Finish, Discard
  <2>7. ASSUME NEW n \in Username,
               kick(s, n) \/ op(s, n) \/ deop(s, n) \/ ban(s, n) \/ unban(s, n)
        PROVE  NamesAccounted'
    BY <2>7, NamesQuiet DEF kick, op, deop, ban, unban, StartScan, MayRun
  <2> QED
    BY <1>1, <2>1, <2>2, <2>3, <2>4, <2>5, <2>6, <2>7 DEF Handler
<1>2. ASSUME NEW s \in Session, Client(s)
      PROVE  NamesAccounted'
  <2>1. CASE EnterLoop(s) \/ TakePacket(s) \/ Hangup(s)
    BY <2>1, NamesQuiet DEF EnterLoop, TakePacket, Hangup
  <2>2. ASSUME NEW n \in Username, recvPlayerId(s, n)
        PROVE  NamesAccounted'
    BY <2>2, NamesQuiet DEF recvPlayerId
  <2> QED
    BY <1>2, <2>1, <2>2 DEF Client
<1> QED
  BY <1>1, <1>2 DEF Next

\* For any number of connections, names and ids: a name is online twice only
\* through logins that overlapped between check and registration, or through an
\* entry lost because ids had run out.
THEOREM NamesSharedByOverlap == Spec => []NameShared
<1>1. Init => NamesAccounted
  BY DEF Init, NamesAccounted, Online
<1>2. TypeOK /\ MapAgrees /\ NamesAccounted /\ [Next]_vars
        => NamesAccounted'
  <2> SUFFICES ASSUME TypeOK, MapAgrees, NamesAccounted, UNCHANGED vars
               PROVE  NamesAccounted'
    BY RosterAssumption, NamesStep
  <2> QED
    BY DEF vars, object, NamesAccounted
<1>3. NamesAccounted => NameShared
  BY DEF NamesAccounted, NameShared
<1> QED
  BY <1>1, <1>2, <1>3, MapInvariant, PTL DEF Spec
=============================================================================
