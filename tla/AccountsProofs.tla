--------------------------- MODULE AccountsProofs ---------------------------
(* Proofs about Accounts: what sharing last_insert_rowid between threads can *)
(* and cannot spoil, for any threads, accounts and levels.                   *)
EXTENDS Accounts, FiniteSetTheorems, SequenceTheorems, TLAPS

\* A row is added at the end of a table, and the others stay.
LEMMA Appended ==
    ASSUME NEW S, NEW s \in Seq(S), NEW e \in S
    PROVE  /\ Append(s, e) \in Seq(S) /\ Len(s) \in Nat
           /\ Len(Append(s, e)) = Len(s) + 1
           /\ \A i \in 1 .. Len(s) : Append(s, e)[i] = s[i]
           /\ Append(s, e)[Len(s) + 1] = e
BY AppendProperties, LenProperties

\* What InsertRelation does to aliases or ips.
LEMMA AliasInserted ==
    ASSUME TypeOK, NEW t \in Thread, NEW row, InsertRelation(t, aliases, row),
           row[1] \in PlayerRow => row \in PlayerRow \X Account
    PROVE  /\ aliases' = aliases \/ (aliases' = aliases \cup {row} /\ row[1] \in PlayerRow)
           /\ aliases' \subseteq PlayerRow \X Account /\ IsFiniteSet(aliases')
           /\ lastPlayer' \in Nat
           /\ (lastPlayer' = lastPlayer /\ astray' = astray)
                 \/ astray' = astray \cup Crossing(t)
<1>1. IsFiniteSet(aliases \cup {row}) /\ Cardinality(aliases) \in Nat
    BY FS_AddElement, FS_CardinalityType DEF TypeOK
<1>2. (lastPlayer' = lastPlayer /\ astray' = astray)
         \/ (lastPlayer' = Cardinality(aliases) + 1 /\ astray' = astray \cup Crossing(t))
    BY DEF InsertRelation, Inserted, NotInserted
<1>3. lastPlayer' \in Nat
    BY <1>1, <1>2 DEF TypeOK
<1>4. aliases' = aliases \/ (aliases' = aliases \cup {row} /\ row[1] \in PlayerRow)
    BY DEF InsertRelation
<1> QED
    BY <1>1, <1>2, <1>3, <1>4 DEF TypeOK

\* Likewise for the addresses.
LEMMA AddressInserted ==
    ASSUME TypeOK, NEW t \in Thread, NEW row, InsertRelation(t, ips, row),
           row[1] \in PlayerRow => row \in PlayerRow \X Address
    PROVE  /\ ips' \subseteq PlayerRow \X Address /\ IsFiniteSet(ips')
           /\ lastPlayer' \in Nat
           /\ (lastPlayer' = lastPlayer /\ astray' = astray)
                 \/ astray' = astray \cup Crossing(t)
<1>1. IsFiniteSet(ips \cup {row}) /\ Cardinality(ips) \in Nat
    BY FS_AddElement, FS_CardinalityType DEF TypeOK
<1>2. (lastPlayer' = lastPlayer /\ astray' = astray)
         \/ (lastPlayer' = Cardinality(ips) + 1 /\ astray' = astray \cup Crossing(t))
    BY DEF InsertRelation, Inserted, NotInserted
<1>3. lastPlayer' \in Nat
    BY <1>1, <1>2 DEF TypeOK
<1>4. ips' = ips \/ (ips' = ips \cup {row} /\ row[1] \in PlayerRow)
    BY DEF InsertRelation
<1> QED
    BY <1>1, <1>2, <1>3, <1>4 DEF TypeOK

\* The accounts an INSERT crosses are accounts.
LEMMA CrossingType ==
    ASSUME TypeOK, NEW t \in Thread
    PROVE  Crossing(t) \subseteq Account
<1>1. \A u \in Thread : pc[u] \in FirstLogin => username[u] \in Account
    BY DEF TypeOK, FirstLogin
<1> QED
    BY <1>1 DEF Crossing

\* A level is published with its file and a number.
LEMMA PublishType ==
    ASSUME TypeOK, NEW w \in Level, NEW i \in Nat, Publish(w, i)
    PROVE  /\ files' \subseteq Level /\ levels' \subseteq files'
           /\ worldId' \in [Level -> Nat]
BY DEF Publish, TypeOK

\* What createWorld's INSERT does.
LEMMA WorldInserted ==
    ASSUME TypeOK, NEW w \in Level, InsertWorld(w)
    PROVE  /\ worldRows' \in Seq(Level) /\ lastWorld' \in Nat
           /\ \/ UNCHANGED <<worldRows, lastWorld>>
              \/ /\ ~HasRow(w) /\ lastWorld' = Len(worldRows) + 1
                 /\ Len(worldRows') = Len(worldRows) + 1
                 /\ \A i \in WorldRow : worldRows'[i] = worldRows[i]
                 /\ worldRows'[Len(worldRows) + 1] = w
<1>1. CASE UNCHANGED <<worldRows, lastWorld>>
    BY <1>1 DEF TypeOK
<1>2. CASE ~HasRow(w) /\ worldRows' = Append(worldRows, w) /\ lastWorld' = Len(worldRows) + 1
  <2>1. worldRows \in Seq(Level)
    BY DEF TypeOK
  <2> QED
    BY <1>2, <2>1, Appended DEF WorldRow
<1> QED
    BY <1>1, <1>2 DEF InsertWorld

\* The row of a level that has one is a number.
LEMMA RowOfType ==
    ASSUME NEW w, HasRow(w)
    PROVE  RowOf(w) \in WorldRow /\ worldRows[RowOf(w)] = w
BY DEF HasRow, RowOf

\* The tables have lengths, and rows have numbers.
LEMMA RowsAreNumbers ==
    ASSUME TypeOK
    PROVE  PlayerRow \subseteq Nat /\ WorldRow \subseteq Nat
           /\ Len(playerRows) \in Nat /\ Len(worldRows) \in Nat
<1>1. Len(playerRows) \in Nat /\ Len(worldRows) \in Nat
    BY LenProperties DEF TypeOK
<1> QED
    BY <1>1 DEF PlayerRow, WorldRow

\* Where a thread stands may be named like this.
LEMMA NoTargetType ==
    ASSUME AccountsAssumption
    PROVE  NoTarget \in [account : Account \cup {None}, column : Columns \cup {None},
                         value : BOOLEAN, level : Level]
BY DEF AccountsAssumption, NoTarget

\* A step of t that leaves rowid, username and target alone.
LEMMA TypeGoto ==
    ASSUME TypeOK, NEW t \in Thread, pc[t] # "out",
           NEW stage \in Stage \ {"updating"}, Goto(t, stage),
           UNCHANGED <<username, rowid, target>>, PlayerRow \subseteq PlayerRow'
    PROVE  /\ pc' \in [Thread -> Stage]
           /\ \A u \in Thread : pc'[u] # "out" => username'[u] # None
           /\ \A u \in Thread : pc'[u] = "updating" =>
                 rowid'[u] \in PlayerRow' /\ target'[u].column \in Columns
BY DEF TypeOK, Goto

\* A login, and the way out, keep the types.
LEMMA TypeLogin ==
    ASSUME AccountsAssumption, TypeOK, NEW t \in Thread, Login(t)
    PROVE  TypeOK'
<1> USE DEF Stage, LoggingIn
<1>1. ASSUME NEW a \in Account, Connect(t, a)
      PROVE  TypeOK'
  <2>1. a # None
    BY DEF AccountsAssumption
  <2> QED
    BY <1>1, <2>1 DEF Connect, Goto, TypeOK, players, worlds, PlayerRow, WorldRow
<1>2. ASSUME NEW r \in 0 .. Len(playerRows), Find(t, r)
      PROVE  TypeOK'
    BY <1>2, RowsAreNumbers DEF Find, Goto, TypeOK, players, worlds, PlayerRow, WorldRow
<1>3. CASE InsertPlayer(t)
  <2> DEFINE u == username[t]
  <2>1. u \in Account /\ Len(playerRows) \in Nat
    BY <1>3, RowsAreNumbers DEF InsertPlayer, TypeOK
  <2>2. /\ playerRows' \in Seq(Account) /\ PlayerRow \subseteq PlayerRow'
        /\ lastPlayer' \in Nat /\ astray' \subseteq Account
    <3>1. CASE UNCHANGED playerRows
      BY <1>3, <2>1, <3>1, CrossingType DEF InsertPlayer, Inserted, TypeOK, PlayerRow
    <3>2. CASE playerRows' = Append(playerRows, u) /\ Inserted(t, Len(playerRows) + 1)
      <4>1. playerRows' \in Seq(Account) /\ Len(playerRows') = Len(playerRows) + 1
        BY <2>1, <3>2, Appended DEF TypeOK
      <4> QED
        BY <2>1, <3>2, <4>1, CrossingType DEF Inserted, TypeOK, PlayerRow
    <3> QED
      BY <1>3, <3>1, <3>2 DEF InsertPlayer
  <2>3. /\ pc' \in [Thread -> Stage]
        /\ \A v \in Thread : pc'[v] # "out" => username'[v] # None
        /\ \A v \in Thread : pc'[v] = "updating" =>
              rowid'[v] \in PlayerRow' /\ target'[v].column \in Columns
    BY <1>3, <2>2, TypeGoto DEF InsertPlayer
  <2> QED
    BY <1>3, <2>2, <2>3 DEF InsertPlayer, TypeOK, worlds, WorldRow
<1>4. CASE ReadRowid(t)
    BY <1>4 DEF ReadRowid, Goto, TypeOK, players, worlds, PlayerRow, WorldRow
<1>5. CASE InsertAlias(t)
  <2>1. /\ aliases' \subseteq PlayerRow \X Account /\ IsFiniteSet(aliases')
        /\ lastPlayer' \in Nat /\ astray' \subseteq Account
    <3>1. username[t] \in Account
      BY <1>5 DEF InsertAlias, TypeOK
    <3> QED
      <4> DEFINE row == <<rowid[t], username[t]>>
      <4>1. InsertRelation(t, aliases, row)
        BY <1>5 DEF InsertAlias
      <4>2. row[1] \in PlayerRow => row \in PlayerRow \X Account
        BY <3>1
      <4>3. /\ aliases' \subseteq PlayerRow \X Account /\ IsFiniteSet(aliases')
            /\ lastPlayer' \in Nat
            /\ astray' = astray \/ astray' = astray \cup Crossing(t)
        <5> HIDE DEF row
        <5> QED
          BY <4>1, <4>2, AliasInserted
      <4> QED
        BY <4>3, CrossingType DEF TypeOK
  <2>2. PlayerRow' = PlayerRow
    BY <1>5 DEF InsertAlias, PlayerRow
  <2> QED
    BY <1>5, <2>1, <2>2, TypeGoto DEF InsertAlias, TypeOK, worlds, WorldRow
<1>6. ASSUME NEW ip \in Address, InsertAddress(t, ip)
      PROVE  TypeOK'
  <2>1. /\ ips' \subseteq PlayerRow \X Address /\ IsFiniteSet(ips')
        /\ lastPlayer' \in Nat /\ astray' \subseteq Account
    BY <1>6, AddressInserted, CrossingType DEF InsertAddress, TypeOK
  <2>2. PlayerRow' = PlayerRow
    BY <1>6 DEF InsertAddress, PlayerRow
  <2> QED
    BY <1>6, <2>1, <2>2, TypeGoto DEF InsertAddress, TypeOK, worlds, WorldRow
<1>7. CASE GetRecord(t)
    BY <1>7 DEF GetRecord, Goto, TypeOK, players, worlds, PlayerRow, WorldRow
<1>8. CASE Leave(t)
    BY <1>8 DEF Leave, Goto, TypeOK, players, worlds, PlayerRow, WorldRow
<1> QED
    BY <1>1, <1>2, <1>3, <1>4, <1>5, <1>6, <1>7, <1>8 DEF Login

\* Commands and edits keep the types.
LEMMA TypeCommand ==
    ASSUME AccountsAssumption, TypeOK, NEW t \in Thread, Command(t)
    PROVE  TypeOK'
<1> USE DEF Stage, LoggingIn
<1> DEFINE Target == [account : Account \cup {None}, column : Columns \cup {None},
                      value : BOOLEAN, level : Level]
<1>1. ASSUME NEW a \in Account, NEW r \in PlayerRow, NEW c \in Columns,
             NEW v \in BOOLEAN, FindTarget(t, a, r, c, v)
      PROVE  TypeOK'
  <2> DEFINE g == [NoTarget EXCEPT !.account = a, !.column = c, !.value = v]
  <2>1. g \in Target /\ g.column = c
    BY NoTargetType DEF NoTarget
  <2>2. target' = [target EXCEPT ![t] = g]
    BY <1>1 DEF FindTarget
  <2> HIDE DEF g
  <2>3. target' \in [Thread -> Target] /\ target'[t].column \in Columns
    BY <2>1, <2>2 DEF TypeOK
  <2>4. \A u \in Thread : pc'[u] = "updating" =>
            rowid'[u] \in PlayerRow /\ target'[u].column \in Columns
    BY <1>1, <2>2, <2>3 DEF FindTarget, Goto, TypeOK
  <2> QED
    BY <1>1, <2>3, <2>4, RowsAreNumbers
    DEF FindTarget, Goto, TypeOK, players, worlds, PlayerRow, WorldRow
<1>2. ASSUME Done(t), PlayerRow' = PlayerRow
      PROVE  /\ pc' \in [Thread -> Stage] /\ rowid' \in [Thread -> Nat]
             /\ username' \in [Thread -> Account \cup {None}]
             /\ target' \in [Thread -> Target]
             /\ pc[t] # "out" => \A u \in Thread : pc'[u] # "out" => username'[u] # None
             /\ \A u \in Thread : pc'[u] = "updating" =>
                   rowid'[u] \in PlayerRow' /\ target'[u].column \in Columns
    BY <1>2, NoTargetType DEF Done, Goto, TypeOK
<1>3. CASE Update(t)
  <2>1. flags' \subseteq PlayerRow \X Columns
    BY <1>3 DEF Update, TypeOK
  <2>2. PlayerRow' = PlayerRow
    BY <1>3 DEF Update, PlayerRow
  <2> QED
    BY <1>2, <1>3, <2>1, <2>2 DEF Update, TypeOK, worlds, WorldRow
<1>4. ASSUME NEW w \in Level, new(t, w) \/ edit(t, w)
      PROVE  TypeOK'
  <2> DEFINE g == [NoTarget EXCEPT !.level = w]
  <2>1. g \in Target
    BY NoTargetType DEF NoTarget
  <2>2. target' = [target EXCEPT ![t] = g]
    BY <1>4 DEF new, edit
  <2> HIDE DEF g
  <2>3. target' \in [Thread -> Target]
    BY <2>1, <2>2 DEF TypeOK
  <2>4. \A u \in Thread \ {t} : target'[u] = target[u]
    BY <2>2 DEF TypeOK
  <2>5. CASE new(t, w)
    BY <2>3, <2>4, <2>5 DEF new, Goto, TypeOK, players, worlds, PlayerRow, WorldRow
  <2>6. CASE edit(t, w)
    <3>1. files' \subseteq Level /\ levels' \subseteq files' /\ worldId' \in [Level -> Nat]
      BY <2>6, PublishType, RowOfType, RowsAreNumbers DEF edit, TypeOK
    <3> QED
      BY <2>3, <2>4, <2>6, <3>1 DEF edit, Goto, TypeOK, players, PlayerRow, WorldRow
  <2> QED
    BY <1>4, <2>5, <2>6
<1>5. target[t].level \in Level
    BY DEF TypeOK
<1>6. CASE FindWorld(t)
  <2>1. PlayerRow' = PlayerRow
    BY <1>6 DEF FindWorld, PlayerRow, players
  <2>2. CASE Goto(t, "creating") /\ UNCHANGED <<username, rowid, target, files, levels, worldId>>
             /\ holder' = t
    BY <1>6, <2>1, <2>2, TypeGoto DEF FindWorld, TypeOK, players, WorldRow
  <2>3. CASE Done(t) /\ UNCHANGED holder
    <3>1. files' \subseteq Level /\ levels' \subseteq files' /\ worldId' \in [Level -> Nat]
      BY <1>5, <1>6, <2>3, PublishType, RowOfType, RowsAreNumbers DEF FindWorld, TypeOK, Done, Goto
    <3> QED
      BY <1>2, <1>6, <2>1, <2>3, <3>1 DEF FindWorld, TypeOK, players, WorldRow
  <2> QED
    BY <1>6, <2>2, <2>3 DEF FindWorld
<1>7. CASE createWorld(t)
  <2>1. worldRows' \in Seq(Level) /\ lastWorld' \in Nat
    BY <1>5, <1>7, WorldInserted DEF createWorld
  <2>2. PlayerRow' = PlayerRow
    BY <1>7 DEF createWorld, PlayerRow, players
  <2> QED
    BY <1>7, <2>1, <2>2, TypeGoto DEF createWorld, TypeOK, players
<1>8. CASE Created(t)
  <2>1. files' \subseteq Level /\ levels' \subseteq files' /\ worldId' \in [Level -> Nat]
    BY <1>5, <1>8, PublishType DEF Created, TypeOK
  <2>2. PlayerRow' = PlayerRow
    BY <1>8 DEF Created, PlayerRow, players
  <2> QED
    BY <1>2, <1>8, <2>1, <2>2 DEF Created, TypeOK, players, WorldRow
<1>9. ASSUME NEW r \in 0 .. Len(playerRows), FindEditor(t, r)
      PROVE  TypeOK'
    BY <1>9, RowsAreNumbers DEF FindEditor, Goto, TypeOK, players, worlds, PlayerRow, WorldRow
<1>10. CASE logBlockChange(t)
  <2>1. PlayerRow' = PlayerRow
    BY <1>10 DEF logBlockChange, PlayerRow, players
  <2> QED
    BY <1>2, <1>10, <2>1 DEF logBlockChange, TypeOK, players, worlds, WorldRow
<1> QED
    BY <1>1, <1>3, <1>4, <1>6, <1>7, <1>8, <1>9, <1>10 DEF Command

\* Every step keeps the types.
LEMMA TypeStep ==
    ASSUME AccountsAssumption, TypeOK, [Next]_vars
    PROVE  TypeOK'
<1>1. CASE Boot
  <2>1. worldRows' \in Seq(Level) /\ lastWorld' \in Nat
    BY <1>1, WorldInserted DEF Boot, TypeOK, AccountsAssumption
  <2>2. files' \subseteq Level /\ levels' \subseteq files' /\ worldId' \in [Level -> Nat]
    BY <1>1, <2>1, PublishType, RowOfType, RowsAreNumbers DEF Boot, AccountsAssumption
  <2> QED
    BY <1>1, <2>1, <2>2 DEF Boot, TypeOK, locals, players, PlayerRow
<1>2. CASE Crash
    BY <1>2, NoTargetType DEF Crash, TypeOK, PlayerRow, Stage
<1>3. CASE UNCHANGED vars
    BY <1>3 DEF vars, locals, players, worlds, TypeOK, PlayerRow
<1> QED
    BY <1>1, <1>2, <1>3, TypeLogin, TypeCommand DEF Next

\* No alias, address or flag is left without the player's row it refers to.
THEOREM TypeCorrect == Spec => []TypeOK
<1>1. Init => TypeOK
  <2> SUFFICES ASSUME Init
               PROVE  TypeOK
    OBVIOUS
  <2>1. IsFiniteSet(aliases) /\ IsFiniteSet(ips)
    BY FS_EmptySet DEF Init
  <2>2. playerRows \in Seq(Account) /\ worldRows \in Seq(Level)
    BY DEF Init
  <2> QED
    BY <2>1, <2>2, AccountsAssumption, NoTargetType DEF Init, TypeOK, Stage
<1>2. TypeOK /\ [Next]_vars => TypeOK'
    BY AccountsAssumption, TypeStep
<1> QED
    BY <1>1, <1>2, PTL DEF Spec

-----------------------------------------------------------------------------

LoggedIn == {"in", "updating", "wanting", "creating", "created", "editing", "logging"}

\* What a thread counts on while it is inside loginPlayer and afterwards.
\* Unless its INSERT failed or was crossed, last_insert_rowid is its row until
\* it is read.
ThreadSound(t) ==
    /\ pc[t] = "reading" => Owns(username[t], lastPlayer)
    /\ pc[t] \in {"aliasing", "addressing", "fetching", "logging"}
          => Owns(username[t], rowid[t])
    /\ pc[t] = "updating" => Owns(target[t].account, rowid[t])
    /\ pc[t] \in LoggedIn => HasAccount(username[t]) \/ username[t] \in astray

AliasesSound == \A e \in aliases : Owns(e[2], e[1])

Sound == AliasesSound /\ \A t \in Thread : ThreadSound(t)

\* Rows stay, and so does the history.
Grows ==
    /\ PlayerRow \subseteq PlayerRow'
    /\ \A r \in PlayerRow : playerRows'[r] = playerRows[r]
    /\ astray \subseteq astray'

\* Where rows and history only grow, what is owned stays owned.
LEMMA Stable ==
    ASSUME Grows
    PROVE  /\ \A a, r : Owns(a, r) => Owns(a, r)'
           /\ \A a : HasAccount(a) => HasAccount(a)'
BY DEF Grows, Owns, HasAccount

\* A lookup finds a row the account owns, if there is one.
LEMMA Lookup ==
    ASSUME TypeOK, Sound, NEW a
    PROVE  /\ \A r \in Matches(a) : Owns(a, r)
           /\ \A r \in findPlayerRowid(a) : r # 0 => Owns(a, r)
           /\ HasAccount(a) => \A r \in findPlayerRowid(a) : Owns(a, r)
<1>1. \A r \in Matches(a) : Owns(a, r)
    BY DEF Matches, Sound, AliasesSound, Owns
<1>2. HasAccount(a) => Matches(a) # {}
    BY DEF Matches, HasAccount
<1>3. 0 \notin PlayerRow
    BY DEF PlayerRow
<1>4. Matches(a) \subseteq PlayerRow
    BY DEF Matches
<1> QED
    BY <1>1, <1>2, <1>3, <1>4 DEF findPlayerRowid

\* What a step of t means to another thread.
LEMMA OtherThread ==
    ASSUME Sound, Grows, NEW t \in Thread, NEW u \in Thread \ {t},
           pc'[u] = pc[u], username'[u] = username[u], rowid'[u] = rowid[u],
           target'[u] = target[u],
           (playerRows' = playerRows /\ lastPlayer' = lastPlayer) \/ Crossing(t) \subseteq astray'
    PROVE  ThreadSound(u)'
<1>1. ThreadSound(u)
    BY DEF Sound
<1>2. pc[u] \in FirstLogin => \/ playerRows' = playerRows /\ lastPlayer' = lastPlayer
                             \/ username[u] \in astray'
    BY DEF Crossing
<1>4. pc[u] = "reading" => Owns(username[u], lastPlayer)'
    BY <1>1, <1>2, Stable DEF ThreadSound, FirstLogin, Grows, Owns
<1>5. pc[u] \in {"aliasing", "addressing", "fetching", "logging"} => Owns(username[u], rowid[u])'
    BY <1>1 DEF ThreadSound, Grows, Owns
<1>6. pc[u] = "updating" => Owns(target[u].account, rowid[u])'
    BY <1>1 DEF ThreadSound, Grows, Owns
<1>7. pc[u] \in LoggedIn => (HasAccount(username[u]) \/ username[u] \in astray)'
    BY <1>1 DEF ThreadSound, Grows, HasAccount
<1> QED
    BY <1>4, <1>5, <1>6, <1>7 DEF ThreadSound

\* A step that leaves the database alone leaves the aliases sound.
LEMMA AliasesKept ==
    ASSUME Sound, Grows, aliases' = aliases
    PROVE  AliasesSound'
BY Stable DEF Sound, AliasesSound

\* The steps of a thread that leave players.db alone.
LEMMA QuietStep ==
    ASSUME AccountsAssumption, TypeOK, Sound, NEW t \in Thread,
           Login(t) \/ Command(t), UNCHANGED players
    PROVE  ThreadSound(t)'
<1> DEFINE n == username[t]
<1>1. /\ \A a, r : Owns(a, r)' <=> Owns(a, r)
      /\ \A a : HasAccount(a)' <=> HasAccount(a)
      /\ lastPlayer' = lastPlayer /\ astray' = astray
    BY DEF players, Owns, HasAccount, PlayerRow
<1>2. ThreadSound(t)
    BY DEF Sound
<1>3. ASSUME Owns(n, rowid[t])
      PROVE  HasAccount(n) \/ n \in astray
    BY <1>3 DEF Owns, HasAccount
<1>4. ASSUME NEW a \in Account, Connect(t, a)
      PROVE  ThreadSound(t)'
    BY <1>4 DEF Connect, Goto, ThreadSound, TypeOK, LoggedIn
<1>5. ASSUME NEW r \in 0 .. Len(playerRows), Find(t, r)
      PROVE  ThreadSound(t)'
  <2>1. username'[t] = n /\ rowid'[t] = r /\ r \in findPlayerRowid(n)
        /\ pc'[t] = IF r = 0 THEN "inserting" ELSE "aliasing"
    BY <1>5 DEF Find, Goto, TypeOK
  <2>2. r # 0 => Owns(n, r)
    BY <2>1, Lookup
  <2> QED
    BY <1>1, <2>1, <2>2 DEF ThreadSound, LoggedIn
<1>6. CASE ReadRowid(t)
  <2>1. username'[t] = n /\ rowid'[t] = lastPlayer /\ pc'[t] = "aliasing" /\ pc[t] = "reading"
    BY <1>6 DEF ReadRowid, Goto, TypeOK
  <2> QED
    BY <1>1, <1>2, <2>1 DEF ThreadSound, LoggedIn
<1>7. CASE GetRecord(t)
  <2>1. pc[t] = "fetching" /\ (pc'[t] = "out" \/ (pc'[t] = "in" /\ username'[t] = n))
    BY <1>7 DEF GetRecord, Goto, TypeOK
  <2> QED
    BY <1>1, <1>2, <1>3, <2>1 DEF ThreadSound, LoggedIn
<1>8. ASSUME pc[t] \in LoggedIn, username' = username,
             pc'[t] \in LoggedIn \ {"updating", "logging"}
      PROVE  ThreadSound(t)'
    BY <1>1, <1>2, <1>8 DEF ThreadSound, LoggedIn
<1>9. CASE InsertPlayer(t) \/ InsertAlias(t) \/ \E ip \in Address : InsertAddress(t, ip)
  <2>1. CASE InsertPlayer(t)
    <3>1. n \in astray'
      <4>1. n \in Account /\ Len(playerRows) \in Nat
        BY <2>1, RowsAreNumbers DEF InsertPlayer, TypeOK
      <4>2. Append(playerRows, n) # playerRows
        <5>1. Len(Append(playerRows, n)) = Len(playerRows) + 1
          BY <4>1, Appended DEF TypeOK
        <5> QED
          BY <4>1, <5>1
      <4> QED
        BY <2>1, <4>2 DEF InsertPlayer, players
    <3>2. pc[t] = "inserting" /\ pc'[t] = "reading" /\ username' = username
      BY <2>1 DEF InsertPlayer, Goto, TypeOK
    <3> QED
      BY <3>1, <3>2 DEF ThreadSound, Owns, LoggedIn
  <2>2. CASE InsertAlias(t) \/ \E ip \in Address : InsertAddress(t, ip)
    <3>1. /\ pc[t] \in {"aliasing", "addressing"} /\ pc'[t] \in {"addressing", "fetching"}
          /\ username' = username /\ rowid' = rowid
      BY <2>2 DEF InsertAlias, InsertAddress, Goto, TypeOK
    <3> QED
      BY <1>1, <1>2, <3>1 DEF ThreadSound, LoggedIn
  <2> QED
    BY <1>9, <2>1, <2>2
<1>10. CASE Leave(t)
    BY <1>10 DEF Leave, Goto, TypeOK, ThreadSound, LoggedIn
<1>11. ASSUME NEW a \in Account, NEW r \in PlayerRow, NEW c \in Columns,
              NEW v \in BOOLEAN, FindTarget(t, a, r, c, v)
       PROVE  ThreadSound(t)'
  <2>1. /\ pc[t] = "in" /\ pc'[t] = "updating" /\ username' = username
        /\ rowid'[t] = r /\ r \in Matches(a)
    BY <1>11 DEF FindTarget, Goto, TypeOK
  <2>2. target'[t].account = a
    BY <1>11 DEF FindTarget, NoTarget, TypeOK
  <2>3. Owns(a, r)
    BY <2>1, Lookup
  <2> QED
    BY <1>1, <1>2, <2>1, <2>2, <2>3 DEF ThreadSound, LoggedIn
<1>12. CASE Update(t) \/ FindWorld(t) \/ createWorld(t) \/ Created(t) \/ logBlockChange(t)
    BY <1>8, <1>12 DEF Update, FindWorld, createWorld, Created, logBlockChange, Done, Goto,
       TypeOK, LoggedIn
<1>13. ASSUME NEW w \in Level, new(t, w) \/ edit(t, w)
       PROVE  ThreadSound(t)'
    BY <1>8, <1>13 DEF new, edit, Goto, TypeOK, LoggedIn
<1>14. ASSUME NEW r \in 0 .. Len(playerRows), FindEditor(t, r)
       PROVE  ThreadSound(t)'
  <2>1. /\ pc[t] = "editing" /\ pc'[t] = "logging" /\ username' = username
        /\ rowid'[t] = r /\ r \in findPlayerRowid(n)
    BY <1>14 DEF FindEditor, Goto, TypeOK
  <2>2. Owns(n, r)
    BY <1>2, <2>1, Lookup DEF ThreadSound, LoggedIn, Owns
  <2> QED
    BY <1>1, <1>2, <2>1, <2>2 DEF ThreadSound, LoggedIn
<1> QED
    BY <1>4, <1>5, <1>6, <1>7, <1>9, <1>10, <1>11, <1>12, <1>13, <1>14 DEF Login, Command

\* The steps that change players.db: what they change, what t then counts on,
\* and that the other threads are told apart by Crossing.
LEMMA InsertPlayerStep ==
    ASSUME TypeOK, Sound, NEW t \in Thread, InsertPlayer(t)
    PROVE  /\ Grows /\ AliasesSound' /\ ThreadSound(t)'
           /\ \/ playerRows' = playerRows /\ lastPlayer' = lastPlayer
              \/ Crossing(t) \subseteq astray'
<1> DEFINE n == username[t]
<1>1. n \in Account /\ Len(playerRows) \in Nat
    BY RowsAreNumbers DEF InsertPlayer, TypeOK
<1>2. pc'[t] = "reading" /\ username'[t] = n /\ aliases' = aliases
    BY DEF InsertPlayer, Goto, TypeOK
<1>3. CASE playerRows' = Append(playerRows, n) /\ Inserted(t, Len(playerRows) + 1)
  <2>1. /\ Len(playerRows') = Len(playerRows) + 1
        /\ \A r \in PlayerRow : playerRows'[r] = playerRows[r]
        /\ playerRows'[Len(playerRows) + 1] = n
    BY <1>1, <1>3, Appended DEF TypeOK, PlayerRow
  <2>2. Grows
    BY <1>1, <1>3, <2>1 DEF Grows, PlayerRow, Inserted
  <2>3. lastPlayer' \in PlayerRow' /\ playerRows'[lastPlayer'] = n
    BY <1>1, <1>3, <2>1 DEF Inserted, PlayerRow
  <2>4. ThreadSound(t)'
    BY <1>2, <2>3 DEF ThreadSound, Owns, LoggedIn
  <2> QED
    BY <1>2, <1>3, <2>2, <2>4, AliasesKept DEF Inserted
<1>4. CASE /\ UNCHANGED playerRows /\ astray \cup {n} \subseteq astray'
           /\ lastPlayer' = lastPlayer \/ Crossing(t) \subseteq astray'
  <2>1. Grows
    BY <1>4 DEF Grows, PlayerRow
  <2>2. ThreadSound(t)'
    BY <1>2, <1>4 DEF ThreadSound, Owns, LoggedIn
  <2> QED
    BY <1>2, <1>4, <2>1, <2>2, AliasesKept
<1> QED
    BY <1>3, <1>4 DEF InsertPlayer

\* A new alias leads to the account of the thread that inserts it.
LEMMA InsertAliasStep ==
    ASSUME TypeOK, Sound, NEW t \in Thread, InsertAlias(t)
    PROVE  /\ Grows /\ AliasesSound' /\ ThreadSound(t)'
           /\ playerRows' = playerRows
           /\ lastPlayer' = lastPlayer \/ Crossing(t) \subseteq astray'
<1> DEFINE row == <<rowid[t], username[t]>>
<1>1. username[t] \in Account /\ playerRows' = playerRows /\ PlayerRow' = PlayerRow
    BY DEF InsertAlias, TypeOK, PlayerRow
<1>2. InsertRelation(t, aliases, row) /\ (row[1] \in PlayerRow => row \in PlayerRow \X Account)
    BY <1>1 DEF InsertAlias
<1>3. row[1] = rowid[t] /\ row[2] = username[t]
    OBVIOUS
<1>4. /\ aliases' = aliases \/ aliases' = aliases \cup {row}
      /\ (lastPlayer' = lastPlayer /\ astray' = astray)
            \/ astray' = astray \cup Crossing(t)
  <2> HIDE DEF row
  <2> QED
    BY <1>2, AliasInserted
<1>5. Grows
    BY <1>1, <1>4 DEF Grows
<1>6. Owns(username[t], rowid[t]) /\ Owns(username[t], rowid[t])'
  <2>1. ThreadSound(t) /\ pc[t] = "aliasing"
    BY DEF Sound, InsertAlias
  <2>2. Owns(username[t], rowid[t])
    BY <2>1 DEF ThreadSound
  <2>3. username' = username /\ rowid' = rowid
    BY DEF InsertAlias
  <2> QED
    BY <1>5, <2>2, <2>3 DEF Grows, Owns
<1>7. AliasesSound'
  <2>1. \A e \in aliases : Owns(e[2], e[1])'
    BY <1>5, Stable DEF Sound, AliasesSound
  <2>2. \A e : e = row => Owns(e[2], e[1])'
    BY <1>3, <1>6 DEF InsertAlias, Owns
  <2> QED
    BY <1>4, <2>1, <2>2 DEF AliasesSound
<1>8. pc'[t] = "addressing"
    BY DEF InsertAlias, Goto, TypeOK
<1>9. ThreadSound(t)'
    BY <1>6, <1>8 DEF ThreadSound, LoggedIn
<1> QED
    BY <1>1, <1>4, <1>5, <1>7, <1>9

\* An INSERT of an address moves last_insert_rowid for astray accounts only.
LEMMA InsertAddressStep ==
    ASSUME TypeOK, Sound, NEW t \in Thread, NEW ip \in Address, InsertAddress(t, ip)
    PROVE  /\ Grows /\ AliasesSound' /\ ThreadSound(t)'
           /\ playerRows' = playerRows
           /\ lastPlayer' = lastPlayer \/ Crossing(t) \subseteq astray'
<1> DEFINE row == <<rowid[t], ip>>
<1>1. playerRows' = playerRows /\ PlayerRow' = PlayerRow /\ aliases' = aliases
    BY DEF InsertAddress, PlayerRow
<1>2. InsertRelation(t, ips, row) /\ (row[1] \in PlayerRow => row \in PlayerRow \X Address)
    BY DEF InsertAddress
<1>3. (lastPlayer' = lastPlayer /\ astray' = astray) \/ astray' = astray \cup Crossing(t)
  <2> HIDE DEF row
  <2> QED
    BY <1>2, AddressInserted
<1>4. Grows
    BY <1>1, <1>3 DEF Grows
<1>5. Owns(username[t], rowid[t])'
  <2>1. ThreadSound(t) /\ pc[t] = "addressing"
    BY DEF Sound, InsertAddress
  <2>2. Owns(username[t], rowid[t])
    BY <2>1 DEF ThreadSound
  <2> QED
    BY <1>4, <2>2 DEF Grows, Owns, InsertAddress
<1>6. pc'[t] = "fetching"
    BY DEF InsertAddress, Goto, TypeOK
<1>7. ThreadSound(t)'
    BY <1>5, <1>6 DEF ThreadSound, LoggedIn
<1> QED
    BY <1>1, <1>3, <1>4, <1>7, AliasesKept

\* An UPDATE disturbs no thread and no alias.
LEMMA UpdateStep ==
    ASSUME TypeOK, Sound, NEW t \in Thread, Update(t)
    PROVE  /\ Grows /\ AliasesSound' /\ ThreadSound(t)'
           /\ playerRows' = playerRows /\ lastPlayer' = lastPlayer
<1>1. /\ playerRows' = playerRows /\ lastPlayer' = lastPlayer /\ aliases' = aliases
      /\ astray' = astray /\ PlayerRow' = PlayerRow
    BY DEF Update, PlayerRow
<1>2. Grows
    BY <1>1 DEF Grows
<1>3. ThreadSound(t) /\ pc[t] = "updating" /\ pc'[t] = "in" /\ username' = username
    BY DEF Sound, Update, Done, Goto, TypeOK
<1>4. ThreadSound(t)'
    BY <1>1, <1>3 DEF ThreadSound, LoggedIn, HasAccount
<1> QED
    BY <1>1, <1>2, <1>4, AliasesKept

\* A thread changes no other thread's locals.
LEMMA OthersLocals ==
    ASSUME TypeOK, NEW t \in Thread, Login(t) \/ Command(t), NEW u \in Thread \ {t}
    PROVE  /\ pc'[u] = pc[u] /\ username'[u] = username[u] /\ rowid'[u] = rowid[u]
           /\ target'[u] = target[u]
<1>1. CASE Login(t)
    BY <1>1 DEF Login, Connect, Find, InsertPlayer, ReadRowid, InsertAlias, InsertAddress,
       GetRecord, Leave, Goto, TypeOK
<1>2. CASE Command(t)
    BY <1>2 DEF Command, FindTarget, Update, new, edit, FindWorld, createWorld, Created,
       FindEditor, logBlockChange, Done, Goto, TypeOK
<1> QED
    BY <1>1, <1>2

\* Every step keeps Sound.
LEMMA SoundStep ==
    ASSUME AccountsAssumption, TypeOK, Sound, [Next]_vars
    PROVE  Sound'
<1>1. ASSUME NEW t \in Thread, Login(t) \/ Command(t), Grows, AliasesSound', ThreadSound(t)',
             (playerRows' = playerRows /\ lastPlayer' = lastPlayer) \/ Crossing(t) \subseteq astray'
      PROVE  Sound'
  <2>1. ASSUME NEW u \in Thread \ {t}
        PROVE  ThreadSound(u)'
    BY <1>1, OthersLocals, OtherThread
  <2> QED
    BY <1>1, <2>1 DEF Sound
<1>2. UNCHANGED players => Grows /\ AliasesSound' /\ playerRows' = playerRows /\ lastPlayer' = lastPlayer
  <2>1. UNCHANGED players => Grows /\ aliases' = aliases
    BY DEF players, Grows, PlayerRow
  <2> QED
    BY <2>1, AliasesKept DEF players
<1>3. ASSUME NEW t \in Thread, Login(t) \/ Command(t), UNCHANGED players
      PROVE  Sound'
    BY <1>1, <1>2, <1>3, QuietStep
<1>4. ASSUME NEW t \in Thread, Login(t)
      PROVE  Sound'
  <2>1. CASE InsertPlayer(t)
    BY <1>1, <1>4, <2>1, InsertPlayerStep
  <2>2. CASE InsertAlias(t)
    BY <1>1, <1>4, <2>2, InsertAliasStep
  <2>3. ASSUME NEW ip \in Address, InsertAddress(t, ip)
        PROVE  Sound'
    BY <1>1, <1>4, <2>3, InsertAddressStep
  <2>4. CASE UNCHANGED players
    BY <1>3, <1>4, <2>4
  <2> QED
    BY <1>4, <2>1, <2>2, <2>3, <2>4 DEF Login, Connect, Find, ReadRowid, GetRecord, Leave
<1>5. ASSUME NEW t \in Thread, Command(t)
      PROVE  Sound'
  <2>1. CASE Update(t)
    BY <1>1, <1>5, <2>1, UpdateStep
  <2>2. CASE UNCHANGED players
    BY <1>3, <1>5, <2>2
  <2> QED
    BY <1>5, <2>1, <2>2 DEF Command, FindTarget, new, edit, FindWorld, createWorld, Created,
       FindEditor, logBlockChange
<1>6. CASE Boot \/ UNCHANGED vars
  <2>1. UNCHANGED <<players, locals>>
    BY <1>6 DEF Boot, vars
  <2>2. ASSUME NEW t \in Thread
        PROVE  ThreadSound(t)'
    BY <2>1 DEF players, locals, Sound, ThreadSound, Owns, HasAccount, PlayerRow
  <2> QED
    BY <1>2, <2>1, <2>2 DEF Sound
<1>7. CASE Crash
  <2>1. Grows /\ aliases' = aliases
    BY <1>7 DEF Crash, Grows, PlayerRow
  <2>2. ASSUME NEW t \in Thread
        PROVE  ThreadSound(t)'
    BY <1>7 DEF Crash, ThreadSound, LoggedIn
  <2> QED
    BY <2>1, <2>2, AliasesKept DEF Sound
<1> QED
    BY <1>4, <1>5, <1>6, <1>7 DEF Next

\* The strengthening of OwnRecord is an invariant: each thread that is past its
\* lookup has a row of its account, or the account went astray.
THEOREM SoundAlways == Spec => []Sound
<1>1. Init => Sound
    BY DEF Init, Sound, AliasesSound, ThreadSound, LoggedIn
<1>2. TypeOK /\ Sound /\ [Next]_vars => Sound'
    BY AccountsAssumption, SoundStep
<1> QED
    BY <1>1, <1>2, TypeCorrect, PTL DEF Spec

\* Players are let in with their own record, and aliases lead to their own
\* account, unless the account went astray when it was made.
THEOREM OwnRecordAlways == Spec => []OwnRecord
<1>1. Sound => OwnRecord
    BY DEF Sound, AliasesSound, ThreadSound, OwnRecord
<1> QED
    BY <1>1, SoundAlways, PTL

\* Commands change the rights of the account they name only, unless that account
\* went astray.
THEOREM RightsGoAsMeant == Spec => RightsAsMeant
<1> DEFINE Meant == \A r \in PlayerRow : \A c \in Columns :
                       (<<r, c>> \in flags) # (<<r, c>> \in flags')
                          => \E t \in Thread : /\ pc[t] = "updating"
                                               /\ Owns(target[t].account, r)
<1>1. Sound /\ [Next]_vars => [Meant]_vars
  <2> SUFFICES ASSUME Sound, Next
               PROVE  Meant
    OBVIOUS
  <2>1. CASE flags' = flags
    BY <2>1
  <2>2. ASSUME NEW t \in Thread, Update(t)
        PROVE  Meant
    <3>1. pc[t] = "updating" /\ Owns(target[t].account, rowid[t])
      BY <2>2 DEF Update, Sound, ThreadSound
    <3>2. \A e : e # <<rowid[t], target[t].column>> => (e \in flags <=> e \in flags')
      BY <2>2 DEF Update
    <3> QED
      BY <3>1, <3>2
  <2>3. CASE Boot \/ Crash
    BY <2>1, <2>3 DEF Boot, Crash, players
  <2>4. ASSUME NEW t \in Thread, Login(t)
        PROVE  Meant
    BY <2>1, <2>4 DEF Login, Connect, Find, InsertPlayer, ReadRowid, InsertAlias,
       InsertAddress, GetRecord, Leave, players
  <2>5. ASSUME NEW t \in Thread, Command(t), ~Update(t)
        PROVE  Meant
    BY <2>1, <2>5 DEF Command, FindTarget, new, edit, FindWorld, createWorld, Created,
       FindEditor, logBlockChange, players
  <2> QED
    BY <2>2, <2>3, <2>4, <2>5 DEF Next
<1> QED
    BY <1>1, SoundAlways, PTL DEF Spec, RightsAsMeant

-----------------------------------------------------------------------------

\* What a thread counts on while it is in createWorld, or edits.
WorldThread(t) ==
    /\ pc[t] \in {"creating", "created"} <=> holder = t
    /\ pc[t] \in {"creating", "created"} => target[t].level \notin levels
    /\ pc[t] = "creating" => ~HasRow(target[t].level)
    /\ pc[t] = "created" => (HasRow(target[t].level) => Names(lastWorld, target[t].level))
    /\ pc[t] \in {"editing", "logging"} => target[t].level \in levels
    /\ main \notin levels => pc[t] = "out"

WorldSound == WorldIds /\ \A t \in Thread : WorldThread(t)

\* A thread that does not hold registryMutex depends on the registry growing.
LEMMA OtherWorlds ==
    ASSUME AccountsAssumption, WorldSound, NEW t \in Thread, NEW u \in Thread \ {t},
           pc'[u] = pc[u], target'[u] = target[u], levels \subseteq levels',
           (holder' = holder /\ UNCHANGED worlds) \/ (holder \in {t, None} /\ holder' \in {t, None})
    PROVE  WorldThread(u)'
<1>1. WorldThread(u) /\ None \notin Thread
    BY DEF WorldSound, AccountsAssumption
<1>2. CASE holder' = holder /\ UNCHANGED worlds
  <2>1. \A i, w : Names(i, w)' <=> Names(i, w)
    BY <1>2 DEF Names, WorldRow, worlds
  <2>2. \A w : HasRow(w)' <=> HasRow(w)
    BY <1>2 DEF HasRow, WorldRow, worlds
  <2>3. lastWorld' = lastWorld /\ levels' = levels
    BY <1>2 DEF worlds
  <2> QED
    BY <1>1, <1>2, <2>1, <2>2, <2>3 DEF WorldThread
<1>3. CASE holder \in {t, None} /\ holder' \in {t, None}
    BY <1>1, <1>3 DEF WorldThread
<1> QED
    BY <1>2, <1>3

\* A level that is published under the id of its row keeps WorldIds.
LEMMA PublishIds ==
    ASSUME TypeOK, WorldIds, NEW w \in Level, NEW i, Publish(w, i), HasRow(w) => Names(i, w),
           UNCHANGED worldRows
    PROVE  WorldIds'
<1>1. /\ \A j, v : Names(j, v)' <=> Names(j, v)
      /\ \A v : HasRow(v)' <=> HasRow(v)
    BY DEF Names, HasRow, WorldRow
<1>2. ASSUME NEW v \in levels', HasRow(v)
      PROVE  Names(worldId'[v], v)
    BY <1>2 DEF WorldIds, Publish, TypeOK
<1> QED
    BY <1>1, <1>2 DEF WorldIds

\* Steps that leave worlds.db and the registry alone.
LEMMA QuietWorlds ==
    ASSUME AccountsAssumption, TypeOK, WorldSound, NEW t \in Thread, UNCHANGED worlds,
           \A u \in Thread \ {t} : pc'[u] = pc[u] /\ target'[u] = target[u],
           pc[t] \notin {"creating", "created"}, pc'[t] \notin {"creating", "created"},
           pc'[t] \in {"editing", "logging"} => target'[t].level \in levels,
           main \in levels \/ pc'[t] = "out"
    PROVE  WorldSound'
<1>1. /\ \A i, w : Names(i, w)' <=> Names(i, w)
      /\ \A w : HasRow(w)' <=> HasRow(w)
      /\ levels' = levels /\ worldId' = worldId /\ holder' = holder
    BY DEF Names, HasRow, WorldRow, worlds
<1>2. WorldIds'
    BY <1>1 DEF WorldSound, WorldIds
<1>3. WorldThread(t)'
    BY <1>1 DEF WorldSound, WorldThread
<1>4. ASSUME NEW u \in Thread \ {t}
      PROVE  WorldThread(u)'
    BY <1>1, OtherWorlds
<1> QED
    BY <1>2, <1>3, <1>4 DEF WorldSound

\* A login leaves the levels alone.
LEMMA WorldLogin ==
    ASSUME AccountsAssumption, TypeOK, WorldSound, NEW t \in Thread, Login(t)
    PROVE  WorldSound'
<1>1. \A u \in Thread \ {t} : pc'[u] = pc[u] /\ target'[u] = target[u]
    BY OthersLocals
<1>2. WorldThread(t)
    BY DEF WorldSound
<1>3. /\ UNCHANGED worlds /\ pc[t] \notin {"creating", "created", "editing"}
      /\ pc'[t] \notin {"creating", "created", "editing", "logging"}
      /\ main \in levels \/ pc'[t] = "out"
    BY <1>2 DEF Login, Connect, Find, InsertPlayer, ReadRowid, InsertAlias, InsertAddress,
       GetRecord, Leave, Goto, TypeOK, WorldThread
<1> QED
    BY <1>1, <1>3, QuietWorlds

\* Commands and edits keep WorldSound.
LEMMA WorldCommand ==
    ASSUME AccountsAssumption, TypeOK, WorldSound, NEW t \in Thread, Command(t)
    PROVE  WorldSound'
<1>1. \A u \in Thread \ {t} : pc'[u] = pc[u] /\ target'[u] = target[u]
    BY OthersLocals
<1>2. WorldThread(t) /\ WorldIds /\ None \notin Thread
    BY DEF WorldSound, AccountsAssumption
<1>3. target[t].level \in Level
    BY DEF TypeOK
<1>4. ASSUME WorldIds', WorldThread(t)', levels \subseteq levels',
             holder \in {t, None} /\ holder' \in {t, None}
      PROVE  WorldSound'
    BY <1>1, <1>4, OtherWorlds DEF WorldSound
<1>5. ASSUME NEW a \in Account, NEW r \in PlayerRow, NEW c \in Columns,
             NEW v \in BOOLEAN, FindTarget(t, a, r, c, v)
      PROVE  WorldSound'
  <2>1. pc[t] = "in" /\ pc'[t] = "updating" /\ UNCHANGED worlds /\ main \in levels
    BY <1>2, <1>5 DEF FindTarget, Goto, TypeOK, WorldThread
  <2> QED
    BY <1>1, <2>1, QuietWorlds
<1>6. CASE Update(t) \/ logBlockChange(t)
  <2>1. /\ pc[t] \in {"updating", "logging"} /\ pc'[t] = "in" /\ UNCHANGED worlds
        /\ main \in levels
    BY <1>2, <1>6 DEF Update, logBlockChange, Done, Goto, TypeOK, WorldThread
  <2> QED
    BY <1>1, <2>1, QuietWorlds
<1>7. ASSUME NEW r \in 0 .. Len(playerRows), FindEditor(t, r)
      PROVE  WorldSound'
  <2>1. /\ pc[t] = "editing" /\ pc'[t] = "logging" /\ UNCHANGED worlds /\ main \in levels
        /\ target' = target /\ target[t].level \in levels
    BY <1>2, <1>7 DEF FindEditor, Goto, TypeOK, WorldThread
  <2> QED
    BY <1>1, <2>1, QuietWorlds
<1>8. ASSUME NEW w \in Level, new(t, w)
      PROVE  WorldSound'
  <2>1. pc[t] = "in" /\ pc'[t] = "wanting" /\ UNCHANGED worlds /\ main \in levels
    BY <1>2, <1>8 DEF new, Goto, TypeOK, WorldThread
  <2> QED
    BY <1>1, <2>1, QuietWorlds
<1>9. ASSUME NEW w \in Level, edit(t, w)
      PROVE  WorldSound'
  <2>1. /\ pc[t] = "in" /\ pc'[t] = "editing" /\ holder = None /\ holder' = None
        /\ main \in levels /\ UNCHANGED worldRows
    BY <1>2, <1>9 DEF edit, Goto, TypeOK, WorldThread
  <2>2. target'[t].level = w
    BY <1>9 DEF edit, NoTarget, TypeOK
  <2>3. levels \subseteq levels' /\ w \in levels'
    BY <1>9 DEF edit, Publish
  <2>4. WorldIds'
    <3>1. CASE w \in levels /\ UNCHANGED <<files, levels, worldId>>
      BY <1>2, <2>1, <3>1 DEF WorldIds, Names, HasRow, WorldRow
    <3>2. CASE HasRow(w) /\ Publish(w, RowOf(w))
      <4>1. Names(RowOf(w), w)
        BY <3>2, RowOfType DEF Names
      <4> QED
        BY <1>2, <2>1, <3>2, <4>1, PublishIds
    <3> QED
      BY <1>9, <3>1, <3>2 DEF edit
  <2>5. WorldThread(t)'
    BY <1>2, <2>1, <2>2, <2>3 DEF WorldThread
  <2> QED
    BY <1>4, <2>1, <2>3, <2>4, <2>5
<1>10. CASE FindWorld(t)
  <2> DEFINE w == target[t].level
  <2>1. pc[t] = "wanting" /\ holder = None /\ main \in levels /\ UNCHANGED worldRows
    BY <1>2, <1>10 DEF FindWorld, WorldThread
  <2>2. CASE w \in levels \/ HasRow(w)
    <3>1. holder' = None /\ pc'[t] = "in" /\ levels \subseteq levels'
      BY <1>10, <2>1, <2>2 DEF FindWorld, Done, Goto, TypeOK, Publish
    <3>2. WorldIds'
      <4>1. CASE UNCHANGED <<files, levels, worldId>>
        BY <1>2, <2>1, <4>1 DEF WorldIds, Names, HasRow, WorldRow
      <4>2. CASE w \notin levels
        <5>1. HasRow(w) /\ Publish(w, RowOf(w))
          BY <1>10, <2>2, <4>2 DEF FindWorld
        <5>2. Names(RowOf(w), w)
          BY <5>1, RowOfType DEF Names
        <5> QED
          BY <1>2, <1>3, <2>1, <5>1, <5>2, PublishIds
      <4> QED
        BY <1>10, <2>2, <4>1, <4>2 DEF FindWorld
    <3>3. WorldThread(t)'
      BY <1>2, <2>1, <3>1 DEF WorldThread
    <3> QED
      BY <1>4, <2>1, <3>1, <3>2, <3>3
  <2>3. CASE ~(w \in levels \/ HasRow(w))
    <3>1. /\ holder' = t /\ pc'[t] = "creating" /\ UNCHANGED <<target, files, levels, worldId>>
      BY <1>10, <2>3 DEF FindWorld, Goto, TypeOK
    <3>2. WorldIds'
      BY <1>2, <2>1, <3>1 DEF WorldIds, Names, HasRow, WorldRow
    <3>3. ~HasRow(w)'
      BY <2>1, <2>3, <3>1 DEF HasRow, WorldRow
    <3>4. WorldThread(t)'
      BY <1>2, <2>1, <2>3, <3>1, <3>3 DEF WorldThread
    <3> QED
      BY <1>4, <2>1, <3>1, <3>2, <3>4
  <2> QED
    BY <2>2, <2>3
<1>11. CASE createWorld(t)
  <2> DEFINE w == target[t].level
  <2>1. /\ pc[t] = "creating" /\ pc'[t] = "created" /\ holder = t /\ holder' = t
        /\ main \in levels /\ UNCHANGED <<target, levels, worldId>>
        /\ w \notin levels /\ ~HasRow(w)
    BY <1>2, <1>11 DEF createWorld, Goto, TypeOK, WorldThread
  <2>2. InsertWorld(w)
    BY <1>11 DEF createWorld
  <2>3. CASE UNCHANGED <<worldRows, lastWorld>>
    <3>1. WorldIds'
      BY <1>2, <2>1, <2>3 DEF WorldIds, Names, HasRow, WorldRow
    <3>2. ~HasRow(w)'
      BY <2>1, <2>3 DEF HasRow, WorldRow
    <3>3. WorldThread(t)'
      BY <1>2, <2>1, <3>2 DEF WorldThread
    <3> QED
      BY <1>4, <2>1, <3>1, <3>3
  <2>4. CASE ~UNCHANGED <<worldRows, lastWorld>>
    <3>1. /\ lastWorld' = Len(worldRows) + 1 /\ Len(worldRows') = Len(worldRows) + 1
          /\ \A i \in WorldRow : worldRows'[i] = worldRows[i]
          /\ worldRows'[Len(worldRows) + 1] = w
      BY <1>3, <2>2, <2>4, WorldInserted
    <3>2. Len(worldRows) \in Nat
      BY RowsAreNumbers
    <3>3. WorldRow' = WorldRow \cup {lastWorld'}
      BY <3>1, <3>2 DEF WorldRow
    <3>4. WorldIds'
      <4>1. ASSUME NEW v \in levels, HasRow(v)'
            PROVE  HasRow(v)
        BY <2>1, <3>1, <3>3, <4>1 DEF HasRow
      <4>2. ASSUME NEW i, NEW v, Names(i, v)
            PROVE  Names(i, v)'
        BY <3>1, <3>3, <4>2 DEF Names
      <4> QED
        BY <1>2, <2>1, <4>1, <4>2 DEF WorldIds
    <3>5. \A v : v = w => Names(lastWorld, v)'
      BY <3>1, <3>3 DEF Names
    <3>6. WorldThread(t)'
      BY <1>2, <2>1, <3>5 DEF WorldThread
    <3> QED
      BY <1>4, <2>1, <3>4, <3>6
  <2> QED
    BY <2>3, <2>4
<1>12. CASE Created(t)
  <2> DEFINE w == target[t].level
  <2>1. /\ pc[t] = "created" /\ pc'[t] = "in" /\ holder = t /\ holder' = None
        /\ main \in levels /\ levels \subseteq levels' /\ UNCHANGED worldRows
    BY <1>2, <1>12 DEF Created, Done, Goto, TypeOK, WorldThread, Publish
  <2>2. WorldIds'
    <3>1. Publish(w, lastWorld) /\ (HasRow(w) => Names(lastWorld, w))
      BY <1>2, <1>12, <2>1 DEF Created, WorldThread
    <3> QED
      BY <1>2, <1>3, <2>1, <3>1, PublishIds
  <2>3. WorldThread(t)'
    BY <1>2, <2>1 DEF WorldThread
  <2> QED
    BY <1>4, <2>1, <2>2, <2>3
<1> QED
    BY <1>5, <1>6, <1>7, <1>8, <1>9, <1>10, <1>11, <1>12 DEF Command

\* Every step keeps WorldSound.
LEMMA WorldStep ==
    ASSUME AccountsAssumption, TypeOK, WorldSound, [Next]_vars
    PROVE  WorldSound'
<1>1. CASE Boot
  <2>1. /\ \A t \in Thread : pc[t] = "out" /\ pc'[t] = "out" /\ holder # t
        /\ holder' = holder
    BY <1>1 DEF Boot, locals, WorldSound, WorldThread
  <2>2. \A t \in Thread : WorldThread(t)'
    BY <2>1 DEF WorldThread
  <2>3. WorldIds'
    <3>1. main \in Level
      BY DEF AccountsAssumption
    <3>2. CASE HasRow(main) /\ Publish(main, RowOf(main)) /\ UNCHANGED worldRows
      <4>1. Names(RowOf(main), main)
        BY <3>2, RowOfType DEF Names
      <4> QED
        BY <3>1, <3>2, <4>1, PublishIds DEF WorldSound
    <3>3. CASE InsertWorld(main) /\ Publish(main, lastWorld')
      <4>1. CASE UNCHANGED <<worldRows, lastWorld>> /\ ~HasRow(main)
        BY <3>1, <3>3, <4>1, PublishIds DEF WorldSound
      <4>2. CASE ~UNCHANGED <<worldRows, lastWorld>>
        <5>1. /\ lastWorld' = Len(worldRows) + 1 /\ Len(worldRows') = Len(worldRows) + 1
              /\ \A i \in WorldRow : worldRows'[i] = worldRows[i]
              /\ worldRows'[Len(worldRows) + 1] = main
          BY <3>1, <3>3, <4>2, WorldInserted
        <5>2. Len(worldRows) \in Nat
          BY RowsAreNumbers
        <5>3. WorldRow' = WorldRow \cup {lastWorld'}
          BY <5>1, <5>2 DEF WorldRow
        <5>4. ASSUME NEW v \in levels, v # main, HasRow(v)'
              PROVE  HasRow(v)
          BY <5>1, <5>3, <5>4 DEF HasRow
        <5>5. ASSUME NEW i, NEW v, Names(i, v)
              PROVE  Names(i, v)'
          BY <5>1, <5>3, <5>5 DEF Names
        <5>6. Names(lastWorld, main)'
          BY <5>1, <5>3 DEF Names
        <5>7. /\ levels' = levels \cup {main} /\ worldId'[main] = lastWorld'
              /\ \A v \in levels : v # main => worldId'[v] = worldId[v]
          BY <3>1, <3>3 DEF Publish, TypeOK
        <5>8. ASSUME NEW v \in levels', HasRow(v)'
              PROVE  (worldId'[v] \in WorldRow' /\ worldRows'[worldId'[v]] = v)
          <6>1. CASE v = main
            BY <5>6, <5>7, <6>1 DEF Names
          <6>2. CASE v # main
            BY <5>4, <5>5, <5>7, <5>8, <6>2 DEF WorldSound, WorldIds, Names
          <6> QED
            BY <6>1, <6>2
        <5> QED
          BY <5>8 DEF WorldIds, Names
      <4> QED
        BY <1>1, <3>2, <3>3, <4>1, <4>2 DEF Boot, InsertWorld
    <3> QED
      BY <1>1, <3>2, <3>3 DEF Boot
  <2> QED
    BY <2>2, <2>3 DEF WorldSound
<1>2. CASE Crash
  <2>1. None \notin Thread
    BY DEF AccountsAssumption
  <2> QED
    BY <1>2, <2>1 DEF Crash, WorldSound, WorldIds, WorldThread
<1>3. CASE UNCHANGED vars
  <2>1. /\ \A i, w : Names(i, w)' <=> Names(i, w)
        /\ \A w : HasRow(w)' <=> HasRow(w)
    BY <1>3 DEF Names, HasRow, WorldRow, vars, worlds
  <2>2. WorldIds'
    BY <1>3, <2>1 DEF WorldSound, WorldIds, vars, worlds
  <2>3. ASSUME NEW t \in Thread
        PROVE  WorldThread(t)'
    BY <1>3, <2>1 DEF WorldSound, WorldThread, vars, worlds, locals
  <2> QED
    BY <2>2, <2>3 DEF WorldSound
<1> QED
    BY <1>1, <1>2, <1>3, WorldLogin, WorldCommand DEF Next

\* The strengthening of WorldIds is an invariant: who creates a level holds
\* registryMutex from the lookup to the read of last_insert_rowid.
THEOREM WorldSoundAlways == Spec => []WorldSound
<1>1. Init => WorldSound
    BY AccountsAssumption DEF Init, WorldSound, WorldIds, WorldThread, AccountsAssumption
<1>2. TypeOK /\ WorldSound /\ [Next]_vars => WorldSound'
    BY AccountsAssumption, WorldStep
<1> QED
    BY <1>1, <1>2, TypeCorrect, PTL DEF Spec

\* A loaded level that has a row goes by its id.
THEOREM WorldIdsAlways == Spec => []WorldIds
<1>1. WorldSound => WorldIds
    BY DEF WorldSound
<1> QED
    BY <1>1, WorldSoundAlways, PTL

\* The block log names the player and the level, accounts gone astray and levels
\* without a row apart.
THEOREM LogAlwaysTrue == Spec => []LogTrue
<1>1. Sound /\ WorldSound => LogTrue
    BY DEF Sound, ThreadSound, WorldSound, WorldIds, WorldThread, LogTrue, LogRow
<1> QED
    BY <1>1, SoundAlways, WorldSoundAlways, PTL
=============================================================================
