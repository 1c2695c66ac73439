--------------------------- MODULE PresenceProofs ---------------------------
(* Proofs about Presence: players that have arrived on the same level see    *)
(* each other, for any number of players and levels and any overlap of their *)
(* joins, moves, exits, /tps and /dels, except where a /tp was led astray.   *)
EXTENDS Ghosts, TLAPS

\* switchWorld always has a player to move and a level (or, through /tp, the
\* player whose level it is) to move him to.
LEMMA TypeStep ==
    ASSUME PresenceAssumption, TypeOK, [Next]_vars
    PROVE  TypeOK'
<1> USE PresenceAssumption
    DEF PresenceAssumption, TypeOK, Stage, Listed, Switching, Serving, Goto
<1>1. CASE UNCHANGED vars
    BY <1>1 DEF vars, switch, deletion
<1>2. ASSUME NEW p \in Player, Thread(p)
      PROVE  TypeOK'
  <2>1. CASE Register(p)
    BY <2>1 DEF Register, switch, deletion
  <2>2. CASE JoinSpawn(p)
    BY <2>2 DEF JoinSpawn, Meet, OthersOn, Online, switch, deletion
  <2>3. CASE Disconnect(p)
    BY <2>3 DEF Disconnect, deletion
  <2>4. CASE Leave(p)
    BY <2>4 DEF Leave, deletion
  <2>5. CASE Finish(p)
    BY <2>5 DEF Finish, switch, deletion
  <2>6. CASE ReadOldLevel(p)
    BY <2>6 DEF ReadOldLevel, deletion
  <2>7. CASE DespawnOld(p)
    BY <2>7 DEF DespawnOld, Part, switch, deletion
  <2>8. CASE SetLevel(p)
    BY <2>8 DEF SetLevel, TargetName, LedBy, switch, deletion
  <2>9. CASE SpawnNew(p)
    <3>1. seen' \in [Player -> SUBSET Player]
        BY <2>9 DEF SpawnNew, Meet, OthersOn, Online
    <3> QED
        BY <2>9, <3>1 DEF SpawnNew, deletion
  <2>10. CASE AllMoved(p)
    BY <2>10 DEF AllMoved, switch, deletion
  <2>11. CASE Unload(p)
    BY <2>11 DEF Unload, switch
  <2>12. ASSUME NEW w \in World, join(p, w) \/ del(p, w)
         PROVE  TypeOK'
    BY <2>12 DEF join, del, Online, switch, deletion
  <2>13. ASSUME NEW q \in Player, tp(p, q) \/ MoveNext(p, q)
         PROVE  TypeOK'
    BY <2>13 DEF tp, MoveNext, deletion
  <2> QED
    BY <1>2, <2>1, <2>2, <2>3, <2>4, <2>5, <2>6, <2>7, <2>8, <2>9, <2>10, <2>11,
       <2>12, <2>13 DEF Thread, switchWorld
<1> QED
    BY <1>1, <1>2 DEF Next

\* Every component of the state has its type in every reachable state.
THEOREM TypeCorrect == Spec => []TypeOK
<1>1. Init => TypeOK
    BY PresenceAssumption DEF PresenceAssumption, Init, TypeOK, Stage, Listed, Switching
<1>2. TypeOK /\ [Next]_vars => TypeOK'
    BY PresenceAssumption, TypeStep
<1> QED
    BY <1>1, <1>2, PTL DEF Spec

-----------------------------------------------------------------------------

\* No thread still has to write p's level, or to spawn p on the level it is
\* on.  A thread that has written the level p is no longer on does not count:
\* the one that overwrote it spawns p, or has done so.
Arrived(p) ==
    /\ pc[p] \in Listed \ {"joining"}
    /\ \A t \in Player : subject[t] = p =>
          /\ pc[t] # "despawned"
          /\ pc[t] = "moved" => TargetName(t) # level[p]

Met(p, q) == q \in seen[p] /\ p \in seen[q]

\* AllMet in inductive form.
ArrivedMet ==
    \A p, q \in Player \ stray :
        p # q /\ Arrived(p) /\ Arrived(q) /\ level[p] = level[q] => Met(p, q)

\* Settled players have arrived.
LEMMA ArrivedMetImpliesAllMet == ArrivedMet => AllMet
BY DEF ArrivedMet, AllMet, Settled, Arrived, Met, Listed, Serving, Switching

\* A step keeps ArrivedMet when no player arrives by it or comes back from a
\* wrong /tp, no level changes under a player that stays arrived, and nobody
\* arrived loses sight.
LEMMA NoArrival ==
    ASSUME ArrivedMet,
           \A p \in Player \ stray' : Arrived(p)' =>
                Arrived(p) /\ p \notin stray /\ level'[p] = level[p],
           \A p, q \in Player : Arrived(p)' /\ Arrived(q)' /\ q \in seen[p]
                                    => q \in seen'[p]
    PROVE  ArrivedMet'
BY DEF ArrivedMet, Met

\* Joining: everybody on the level is met.
LEMMA JoinSpawnStep ==
    ASSUME TypeOK, ArrivedMet, NEW p \in Player, JoinSpawn(p)
    PROVE  ArrivedMet'
<1> SUFFICES ASSUME NEW a \in Player \ stray, NEW b \in Player \ stray, a # b,
                    Arrived(a)', Arrived(b)', level'[a] = level'[b]
             PROVE  Met(a, b)'
    BY DEF ArrivedMet, JoinSpawn
<1>1. /\ pc' = [pc EXCEPT ![p] = "serving"]
      /\ level' = level /\ subject' = subject /\ target' = target
      /\ pc[p] = "joining" /\ stray' = stray
    BY DEF JoinSpawn, Goto, switch
<1>2. \A q \in Player : Arrived(q)' => q \in Online
    BY <1>1 DEF Arrived, Online, Listed, TypeOK
<1>3. \A q \in Player \ {p} : Arrived(q)' => Arrived(q)
    BY <1>1 DEF Arrived, TargetName, TypeOK
<1>4. \A q, r \in Player : r \in seen[q] => r \in seen'[q]
    BY DEF JoinSpawn, Meet, TypeOK
<1>5. CASE a # p /\ b # p
    BY <1>1, <1>3, <1>4, <1>5 DEF ArrivedMet, Met
<1>6. \A q \in Player \ {p} : q \in Online /\ level[q] = level[p]
                                 => q \in seen'[p] /\ p \in seen'[q]
    BY DEF JoinSpawn, Meet, OthersOn, TypeOK
<1>7. CASE a = p
    BY <1>1, <1>2, <1>6, <1>7 DEF Met
<1>8. CASE b = p
    BY <1>1, <1>2, <1>6, <1>8 DEF Met
<1> QED
    BY <1>5, <1>7, <1>8

\* The end of switchWorld: whoever it was waited for is met; if its level has
\* been overwritten since, nobody arrives.
LEMMA SpawnNewStep ==
    ASSUME PresenceAssumption, TypeOK, ArrivedMet,
           NEW t \in Player, SpawnNew(t)
    PROVE  ArrivedMet'
<1> DEFINE p == subject[t]
           w == TargetName(t)
<1>1. /\ pc[t] = "moved" /\ p \in Player
      /\ pc' \in [Player -> Stage]
      /\ pc'[t] \in Serving /\ \A u \in Player \ {t} : pc'[u] = pc[u]
      /\ level' = level /\ stray' = stray
      /\ \A u \in Player \ {t} : subject'[u] = subject[u] /\ target'[u] = target[u]
    BY DEF SpawnNew, Goto, TypeOK, Switching, Serving, Stage, Listed, deletion
<1>2. \A u \in Player \ {t} : TargetName(u)' = TargetName(u)
    BY <1>1 DEF TargetName
<1>3. \A q \in Player : Arrived(q)' => q \in Online
    BY <1>1 DEF Arrived, Online, Listed, Serving, Switching
<1>4. \A q \in Player : Arrived(q)' /\ (q = p => level[p] # w) => Arrived(q)
    BY <1>1, <1>2 DEF Arrived, Listed, Serving, Switching
<1>5. \A q, r \in Player : r \in seen[q] => r \in seen'[q]
    BY DEF SpawnNew, Meet, TypeOK
<1>6. \A q \in Player \ {p} : q \in Online /\ level[q] = w
                                 => q \in seen'[p] /\ p \in seen'[q]
    BY <1>1 DEF SpawnNew, Meet, OthersOn, TypeOK
<1> SUFFICES ASSUME NEW a \in Player \ stray, NEW b \in Player \ stray, a # b,
                    Arrived(a)', Arrived(b)', level[a] = level[b]
             PROVE  Met(a, b)'
    BY <1>1 DEF ArrivedMet
<1>7. CASE a = p /\ level[p] = w
    BY <1>3, <1>6, <1>7 DEF Met
<1>8. CASE b = p /\ level[p] = w
    BY <1>3, <1>6, <1>8 DEF Met
<1>9. CASE (a = p => level[p] # w) /\ (b = p => level[p] # w)
    BY <1>4, <1>5, <1>9 DEF ArrivedMet, Met
<1> QED
    BY <1>7, <1>8, <1>9

\* A reference to a player's currentLevel is used under playersMutex, by its
\* holder, and so that player cannot leave the map and log in again meanwhile.
Referenced ==
    \A t \in Player : target[t] \in Player =>
        pc[t] \in Switching /\ holder = t /\ pc[target[t]] \in Listed

\* Every step keeps what is said of the players a /tp refers to.
LEMMA ReferencedStep ==
    ASSUME PresenceAssumption, TypeOK, Referenced, [Next]_vars
    PROVE  Referenced'
<1> USE DEF PresenceAssumption, TypeOK, Referenced, Goto, MayLock,
            Listed, Switching, Serving
<1>1. CASE UNCHANGED vars
    BY <1>1 DEF vars, switch
<1>2. ASSUME NEW p \in Player, Thread(p)
      PROVE  Referenced'
  <2>1. CASE Register(p)
    BY <2>1 DEF Register, switch
  <2>2. CASE JoinSpawn(p)
    BY <2>2 DEF JoinSpawn, switch
  <2>3. CASE Disconnect(p)
    BY <2>3 DEF Disconnect
  <2>4. CASE Leave(p)
    BY <2>4 DEF Leave
  <2>5. CASE Finish(p)
    BY <2>5 DEF Finish, switch
  <2>6. CASE ReadOldLevel(p)
    BY <2>6 DEF ReadOldLevel
  <2>7. CASE DespawnOld(p)
    BY <2>7 DEF DespawnOld, switch
  <2>8. CASE SetLevel(p)
    BY <2>8 DEF SetLevel, switch
  <2>9. CASE SpawnNew(p)
    BY <2>9 DEF SpawnNew
  <2>10. CASE AllMoved(p)
    BY <2>10 DEF AllMoved, switch
  <2>11. CASE Unload(p)
    BY <2>11 DEF Unload, switch
  <2>12. ASSUME NEW w \in World, join(p, w)
         PROVE  Referenced'
    BY <2>12 DEF join
  <2>13. ASSUME NEW w \in World, del(p, w)
         PROVE  Referenced'
    BY <2>13 DEF del, switch
  <2>14. ASSUME NEW q \in Player, tp(p, q)
         PROVE  Referenced'
    BY <2>14 DEF tp, Online
  <2>15. ASSUME NEW q \in Player, MoveNext(p, q)
         PROVE  Referenced'
    BY <2>15 DEF MoveNext
  <2> QED
    BY <1>2, <2>1, <2>2, <2>3, <2>4, <2>5, <2>6, <2>7, <2>8, <2>9, <2>10, <2>11,
       <2>12, <2>13, <2>14, <2>15 DEF Thread, switchWorld
<1> QED
    BY <1>1, <1>2 DEF Next

\* The write of currentLevel: the player that moves is waited for from now on,
\* and those whose /tp refers to it have gone astray or see no difference.
LEMMA SetLevelStep ==
    ASSUME PresenceAssumption, TypeOK, ArrivedMet, NEW t \in Player, SetLevel(t)
    PROVE  ArrivedMet'
<1> DEFINE s == subject[t]
           w == TargetName(t)
<1>1. /\ pc[t] = "despawned" /\ pc'[t] = "moved"
      /\ \A u \in Player \ {t} : pc'[u] = pc[u]
      /\ pc' \in [Player -> Stage]
      /\ s \in Player /\ subject' = subject /\ target' = target /\ seen' = seen
      /\ level'[s] = w /\ \A q \in Player \ {s} : level'[q] = level[q]
      /\ stray' = IF level[s] = w THEN stray \ {s} ELSE (stray \ {s}) \cup LedBy(s)
    BY DEF SetLevel, Goto, TypeOK, Switching, Stage, Listed, switch
<1>2. TargetName(t)' = w
    BY <1>1 DEF TargetName
<1>3. \A p \in Player : p = s => ~Arrived(p)'
    BY <1>1, <1>2 DEF Arrived
<1>4. ASSUME NEW p \in Player \ stray', Arrived(p)'
      PROVE  Arrived(p) /\ p \notin stray /\ level'[p] = level[p]
  <2>1. p # s
    BY <1>3, <1>4
  <2>2. pc[p] \in Listed \ {"joining"}
    BY <1>1, <1>4 DEF Arrived, Listed, Switching
  <2>3. ASSUME NEW u \in Player, subject[u] = p
        PROVE  pc[u] # "despawned" /\ (pc[u] = "moved" => TargetName(u) # level[p])
    <3>1. u # t
      BY <2>1, <2>3
    <3>2. pc[u] # "despawned" /\ (pc[u] = "moved" => TargetName(u)' # level[p])
      BY <1>1, <1>4, <2>1, <2>3, <3>1 DEF Arrived
    <3>3. CASE target[u] # s
      BY <1>1, <3>2, <3>3 DEF TargetName
    <3>4. CASE target[u] = s /\ level[s] = w
      BY <1>1, <3>2, <3>4 DEF TargetName
    <3>5. CASE target[u] = s /\ level[s] # w
      BY <1>1, <1>4, <2>3, <3>2, <3>5 DEF LedBy
    <3> QED
      BY <3>3, <3>4, <3>5
  <2> QED
    BY <1>1, <2>1, <2>2, <2>3 DEF Arrived
<1> QED
    BY <1>1, <1>4, NoArrival

\* Every step keeps ArrivedMet.
LEMMA MetStep ==
    ASSUME PresenceAssumption, TypeOK, Referenced, ArrivedMet, [Next]_vars
    PROVE  ArrivedMet'
<1>1. CASE UNCHANGED vars
    BY <1>1 DEF vars, switch, ArrivedMet, Arrived, Met, TargetName
<1>2. ASSUME NEW p \in Player, Thread(p)
      PROVE  ArrivedMet'
  <2> USE DEF TypeOK, Arrived, Goto, TargetName, Listed, Switching, Serving
  <2>1. CASE Register(p)
    BY <2>1, NoArrival DEF Register, switch, Referenced
  <2>2. CASE JoinSpawn(p)
    BY <2>2, JoinSpawnStep
  <2>3. CASE Disconnect(p)
    BY <2>3, NoArrival DEF Disconnect
  <2>4. CASE Leave(p)
    BY <2>4, NoArrival DEF Leave
  <2>5. CASE Finish(p)
    BY <2>5, NoArrival DEF Finish, switch
  <2>6. CASE ReadOldLevel(p)
    BY <2>6, NoArrival DEF ReadOldLevel
  <2>7. CASE DespawnOld(p)
    BY <2>7, NoArrival DEF DespawnOld, Part, switch
  <2>8. CASE SetLevel(p)
    BY <2>8, SetLevelStep
  <2>9. CASE SpawnNew(p)
    BY <2>9, SpawnNewStep
  <2>10. CASE AllMoved(p)
    BY <2>10, NoArrival DEF AllMoved, switch
  <2>11. CASE Unload(p)
    BY <2>11, NoArrival DEF Unload, switch
  <2>12. ASSUME NEW w \in World, join(p, w)
         PROVE  ArrivedMet'
    BY <2>12, NoArrival DEF join
  <2>13. ASSUME NEW w \in World, del(p, w)
         PROVE  ArrivedMet'
    BY <2>13, NoArrival DEF del, switch
  <2>14. ASSUME NEW q \in Player, tp(p, q)
         PROVE  ArrivedMet'
    BY <2>14, NoArrival DEF tp
  <2>15. ASSUME NEW q \in Player, MoveNext(p, q)
         PROVE  ArrivedMet'
    BY <2>15, NoArrival DEF MoveNext
  <2> QED
    BY <1>2, <2>1, <2>2, <2>3, <2>4, <2>5, <2>6, <2>7, <2>8, <2>9, <2>10, <2>11,
       <2>12, <2>13, <2>14, <2>15 DEF Thread, switchWorld
<1> QED
    BY <1>1, <1>2 DEF Next

\* Players that have arrived on the same level see each other, whatever moves
\* overlapped, unless a /tp led one of them astray.
THEOREM AllMeet == Spec => []AllMet
<1>1. Init => Referenced /\ ArrivedMet
    BY PresenceAssumption
    DEF PresenceAssumption, Init, Referenced, ArrivedMet, Arrived, Listed, Switching, Serving
<1>2. TypeOK /\ Referenced /\ ArrivedMet /\ [Next]_vars => (Referenced /\ ArrivedMet)'
    BY PresenceAssumption, ReferencedStep, MetStep
<1> QED
    BY <1>1, <1>2, TypeCorrect, ArrivedMetImpliesAllMet, PTL DEF Spec

-----------------------------------------------------------------------------

\* The client of p, who is online, shows q.
Showing(p, q) == p \in Online /\ q \in seen[p]

\* GhostsExplained, and what keeps it when a level changes: nobody shows, or is
\* shown by, a player who is in transit.
Explained ==
    \A p, q \in Player \ blurred :
        p # q =>
        /\ Showing(p, q) => q \in Online /\ level[q] = level[p]
        /\ InTransit(p) => ~ Showing(p, q) /\ ~ Showing(q, p)

\* Two players of whom one shows the other stay blurred: if neither is, neither
\* was, nor becomes it by this step.
LEMMA CleanPair ==
    ASSUME Observe, NEW p \in Player \ blurred', NEW q \in Player \ blurred',
           Showing(p, q)'
    PROVE  \A r \in {p, q} :
              r \notin blurred /\ ~ SpawnedAstray(r) /\ ~ DespawnedAstray(r)
<1>1. Shown(p)' /\ Shown(q)'
  BY DEF Shown, Showing
<1> QED
  BY <1>1 DEF Observe

\* A step that spawns nobody, moves nobody and lets nobody out explains itself.
LEMMA GhostQuiet ==
    ASSUME Explained, Observe,
           \A p, q \in Player : Showing(p, q)' => Showing(p, q),
           \A p \in Player : p \in Online => p \in Online' /\ level'[p] = level[p],
           \A p \in Player : InTransit(p)' => InTransit(p)
    PROVE  Explained'
<1> SUFFICES ASSUME NEW p \in Player \ blurred', NEW q \in Player \ blurred', p # q
             PROVE  /\ Showing(p, q)' => q \in Online' /\ level'[q] = level'[p]
                    /\ InTransit(p)' => ~ Showing(p, q)' /\ ~ Showing(q, p)'
  BY DEF Explained
<1>1. Showing(p, q)' \/ Showing(q, p)' => p \notin blurred /\ q \notin blurred
  BY CleanPair
<1>2. Showing(p, q) => p \in Online
  BY DEF Showing
<1> QED
  BY <1>1, <1>2 DEF Explained

\* Spawns: who is met is on the level the newcomer is on, and not in transit.
LEMMA GhostMeet ==
    ASSUME TypeOK, Explained, Observe, NEW p \in Player, NEW w,
           Meet(p, OthersOn(p, w)), Online' = Online, level' = level,
           (p \in Online /\ level[p] = w) \/ SpawnedAstray(p),
           \A r \in Player : InTransit(r)' => InTransit(r)
    PROVE  Explained'
<1> SUFFICES ASSUME NEW a \in Player \ blurred', NEW b \in Player \ blurred', a # b
             PROVE  /\ Showing(a, b)' => b \in Online /\ level[b] = level[a]
                    /\ InTransit(a)' => ~ Showing(a, b)' /\ ~ Showing(b, a)'
  BY DEF Explained
<1>1. ASSUME NEW c \in {a, b}, NEW d \in {a, b}, c # d, Showing(c, d)', ~ Showing(c, d)
      PROVE  /\ p \in {a, b} /\ a \in Online /\ b \in Online /\ level[a] = level[b]
             /\ c \in seen'[d] /\ d \in seen'[c]
  <2>1. c \in Online /\ d \in seen'[c] \ seen[c]
    BY <1>1 DEF Showing
  <2>2. (c = p /\ d \in OthersOn(p, w)) \/ (d = p /\ c \in OthersOn(p, w))
    <3>1. c \in Player /\ d \in Player
      OBVIOUS
    <3>2. seen'[c] = IF c = p THEN seen[c] \cup OthersOn(p, w)
                     ELSE IF c \in OthersOn(p, w) THEN seen[c] \cup {p} ELSE seen[c]
      BY <3>1 DEF Meet
    <3> QED
      BY <2>1, <3>2
  <2>3. ~ SpawnedAstray(p)
    BY <1>1, <2>2, CleanPair
  <2>4. p \in Online /\ level[p] = w
    BY <2>3
  <2> QED
    BY <2>1, <2>2, <2>4 DEF OthersOn, Meet, TypeOK
<1>2. Showing(a, b)' \/ Showing(b, a)'
        => /\ a \notin blurred /\ ~ SpawnedAstray(a)
           /\ b \notin blurred /\ ~ SpawnedAstray(b)
  BY CleanPair
<1>3. Showing(a, b)' => b \in Online /\ level[b] = level[a]
  BY <1>1, <1>2 DEF Explained
<1>4. ASSUME InTransit(a)', Showing(a, b)' \/ Showing(b, a)'
      PROVE  FALSE
  <2>1. InTransit(a) /\ ~ Showing(a, b) /\ ~ Showing(b, a)
    BY <1>2, <1>4 DEF Explained
  <2>2. a \in Online /\ b \in seen'[a]
    BY <1>1, <1>4, <2>1
  <2>3. b \notin seen[a]
    BY <2>1, <2>2 DEF Showing
  <2>4. SpawnedAstray(a)
    BY <2>1, <2>2, <2>3 DEF SpawnedAstray
  <2> QED
    BY <1>2, <1>4, <2>4
<1> QED
  BY <1>3, <1>4

\* A player enters the map: its client shows nobody, and nobody shows it.
LEMMA GhostRegister ==
    ASSUME TypeOK, Explained, Observe, NEW p \in Player, Register(p)
    PROVE  Explained'
<1> SUFFICES ASSUME NEW a \in Player \ blurred', NEW b \in Player \ blurred', a # b
             PROVE  /\ Showing(a, b)' => b \in Online' /\ level'[b] = level'[a]
                    /\ InTransit(a)' => ~ Showing(a, b)' /\ ~ Showing(b, a)'
  BY DEF Explained
<1>1. /\ Online' = Online \cup {p} /\ p \notin Online
      /\ seen'[p] = {} /\ \A q \in Player \ {p} : seen'[q] = seen[q]
      /\ \A q \in Player \ {p} : level'[q] = level[q]
  BY DEF Register, Goto, TypeOK, Online, Listed, Switching, Serving
<1>2. \A c, d \in Player : Showing(c, d)' => c # p /\ Showing(c, d)
  BY <1>1 DEF Showing
<1>3. InTransit(a)' => InTransit(a)
  BY DEF InTransit, Register, Goto, TypeOK, switch
<1>4. Showing(a, b)' \/ Showing(b, a)' => a \notin blurred /\ b \notin blurred
  BY CleanPair
<1> QED
  BY <1>1, <1>2, <1>3, <1>4 DEF Explained

\* A player leaves the level it is on: everybody who shows it is told.
LEMMA GhostLeave ==
    ASSUME TypeOK, Explained, Observe, NEW p \in Player, Leave(p)
    PROVE  Explained'
<1> SUFFICES ASSUME NEW a \in Player \ blurred', NEW b \in Player \ blurred', a # b
             PROVE  /\ Showing(a, b)' => b \in Online' /\ level'[b] = level'[a]
                    /\ InTransit(a)' => ~ Showing(a, b)' /\ ~ Showing(b, a)'
  BY DEF Explained
<1>1. /\ Online' = Online \ {p} /\ level' = level
      /\ \A q \in Player : seen'[q] = IF q \in OthersOn(p, oldLevel[p])
                                      THEN seen[q] \ {p} ELSE seen[q]
  BY DEF Leave, Goto, TypeOK, Online, Listed, Switching, Serving
<1>2. \A c, d \in Player : Showing(c, d)' => c # p /\ Showing(c, d)
  BY <1>1 DEF Showing
<1>3. InTransit(a)' => InTransit(a)
  BY DEF InTransit, Leave, Goto, TypeOK
<1>4. Showing(a, b)' \/ Showing(b, a)' => a \notin blurred /\ b \notin blurred
  BY CleanPair
<1>5. ASSUME Showing(a, b)'
      PROVE  b # p
  <2> SUFFICES ASSUME b = p
               PROVE  FALSE
    OBVIOUS
  <2>1. ~ DespawnedAstray(p)
    BY <1>5, CleanPair
  <2>2. oldLevel[p] = level[p]
    BY <2>1 DEF DespawnedAstray, Leave, Goto, TypeOK
  <2>3. a \in Online /\ a # p /\ level[a] = level[p]
    BY <1>2, <1>4, <1>5 DEF Explained, Showing
  <2>4. a \in OthersOn(p, oldLevel[p])
    BY <2>2, <2>3 DEF OthersOn
  <2> QED
    BY <1>1, <1>5, <2>4 DEF Showing
<1> QED
  BY <1>1, <1>2, <1>3, <1>4, <1>5 DEF Explained

\* switchWorld despawns the player on the level it is on: nobody shows it then.
LEMMA GhostDespawn ==
    ASSUME TypeOK, Explained, Observe, NEW t \in Player, DespawnOld(t)
    PROVE  Explained'
<1> DEFINE x == subject[t]
<1> SUFFICES ASSUME NEW a \in Player \ blurred', NEW b \in Player \ blurred', a # b
             PROVE  /\ Showing(a, b)' => b \in Online' /\ level'[b] = level'[a]
                    /\ InTransit(a)' => ~ Showing(a, b)' /\ ~ Showing(b, a)'
  BY DEF Explained
<1>1. /\ Online' = Online /\ level' = level /\ subject' = subject
      /\ x \in Player /\ pc[t] = "resolved" /\ pc' = [pc EXCEPT ![t] = "despawned"]
      /\ Part(x, OthersOn(x, oldLevel[t]))
  BY DEF DespawnOld, Goto, TypeOK, Online, Listed, Switching, Serving, switch
<1>2. \A c, d \in Player : Showing(c, d)' => Showing(c, d)
  BY <1>1 DEF Showing, Part, TypeOK
<1>3. Showing(a, b)' \/ Showing(b, a)'
        => /\ a \notin blurred /\ ~ DespawnedAstray(a)
           /\ b \notin blurred /\ ~ DespawnedAstray(b)
  BY CleanPair
<1>4. InTransit(a)' => a = x \/ InTransit(a)
  BY <1>1 DEF InTransit, TypeOK
<1>5. ASSUME a = x, Showing(a, b)' \/ Showing(b, a)'
      PROVE  FALSE
  <2>1. a \in Online /\ b \in Online /\ level[a] = level[b]
    BY <1>2, <1>3, <1>5 DEF Explained, Showing
  <2>2. pc'[t] = "despawned"
    BY <1>1 DEF TypeOK
  <2>3. oldLevel[t] = level[x]
    BY <1>1, <1>3, <1>5, <2>2 DEF DespawnedAstray
  <2>4. b \in OthersOn(x, oldLevel[t])
    BY <1>5, <2>1, <2>3 DEF OthersOn
  <2>5. b \notin seen'[x] /\ x \notin seen'[b]
    BY <1>1, <1>5, <2>4 DEF Part, TypeOK
  <2> QED
    BY <1>5, <2>5 DEF Showing
<1> QED
  BY <1>1, <1>2, <1>3, <1>4, <1>5 DEF Explained

\* currentLevel changes for a player nobody shows.
LEMMA GhostSetLevel ==
    ASSUME TypeOK, Explained, Observe, NEW t \in Player, SetLevel(t)
    PROVE  Explained'
<1> DEFINE x == subject[t]
<1> SUFFICES ASSUME NEW a \in Player \ blurred', NEW b \in Player \ blurred', a # b
             PROVE  /\ Showing(a, b)' => b \in Online' /\ level'[b] = level'[a]
                    /\ InTransit(a)' => ~ Showing(a, b)' /\ ~ Showing(b, a)'
  BY DEF Explained
<1>1. /\ Online' = Online /\ seen' = seen /\ x \in Player /\ InTransit(x)
      /\ \A q \in Player \ {x} : level'[q] = level[q]
  BY DEF SetLevel, Goto, TypeOK, Online, Listed, Switching, Serving, InTransit
<1>2. \A c, d \in Player : Showing(c, d)' => Showing(c, d)
  BY <1>1 DEF Showing
<1>3. InTransit(a)' => InTransit(a)
  BY DEF InTransit, SetLevel, Goto, TypeOK, switch
<1>4. Showing(a, b)' \/ Showing(b, a)' => a \notin blurred /\ b \notin blurred
  BY CleanPair
<1> QED
  BY <1>1, <1>2, <1>3, <1>4 DEF Explained

\* Every step keeps Explained.
LEMMA GhostStep ==
    ASSUME PresenceAssumption, TypeOK, Explained, [Next /\ Observe]_<<vars, blurred>>
    PROVE  Explained'
<1>1. CASE UNCHANGED <<vars, blurred>>
  BY <1>1 DEF vars, switch, Explained, Showing, InTransit, Online
<1>2. ASSUME NEW p \in Player, Thread(p), Observe
      PROVE  Explained'
  <2> USE DEF TypeOK, Goto, Online, Listed, Switching, Serving, Showing, InTransit
  <2>1. CASE Register(p)
    BY <1>2, <2>1, GhostRegister
  <2>2. CASE JoinSpawn(p)
    <3>1. \A r \in Player : InTransit(r)' => InTransit(r)
      BY <2>2 DEF JoinSpawn, switch
    <3> QED
      BY <1>2, <2>2, <3>1, GhostMeet DEF JoinSpawn
  <2>3. CASE Disconnect(p)
    BY <1>2, <2>3, GhostQuiet DEF Disconnect
  <2>4. CASE Leave(p)
    BY <1>2, <2>4, GhostLeave
  <2>5. CASE Finish(p)
    BY <1>2, <2>5, GhostQuiet DEF Finish, switch
  <2>6. CASE ReadOldLevel(p)
    BY <1>2, <2>6, GhostQuiet DEF ReadOldLevel
  <2>7. CASE DespawnOld(p)
    BY <1>2, <2>7, GhostDespawn
  <2>8. CASE SetLevel(p)
    BY <1>2, <2>8, GhostSetLevel
  <2>9. CASE SpawnNew(p)
    <3>1. \A r \in Player : InTransit(r)' => InTransit(r)
      BY <2>9, PresenceAssumption DEF SpawnNew, PresenceAssumption
    <3>2. subject[p] \in Player
      BY <2>9 DEF SpawnNew
    <3>3. Online' = Online /\ level' = level
      BY <2>9 DEF SpawnNew
    <3>4. \/ subject[p] \in Online /\ level[subject[p]] = TargetName(p)
          \/ SpawnedAstray(subject[p])
      BY <2>9 DEF SpawnNew, SpawnedAstray
    <3> QED
      BY <1>2, <2>9, <3>1, <3>2, <3>3, <3>4, GhostMeet DEF SpawnNew
  <2>10. CASE AllMoved(p) \/ Unload(p)
    BY <1>2, <2>10, GhostQuiet DEF AllMoved, Unload, switch
  <2>11. ASSUME NEW w \in World, join(p, w) \/ del(p, w)
         PROVE  Explained'
    BY <1>2, <2>11, GhostQuiet DEF join, del, switch
  <2>12. ASSUME NEW q \in Player, tp(p, q) \/ MoveNext(p, q)
         PROVE  Explained'
    BY <1>2, <2>12, GhostQuiet DEF tp, MoveNext
  <2> QED
    BY <1>2, <2>1, <2>2, <2>3, <2>4, <2>5, <2>6, <2>7, <2>8, <2>9, <2>10, <2>11,
       <2>12 DEF Thread, switchWorld
<1> QED
  BY <1>1, <1>2 DEF Next

\* For any number of players and levels: a client shows a player who is not there
\* only if a spawn met a player in transit, gone or moved on, or a despawn looked
\* for it on a level it was no longer on.  There is no other way to a ghost.
THEOREM GhostsAreExplained == HSpec => [](GhostsExplained /\ (blurred = {} => NoGhosts))
<1>1. [Next /\ Observe]_<<vars, blurred>> => [Next]_vars
  OBVIOUS
<1>2. HSpec => Spec
  BY <1>1, PTL DEF HSpec, Spec
<1>3. Init /\ blurred = {} => Explained
  BY DEF Init, Explained, Showing, Online, InTransit, Listed, Switching, Serving
<1>4. TypeOK /\ Explained /\ [Next /\ Observe]_<<vars, blurred>> => Explained'
  BY PresenceAssumption, GhostStep
<1>5. Explained => GhostsExplained
  BY DEF Explained, GhostsExplained, Showing
<1>6. GhostsExplained => (blurred = {} => NoGhosts)
  BY DEF GhostsExplained, NoGhosts, Settled, Online, Listed, Serving
<1> QED
  BY <1>2, <1>3, <1>4, <1>5, <1>6, TypeCorrect, PTL DEF HSpec
=============================================================================
