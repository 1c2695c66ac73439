------------------------------- MODULE Ghosts -------------------------------
(* Presence with a history of the steps that leave a client with a player it *)
(* should not show: the windows of switchWorld and of the way out.           *)
EXTENDS Presence

VARIABLE blurred  \* players of whom a client may show more than there is

\* p was despawned on the level it leaves and is still listed there.
InTransit(p) == \E t \in Player : subject[t] = p /\ pc[t] = "despawned"

\* p is spawned, with somebody, while it is in transit, gone, or elsewhere
\* than its switchWorld believes.
SpawnedAstray(p) ==
    \/ InTransit(p) /\ \E q \in Player : q \in seen'[p] \ seen[p]
    \/ \E t \in Player :
          /\ subject[t] = p /\ pc[t] = "moved" /\ pc'[t] # "moved"
          /\ p \notin Online \/ level[p] # TargetName(t)

\* p is despawned on a level that is not (any more) its own.
DespawnedAstray(p) ==
    \/ \E t \in Player :
          /\ subject[t] = p /\ pc[t] = "resolved" /\ pc'[t] = "despawned"
          /\ oldLevel[t] # level[p]
    \/ pc[p] = "leaving" /\ pc'[p] = "stopping" /\ oldLevel[p] # level[p]

\* Somebody shows p, or p's client shows somebody.
Shown(p) ==
    \E q \in Player : (q \in Online /\ p \in seen[q]) \/ (p \in Online /\ q \in seen[p])

Observe ==
    blurred' = {p \in Player :
                   /\ Shown(p)'
                   /\ p \in blurred \/ SpawnedAstray(p) \/ DespawnedAstray(p)}

HSpec == Init /\ blurred = {} /\ [][Next /\ Observe]_<<vars, blurred>>

-----------------------------------------------------------------------------

\* A client shows only players that are there, but for those whose spawn or
\* despawn fell into one of these windows.
GhostsExplained ==
    \A p, q \in Player \ blurred :
        p \in Online /\ q \in seen[p] => q \in Online /\ level[q] = level[p]
=============================================================================
