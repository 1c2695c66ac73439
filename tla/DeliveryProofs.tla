--------------------------- MODULE DeliveryProofs ---------------------------
(* Proofs about Delivery: for any players, any size of the sockets and       *)
(* whichever thread a shutdown interrupts, all clients hear the same         *)
(* messages in the same order (Delivery implements Chat), none of them is    *)
(* lost on the way, and a shutdown tells everybody.                          *)
EXTENDS Delivery, NatSets, SequenceTheorems, TLAPS

\* A handler in the stages of Busy has the mutex, or the shutdown that runs on it has.
Serialised ==
    \A t \in Player :
        pc[t] \in Busy =>
            \/ playersMutex = t
            \/ playersMutex = Down /\ victim = <<"handler", t>>

\* What its stage says about a handler's entry in the map.
Membership ==
    \A t \in Player :
        /\ pc[t] \in {"joining", "announcing", "idle", "arriving", "parting",
                      "moving", "meeting"} => t \in players
        /\ pc[t] = "stopping" => t \notin players

\* Where a shutdown is, and what it holds.
ShuttingDown ==
    /\ shutting = "no" => victim = None
    /\ shutting \in {"no", "asked", "over"} => farewell = {}
    /\ shutting \in {"no", "asked"} <=> playersMutex # Down
    /\ shutting \in {"locking", "flushing"} => flushing \in players
    /\ \A p \in Player :
          sendMutex[p] = Down <=> shutting = "flushing" /\ flushing = p

\* Who holds a sendMutex has something to send, and a player to send it to.
Flushed ==
    \A p \in Player : sendMutex[p] # None => sendQueue[p] # <<>> /\ pc[p] # "away"

Locks == TypeOK /\ Serialised /\ Membership /\ ShuttingDown /\ Flushed

-----------------------------------------------------------------------------

\* All that is on its way to a player.
Stream(p) == wire[p] \o sendQueue[p]

\* The walk that brings the last message has yet to reach p.
Owed(p) == \E t \in Player : pc[t] = "telling" /\ p \in todo[t]

\* What is on its way to a connected player are the messages after the last one
\* it heard, in order; then, if it was dismissed, the Disconnect packet.
InSequence(p) ==
    \A i \in 1 .. Len(Stream(p)) :
        Stream(p)[i] = IF i = Len(Stream(p)) /\ Dismissed(p) THEN Bye ELSE heard[p] + i

\* How many they are.
Complete(p) ==
    /\ Dismissed(p) => Len(Stream(p)) > 0
    /\ p \in players =>
          heard[p] + Len(Stream(p)) + (IF Owed(p) THEN 1 ELSE 0)
              = said + (IF Dismissed(p) THEN 1 ELSE 0)
    /\ p \notin players => heard[p] + Len(Stream(p)) <= said

\* Nothing is heard before it is said, a broken connection delivers nothing, and
\* a connection that is not there holds nothing.
Quiet(p) ==
    /\ heard[p] <= said
    /\ p \in broken => wire[p] = <<>>
    /\ pc[p] = "away" => wire[p] = <<>> /\ sendQueue[p] = <<>> /\ p \notin broken

\* A dismissed player's queue is flushed before the next one is dismissed.
FlushedInTurn(p) ==
    Dismissed(p) => \/ sendQueue[p] = <<>>
                    \/ p = flushing /\ shutting \in {"locking", "flushing"}

DeliversTo(p) ==
    Quiet(p) /\ (p \notin broken => InSequence(p) /\ Complete(p) /\ FlushedInTurn(p))

Delivers == \A p \in Player : DeliversTo(p)

-----------------------------------------------------------------------------

\* The player a walk comes to is one of those it has yet to visit.
LEMMA FirstOfMember ==
    ASSUME DeliveryAssumption, NEW S \in SUBSET Player, S # {}
    PROVE  FirstOf(S) \in S
<1>1. \E k \in S : \A j \in S : k <= j
    BY LeastElement DEF DeliveryAssumption
<1> QED
    BY <1>1 DEF FirstOf

\* While nobody holds playersMutex, or somebody else does, a handler that is
\* not interrupted is not on a walk.
LEMMA Exclusive ==
    ASSUME DeliveryAssumption, Locks
    PROVE  /\ playersMutex = None => \A t \in Player : pc[t] \notin Busy
           /\ \A t, u \in Player : pc[t] \in Busy /\ pc[u] \in Busy => t = u
           /\ \A t \in Player : pc[t] \in Busy /\ Handles(t) => playersMutex = t
BY DEF Locks, Serialised, ShuttingDown, Handles, Runs, TypeOK, DeliveryAssumption

-----------------------------------------------------------------------------
(* The locks. *)

\* A queue stays a queue.
LEMMA EnqueueType ==
    ASSUME Locks, NEW q, NEW m \in Nat, enqueue(q, m)
    PROVE  sendQueue' \in [Player -> Seq(Nat)]
<1>1. sendQueue \in [Player -> Seq(Nat)]
    BY DEF Locks, TypeOK
<1>2. CASE q \in Player
    <2>1. sendQueue[q] \in Seq(Nat)
        BY <1>1, <1>2
    <2>2. Append(sendQueue[q], m) \in Seq(Nat)
        BY <2>1
    <2> QED
        BY <1>1, <2>2 DEF enqueue
<1>3. CASE q \notin Player
    BY <1>1, <1>3 DEF enqueue
<1> QED
    BY <1>2, <1>3

\* The part of the invariant about locks holds at the start.
LEMMA InitLocks ==
    ASSUME DeliveryAssumption, Init
    PROVE  Locks
BY DEF Init, Locks, TypeOK, Serialised, Membership, ShuttingDown, Flushed, Busy, Walks, Stage,
       DeliveryAssumption

\* Every step keeps to the locks.
LEMMA LocksStep ==
    ASSUME DeliveryAssumption, Locks, Next
    PROVE  Locks'
<1> USE DeliveryAssumption DEF Locks, Goto, locks, output, shutdown, history
<1>x. /\ playersMutex = None => \A t \in Player : pc[t] \notin Busy
      /\ \A t, u \in Player : pc[t] \in Busy /\ pc[u] \in Busy => t = u
      /\ \A t \in Player : pc[t] \in Busy /\ Handles(t) => playersMutex = t
    BY Exclusive
<1>1. ASSUME NEW t \in Player, Visit(t) PROVE Locks'
    <2>q. FirstOf(todo[t]) \in todo[t] /\ todo[t] \subseteq Player
        BY <1>1, FirstOfMember DEF Visit, TypeOK
    <2>s. sendQueue' \in [Player -> Seq(Nat)]
        <3>1. said \in Nat
            BY DEF TypeOK
        <3>2. enqueue(FirstOf(todo[t]), said) \/ UNCHANGED sendQueue
            BY <1>1 DEF Visit
        <3> QED
            BY <3>1, <3>2, EnqueueType DEF TypeOK
    <2>1. TypeOK'
        BY <1>1, <2>s DEF TypeOK, Visit, locks, output, shutdown, history
    <2>2. Serialised'
        BY <1>1 DEF Serialised, TypeOK, Busy, Walks, Visit, enqueue
    <2>3. Membership'
        BY <1>1 DEF Membership, TypeOK, Visit, enqueue
    <2>4. ShuttingDown'
        BY <1>1 DEF ShuttingDown, TypeOK, Visit, enqueue
    <2>5. Flushed'
        BY <1>1 DEF Flushed, TypeOK, Visit, enqueue
    <2> QED
        BY <2>1, <2>2, <2>3, <2>4, <2>5
<1>2. ASSUME NEW t \in Player, WalkDone(t) PROVE Locks'
    <2>w. \A u \in Player : pc'[u] \in Walks => pc[u] \in Walks
        BY <1>2 DEF WalkDone, TypeOK, Goto, Walks
    <2>1. TypeOK'
        <3>1. pc' \in [Player -> Stage] /\ \A u \in Player : pc'[u] # "away" <=> pc[u] # "away"
            BY <1>2 DEF WalkDone, TypeOK, Goto, Walks, Stage
        <3>2. playersMutex' \in Player \cup {Down, None}
            BY <1>2 DEF WalkDone, TypeOK
        <3> QED
            BY <1>2, <2>w, <3>1, <3>2 DEF TypeOK, WalkDone, output, shutdown, history
    <2>2. Serialised'
        BY <1>2 DEF Serialised, TypeOK, Busy, Walks, WalkDone
    <2>3. Membership'
        BY <1>2 DEF Membership, TypeOK, WalkDone
    <2>4. ShuttingDown'
        <3>1. playersMutex # Down
            BY <1>2, <1>x DEF WalkDone, Busy, Handles, TypeOK, DeliveryAssumption
        <3>2. playersMutex' # Down
            BY <1>2, <3>1 DEF WalkDone, DeliveryAssumption
        <3> QED
            BY <1>2, <3>1, <3>2 DEF ShuttingDown, WalkDone, output, shutdown
    <2>5. Flushed'
        BY <1>2 DEF Flushed, TypeOK, WalkDone
    <2> QED
        BY <2>1, <2>2, <2>3, <2>4, <2>5
<1>3. ASSUME NEW t \in Player, SendLevel(t) PROVE Locks'
    <2>1. TypeOK'
        BY <1>3 DEF TypeOK, Stage, Walks, SendLevel, SendAlone
    <2>2. Serialised'
        BY <1>3 DEF Serialised, TypeOK, Busy, Walks, SendLevel
    <2>3. Membership'
        BY <1>3 DEF Membership, TypeOK, SendLevel
    <2>4. ShuttingDown'
        BY <1>3 DEF ShuttingDown, TypeOK, SendLevel
    <2>5. Flushed'
        BY <1>3 DEF Flushed, TypeOK, SendLevel
    <2> QED
        BY <2>1, <2>2, <2>3, <2>4, <2>5
<1>4. ASSUME NEW t \in Player, Arrive(t) PROVE Locks'
    <2>m. /\ todo' \in [Player -> SUBSET Player]
          /\ \A u \in Player : u # t => todo'[u] = todo[u]
          /\ todo'[t] \subseteq players
        <3>1. PICK others \in SUBSET (players \ {t}) :
                todo' = [todo EXCEPT ![t] = IF others = {} THEN {} ELSE others \cup {t}]
            BY <1>4 DEF Arrive, MeetSome
        <3> QED
            BY <1>4, <3>1 DEF Arrive, TypeOK, Membership
    <2>p. /\ pc' \in [Player -> Stage]
          /\ pc[t] # "away" /\ pc'[t] # "away"
          /\ \A u \in Player : u # t => pc'[u] = pc[u]
        BY <1>4 DEF Arrive, TypeOK, Goto, Stage, Walks
    <2>1. TypeOK'
        BY <1>4, <2>m, <2>p DEF TypeOK, Arrive, locks, output, shutdown, history
    <2>2. Serialised'
        BY <1>4 DEF Serialised, TypeOK, Busy, Walks, Arrive, MeetSome
    <2>3. Membership'
        BY <1>4 DEF Membership, TypeOK, Arrive, MeetSome
    <2>4. ShuttingDown'
        BY <1>4 DEF ShuttingDown, TypeOK, Arrive, MeetSome
    <2>5. Flushed'
        BY <1>4 DEF Flushed, TypeOK, Arrive, MeetSome
    <2> QED
        BY <2>1, <2>2, <2>3, <2>4, <2>5
<1>5. ASSUME NEW t \in Player, MoveLevel(t) PROVE Locks'
    <2>m. /\ todo' \in [Player -> SUBSET Player]
          /\ \A u \in Player : u # t => todo'[u] = todo[u]
          /\ todo'[t] \subseteq players
        <3>1. PICK others \in SUBSET (players \ {t}) :
                todo' = [todo EXCEPT ![t] = IF others = {} THEN {} ELSE others \cup {t}]
            BY <1>5 DEF MoveLevel, MeetSome
        <3> QED
            BY <1>5, <3>1 DEF MoveLevel, TypeOK, Membership
    <2>p. /\ pc' \in [Player -> Stage]
          /\ pc[t] # "away" /\ pc'[t] # "away"
          /\ \A u \in Player : u # t => pc'[u] = pc[u]
        BY <1>5 DEF MoveLevel, TypeOK, Goto, Stage, Walks
    <2>1. TypeOK'
        BY <1>5, <2>m, <2>p DEF TypeOK, MoveLevel, locks, output, shutdown, history
    <2>2. Serialised'
        BY <1>5 DEF Serialised, TypeOK, Busy, Walks, MoveLevel, MeetSome
    <2>3. Membership'
        BY <1>5 DEF Membership, TypeOK, MoveLevel, MeetSome
    <2>4. ShuttingDown'
        BY <1>5 DEF ShuttingDown, TypeOK, MoveLevel, MeetSome
    <2>5. Flushed'
        BY <1>5 DEF Flushed, TypeOK, MoveLevel, MeetSome
    <2> QED
        BY <2>1, <2>2, <2>3, <2>4, <2>5
<1>6. ASSUME NEW t \in Player, Close(t) PROVE Locks'
    <2>1. TypeOK'
        BY <1>6, <1>x DEF TypeOK, Stage, Walks, Membership, Serialised, Busy, Close
    <2>2. Serialised'
        BY <1>6 DEF Serialised, TypeOK, Busy, Walks, Close
    <2>3. Membership'
        BY <1>6 DEF Membership, TypeOK, Close
    <2>4. ShuttingDown'
        BY <1>6 DEF ShuttingDown, TypeOK, Close
    <2>5. Flushed'
        BY <1>6 DEF Flushed, TypeOK, Close
    <2> QED
        BY <2>1, <2>2, <2>3, <2>4, <2>5
<1>7. ASSUME NEW t \in Player, Register(t) PROVE Locks'
    <2>1. TypeOK'
        BY <1>7 DEF TypeOK, Stage, Walks, Register
    <2>2. Serialised'
        BY <1>7 DEF Serialised, TypeOK, Busy, Walks, Register
    <2>3. Membership'
        BY <1>7 DEF Membership, TypeOK, Register
    <2>4. ShuttingDown'
        BY <1>7 DEF ShuttingDown, TypeOK, Register
    <2>5. Flushed'
        BY <1>7 DEF Flushed, TypeOK, Register
    <2> QED
        BY <2>1, <2>2, <2>3, <2>4, <2>5
<1>8. ASSUME NEW t \in Player, Announce(t) PROVE Locks'
    <2>1. TypeOK'
        BY <1>8 DEF TypeOK, Stage, Walks, Announce, Begin
    <2>2. Serialised'
        BY <1>8 DEF Serialised, TypeOK, Busy, Walks, ShuttingDown, Announce, Begin, Handles, Runs, MayLock
    <2>3. Membership'
        BY <1>8 DEF Membership, TypeOK, Announce, Begin
    <2>4. ShuttingDown'
        BY <1>8 DEF ShuttingDown, TypeOK, Membership, Announce, Begin, Handles, Runs, MayLock
    <2>5. Flushed'
        BY <1>8 DEF Flushed, TypeOK, Announce, Begin
    <2> QED
        BY <2>1, <2>2, <2>3, <2>4, <2>5
<1>9. ASSUME NEW t \in Player, Speak(t) PROVE Locks'
    <2>1. TypeOK'
        BY <1>9 DEF TypeOK, Stage, Walks, Speak, Begin
    <2>2. Serialised'
        BY <1>9 DEF Serialised, TypeOK, Busy, Walks, ShuttingDown, Speak, Begin, Handles, Runs, MayLock
    <2>3. Membership'
        BY <1>9 DEF Membership, TypeOK, Speak, Begin
    <2>4. ShuttingDown'
        BY <1>9 DEF ShuttingDown, TypeOK, Membership, Speak, Begin, Handles, Runs, MayLock
    <2>5. Flushed'
        BY <1>9 DEF Flushed, TypeOK, Speak, Begin
    <2> QED
        BY <2>1, <2>2, <2>3, <2>4, <2>5
<1>10. ASSUME NEW t \in Player, tp(t) PROVE Locks'
    <2>1. TypeOK'
        BY <1>10 DEF TypeOK, Stage, Walks, tp
    <2>2. Serialised'
        BY <1>10 DEF Serialised, TypeOK, Busy, Walks, ShuttingDown, tp, Handles, Runs, MayLock
    <2>3. Membership'
        BY <1>10 DEF Membership, TypeOK, tp
    <2>4. ShuttingDown'
        BY <1>10 DEF ShuttingDown, TypeOK, Membership, tp, Handles, Runs, MayLock
    <2>5. Flushed'
        BY <1>10 DEF Flushed, TypeOK, tp
    <2> QED
        BY <2>1, <2>2, <2>3, <2>4, <2>5
<1>11. ASSUME NEW t \in Player, Leave(t) PROVE Locks'
    <2>w. \A u \in Player : pc[u] \notin Walks
        BY <1>11, <1>x DEF Leave, Begin, MayLock, Busy
    <2>p. /\ pc' = [pc EXCEPT ![t] = "telling"] /\ pc[t] = "idle"
          /\ todo' = [todo EXCEPT ![t] = players \ {t}]
          /\ players' = players \ {t} /\ playersMutex' = t /\ playersMutex = None
        BY <1>11 DEF Leave, Begin, Goto, MayLock
    <2>f. farewell = {} /\ farewell' = {} /\ shutting \notin {"locking", "flushing"}
        BY <1>11, <2>p DEF Leave, Begin, ShuttingDown, DeliveryAssumption, shutdown, TypeOK
    <2>1. TypeOK'
        <3>1. players' \subseteq {p \in Player : pc'[p] # "away"} /\ pc' \in [Player -> Stage]
            BY <2>p DEF TypeOK, Stage, Walks
        <3>2. said' \in Nat /\ todo' \in [Player -> SUBSET Player]
            <4>1. said' = said + 1
                BY <1>11 DEF Leave, Begin
            <4>2. players \ {t} \subseteq Player
                BY DEF TypeOK
            <4> QED
                BY <2>p, <4>1, <4>2 DEF TypeOK
        <3>3. \A u \in Player : pc'[u] \in Walks => todo'[u] \subseteq players'
            BY <2>w, <2>p DEF TypeOK, Walks
        <3> QED
            BY <1>11, <2>p, <2>f, <3>1, <3>2, <3>3 DEF TypeOK, Leave, Begin, output, shutdown
    <2>2. Serialised'
        BY <1>11 DEF Serialised, TypeOK, Busy, Walks, ShuttingDown, Leave, Begin, Handles, Runs, MayLock
    <2>3. Membership'
        BY <1>11 DEF Membership, TypeOK, Leave, Begin
    <2>4. ShuttingDown'
        BY <1>11 DEF ShuttingDown, TypeOK, Membership, Leave, Begin, Handles, Runs, MayLock
    <2>5. Flushed'
        BY <1>11 DEF Flushed, TypeOK, Leave, Begin
    <2> QED
        BY <2>1, <2>2, <2>3, <2>4, <2>5
<1>12. ASSUME NEW t \in Player, TakeQueue(t) PROVE Locks'
    <2>1. TypeOK'
        BY <1>12 DEF TypeOK, Stage, Walks, TakeQueue
    <2>2. Serialised'
        BY <1>12 DEF Serialised, TypeOK, Busy, Walks, TakeQueue
    <2>3. Membership'
        BY <1>12 DEF Membership, TypeOK, TakeQueue
    <2>4. ShuttingDown'
        BY <1>12 DEF ShuttingDown, TypeOK, TakeQueue
    <2>5. Flushed'
        BY <1>12 DEF Flushed, TypeOK, TakeQueue
    <2> QED
        BY <2>1, <2>2, <2>3, <2>4, <2>5
<1>13. ASSUME NEW t \in Player, SendFront(t) PROVE Locks'
    <2>f. /\ sendMutex[t] \in {Sender, Down} /\ sendQueue[t] \in Seq(Nat)
          /\ sendQueue[t] # <<>> /\ wire[t] \in Seq(Nat)
        BY <1>13 DEF SendFront, Flushes, Flushed, TypeOK, DeliveryAssumption
    <2>l. /\ Tail(sendQueue[t]) \in Seq(Nat) /\ Head(sendQueue[t]) \in Nat
          /\ Len(sendQueue[t]) # 1 => Tail(sendQueue[t]) # <<>>
          /\ Len(Append(wire[t], Head(sendQueue[t]))) = Len(wire[t]) + 1
          /\ Append(wire[t], Head(sendQueue[t])) \in Seq(Nat)
        <3>1. /\ Tail(sendQueue[t]) \in Seq(Nat) /\ Head(sendQueue[t]) \in Nat
              /\ Len(sendQueue[t]) # 1 => Tail(sendQueue[t]) # <<>>
            <4> DEFINE q == sendQueue[t]
            <4>1. q \in Seq(Nat) /\ q # <<>>
                BY <2>f
            <4> HIDE DEF q
            <4>2. Head(q) \in Nat /\ Tail(q) \in Seq(Nat) /\ Len(Tail(q)) = Len(q) - 1
                BY <4>1, HeadTailProperties
            <4>3. Len(q) # 1 => Tail(q) # <<>>
                <5>1. Len(q) \in Nat /\ Len(<<>>) = 0
                    BY <4>1
                <5>2. ASSUME Tail(q) = <<>> PROVE Len(q) = 1
                    <6>1. Len(Tail(q)) = 0
                        BY <5>1, <5>2
                    <6> QED
                        BY <6>1, <5>1, <4>2
                <5> QED
                    BY <5>2
            <4> QED
                BY <4>2, <4>3 DEF q
        <3>2. /\ Len(Append(wire[t], Head(sendQueue[t]))) = Len(wire[t]) + 1
              /\ Append(wire[t], Head(sendQueue[t])) \in Seq(Nat)
            BY <2>f, <3>1
        <3> QED
            BY <3>1, <3>2
    <2>1. TypeOK'
        <3>1. sendQueue' \in [Player -> Seq(Nat)]
            BY <1>13, <2>l DEF SendFront, TypeOK
        <3>2. wire' \in [Player -> Seq(Nat)] /\ \A p \in Player : Len(wire'[p]) <= Room
            <4>1. CASE t \in broken
                BY <1>13, <4>1 DEF SendFront, TypeOK
            <4>2. CASE t \notin broken
                <5>1. Len(wire[t]) + 1 <= Room
                    BY <1>13, <4>2 DEF SendFront, Sendable, TypeOK, DeliveryAssumption
                <5> QED
                    BY <1>13, <4>2, <2>l, <5>1 DEF SendFront, TypeOK
            <4> QED
                BY <4>1, <4>2
        <3>3. sendMutex' \in [Player -> {None, Sender, Down}]
            BY <1>13 DEF SendFront, TypeOK
        <3>4. shutting' \in {"telling", shutting}
            BY <1>13 DEF SendFront
        <3> QED
            BY <1>13, <3>1, <3>2, <3>3, <3>4 DEF TypeOK, SendFront, locks, history
    <2>2. Serialised'
        BY <1>13 DEF Serialised, TypeOK, Busy, Walks, SendFront, Flushes
    <2>3. Membership'
        BY <1>13 DEF Membership, TypeOK, SendFront, Flushes
    <2>4. ShuttingDown'
        BY <1>13 DEF ShuttingDown, TypeOK, SendFront, Flushes
    <2>5. Flushed'
        <3> SUFFICES ASSUME NEW p \in Player, sendMutex'[p] # None
                     PROVE  sendQueue'[p] # <<>> /\ pc'[p] # "away"
            BY DEF Flushed
        <3>1. CASE p = t
            BY <1>13, <2>f, <2>l, <3>1 DEF SendFront, Flushed, TypeOK, DeliveryAssumption
        <3>2. CASE p # t
            BY <1>13, <3>2 DEF SendFront, Flushed, TypeOK
        <3> QED
            BY <3>1, <3>2
    <2> QED
        BY <2>1, <2>2, <2>3, <2>4, <2>5
<1>14. ASSUME NEW t \in Player, Read(t) PROVE Locks'
    <2>r. /\ wire[t] \in Seq(Nat) /\ wire[t] # <<>> /\ Head(wire[t]) \in Nat
          /\ Tail(wire[t]) \in Seq(Nat) /\ Len(Tail(wire[t])) <= Len(wire[t])
        <3>1. wire[t] \in Seq(Nat) /\ wire[t] # <<>>
            BY <1>14 DEF Read, TypeOK
        <3> QED
            BY <3>1
    <2>1. TypeOK'
        <3>1. wire' \in [Player -> Seq(Nat)] /\ \A p \in Player : Len(wire'[p]) <= Room
            BY <1>14, <2>r DEF Read, TypeOK, DeliveryAssumption
        <3>2. heard' \in [Player -> Nat]
            BY <1>14, <2>r DEF Read, TypeOK
        <3> QED
            BY <1>14, <3>1, <3>2 DEF TypeOK, Read, locks, shutdown
    <2>2. Serialised'
        BY <1>14 DEF Serialised, TypeOK, Busy, Walks, Read
    <2>3. Membership'
        BY <1>14 DEF Membership, TypeOK, Read
    <2>4. ShuttingDown'
        BY <1>14 DEF ShuttingDown, TypeOK, Read
    <2>5. Flushed'
        BY <1>14 DEF Flushed, TypeOK, Read
    <2> QED
        BY <2>1, <2>2, <2>3, <2>4, <2>5
<1>15. ASSUME NEW t \in Player, Hangup(t) PROVE Locks'
    <2>1. TypeOK'
        BY <1>15 DEF TypeOK, Stage, Walks, Hangup
    <2>2. Serialised'
        BY <1>15 DEF Serialised, TypeOK, Busy, Walks, Hangup
    <2>3. Membership'
        BY <1>15 DEF Membership, TypeOK, Hangup
    <2>4. ShuttingDown'
        BY <1>15 DEF ShuttingDown, TypeOK, Hangup
    <2>5. Flushed'
        BY <1>15 DEF Flushed, TypeOK, Hangup
    <2> QED
        BY <2>1, <2>2, <2>3, <2>4, <2>5
<1>16. ASSUME SaverLocks PROVE Locks'
    <2>1. TypeOK'
        BY <1>16 DEF TypeOK, Stage, Walks, SaverLocks
    <2>2. Serialised'
        BY <1>16 DEF Serialised, TypeOK, Busy, Walks, SaverLocks
    <2>3. Membership'
        BY <1>16 DEF Membership, TypeOK, SaverLocks
    <2>4. ShuttingDown'
        BY <1>16 DEF ShuttingDown, TypeOK, SaverLocks
    <2>5. Flushed'
        BY <1>16 DEF Flushed, TypeOK, SaverLocks
    <2> QED
        BY <2>1, <2>2, <2>3, <2>4, <2>5
<1>17. ASSUME SaverUnlocks PROVE Locks'
    <2>1. TypeOK'
        BY <1>17 DEF TypeOK, Stage, Walks, SaverUnlocks
    <2>2. Serialised'
        BY <1>17 DEF Serialised, TypeOK, Busy, Walks, SaverUnlocks
    <2>3. Membership'
        BY <1>17 DEF Membership, TypeOK, SaverUnlocks
    <2>4. ShuttingDown'
        BY <1>17 DEF ShuttingDown, TypeOK, SaverUnlocks
    <2>5. Flushed'
        BY <1>17 DEF Flushed, TypeOK, SaverUnlocks
    <2> QED
        BY <2>1, <2>2, <2>3, <2>4, <2>5
<1>18. ASSUME ShutdownLocks PROVE Locks'
    <2>1. TypeOK'
        BY <1>18 DEF TypeOK, Stage, Walks, ShutdownLocks
    <2>2. Serialised'
        BY <1>18 DEF Serialised, TypeOK, Busy, Walks, ShutdownLocks
    <2>3. Membership'
        BY <1>18 DEF Membership, TypeOK, ShutdownLocks
    <2>4. ShuttingDown'
        BY <1>18 DEF ShuttingDown, TypeOK, ShutdownLocks
    <2>5. Flushed'
        BY <1>18 DEF Flushed, TypeOK, ShutdownLocks
    <2> QED
        BY <2>1, <2>2, <2>3, <2>4, <2>5
<1>19. ASSUME SayBye PROVE Locks'
    <2>q. FirstOf(farewell) \in farewell /\ farewell \subseteq players
        <3>1. farewell \in SUBSET Player /\ farewell # {} /\ farewell \subseteq players
            BY <1>19 DEF SayBye, TypeOK
        <3> QED
            BY <3>1, FirstOfMember
    <2>s. sendQueue' \in [Player -> Seq(Nat)]
        BY <1>19, EnqueueType DEF SayBye, Bye
    <2>1. TypeOK'
        BY <1>19, <2>q, <2>s DEF TypeOK, SayBye, locks, history, DeliveryAssumption
    <2>2. Serialised'
        BY <1>19 DEF Serialised, TypeOK, Busy, Walks, SayBye, enqueue
    <2>3. Membership'
        BY <1>19 DEF Membership, TypeOK, SayBye, enqueue
    <2>4. ShuttingDown'
        <3>1. \A p \in Player : sendMutex[p] # Down /\ sendMutex'[p] # Down
            BY <1>19 DEF SayBye, ShuttingDown, TypeOK
        <3> QED
            BY <1>19, <2>q, <3>1 DEF SayBye, ShuttingDown, locks
    <2>5. Flushed'
        BY <1>19 DEF Flushed, TypeOK, SayBye, enqueue
    <2> QED
        BY <2>1, <2>2, <2>3, <2>4, <2>5
<1>20. ASSUME BeginFlush PROVE Locks'
    <2>1. TypeOK'
        BY <1>20 DEF TypeOK, Stage, Walks, BeginFlush
    <2>2. Serialised'
        BY <1>20 DEF Serialised, TypeOK, Busy, Walks, BeginFlush
    <2>3. Membership'
        BY <1>20 DEF Membership, TypeOK, BeginFlush
    <2>4. ShuttingDown'
        BY <1>20 DEF ShuttingDown, TypeOK, BeginFlush
    <2>5. Flushed'
        <3>1. flushing \in players /\ pc[flushing] # "away" /\ flushing \in Player
            BY <1>20 DEF BeginFlush, ShuttingDown, TypeOK
        <3> QED
            BY <1>20, <3>1 DEF BeginFlush, Flushed, TypeOK
    <2> QED
        BY <2>1, <2>2, <2>3, <2>4, <2>5
<1>21. ASSUME SaveAndExit PROVE Locks'
    <2>1. TypeOK'
        BY <1>21 DEF TypeOK, Stage, Walks, SaveAndExit
    <2>2. Serialised'
        BY <1>21 DEF Serialised, TypeOK, Busy, Walks, SaveAndExit
    <2>3. Membership'
        BY <1>21 DEF Membership, TypeOK, SaveAndExit
    <2>4. ShuttingDown'
        BY <1>21 DEF ShuttingDown, TypeOK, SaveAndExit
    <2>5. Flushed'
        BY <1>21 DEF Flushed, TypeOK, SaveAndExit
    <2> QED
        BY <2>1, <2>2, <2>3, <2>4, <2>5
<1>22. ASSUME NEW v \in Thread, BeginShutdown(v) PROVE Locks'
    BY <1>22 DEF TypeOK, Serialised, Membership, ShuttingDown, Flushed, BeginShutdown, locks,
          output, shutdown, history
<1>23. ASSUME NEW t \in Player, Reply(t) PROVE Locks'
    <2>1. TypeOK'
        BY <1>23 DEF TypeOK, Reply, SendAlone
    <2>2. Serialised'
        BY <1>23 DEF Serialised, Reply
    <2>3. Membership'
        BY <1>23 DEF Membership, Reply
    <2>4. ShuttingDown'
        BY <1>23 DEF ShuttingDown, Reply
    <2>5. Flushed'
        BY <1>23 DEF Flushed, Reply
    <2> QED
        BY <2>1, <2>2, <2>3, <2>4, <2>5
<1> QED
    BY <1>1, <1>2, <1>3, <1>4, <1>5, <1>6, <1>7, <1>8, <1>9, <1>10, <1>11, <1>12, <1>13, <1>14,
       <1>15, <1>16, <1>17, <1>18, <1>19, <1>20, <1>21, <1>22, <1>23
       DEF Next, HandlerGoesOn, HandlerBegins, Sends, Client, serverShutdown

-----------------------------------------------------------------------------
(* The streams. *)

\* A packet put into the queue is the last of the stream.
LEMMA StreamGrows ==
    ASSUME NEW w \in Seq(Nat), NEW q \in Seq(Nat), NEW m \in Nat
    PROVE  /\ Len(w \o Append(q, m)) = Len(w \o q) + 1
           /\ \A i \in 1 .. Len(w \o q) : (w \o Append(q, m))[i] = (w \o q)[i]
           /\ (w \o Append(q, m))[Len(w \o q) + 1] = m
<1> DEFINE r == Append(q, m)
           wq == w \o q
           wr == w \o r
           lw == Len(w)
           lq == Len(q)
<1>1. /\ r \in Seq(Nat) /\ Len(r) = lq + 1
      /\ \A i \in 1 .. lq : r[i] = q[i]
      /\ r[lq + 1] = m
    BY AppendProperties
<1>2. lw \in Nat /\ lq \in Nat
    OBVIOUS
<1>3. /\ Len(wq) = lw + lq
      /\ \A i \in 1 .. lw + lq : wq[i] = IF i <= lw THEN w[i] ELSE q[i - lw]
    BY ConcatProperties
<1> HIDE DEF r
<1>4. /\ Len(wr) = lw + Len(r)
      /\ \A i \in 1 .. lw + Len(r) : wr[i] = IF i <= lw THEN w[i] ELSE r[i - lw]
    BY <1>1, ConcatProperties
<1> HIDE DEF wq, wr, lw, lq
<1>5. \A i \in 1 .. lw + (lq + 1) : wr[i] = IF i <= lw THEN w[i] ELSE r[i - lw]
    BY <1>1, <1>4
<1>6. Len(wr) = Len(wq) + 1
    BY <1>1, <1>2, <1>3, <1>4
<1>7. \A i \in 1 .. lw + lq : wr[i] = wq[i]
    <2> SUFFICES ASSUME NEW i \in 1 .. lw + lq PROVE wr[i] = wq[i]
        OBVIOUS
    <2>1. i \in 1 .. lw + (lq + 1)
        BY <1>2
    <2>2. CASE i <= lw
        BY <2>1, <2>2, <1>3, <1>5
    <2>3. CASE ~(i <= lw)
        <3>1. i - lw \in 1 .. lq
            BY <2>3, <1>2
        <3>2. wr[i] = r[i - lw] /\ wq[i] = q[i - lw]
            BY <2>1, <2>3, <1>3, <1>5
        <3> QED
            BY <3>1, <3>2, <1>1
    <2> QED
        BY <2>2, <2>3
<1>8. wr[lw + lq + 1] = m
    <2>1. /\ lw + lq + 1 \in 1 .. lw + (lq + 1) /\ ~(lw + lq + 1 <= lw)
          /\ (lw + lq + 1) - lw = lq + 1
        BY <1>2
    <2>2. wr[lw + lq + 1] = r[(lw + lq + 1) - lw]
        BY <2>1, <1>5
    <2> QED
        BY <2>1, <2>2, <1>1
<1> QED
    BY <1>2, <1>3, <1>6, <1>7, <1>8 DEF wq, wr, r, lw, lq

\* The sender moves the first packet of the queue into the socket.
LEMMA StreamMoves ==
    ASSUME NEW w \in Seq(Nat), NEW q \in Seq(Nat), q # <<>>
    PROVE  Append(w, Head(q)) \o Tail(q) = w \o q
<1>1. /\ Head(q) \in Nat /\ Tail(q) \in Seq(Nat) /\ <<Head(q)>> \in Seq(Nat)
    BY HeadTailProperties
<1>2. Append(w, Head(q)) = w \o <<Head(q)>> /\ q = <<Head(q)>> \o Tail(q)
    BY <1>1
<1>3. (w \o <<Head(q)>>) \o Tail(q) = w \o (<<Head(q)>> \o Tail(q))
    BY <1>1, ConcatAssociative
<1> QED
    BY <1>2, <1>3

\* The client takes the first packet of the stream.
LEMMA StreamShrinks ==
    ASSUME NEW w \in Seq(Nat), NEW q \in Seq(Nat), w # <<>>
    PROVE  /\ Len(w \o q) \in Nat \ {0}
           /\ Len(Tail(w) \o q) = Len(w \o q) - 1
           /\ Head(w) = (w \o q)[1]
           /\ \A i \in 1 .. Len(w \o q) - 1 : (Tail(w) \o q)[i] = (w \o q)[i + 1]
<1>1. /\ Tail(w) \in Seq(Nat) /\ Len(Tail(w)) = Len(w) - 1
      /\ \A i \in 1 .. Len(Tail(w)) : Tail(w)[i] = w[i + 1]
      /\ Head(w) = w[1]
    BY HeadTailProperties
<1>2. Len(w) \in Nat \ {0} /\ Len(q) \in Nat
    BY EmptySeq
<1> DEFINE v == Tail(w)
           wq == w \o q
           vq == v \o q
           lw == Len(w)
           lq == Len(q)
<1>3. /\ Len(wq) = lw + lq
      /\ \A i \in 1 .. lw + lq : wq[i] = IF i <= lw THEN w[i] ELSE q[i - lw]
    BY ConcatProperties
<1>4. /\ Len(vq) = Len(v) + lq
      /\ \A i \in 1 .. Len(v) + lq : vq[i] = IF i <= Len(v) THEN v[i] ELSE q[i - Len(v)]
    BY <1>1, ConcatProperties
<1>5. /\ Len(v) = lw - 1 /\ lw \in Nat \ {0} /\ lq \in Nat /\ Head(w) = w[1]
      /\ \A i \in 1 .. lw - 1 : v[i] = w[i + 1]
    BY <1>1, <1>2
<1> HIDE DEF v, wq, vq, lw, lq
<1>6. \A i \in 1 .. lw + lq - 1 : vq[i] = wq[i + 1]
    <2> SUFFICES ASSUME NEW i \in 1 .. lw + lq - 1 PROVE vq[i] = wq[i + 1]
        OBVIOUS
    <2>1. i + 1 \in 1 .. lw + lq /\ i \in 1 .. (lw - 1) + lq
        BY <1>5
    <2>2. vq[i] = IF i <= lw - 1 THEN v[i] ELSE q[i - (lw - 1)]
        BY <2>1, <1>4, <1>5
    <2>3. wq[i + 1] = IF i + 1 <= lw THEN w[i + 1] ELSE q[(i + 1) - lw]
        BY <2>1, <1>3
    <2>4. CASE i <= lw - 1
        <3>1. i \in 1 .. lw - 1 /\ i + 1 <= lw
            BY <2>4, <1>5
        <3> QED
            BY <2>2, <2>3, <2>4, <3>1, <1>5
    <2>5. CASE ~(i <= lw - 1)
        <3>1. i - (lw - 1) = (i + 1) - lw /\ ~(i + 1 <= lw)
            BY <2>5, <1>5
        <3> QED
            BY <2>2, <2>3, <2>5, <3>1
    <2> QED
        BY <2>4, <2>5
<1>7. Head(w) = wq[1]
    BY <1>3, <1>5
<1> QED
    BY <1>3, <1>4, <1>5, <1>6, <1>7 DEF v, wq, vq, lw, lq

\* What a connection holds are sequences of packets.
LEMMA StreamType ==
    ASSUME Locks, NEW p \in Player
    PROVE  /\ wire[p] \in Seq(Nat) /\ sendQueue[p] \in Seq(Nat) /\ Stream(p) \in Seq(Nat)
           /\ Len(Stream(p)) \in Nat
           /\ heard[p] \in Nat /\ said \in Nat
<1>1. /\ wire[p] \in Seq(Nat) /\ sendQueue[p] \in Seq(Nat)
      /\ heard[p] \in Nat /\ said \in Nat
    BY DEF Locks, TypeOK
<1>2. wire[p] \o sendQueue[p] \in Seq(Nat)
    BY <1>1, ConcatProperties
<1>3. Stream(p) \in Seq(Nat)
    BY <1>2 DEF Stream
<1> QED
    BY <1>1, <1>3

\* A step that leaves a player's connection alone.
LEMMA Undisturbed ==
    ASSUME NEW p \in Player, DeliversTo(p),
           wire'[p] = wire[p], sendQueue'[p] = sendQueue[p],
           heard'[p] = heard[p], said' = said,
           p \in players' <=> p \in players, p \in broken' <=> p \in broken,
           Dismissed(p)' <=> Dismissed(p), Owed(p)' <=> Owed(p),
           pc'[p] = "away" <=> pc[p] = "away",
           (p = flushing /\ shutting \in {"locking", "flushing"} /\ sendQueue[p] # <<>>) =>
               (p = flushing' /\ shutting' \in {"locking", "flushing"})
    PROVE  DeliversTo(p)'
<1>1. Stream(p)' = Stream(p)
    BY DEF Stream
<1>2. Quiet(p)'
    BY DEF DeliversTo, Quiet
<1>3. ASSUME p \notin broken' PROVE InSequence(p)' /\ Complete(p)' /\ FlushedInTurn(p)'
    <2>1. InSequence(p) /\ Complete(p) /\ FlushedInTurn(p)
        BY <1>3 DEF DeliversTo
    <2>2. InSequence(p)'
        BY <1>1, <2>1 DEF InSequence
    <2>3. Complete(p)'
        BY <1>1, <2>1 DEF Complete
    <2>4. FlushedInTurn(p)'
        BY <2>1 DEF FlushedInTurn
    <2> QED
        BY <2>2, <2>3, <2>4
<1> QED
    BY <1>2, <1>3 DEF DeliversTo

\* A packet is queued for a player: the stream of a connection that is not
\* broken grows by it.
LEMMA EnqueueGrows ==
    ASSUME Locks, NEW p \in Player \ broken, NEW m \in Nat, enqueue(p, m), wire' = wire
    PROVE  /\ Len(Stream(p)') = Len(Stream(p)) + 1
           /\ \A i \in 1 .. Len(Stream(p)) : Stream(p)'[i] = Stream(p)[i]
           /\ Stream(p)'[Len(Stream(p)) + 1] = m
<1>1. wire[p] \in Seq(Nat) /\ sendQueue[p] \in Seq(Nat)
    BY StreamType
<1>2. Stream(p)' = wire[p] \o Append(sendQueue[p], m)
    BY DEF Stream, enqueue, Locks, TypeOK
<1>3. Stream(p) = wire[p] \o sendQueue[p]
    BY DEF Stream
<1> DEFINE w == wire[p]
           q == sendQueue[p]
<1>4. w \in Seq(Nat) /\ q \in Seq(Nat)
    BY <1>1
<1>5. Stream(p)' = w \o Append(q, m) /\ Stream(p) = w \o q
    BY <1>2, <1>3
<1> HIDE DEF w, q
<1>6. /\ Len(w \o Append(q, m)) = Len(w \o q) + 1
      /\ \A i \in 1 .. Len(w \o q) : (w \o Append(q, m))[i] = (w \o q)[i]
      /\ (w \o Append(q, m))[Len(w \o q) + 1] = m
    BY <1>4, StreamGrows
<1> QED
    BY <1>5, <1>6

\* Outside a shutdown nobody was dismissed.
LEMMA NobodyDismissed ==
    ASSUME Locks, shutting \in {"no", "asked"}, NEW p
    PROVE  ~Dismissed(p)
BY DEF Locks, ShuttingDown, Dismissed

\* A message begins its walk.
LEMMA BeginDelivers ==
    ASSUME DeliveryAssumption, Locks, Delivers, NEW t \in Player, NEW S \in SUBSET Player,
           Begin(t, S), players' = S, S \in {players, players \ {t}}, pc[t] # "away"
    PROVE  Delivers'
<1> SUFFICES ASSUME NEW p \in Player PROVE DeliversTo(p)'
    BY DEF Delivers
<1>1. /\ said' = said + 1 /\ wire' = wire /\ sendQueue' = sendQueue /\ heard' = heard
      /\ broken' = broken /\ playersMutex = None /\ playersMutex' = t
      /\ pc' = [pc EXCEPT ![t] = "telling"] /\ todo' = [todo EXCEPT ![t] = S]
    BY DEF Begin, MayLock, Goto, output, history
<1>2. ~Dismissed(p) /\ ~Dismissed(p)'
    BY <1>1 DEF Dismissed, DeliveryAssumption
<1>3. ~Owed(p)
    BY <1>1, Exclusive DEF Owed, Busy, Walks
<1>4. p \in S => Owed(p)'
    BY <1>1 DEF Owed, Locks, TypeOK
<1>5. Stream(p)' = Stream(p) /\ Len(Stream(p)) \in Nat /\ heard[p] \in Nat /\ said \in Nat
    BY <1>1, StreamType DEF Stream
<1>6. DeliversTo(p)
    BY DEF Delivers
<1>7. Quiet(p)'
    BY <1>1, <1>5, <1>6 DEF DeliversTo, Quiet, Locks, TypeOK
<1>8. ASSUME p \notin broken PROVE InSequence(p)' /\ Complete(p)' /\ FlushedInTurn(p)'
    <2>1. InSequence(p) /\ Complete(p)
        BY <1>6, <1>8 DEF DeliversTo
    <2>2. InSequence(p)'
        BY <2>1, <1>1, <1>2, <1>5 DEF InSequence
    <2>3. Complete(p)'
        BY <2>1, <1>1, <1>2, <1>3, <1>4, <1>5 DEF Complete
    <2> QED
        BY <2>2, <2>3, <1>2 DEF FlushedInTurn
<1> QED
    BY <1>1, <1>7, <1>8 DEF DeliversTo

\* The walk brings the last message to a player.
LEMMA VisitDelivers ==
    ASSUME DeliveryAssumption, Locks, Delivers, NEW t \in Player, Visit(t)
    PROVE  Delivers'
<1> SUFFICES ASSUME NEW p \in Player PROVE DeliversTo(p)'
    BY DEF Delivers
<1> DEFINE q == FirstOf(todo[t])
<1>1. q \in todo[t] /\ todo[t] \subseteq players /\ todo[t] \subseteq Player
    BY FirstOfMember DEF Visit, Locks, TypeOK
<1> HIDE DEF q
<1>2. /\ pc[t] \in Walks /\ todo' = [todo EXCEPT ![t] = @ \ {q}]
      /\ pc' = pc /\ players' = players /\ playersMutex' = playersMutex /\ wire' = wire
      /\ broken' = broken /\ heard' = heard /\ said' = said /\ farewell' = farewell
      /\ shutting' = shutting /\ flushing' = flushing
      /\ IF pc[t] = "telling" THEN enqueue(q, said) ELSE sendQueue' = sendQueue
    BY DEF Visit, locks, shutdown, history, q
<1>3. DeliversTo(p)
    BY DEF Delivers
<1>4. Dismissed(p)' <=> Dismissed(p)
    BY <1>2 DEF Dismissed
<1>5. \A u \in Player : pc[u] = "telling" /\ pc[t] = "telling" => u = t
    BY <1>2, Exclusive DEF Busy, Walks
<1>6. playersMutex = t
    BY <1>2, Exclusive DEF Visit, Busy
<1>7. CASE pc[t] = "telling" /\ p = q
    <2>1. /\ ~Dismissed(p) /\ Owed(p) /\ ~Owed(p)' /\ p \in players /\ p \in players'
        BY <1>1, <1>2, <1>5, <1>6, <1>7 DEF Owed, Dismissed, DeliveryAssumption, Locks, TypeOK
    <2>2. Quiet(p)'
        BY <1>1, <1>2, <1>3, <1>7 DEF DeliversTo, Quiet, Locks, TypeOK
    <2>3. ASSUME p \notin broken PROVE InSequence(p)' /\ Complete(p)' /\ FlushedInTurn(p)'
        <3>1. /\ Len(Stream(p)') = Len(Stream(p)) + 1
              /\ \A i \in 1 .. Len(Stream(p)) : Stream(p)'[i] = Stream(p)[i]
              /\ Stream(p)'[Len(Stream(p)) + 1] = said
            BY <1>2, <1>7, <2>3, StreamType, EnqueueGrows
        <3>2. /\ \A i \in 1 .. Len(Stream(p)) : Stream(p)[i] = heard[p] + i
              /\ heard[p] + Len(Stream(p)) + 1 = said
            <4>1. InSequence(p) /\ Complete(p)
                BY <1>3, <2>3 DEF DeliversTo
            <4>2. heard[p] + Len(Stream(p)) + 1 = said + 0
                BY <4>1, <2>1 DEF Complete
            <4>3. \A i \in 1 .. Len(Stream(p)) : Stream(p)[i] = heard[p] + i
                BY <4>1, <2>1 DEF InSequence
            <4>4. said \in Nat
                BY StreamType
            <4> QED
                BY <4>2, <4>3, <4>4
        <3>3. Len(Stream(p)) \in Nat /\ heard[p] \in Nat /\ said \in Nat
            BY StreamType
        <3> DEFINE l == Len(Stream(p))
                   s == Stream(p)
                   z == Stream(p)'
        <3>4. InSequence(p)'
            <4>0. l \in Nat /\ Len(z) = l + 1 /\ heard[p] \in Nat
                BY <3>1, <3>3
            <4>1. ASSUME NEW i \in 1 .. Len(z) PROVE z[i] = heard[p] + i
                <5> HIDE DEF l, z, s
                <5>1. CASE i \in 1 .. l
                    BY <5>1, <3>1, <3>2 DEF l, z, s
                <5>2. CASE i = l + 1
                    <6>1. z[i] = said /\ heard[p] + l + 1 = said
                        BY <5>2, <3>1, <3>2 DEF l, z
                    <6> QED
                        BY <5>2, <6>1, <4>0
                <5> QED
                    BY <5>1, <5>2, <4>0
            <4> QED
                BY <4>1, <1>2, <1>4, <2>1 DEF InSequence
        <3>5. Complete(p)'
            <4>0. l \in Nat /\ Len(z) = l + 1 /\ heard[p] + l + 1 = said /\ heard[p] \in Nat
                BY <3>1, <3>2, <3>3
            <4>1. heard[p] + Len(Stream(p)') = said
                <5> HIDE DEF l
                <5> QED
                    BY <4>0
            <4> QED
                BY <4>1, <3>1, <3>3, <2>1, <1>2, <1>4 DEF Complete
        <3> QED
            BY <3>4, <3>5, <2>1, <1>4 DEF FlushedInTurn
    <2> QED
        BY <1>2, <2>2, <2>3 DEF DeliversTo
<1>8. CASE ~(pc[t] = "telling" /\ p = q)
    <2>1. sendQueue'[p] = sendQueue[p]
        BY <1>2, <1>8 DEF enqueue, Locks, TypeOK
    <2>2. Owed(p)' <=> Owed(p)
        BY <1>2, <1>8 DEF Owed, Locks, TypeOK
    <2> QED
        BY <1>2, <1>3, <1>4, <2>1, <2>2, Undisturbed
<1> QED
    BY <1>7, <1>8

\* The Disconnect packet is queued.
LEMMA SayByeDelivers ==
    ASSUME DeliveryAssumption, Locks, Delivers, SayBye
    PROVE  Delivers'
<1> SUFFICES ASSUME NEW p \in Player PROVE DeliversTo(p)'
    BY DEF Delivers
<1> DEFINE q == FirstOf(farewell)
<1>1. q \in farewell /\ farewell \subseteq players /\ farewell \subseteq Player
    <2>1. farewell \in SUBSET Player /\ farewell # {} /\ farewell \subseteq players
        BY DEF SayBye, Locks, TypeOK
    <2> QED
        BY <2>1, FirstOfMember
<1> HIDE DEF q
<1>2. /\ shutting = "telling" /\ enqueue(q, Bye) /\ farewell' = farewell \ {q}
      /\ flushing' = q /\ shutting' = "locking" /\ playersMutex' = playersMutex
      /\ pc' = pc /\ todo' = todo /\ players' = players /\ wire' = wire
      /\ broken' = broken /\ heard' = heard /\ said' = said
    BY DEF SayBye, locks, history, q
<1>3. DeliversTo(p)
    BY DEF Delivers
<1>4. playersMutex = Down
    BY <1>2 DEF Locks, ShuttingDown
<1>5. Owed(p)' <=> Owed(p)
    BY <1>2 DEF Owed
<1>6. CASE p = q
    <2>1. ~Dismissed(p) /\ Dismissed(p)' /\ p \in players /\ p \in players'
        BY <1>1, <1>2, <1>4, <1>6 DEF Dismissed
    <2>2. Quiet(p)'
        BY <1>1, <1>2, <1>3, <1>6 DEF DeliversTo, Quiet, Locks, TypeOK
    <2>3. ASSUME p \notin broken PROVE InSequence(p)' /\ Complete(p)' /\ FlushedInTurn(p)'
        <3>1. /\ Len(Stream(p)') = Len(Stream(p)) + 1
              /\ \A i \in 1 .. Len(Stream(p)) : Stream(p)'[i] = Stream(p)[i]
              /\ Stream(p)'[Len(Stream(p)) + 1] = Bye
            BY <1>2, <1>6, <2>3, EnqueueGrows DEF Bye
        <3>2. /\ \A i \in 1 .. Len(Stream(p)) : Stream(p)[i] = heard[p] + i
              /\ heard[p] + Len(Stream(p)) + (IF Owed(p) THEN 1 ELSE 0) = said
            <4>1. InSequence(p) /\ Complete(p)
                BY <1>3, <2>3 DEF DeliversTo
            <4>2. heard[p] + Len(Stream(p)) + (IF Owed(p) THEN 1 ELSE 0) = said + 0
                BY <4>1, <2>1 DEF Complete
            <4>3. \A i \in 1 .. Len(Stream(p)) : Stream(p)[i] = heard[p] + i
                BY <4>1, <2>1 DEF InSequence
            <4>4. said \in Nat
                BY StreamType
            <4> QED
                BY <4>2, <4>3, <4>4
        <3>3. Len(Stream(p)) \in Nat /\ heard[p] \in Nat /\ said \in Nat
            BY StreamType
        <3> DEFINE l == Len(Stream(p))
                   s == Stream(p)
                   z == Stream(p)'
        <3>4. InSequence(p)'
            <4>0. l \in Nat /\ Len(z) = l + 1 /\ heard[p] \in Nat
                BY <3>1, <3>3
            <4>1. ASSUME NEW i \in 1 .. Len(z)
                  PROVE z[i] = IF i = Len(z) THEN Bye ELSE heard[p] + i
                <5> HIDE DEF l, z, s
                <5>1. CASE i \in 1 .. l
                    BY <5>1, <4>0, <3>1, <3>2 DEF l, z, s
                <5>2. CASE i = l + 1
                    BY <5>2, <4>0, <3>1 DEF l, z, s
                <5> QED
                    BY <5>1, <5>2, <4>0
            <4> QED
                BY <4>1, <1>2, <2>1 DEF InSequence
        <3>5. Complete(p)'
            <4>1. Len(Stream(p)') > 0
                BY <3>1, <3>3
            <4>0. /\ l \in Nat /\ Len(z) = l + 1 /\ heard[p] \in Nat
                  /\ heard[p] + l + (IF Owed(p) THEN 1 ELSE 0) = said
                BY <3>1, <3>2, <3>3
            <4>2. heard[p] + Len(Stream(p)') + (IF Owed(p) THEN 1 ELSE 0) = said + 1
                <5> HIDE DEF l
                <5> QED
                    BY <4>0
            <4> QED
                BY <4>1, <4>2, <2>1, <1>2, <1>5 DEF Complete
        <3> QED
            BY <3>4, <3>5, <1>2, <1>6 DEF FlushedInTurn
    <2> QED
        BY <1>2, <2>2, <2>3 DEF DeliversTo
<1>7. CASE p # q
    <2>1. sendQueue'[p] = sendQueue[p]
        BY <1>2, <1>7 DEF enqueue, Locks, TypeOK
    <2>2. Dismissed(p)' <=> Dismissed(p)
        BY <1>2, <1>7 DEF Dismissed
    <2> QED
        BY <1>2, <1>3, <1>5, <2>1, <2>2, Undisturbed
<1> QED
    BY <1>6, <1>7

\* The sender moves a packet from the queue into the socket.
LEMMA SendFrontDelivers ==
    ASSUME DeliveryAssumption, Locks, Delivers, NEW t \in Player, SendFront(t)
    PROVE  Delivers'
<1> SUFFICES ASSUME NEW p \in Player PROVE DeliversTo(p)'
    BY DEF Delivers
<1>1. /\ pc' = pc /\ todo' = todo /\ players' = players /\ playersMutex' = playersMutex
      /\ broken' = broken /\ farewell' = farewell /\ flushing' = flushing
      /\ heard' = heard /\ said' = said
      /\ sendQueue' = [sendQueue EXCEPT ![t] = Tail(@)]
      /\ wire' = IF t \in broken THEN wire
                 ELSE [wire EXCEPT ![t] = Append(@, Head(sendQueue[t]))]
    BY DEF SendFront, locks, history
<1>2. DeliversTo(p)
    BY DEF Delivers
<1>3. (Dismissed(p)' <=> Dismissed(p)) /\ (Owed(p)' <=> Owed(p))
    BY <1>1 DEF Dismissed, Owed
<1>4. /\ sendMutex[t] \in {Sender, Down} /\ sendQueue[t] # <<>> /\ pc[t] # "away"
      /\ sendQueue[t] \in Seq(Nat) /\ wire[t] \in Seq(Nat)
    BY DEF SendFront, Flushes, Locks, Flushed, TypeOK, DeliveryAssumption
<1>5. shutting' = shutting \/ (shutting = "flushing" /\ flushing = t /\ Len(sendQueue[t]) = 1)
    BY DEF SendFront, Locks, ShuttingDown
<1>6. CASE p # t
    <2>1. wire'[p] = wire[p] /\ sendQueue'[p] = sendQueue[p]
        BY <1>1, <1>6 DEF Locks, TypeOK
    <2> QED
        BY <1>1, <1>2, <1>3, <1>5, <1>6, <2>1, Undisturbed
<1>7. CASE p = t
    <2>1. Quiet(p)'
        BY <1>1, <1>2, <1>4, <1>7 DEF DeliversTo, Quiet, Locks, TypeOK
    <2>2. ASSUME p \notin broken PROVE InSequence(p)' /\ Complete(p)' /\ FlushedInTurn(p)'
        <3>1. Stream(p)' = Append(wire[p], Head(sendQueue[p])) \o Tail(sendQueue[p])
            BY <1>1, <1>7, <2>2 DEF Stream, Locks, TypeOK
        <3>2. Stream(p)' = Stream(p)
            <4> DEFINE w == wire[p]
                       q == sendQueue[p]
            <4>1. w \in Seq(Nat) /\ q \in Seq(Nat) /\ q # <<>>
                BY <1>4, <1>7
            <4>2. Stream(p)' = Append(w, Head(q)) \o Tail(q) /\ Stream(p) = w \o q
                BY <3>1 DEF Stream
            <4> HIDE DEF w, q
            <4> QED
                BY <4>1, <4>2, StreamMoves
        <3>3. InSequence(p) /\ Complete(p) /\ FlushedInTurn(p)
            BY <1>2, <2>2 DEF DeliversTo
        <3>4. InSequence(p)'
            BY <3>2, <3>3, <1>1, <1>3 DEF InSequence
        <3>5. Complete(p)'
            BY <3>2, <3>3, <1>1, <1>3 DEF Complete
        <3>6. FlushedInTurn(p)'
            <4>1. Len(sendQueue[p]) = 1 => sendQueue'[p] = <<>>
                <5> DEFINE q == sendQueue[p]
                <5>1. q \in Seq(Nat) /\ q # <<>> /\ sendQueue'[p] = Tail(q)
                    BY <1>1, <1>4, <1>7 DEF Locks, TypeOK
                <5> HIDE DEF q
                <5>2. ASSUME Len(q) = 1 PROVE Tail(q) = <<>>
                    <6>1. Tail(q) \in Seq(Nat) /\ Len(Tail(q)) = 0
                        BY <5>1, <5>2, HeadTailProperties
                    <6> QED
                        BY <6>1, EmptySeq
                <5> QED
                    BY <5>1, <5>2 DEF q
            <4>2. sendQueue[p] # <<>>
                BY <1>4, <1>7
            <4> QED
                BY <3>3, <4>1, <4>2, <1>1, <1>3, <1>5, <1>7 DEF FlushedInTurn
        <3> QED
            BY <3>4, <3>5, <3>6
    <2> QED
        BY <1>1, <2>1, <2>2 DEF DeliversTo
<1> QED
    BY <1>6, <1>7

\* What a client reads next is the message after the last one it heard.
LEMMA ReadsNext ==
    ASSUME DeliveryAssumption, Locks, Delivers, NEW t \in Player, Read(t)
    PROVE  /\ t \notin broken /\ wire[t] # <<>> /\ wire[t] \in Seq(Nat)
           /\ Head(wire[t]) = heard[t] + 1
           /\ Head(wire[t]) <= said
           /\ Dismissed(t) => Len(Stream(t)) > 1
<1>1. DeliversTo(t) /\ wire[t] # <<>> /\ Head(wire[t]) # Bye
    BY DEF Delivers, Read
<1>2. t \notin broken
    BY <1>1 DEF DeliversTo, Quiet
<1>3. InSequence(t) /\ Complete(t)
    BY <1>1, <1>2 DEF DeliversTo
<1>4. wire[t] \in Seq(Nat) /\ sendQueue[t] \in Seq(Nat) /\ heard[t] \in Nat /\ said \in Nat
    BY StreamType
<1>5. Len(Stream(t)) \in Nat \ {0} /\ Head(wire[t]) = Stream(t)[1]
    <2> DEFINE w == wire[t]
               q == sendQueue[t]
    <2>1. w \in Seq(Nat) /\ q \in Seq(Nat) /\ w # <<>>
        BY <1>1, <1>4
    <2>2. Stream(t) = w \o q
        BY DEF Stream
    <2> HIDE DEF w, q
    <2>3. Len(w \o q) \in Nat \ {0} /\ Head(w) = (w \o q)[1]
        BY <2>1, StreamShrinks
    <2> QED
        BY <2>2, <2>3 DEF w
<1> DEFINE l == Len(Stream(t))
           h == Stream(t)[1]
<1>6. l \in Nat \ {0} /\ h = IF l = 1 /\ Dismissed(t) THEN Bye ELSE heard[t] + 1
    <2>1. 1 \in 1 .. l
        BY <1>5
    <2>2. h = IF 1 = l /\ Dismissed(t) THEN Bye ELSE heard[t] + 1
        BY <2>1, <1>3 DEF InSequence
    <2> QED
        BY <2>2, <1>5
<1>7. Dismissed(t) => l > 1
    <2>1. h # Bye
        BY <1>1, <1>5
    <2>2. Dismissed(t) => l # 1
        BY <2>1, <1>6
    <2> HIDE DEF l, h
    <2> QED
        BY <2>2, <1>6
<1>8. heard[t] + 1 <= said
    <2>1. t \in players => heard[t] + l + (IF Owed(t) THEN 1 ELSE 0)
                               = said + (IF Dismissed(t) THEN 1 ELSE 0)
        BY <1>3 DEF Complete
    <2>2. t \notin players => heard[t] + l <= said
        BY <1>3 DEF Complete
    <2> HIDE DEF l
    <2> QED
        BY <2>1, <2>2, <1>4, <1>6, <1>7
<1> QED
    BY <1>1, <1>2, <1>4, <1>5, <1>6, <1>7, <1>8

\* Reading the next message keeps the part about what is on its way.
LEMMA ReadDelivers ==
    ASSUME DeliveryAssumption, Locks, Delivers, NEW t \in Player, Read(t)
    PROVE  Delivers'
<1> SUFFICES ASSUME NEW p \in Player PROVE DeliversTo(p)'
    BY DEF Delivers
<1>1. /\ pc' = pc /\ todo' = todo /\ players' = players /\ playersMutex' = playersMutex
      /\ broken' = broken /\ farewell' = farewell /\ flushing' = flushing
      /\ shutting' = shutting /\ said' = said /\ sendQueue' = sendQueue
      /\ heard' = [heard EXCEPT ![t] = Head(wire[t])]
      /\ wire' = [wire EXCEPT ![t] = Tail(@)]
    BY DEF Read, locks, shutdown
<1>2. DeliversTo(p)
    BY DEF Delivers
<1>3. (Dismissed(p)' <=> Dismissed(p)) /\ (Owed(p)' <=> Owed(p))
    BY <1>1 DEF Dismissed, Owed
<1>4. CASE p # t
    <2>1. wire'[p] = wire[p] /\ heard'[p] = heard[p]
        BY <1>1, <1>4 DEF Locks, TypeOK
    <2> QED
        BY <1>1, <1>2, <1>3, <2>1, Undisturbed
<1>5. CASE p = t
    <2>1. /\ p \notin broken /\ wire[p] # <<>> /\ Head(wire[p]) = heard[p] + 1
          /\ heard[p] + 1 <= said /\ (Dismissed(p) => Len(Stream(p)) > 1)
        BY <1>5, ReadsNext
    <2>2. /\ wire[p] \in Seq(Nat) /\ sendQueue[p] \in Seq(Nat) /\ Len(Stream(p)) \in Nat
          /\ heard[p] \in Nat /\ said \in Nat
        BY StreamType
    <2>3. heard'[p] = heard[p] + 1 /\ Stream(p)' = Tail(wire[p]) \o sendQueue[p]
        BY <1>1, <1>5, <2>1 DEF Stream, Locks, TypeOK
    <2>4. /\ Len(Stream(p)) \in Nat \ {0}
          /\ Len(Stream(p)') = Len(Stream(p)) - 1
          /\ \A i \in 1 .. Len(Stream(p)) - 1 : Stream(p)'[i] = Stream(p)[i + 1]
        <3> DEFINE w == wire[p]
                   q == sendQueue[p]
        <3>1. w \in Seq(Nat) /\ q \in Seq(Nat) /\ w # <<>>
            BY <2>1, <2>2
        <3>2. Stream(p) = w \o q /\ Stream(p)' = Tail(w) \o q
            BY <2>3 DEF Stream
        <3> HIDE DEF w, q
        <3>3. /\ Len(w \o q) \in Nat \ {0}
              /\ Len(Tail(w) \o q) = Len(w \o q) - 1
              /\ \A i \in 1 .. Len(w \o q) - 1 : (Tail(w) \o q)[i] = (w \o q)[i + 1]
            BY <3>1, StreamShrinks
        <3> QED
            BY <3>2, <3>3
    <2>5. InSequence(p) /\ Complete(p) /\ FlushedInTurn(p)
        BY <1>2, <2>1 DEF DeliversTo
    <2>6. Quiet(p)'
        BY <1>1, <1>2, <1>5, <2>1, <2>3 DEF DeliversTo, Quiet, Locks, TypeOK
    <2> DEFINE l == Len(Stream(p))
               s == Stream(p)
               z == Stream(p)'
               d == Dismissed(p)
               h == heard[p]
    <2>7. InSequence(p)'
        <3>1. ASSUME NEW i \in 1 .. Len(z)
              PROVE z[i] = IF i = Len(z) /\ d THEN Bye ELSE (h + 1) + i
            <4>1. i + 1 \in 1 .. l /\ i \in 1 .. l - 1 /\ (i = Len(z) <=> i + 1 = l)
                BY <2>4
            <4>2. s[i + 1] = IF i + 1 = l /\ d THEN Bye ELSE h + (i + 1)
                BY <2>5, <4>1 DEF InSequence
            <4>3. z[i] = s[i + 1]
                BY <2>4, <4>1
            <4>4. h \in Nat /\ i \in Nat
                BY <2>2, <2>4
            <4> HIDE DEF z, s, l, d, h
            <4> QED
                BY <4>1, <4>2, <4>3, <4>4
        <3> QED
            BY <3>1, <1>3, <2>3 DEF InSequence
    <2>8. Complete(p)'
        <3>1. d => Len(z) > 0
            BY <2>1, <2>4
        <3>2. heard'[p] + Len(z) = h + l
            <4>1. /\ heard'[p] = h + 1 /\ Len(z) = l - 1 /\ h \in Nat /\ l \in Nat
                BY <2>2, <2>3, <2>4
            <4> HIDE DEF z, s, l, h
            <4> QED
                BY <4>1
        <3> QED
            BY <3>1, <3>2, <2>5, <1>1, <1>3 DEF Complete
    <2>9. FlushedInTurn(p)'
        BY <2>5, <1>1, <1>3 DEF FlushedInTurn
    <2> QED
        BY <2>6, <2>7, <2>8, <2>9 DEF DeliversTo
<1> QED
    BY <1>4, <1>5

\* A new player's stream is empty, and it has heard what was said before.
LEMMA RegisterDelivers ==
    ASSUME DeliveryAssumption, Locks, Delivers, NEW t \in Player, Register(t)
    PROVE  Delivers'
<1> SUFFICES ASSUME NEW p \in Player PROVE DeliversTo(p)'
    BY DEF Delivers
<1>1. /\ pc[t] = "away" /\ pc' = [pc EXCEPT ![t] = "joining"] /\ todo' = todo
      /\ players' = players \cup {t} /\ heard' = [heard EXCEPT ![t] = said]
      /\ playersMutex = None /\ playersMutex' = None /\ wire' = wire
      /\ sendQueue' = sendQueue /\ broken' = broken /\ said' = said
      /\ shutting' = shutting /\ flushing' = flushing /\ farewell' = farewell
    BY DEF Register, MayLock, Goto, locks, output, shutdown
<1>2. ~Dismissed(p) /\ ~Dismissed(p)'
    BY <1>1 DEF Dismissed, DeliveryAssumption
<1>3. ~Owed(p) /\ ~Owed(p)'
    <2>1. \A u \in Player : pc[u] # "telling"
        BY <1>1, Exclusive DEF Busy, Walks
    <2>2. \A u \in Player : pc'[u] # "telling"
        BY <1>1, <2>1 DEF Locks, TypeOK
    <2> QED
        BY <2>1, <2>2 DEF Owed
<1>4. DeliversTo(p)
    BY DEF Delivers
<1>5. CASE p # t
    <2>1. heard'[p] = heard[p] /\ (p \in players' <=> p \in players) /\ pc'[p] = pc[p]
        BY <1>1, <1>5 DEF Locks, TypeOK
    <2> QED
        BY <1>1, <1>2, <1>3, <1>4, <2>1, Undisturbed
<1>6. CASE p = t
    <2>1. /\ wire'[p] = <<>> /\ sendQueue'[p] = <<>> /\ heard'[p] = said /\ p \in players'
          /\ pc'[p] # "away" /\ p \notin broken' /\ said \in Nat
        BY <1>1, <1>4, <1>6 DEF DeliversTo, Quiet, Locks, TypeOK
    <2>2. Stream(p)' = <<>>
        BY <2>1 DEF Stream
    <2>3. Len(Stream(p)') = 0
        BY <2>2
    <2>4. InSequence(p)'
        BY <2>3 DEF InSequence
    <2>5. Complete(p)'
        BY <2>1, <2>3, <1>1, <1>2, <1>3 DEF Complete
    <2>6. Quiet(p)'
        BY <2>1, <1>1 DEF Quiet
    <2> QED
        BY <2>4, <2>5, <2>6, <1>2 DEF DeliversTo, FlushedInTurn
<1> QED
    BY <1>5, <1>6

\* A connection that is closed holds nothing.
LEMMA CloseDelivers ==
    ASSUME DeliveryAssumption, Locks, Delivers, NEW t \in Player, Close(t)
    PROVE  Delivers'
<1> SUFFICES ASSUME NEW p \in Player PROVE DeliversTo(p)'
    BY DEF Delivers
<1>1. /\ pc[t] = "stopping" /\ pc' = [pc EXCEPT ![t] = "away"] /\ todo' = todo
      /\ players' = players /\ heard' = heard /\ playersMutex' = playersMutex
      /\ wire' = [wire EXCEPT ![t] = <<>>] /\ sendQueue' = [sendQueue EXCEPT ![t] = <<>>]
      /\ broken' = broken \ {t} /\ said' = said
      /\ shutting' = shutting /\ flushing' = flushing /\ farewell' = farewell
    BY DEF Close, Goto, locks, shutdown, history
<1>2. (Dismissed(p)' <=> Dismissed(p)) /\ (Owed(p)' <=> Owed(p))
    BY <1>1 DEF Dismissed, Owed, Locks, TypeOK
<1>3. DeliversTo(p)
    BY DEF Delivers
<1>4. CASE p # t
    <2>1. /\ wire'[p] = wire[p] /\ sendQueue'[p] = sendQueue[p] /\ pc'[p] = pc[p]
          /\ (p \in broken' <=> p \in broken)
        BY <1>1, <1>4 DEF Locks, TypeOK
    <2> QED
        BY <1>1, <1>2, <1>3, <2>1, Undisturbed
<1>5. CASE p = t
    <2>1. /\ wire'[p] = <<>> /\ sendQueue'[p] = <<>> /\ heard[p] <= said
          /\ p \notin broken' /\ p \notin players' /\ heard[p] \in Nat
        BY <1>1, <1>3, <1>5 DEF DeliversTo, Quiet, Locks, TypeOK, Membership
    <2>2. Stream(p)' = <<>>
        BY <2>1 DEF Stream
    <2>3. Len(Stream(p)') = 0 /\ ~Dismissed(p)'
        BY <2>1, <2>2 DEF Dismissed
    <2>4. InSequence(p)'
        BY <2>3 DEF InSequence
    <2>5. Complete(p)'
        BY <2>1, <2>3, <1>1 DEF Complete
    <2>6. Quiet(p)'
        BY <2>1, <1>1 DEF Quiet
    <2> QED
        BY <2>3, <2>4, <2>5, <2>6 DEF DeliversTo, FlushedInTurn
<1> QED
    BY <1>4, <1>5

\* A client that is gone reads nothing more.
LEMMA HangupDelivers ==
    ASSUME DeliveryAssumption, Locks, Delivers, NEW t \in Player, Hangup(t)
    PROVE  Delivers'
<1> SUFFICES ASSUME NEW p \in Player PROVE DeliversTo(p)'
    BY DEF Delivers
<1>1. /\ pc[t] # "away" /\ pc' = pc /\ todo' = todo /\ players' = players
      /\ heard' = heard /\ playersMutex' = playersMutex
      /\ wire' = [wire EXCEPT ![t] = <<>>] /\ sendQueue' = sendQueue
      /\ broken' = broken \cup {t} /\ said' = said
      /\ shutting' = shutting /\ flushing' = flushing /\ farewell' = farewell
    BY DEF Hangup, locks, shutdown, history
<1>2. (Dismissed(p)' <=> Dismissed(p)) /\ (Owed(p)' <=> Owed(p))
    BY <1>1 DEF Dismissed, Owed
<1>3. DeliversTo(p)
    BY DEF Delivers
<1>4. CASE p # t
    <2>1. wire'[p] = wire[p] /\ (p \in broken' <=> p \in broken)
        BY <1>1, <1>4 DEF Locks, TypeOK
    <2> QED
        BY <1>1, <1>2, <1>3, <2>1, Undisturbed
<1>5. CASE p = t
    BY <1>1, <1>3, <1>5 DEF DeliversTo, Quiet, Locks, TypeOK
<1> QED
    BY <1>4, <1>5

\* The steps that only take and release locks, or send to a part of the players.
LEMMA LockingDelivers ==
    ASSUME DeliveryAssumption, Locks, Delivers,
           UNCHANGED <<players, sendQueue, wire, broken, farewell, flushing, said, heard>>,
           shutting' = shutting \/ shutting \notin {"locking", "flushing"}
               \/ shutting' \in {"locking", "flushing"}
               \/ sendQueue[flushing] = <<>>,
           \A p \in Player : pc'[p] = "away" <=> pc[p] = "away",
           \A p \in Player : Owed(p)' <=> Owed(p),
           \A p \in Player : Dismissed(p)' <=> Dismissed(p)
    PROVE  Delivers'
<1> SUFFICES ASSUME NEW p \in Player PROVE DeliversTo(p)'
    BY DEF Delivers
<1>1. DeliversTo(p)
    BY DEF Delivers
<1> QED
    BY <1>1, Undisturbed

\* Every step delivers.
LEMMA DeliversStep ==
    ASSUME DeliveryAssumption, Locks, Delivers, Next
    PROVE  Delivers'
<1>1. ASSUME NEW t \in Player, HandlerGoesOn(t) PROVE Delivers'
    <2>1. CASE Visit(t)
        BY <2>1, VisitDelivers
    <2>2. CASE WalkDone(t)
        <3>1. /\ UNCHANGED <<players, sendQueue, wire, broken, farewell, flushing, said, heard>>
              /\ shutting' = shutting /\ todo' = todo
              /\ pc[t] \in Walks /\ todo[t] = {}
            BY <2>2 DEF WalkDone, output, shutdown, history
        <3>2. /\ \A p \in Player : p # t => pc'[p] = pc[p]
              /\ pc'[t] \in {"idle", "stopping", "moving"}
            BY <2>2 DEF WalkDone, Goto, Locks, TypeOK
        <3>3. playersMutex # Down /\ playersMutex' # Down
            <4>1. playersMutex = t
                BY <2>2, Exclusive DEF WalkDone, Busy
            <4> QED
                BY <2>2, <4>1 DEF WalkDone, DeliveryAssumption
        <3>4. \A p \in Player : Owed(p)' <=> Owed(p)
            BY <3>1, <3>2 DEF Owed
        <3>5. \A p \in Player : Dismissed(p)' <=> Dismissed(p)
            BY <3>3 DEF Dismissed
        <3>6. \A p \in Player : pc'[p] = "away" <=> pc[p] = "away"
            BY <3>1, <3>2 DEF Walks
        <3> QED
            BY <3>1, <3>4, <3>5, <3>6, LockingDelivers
    <2>3. CASE SendLevel(t)
        <3>1. /\ UNCHANGED <<players, sendQueue, wire, broken, farewell, flushing, said, heard>>
              /\ shutting' = shutting
              /\ (playersMutex # Down /\ playersMutex' # Down) \/ playersMutex' = playersMutex
              /\ pc[t] \notin {"away", "telling"} /\ pc'[t] \notin {"away", "telling"}
              /\ \A p \in Player : p # t => pc'[p] = pc[p] /\ todo'[p] = todo[p]
            BY <2>3 DEF SendLevel, MayLock, Goto, Locks, TypeOK, locks, output,
               shutdown, history, DeliveryAssumption
        <3>2. \A p \in Player : Owed(p)' <=> Owed(p)
            BY <3>1 DEF Owed
        <3>3. \A p \in Player : Dismissed(p)' <=> Dismissed(p)
            BY <3>1 DEF Dismissed
        <3>4. \A p \in Player : pc'[p] = "away" <=> pc[p] = "away"
            BY <3>1
        <3> QED
            BY <3>1, <3>2, <3>3, <3>4, LockingDelivers
    <2>4. CASE Arrive(t)
        <3>1. /\ UNCHANGED <<players, sendQueue, wire, broken, farewell, flushing, said, heard>>
              /\ shutting' = shutting
              /\ (playersMutex # Down /\ playersMutex' # Down) \/ playersMutex' = playersMutex
              /\ pc[t] \notin {"away", "telling"} /\ pc'[t] \notin {"away", "telling"}
              /\ \A p \in Player : p # t => pc'[p] = pc[p] /\ todo'[p] = todo[p]
            BY <2>4 DEF Arrive, MeetSome, MayLock, Goto, Locks, TypeOK, locks, output,
               shutdown, history, DeliveryAssumption
        <3>2. \A p \in Player : Owed(p)' <=> Owed(p)
            BY <3>1 DEF Owed
        <3>3. \A p \in Player : Dismissed(p)' <=> Dismissed(p)
            BY <3>1 DEF Dismissed
        <3>4. \A p \in Player : pc'[p] = "away" <=> pc[p] = "away"
            BY <3>1
        <3> QED
            BY <3>1, <3>2, <3>3, <3>4, LockingDelivers
    <2>5. CASE MoveLevel(t)
        <3>1. /\ UNCHANGED <<players, sendQueue, wire, broken, farewell, flushing, said, heard>>
              /\ shutting' = shutting
              /\ (playersMutex # Down /\ playersMutex' # Down) \/ playersMutex' = playersMutex
              /\ pc[t] \notin {"away", "telling"} /\ pc'[t] \notin {"away", "telling"}
              /\ \A p \in Player : p # t => pc'[p] = pc[p] /\ todo'[p] = todo[p]
            BY <2>5 DEF MoveLevel, MeetSome, MayLock, Goto, Locks, TypeOK, locks,
               output, shutdown, history, DeliveryAssumption
        <3>2. \A p \in Player : Owed(p)' <=> Owed(p)
            BY <3>1 DEF Owed
        <3>3. \A p \in Player : Dismissed(p)' <=> Dismissed(p)
            BY <3>1 DEF Dismissed
        <3>4. \A p \in Player : pc'[p] = "away" <=> pc[p] = "away"
            BY <3>1
        <3> QED
            BY <3>1, <3>2, <3>3, <3>4, LockingDelivers
    <2>6. CASE Close(t)
        BY <2>6, CloseDelivers
    <2> QED
        BY <1>1, <2>1, <2>2, <2>3, <2>4, <2>5, <2>6 DEF HandlerGoesOn
<1>2. ASSUME NEW t \in Player, HandlerBegins(t) PROVE Delivers'
    <2>1. CASE Register(t)
        BY <2>1, RegisterDelivers
    <2>2. CASE Announce(t)
        <3>1. Begin(t, players) /\ players' = players /\ pc[t] # "away"
              /\ players \in SUBSET Player
            BY <2>2 DEF Announce, Locks, TypeOK
        <3> QED
            BY <3>1, BeginDelivers
    <2>3. CASE Speak(t)
        <3>1. Begin(t, players) /\ players' = players /\ pc[t] # "away"
              /\ players \in SUBSET Player
            BY <2>3 DEF Speak, Locks, TypeOK
        <3> QED
            BY <3>1, BeginDelivers
    <2>4. CASE tp(t)
        <3>1. /\ UNCHANGED <<players, sendQueue, wire, broken, farewell, flushing, said, heard>>
              /\ shutting' = shutting
              /\ (playersMutex # Down /\ playersMutex' # Down) \/ playersMutex' = playersMutex
              /\ pc[t] \notin {"away", "telling"} /\ pc'[t] \notin {"away", "telling"}
              /\ \A p \in Player : p # t => pc'[p] = pc[p] /\ todo'[p] = todo[p]
            BY <2>4 DEF tp, MayLock, Goto, Locks, TypeOK, locks, output, shutdown, history, DeliveryAssumption
        <3>2. \A p \in Player : Owed(p)' <=> Owed(p)
            BY <3>1 DEF Owed
        <3>3. \A p \in Player : Dismissed(p)' <=> Dismissed(p)
            BY <3>1 DEF Dismissed
        <3>4. \A p \in Player : pc'[p] = "away" <=> pc[p] = "away"
            BY <3>1
        <3> QED
            BY <3>1, <3>2, <3>3, <3>4, LockingDelivers
    <2>5. CASE Leave(t)
        <3>1. Begin(t, players \ {t}) /\ players' = players \ {t} /\ pc[t] # "away"
              /\ players \ {t} \in SUBSET Player
            BY <2>5 DEF Leave, Locks, TypeOK
        <3> QED
            BY <3>1, BeginDelivers
    <2>6. CASE Reply(t)
        <3>1. /\ UNCHANGED <<players, sendQueue, wire, broken, farewell, flushing, said, heard>>
              /\ shutting' = shutting /\ playersMutex' = playersMutex
              /\ pc' = pc /\ todo' = todo
            BY <2>6 DEF Reply, locks, output, shutdown
        <3> QED
            BY <3>1, LockingDelivers DEF Owed, Dismissed
    <2> QED
        BY <1>2, <2>1, <2>2, <2>3, <2>4, <2>5, <2>6 DEF HandlerBegins
<1>3. ASSUME NEW t \in Player, Sends(t) \/ Client(t) PROVE Delivers'
    <2>1. CASE TakeQueue(t)
        <3>1. /\ UNCHANGED <<players, sendQueue, wire, broken, farewell, flushing, said, heard>>
              /\ shutting' = shutting /\ playersMutex' = playersMutex
              /\ pc' = pc /\ todo' = todo
            BY <2>1 DEF TakeQueue, locks, shutdown, history
        <3> QED
            BY <3>1, LockingDelivers DEF Owed, Dismissed
    <2> QED
        BY <1>3, <2>1, SendFrontDelivers, ReadDelivers, HangupDelivers DEF Sends, Client
<1>4. ASSUME SaverLocks \/ SaverUnlocks PROVE Delivers'
    <2>1. /\ UNCHANGED <<players, sendQueue, wire, broken, farewell, flushing, said, heard>>
          /\ shutting' = shutting /\ playersMutex' = playersMutex
          /\ pc' = pc /\ todo' = todo
        BY <1>4 DEF SaverLocks, SaverUnlocks, output, shutdown, history
    <2> QED
        BY <2>1, LockingDelivers DEF Owed, Dismissed
<1>5. ASSUME NEW v \in Thread, BeginShutdown(v) PROVE Delivers'
    <2>1. /\ UNCHANGED <<players, sendQueue, wire, broken, farewell, flushing, said, heard>>
          /\ shutting = "no" /\ playersMutex' = playersMutex
          /\ pc' = pc /\ todo' = todo
        BY <1>5 DEF BeginShutdown, locks, output, history
    <2> QED
        BY <2>1, LockingDelivers DEF Owed, Dismissed
<1>6. ASSUME serverShutdown PROVE Delivers'
    <2>1. CASE ShutdownLocks
        <3>1. /\ UNCHANGED <<players, sendQueue, wire, broken, flushing, said, heard>>
              /\ shutting = "asked" /\ farewell' = players /\ pc' = pc /\ todo' = todo
            BY <2>1 DEF ShutdownLocks, output, history
        <3>2. \A p \in Player : ~Dismissed(p) /\ ~Dismissed(p)'
            BY <3>1, NobodyDismissed DEF Dismissed
        <3>3. \A p \in Player : Owed(p)' <=> Owed(p)
            BY <3>1 DEF Owed
        <3> SUFFICES ASSUME NEW p \in Player PROVE DeliversTo(p)'
            BY DEF Delivers
        <3>4. DeliversTo(p)
            BY DEF Delivers
        <3> QED
            BY <3>1, <3>2, <3>3, <3>4, Undisturbed
    <2>2. CASE SayBye
        BY <2>2, SayByeDelivers
    <2>3. CASE BeginFlush \/ SaveAndExit
        <3>1. /\ UNCHANGED <<players, sendQueue, wire, broken, farewell, flushing, said, heard>>
              /\ shutting' = "flushing" \/ sendQueue[flushing] = <<>> \/ shutting = "telling"
              /\ playersMutex' = playersMutex /\ pc' = pc /\ todo' = todo
            BY <2>3 DEF BeginFlush, SaveAndExit, locks, output, history
        <3> QED
            BY <3>1, LockingDelivers DEF Owed, Dismissed
    <2> QED
        BY <1>6, <2>1, <2>2, <2>3 DEF serverShutdown
<1> QED
    BY <1>1, <1>2, <1>3, <1>4, <1>5, <1>6 DEF Next

-----------------------------------------------------------------------------
(* The theorems. *)

\* The part about what is on its way holds at the start.
LEMMA InitDelivers ==
    ASSUME DeliveryAssumption, Init
    PROVE  Delivers
<1> SUFFICES ASSUME NEW p \in Player PROVE DeliversTo(p)
    BY DEF Delivers
<1>1. /\ wire[p] = <<>> /\ sendQueue[p] = <<>> /\ p \notin broken /\ heard[p] = 0
      /\ said = 0 /\ p \notin players /\ pc[p] = "away"
    BY DEF Init
<1>2. Stream(p) = <<>>
    BY <1>1 DEF Stream
<1>3. Len(Stream(p)) = 0 /\ ~Dismissed(p)
    BY <1>1, <1>2 DEF Dismissed
<1> QED
    BY <1>1, <1>3 DEF DeliversTo, Quiet, InSequence, Complete, FlushedInTurn

\* The invariant of all theorems of this module.
LEMMA Inductive ==
    ASSUME DeliveryAssumption
    PROVE  Spec => [](Locks /\ Delivers)
<1>1. Init => Locks /\ Delivers
    BY InitLocks, InitDelivers
<1>2. Locks /\ Delivers /\ [Next]_vars => (Locks /\ Delivers)'
    <2>1. ASSUME Locks, Delivers, Next PROVE (Locks /\ Delivers)'
        BY <2>1, LocksStep, DeliversStep
    <2>2. ASSUME Locks, Delivers, UNCHANGED vars PROVE (Locks /\ Delivers)'
        <3>1. /\ UNCHANGED <<pc, players, todo, playersMutex, registryMutex, sendMutex>>
              /\ UNCHANGED <<sendQueue, wire, broken, shutting, victim, farewell, flushing>>
              /\ UNCHANGED <<said, heard, trailing>>
            BY <2>2 DEF vars, locks, output, shutdown, history
        <3>2. Locks'
            BY <2>2, <3>1 DEF Locks, TypeOK, Serialised, Membership, ShuttingDown, Flushed
        <3>3. Delivers'
            BY <2>2, <3>1, LockingDelivers DEF Owed, Dismissed
        <3> QED
            BY <3>2, <3>3
    <2> QED
        BY <2>1, <2>2
<1> QED
    BY <1>1, <1>2, PTL DEF Spec

\* Every walk stays within the map: a player is never erased, nor deleted, while
\* a handler walks over it.
THEOREM TypeCorrect ==
    ASSUME DeliveryAssumption
    PROVE  Spec => []TypeOK
<1>1. Locks => TypeOK
    BY DEF Locks
<1> QED
    BY <1>1, Inductive, PTL

\* Nothing that was said to everybody is lost on its way to a client that stays.
THEOREM ServedAlways ==
    ASSUME DeliveryAssumption
    PROVE  Spec => []AllServed
<1>1. ASSUME Locks, Delivers PROVE AllServed
    <2> SUFFICES ASSUME NEW p \in players \ broken, NEW n \in heard[p] + 1 .. said,
                        ~(n = said /\ Owed(p))
                 PROVE  n \in InFlight(p)
        BY DEF AllServed, Owed
    <2>1. p \in Player /\ p \notin broken /\ p \in players
        BY <1>1 DEF Locks, TypeOK
    <2>2. InSequence(p) /\ Complete(p)
        BY <1>1, <2>1 DEF Delivers, DeliversTo
    <2>3. /\ wire[p] \in Seq(Nat) /\ sendQueue[p] \in Seq(Nat) /\ Len(Stream(p)) \in Nat
          /\ heard[p] \in Nat /\ said \in Nat
        BY <1>1, <2>1, StreamType
    <2> DEFINE l == Len(Stream(p))
               i == n - heard[p]
    <2>4. heard[p] + l + (IF Owed(p) THEN 1 ELSE 0) = said + (IF Dismissed(p) THEN 1 ELSE 0)
        BY <2>1, <2>2 DEF Complete
    <2>5. i \in 1 .. l /\ (i = l => ~Dismissed(p)) /\ heard[p] + i = n
        <3> DEFINE h == heard[p]
                   o == Owed(p)
                   d == Dismissed(p)
        <3>1. /\ l \in Nat /\ h \in Nat /\ said \in Nat /\ n \in h + 1 .. said
              /\ ~(n = said /\ o) /\ o \in BOOLEAN /\ d \in BOOLEAN
              /\ h + l + (IF o THEN 1 ELSE 0) = said + (IF d THEN 1 ELSE 0)
            BY <2>3, <2>4 DEF Owed, Dismissed
        <3> HIDE DEF l, h, o, d
        <3>2. n \in Int /\ h + 1 <= n /\ n <= said
            BY <3>1
        <3>3. n - h \in 1 .. l /\ (n - h = l => ~d) /\ h + (n - h) = n
            <4>1. CASE o
                BY <3>1, <3>2, <4>1
            <4>2. CASE ~o
                BY <3>1, <3>2, <4>2
            <4> QED
                BY <4>1, <4>2
        <3> QED
            BY <3>3 DEF h, d
    <2>6. Stream(p)[i] = n
        BY <2>2, <2>5 DEF InSequence
    <2> DEFINE w == wire[p]
               q == sendQueue[p]
    <2>7. /\ w \in Seq(Nat) /\ q \in Seq(Nat) /\ Stream(p) = w \o q
          /\ DOMAIN w = 1 .. Len(w) /\ DOMAIN q = 1 .. Len(q)
          /\ Len(w) \in Nat /\ Len(q) \in Nat
        BY <2>3 DEF Stream
    <2> HIDE DEF w, q
    <2>8. /\ Len(Stream(p)) = Len(w) + Len(q)
          /\ \A j \in 1 .. Len(w) + Len(q) :
                Stream(p)[j] = IF j <= Len(w) THEN w[j] ELSE q[j - Len(w)]
        BY <2>7, ConcatProperties
    <2>9. Stream(p)[i] = (IF i <= Len(w) THEN w[i] ELSE q[i - Len(w)]) /\ i \in 1 .. Len(w) + Len(q)
        BY <2>5, <2>8
    <2> HIDE DEF i
    <2>10. CASE i <= Len(w)
        <3>1. i \in DOMAIN w /\ w[i] = n
            BY <2>6, <2>7, <2>9, <2>10
        <3> QED
            BY <3>1 DEF InFlight, w
    <2>11. CASE ~(i <= Len(w))
        <3>1. i - Len(w) \in DOMAIN q /\ q[i - Len(w)] = n
            BY <2>6, <2>7, <2>9, <2>11
        <3> QED
            BY <3>1 DEF InFlight, q
    <2> QED
        BY <2>10, <2>11
<1> QED
    BY <1>1, Inductive, PTL

\* Nobody is sent anything behind a goodbye that was not said, nor by the handler
\* the shutdown interrupts.
OnlyOthersTrail ==
    /\ shutting \in {"no", "asked"} => trailing = {}
    /\ \A t \in trailing : victim # <<"handler", t>>

\* A handler sends behind the goodbye only while the shutdown runs on another thread.
LEMMA OnlyOthersTrailStep ==
    ASSUME DeliveryAssumption, Locks, OnlyOthersTrail, [Next]_vars
    PROVE  OnlyOthersTrail'
<1>1. ASSUME NEW t \in Player, SendLevel(t) \/ Reply(t)
      PROVE  OnlyOthersTrail'
    <2>1. PICK q \in Player :
             /\ victim # <<"handler", t>> /\ SendAlone(t, q)
             /\ shutting' = shutting /\ victim' = victim
        BY <1>1 DEF SendLevel, Reply, Handles, Runs, shutdown, Locks, TypeOK
    <2>2. CASE Dismissed(q)
        <3>1. shutting \notin {"no", "asked"}
            BY <2>2 DEF Dismissed, Locks, ShuttingDown
        <3> QED
            BY <2>1, <2>2, <3>1 DEF OnlyOthersTrail, SendAlone
    <2>3. CASE ~Dismissed(q)
        BY <2>1, <2>3 DEF OnlyOthersTrail, SendAlone
    <2> QED
        BY <2>2, <2>3
<1>2. ASSUME NEW v \in Thread, BeginShutdown(v) PROVE OnlyOthersTrail'
    <2>1. shutting = "no" /\ trailing' = trailing
        BY <1>2 DEF BeginShutdown, history
    <2> QED
        BY <2>1 DEF OnlyOthersTrail
<1>3. ASSUME serverShutdown PROVE OnlyOthersTrail'
    <2>1. /\ trailing' = trailing /\ victim' = victim
          /\ shutting' \in {"no", "asked"} => shutting \in {"no", "asked"}
        BY <1>3 DEF serverShutdown, ShutdownLocks, SayBye, BeginFlush, SaveAndExit, history
    <2> QED
        BY <2>1 DEF OnlyOthersTrail
<1>4. ASSUME NEW p \in Player, Sends(p) \/ Client(p) PROVE OnlyOthersTrail'
    <2>1. /\ trailing' = trailing /\ victim' = victim
          /\ shutting' \in {"no", "asked"} => shutting \in {"no", "asked"}
        BY <1>4 DEF Sends, Client, TakeQueue, SendFront, Read, Hangup, shutdown, history
    <2> QED
        BY <2>1 DEF OnlyOthersTrail
<1>5. ASSUME NEW t \in Player,
             \/ Visit(t) \/ WalkDone(t) \/ Arrive(t) \/ MoveLevel(t) \/ Close(t)
             \/ Register(t) \/ Announce(t) \/ Speak(t) \/ tp(t) \/ Leave(t)
      PROVE  OnlyOthersTrail'
    <2>1. trailing' = trailing /\ victim' = victim /\ shutting' = shutting
        BY <1>5 DEF Visit, WalkDone, Arrive, MoveLevel, Close, Register, Announce, Speak, tp,
           Leave, Begin, shutdown, history
    <2> QED
        BY <2>1 DEF OnlyOthersTrail
<1>6. CASE SaverLocks \/ SaverUnlocks \/ UNCHANGED vars
    BY <1>6 DEF SaverLocks, SaverUnlocks, vars, shutdown, history, OnlyOthersTrail
<1> QED
    BY <1>1, <1>2, <1>3, <1>4, <1>5, <1>6 DEF Next, HandlerGoesOn, HandlerBegins

\* When a shutdown ends the process, every client that is there has been sent the
\* Disconnect packet, after all it was told of what everybody is told; and what follows
\* for a client alone is not sent by the handler the shutdown runs on.
THEOREM FarewellAlways ==
    ASSUME DeliveryAssumption
    PROVE  Spec => []Farewell
<1>1. ASSUME Locks, Delivers, OnlyOthersTrail PROVE Farewell
    <2> SUFFICES ASSUME shutting = "over", NEW p \in players \ broken
                 PROVE  wire[p] # <<>> /\ wire[p][Len(wire[p])] = Bye
        BY <1>1 DEF Farewell, OnlyOthersTrail
    <2>1. p \in Player /\ p \notin broken /\ p \in players
        BY <1>1 DEF Locks, TypeOK
    <2>2. Dismissed(p)
        BY <1>1, <2>1 DEF Locks, ShuttingDown, Dismissed
    <2>3. InSequence(p) /\ Complete(p) /\ sendQueue[p] = <<>>
        BY <1>1, <2>1, <2>2 DEF Delivers, DeliversTo, FlushedInTurn
    <2>4. wire[p] \in Seq(Nat) /\ Len(Stream(p)) \in Nat
        BY <1>1, <2>1, StreamType
    <2>5. Stream(p) = wire[p]
        BY <2>3, <2>4, ConcatEmptySeq DEF Stream
    <2>6. Len(wire[p]) > 0
        BY <2>2, <2>3, <2>5 DEF Complete
    <2>7. Len(wire[p]) \in 1 .. Len(wire[p])
        BY <2>4, <2>6
    <2>8. wire[p][Len(wire[p])] = Bye
        BY <2>2, <2>3, <2>5, <2>7 DEF InSequence
    <2> QED
        BY <2>4, <2>6, <2>8, EmptySeq
<1>2. Init => OnlyOthersTrail
    BY DEF Init, OnlyOthersTrail
<1>3. Locks /\ OnlyOthersTrail /\ [Next]_vars => OnlyOthersTrail'
    BY OnlyOthersTrailStep
<1> QED
    BY <1>1, <1>2, <1>3, Inductive, PTL DEF Spec

\* Delivery implements Chat: all clients hear the same messages in the same order,
\* none left out in between and none twice.
THEOREM Implements ==
    ASSUME DeliveryAssumption
    PROVE  Spec => ChatSpec
<1> DEFINE present == {p \in Player : pc[p] # "away"}
<1>1. Init => ChatView!Init
    BY DEF Init, ChatView!Init
<1>2. Locks /\ Delivers /\ [Next]_vars => [ChatView!Next]_(ChatView!vars)
    <2> SUFFICES ASSUME Locks, Delivers, [Next]_vars
                 PROVE  ChatView!Next \/ UNCHANGED <<said, present, heard>>
        BY DEF ChatView!vars
    <2>1. ASSUME NEW t \in Player, HandlerGoesOn(t)
          PROVE  ChatView!Exit(t) \/ UNCHANGED <<said, present, heard>>
        <3>1. CASE Close(t)
            <4>1. /\ pc[t] # "away" /\ pc' = [pc EXCEPT ![t] = "away"]
                  /\ said' = said /\ heard' = heard
                BY <3>1 DEF Close, Goto, history
            <4>2. t \in present /\ present' = present \ {t}
                BY <4>1 DEF Locks, TypeOK
            <4> QED
                BY <4>1, <4>2 DEF ChatView!Exit
        <3>2. CASE ~Close(t)
            <4>1. /\ said' = said /\ heard' = heard
                  /\ \A p \in Player : pc'[p] = "away" <=> pc[p] = "away"
                BY <2>1, <3>2 DEF HandlerGoesOn, Visit, WalkDone, SendLevel, Arrive, MoveLevel,
                   Goto, history, Locks, TypeOK, Walks
            <4> QED
                BY <4>1
        <3> QED
            BY <3>1, <3>2
    <2>2. ASSUME NEW t \in Player, Register(t) PROVE ChatView!Enter(t)
        <3>1. /\ pc[t] = "away" /\ pc' = [pc EXCEPT ![t] = "joining"] /\ said' = said
              /\ heard' = [heard EXCEPT ![t] = said]
            BY <2>2 DEF Register, Goto
        <3>2. t \notin present /\ present' = present \cup {t}
            BY <3>1 DEF Locks, TypeOK
        <3> QED
            BY <3>1, <3>2 DEF ChatView!Enter
    <2>3. ASSUME NEW t \in Player, Announce(t) \/ Speak(t) \/ Leave(t) PROVE ChatView!Say
        <3>1. /\ said' = said + 1 /\ heard' = heard /\ pc[t] # "away"
              /\ pc' = [pc EXCEPT ![t] = "telling"]
            BY <2>3 DEF Announce, Speak, Leave, Begin, Goto
        <3>2. present' = present
            BY <3>1 DEF Locks, TypeOK
        <3> QED
            BY <3>1, <3>2 DEF ChatView!Say
    <2>4. ASSUME NEW t \in Player, tp(t) \/ Reply(t)
          PROVE  UNCHANGED <<said, present, heard>>
        <3>1. /\ said' = said /\ heard' = heard
              /\ \A p \in Player : pc'[p] = "away" <=> pc[p] = "away"
            BY <2>4 DEF tp, Reply, Goto, history, Locks, TypeOK
        <3> QED
            BY <3>1
    <2>5. ASSUME NEW t \in Player, Read(t) PROVE ChatView!Hear(t)
        <3>1. /\ Head(wire[t]) = heard[t] + 1 /\ Head(wire[t]) <= said
              /\ heard[t] \in Nat /\ said \in Nat
            BY <2>5, ReadsNext, StreamType
        <3>2. /\ pc[t] # "away" /\ pc' = pc /\ said' = said
              /\ heard' = [heard EXCEPT ![t] = Head(wire[t])]
            BY <2>5 DEF Read
        <3>3. heard[t] < said
            BY <3>1
        <3> QED
            BY <3>1, <3>2, <3>3 DEF ChatView!Hear
    <2>6. ASSUME \/ \E t \in Player : Sends(t) \/ Hangup(t)
                 \/ SaverLocks \/ SaverUnlocks \/ serverShutdown
                 \/ \E v \in Thread : BeginShutdown(v)
                 \/ UNCHANGED vars
          PROVE  UNCHANGED <<said, present, heard>>
        <3>1. said' = said /\ heard' = heard /\ pc' = pc
            BY <2>6 DEF Sends, TakeQueue, SendFront, Hangup, SaverLocks, SaverUnlocks,
               serverShutdown, ShutdownLocks, SayBye, BeginFlush, SaveAndExit, BeginShutdown,
               vars, history
        <3> QED
            BY <3>1
    <2>7. ASSUME NEW t \in Player,
                 ChatView!Enter(t) \/ ChatView!Hear(t) \/ ChatView!Exit(t) \/ ChatView!Say
          PROVE  ChatView!Next
        BY <2>7 DEF ChatView!Next
    <2> QED
        BY <2>1, <2>2, <2>3, <2>4, <2>5, <2>6, <2>7 DEF Next, HandlerBegins, Client
<1> QED
    BY <1>1, <1>2, Inductive, PTL DEF Spec, ChatSpec, ChatView!Spec

-----------------------------------------------------------------------------
(* No circle. *)

\* Who keeps playersMutex is in the middle of something, the converse of Serialised.
HolderBusy == \A t \in Player : playersMutex = t => pc[t] \in Busy

\* The handler that keeps playersMutex gives it back when it becomes idle.
LEMMA HolderBusyStep ==
    ASSUME DeliveryAssumption, Locks, HolderBusy, [Next]_vars
    PROVE  HolderBusy'
<1> SUFFICES ASSUME NEW u \in Player, playersMutex' = u
             PROVE  pc'[u] \in Busy
    BY DEF HolderBusy
<1> USE DEF HolderBusy
<1>t. pc \in [Player -> Stage] /\ u # None /\ u # Down
    BY DEF Locks, TypeOK, DeliveryAssumption
<1>1. ASSUME NEW t \in Player, HandlerGoesOn(t) PROVE pc'[u] \in Busy
    <2>1. CASE Visit(t)
        BY <2>1 DEF Visit, locks
    <2>2. CASE WalkDone(t)
        BY <2>2, <1>t DEF WalkDone, Goto, Busy, Walks
    <2>3. CASE SendLevel(t) \/ Close(t)
        BY <2>3, <1>t DEF SendLevel, Close, Goto, Busy, Walks, locks
    <2>4. CASE Arrive(t) \/ MoveLevel(t)
        BY <2>4, <1>t DEF Arrive, MoveLevel, Goto, Busy, Walks, locks
    <2> QED
        BY <1>1, <2>1, <2>2, <2>3, <2>4 DEF HandlerGoesOn
<1>2. ASSUME NEW t \in Player, HandlerBegins(t) PROVE pc'[u] \in Busy
    <2>1. CASE Register(t)
        BY <2>1, <1>t DEF Register, Goto, Busy, Walks, locks
    <2>2. CASE Announce(t) \/ Speak(t) \/ Leave(t)
        BY <2>2, <1>t DEF Announce, Speak, Leave, Begin, Goto, Busy, Walks
    <2>3. CASE tp(t)
        BY <2>3, <1>t DEF tp, Goto, Busy
    <2>4. CASE Reply(t)
        BY <2>4 DEF Reply, locks
    <2> QED
        BY <1>2, <2>1, <2>2, <2>3, <2>4 DEF HandlerBegins
<1>3. ASSUME NEW p \in Player, Sends(p) \/ Client(p) PROVE pc'[u] \in Busy
    BY <1>3 DEF Sends, TakeQueue, SendFront, Client, Read, Hangup, locks
<1>4. CASE SaverLocks \/ SaverUnlocks \/ \E v \in Thread : BeginShutdown(v)
    BY <1>4 DEF SaverLocks, SaverUnlocks, BeginShutdown, locks
<1>5. CASE serverShutdown
    BY <1>5, <1>t DEF serverShutdown, ShutdownLocks, SayBye, BeginFlush, SaveAndExit, locks
<1>6. CASE UNCHANGED vars
    BY <1>6 DEF vars, locks
<1> QED
    BY <1>1, <1>2, <1>3, <1>4, <1>5, <1>6 DEF Next

\* A client with something to send to, or with a full socket, will have room: the
\* Disconnect packet, which it does not read past, is the last it is sent.
LEMMA ClientDrains ==
    ASSUME DeliveryAssumption, Locks, Delivers, NEW p \in Player,
           sendQueue[p] # <<>> \/ ~Dismissed(p)
    PROVE  Drains(p)
<1> SUFFICES ASSUME p \notin broken, Len(wire[p]) >= Room
             PROVE  Head(wire[p]) # Bye
    BY DEF Drains, Sendable, Locks, TypeOK, DeliveryAssumption
<1>1. wire[p] \in Seq(Nat) /\ sendQueue[p] \in Seq(Nat) /\ Room \in Nat \ {0} /\ heard[p] \in Nat
    BY DEF Locks, TypeOK, DeliveryAssumption
<1> DEFINE w == Len(wire[p])
           q == Len(sendQueue[p])
<1>2. /\ w \in Nat /\ q \in Nat /\ w >= 1 /\ Head(wire[p]) = wire[p][1]
      /\ sendQueue[p] # <<>> => q >= 1
    BY <1>1
<1>3. /\ Len(Stream(p)) = w + q
      /\ \A i \in 1 .. w + q : Stream(p)[i] = IF i <= w THEN wire[p][i] ELSE sendQueue[p][i - w]
    BY <1>1, ConcatProperties DEF Stream
<1> HIDE DEF w, q
<1>4. Stream(p)[1] = wire[p][1] /\ 1 \in 1 .. Len(Stream(p))
    BY <1>2, <1>3
<1>5. InSequence(p)
    BY DEF Delivers, DeliversTo
<1>6. ~(1 = Len(Stream(p)) /\ Dismissed(p))
    BY <1>2, <1>3
<1>7. Stream(p)[1] = heard[p] + 1
    BY <1>4, <1>5, <1>6 DEF InSequence
<1> QED
    BY <1>1, <1>2, <1>4, <1>7 DEF Bye

\* Locks are waited for along one order, in every command, in the sender threads
\* and in a shutdown: whoever has one can go on, or waits for a client or for a
\* thread that can.
THEOREM NoCircleAlways ==
    ASSUME DeliveryAssumption
    PROVE  Spec => []NoCircle
<1>1. Init => HolderBusy
    BY DEF Init, HolderBusy, DeliveryAssumption
<1>2. Locks /\ HolderBusy /\ [Next]_vars => HolderBusy'
    BY HolderBusyStep
<1>3. ASSUME Locks, Delivers, HolderBusy PROVE NoCircle
    <2> SUFFICES ASSUME ~VictimHolds, shutting # "over"
                 PROVE  /\ \A p \in Player :
                              sendMutex[p] # None =>
                                  sendQueue[p] # <<>> /\ Flushes(p) /\ Drains(p)
                        /\ registryMutex = Saver => Runs(<<"saver", 0>>)
                        /\ \A t \in Player :
                              playersMutex = t => /\ Handles(t) /\ pc[t] \in Busy
                                                  /\ pc[t] = "moving" => Drains(t)
                        /\ \A p \in Player : sendMutex[p] = Down => playersMutex = Down
        BY DEF NoCircle
    <2>1. ASSUME NEW p \in Player, sendMutex[p] # None
          PROVE  sendQueue[p] # <<>> /\ Flushes(p) /\ Drains(p)
        <3>1. sendQueue[p] # <<>>
            BY <1>3, <2>1 DEF Locks, Flushed
        <3>2. Flushes(p)
            BY <1>3, <2>1 DEF Locks, TypeOK, Flushes, Runs, VictimHolds
        <3> QED
            BY <1>3, <3>1, <3>2, ClientDrains
    <2>2. registryMutex = Saver => Runs(<<"saver", 0>>)
        BY DEF Runs, VictimHolds
    <2>3. ASSUME NEW t \in Player, playersMutex = t
          PROVE  /\ Handles(t) /\ pc[t] \in Busy
                 /\ pc[t] = "moving" => Drains(t)
        <3>1. Handles(t)
            BY <2>3 DEF Handles, Runs, VictimHolds
        <3>2. pc[t] \in Busy
            BY <1>3, <2>3 DEF HolderBusy
        <3>3. ~Dismissed(t)
            BY <2>3 DEF Dismissed, DeliveryAssumption
        <3> QED
            BY <1>3, <3>1, <3>2, <3>3, ClientDrains
    <2>4. ASSUME NEW p \in Player, sendMutex[p] = Down PROVE playersMutex = Down
        BY <1>3, <2>4 DEF Locks, ShuttingDown
    <2> QED
        BY <2>1, <2>2, <2>3, <2>4
<1> QED
    BY <1>1, <1>2, <1>3, Inductive, PTL DEF Spec
=============================================================================
