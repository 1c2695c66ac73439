----------------------------- MODULE InboxProofs -----------------------------
(* Proofs about Inbox: the handler of a connection is never out of step with *)
(* its client, and the queue between its threads implements a ByteStream,    *)
(* for any limit, packets and chunk size.                                    *)
EXTENDS Inbox, SequenceTheorems, TLAPS

\* What popExact does to the two sequences.
LEMMA Popped ==
    ASSUME taken \in Seq(Nat), recvQueue \in Seq(Nat),
           NEW n \in Nat \ {0}, popExact(n)
    PROVE  /\ taken' \in Seq(Nat) /\ Len(taken') = Len(taken) + n
           /\ \A i \in 1 .. Len(taken) : taken'[i] = taken[i]
           /\ \A i \in Len(taken) + 1 .. Len(taken) + n :
                 taken'[i] = recvQueue[i - Len(taken)]
           /\ recvQueue' \in Seq(Nat) /\ Len(recvQueue') = Len(recvQueue) - n
           /\ \A i \in 1 .. Len(recvQueue) - n : recvQueue'[i] = recvQueue[n + i]
           /\ n <= Len(recvQueue)
<1> DEFINE part == SubSeq(recvQueue, 1, n)
<1>1. n <= Len(recvQueue) /\ Len(recvQueue) \in Nat /\ Len(taken) \in Nat
    BY LenProperties DEF popExact
<1>2. /\ part \in Seq(Nat) /\ Len(part) = n
      /\ \A i \in 1 .. n : part[i] = recvQueue[i]
  <2>1. \A i \in 1 .. n : recvQueue[i] \in Nat
    BY <1>1, ElementOfSeq
  <2> QED
    BY <2>1, SubSeqProperties
<1>3. /\ recvQueue' \in Seq(Nat) /\ Len(recvQueue') = Len(recvQueue) - n
      /\ \A i \in 1 .. Len(recvQueue) - n : recvQueue'[i] = recvQueue[n + i]
  <2>1. \A i \in n + 1 .. Len(recvQueue) : recvQueue[i] \in Nat
    BY <1>1, ElementOfSeq
  <2>2. recvQueue' = SubSeq(recvQueue, n + 1, Len(recvQueue))
    BY DEF popExact
  <2> QED
    BY <1>1, <2>1, <2>2, SubSeqProperties
<1>4. /\ taken' \in Seq(Nat) /\ Len(taken') = Len(taken) + n
      /\ \A i \in 1 .. Len(taken) + n :
            taken'[i] = IF i <= Len(taken) THEN taken[i] ELSE part[i - Len(taken)]
  <2>1. taken' = taken \o part
    BY DEF popExact
  <2> QED
    BY <1>2, <2>1, ConcatProperties
<1>5. \A i \in Len(taken) + 1 .. Len(taken) + n : taken'[i] = recvQueue[i - Len(taken)]
    BY <1>1, <1>2, <1>4
<1> QED
    BY <1>1, <1>3, <1>4, <1>5

\* The same for pushByte where there is room.
LEMMA Pushed ==
    ASSUME recvQueue \in Seq(Nat), NEW b \in Nat, recvQueue' = Append(recvQueue, b)
    PROVE  /\ recvQueue' \in Seq(Nat) /\ Len(recvQueue') = Len(recvQueue) + 1
           /\ \A i \in 1 .. Len(recvQueue) : recvQueue'[i] = recvQueue[i]
           /\ recvQueue'[Len(recvQueue) + 1] = b
BY AppendProperties

\* What is left of a sequence of more than one element.
LEMMA Shorter ==
    ASSUME NEW S, NEW s \in Seq(S), Len(s) > 1
    PROVE  Tail(s) \in Seq(S) /\ Tail(s) # <<>>
<1>1. Tail(s) \in Seq(S) /\ Len(Tail(s)) = Len(s) - 1
    BY HeadTailProperties
<1>2. Len(s) \in Nat
    BY LenProperties
<1>3. ASSUME NEW t, NEW n \in Nat, n > 1, Len(t) = n - 1
      PROVE  t # <<>>
    BY <1>3
<1> QED
    BY <1>1, <1>2, <1>3

\* The parts of a packet, and what is left of them.
LEMMA WantStep ==
    ASSUME InboxAssumption, want \in Seq(1 .. Limit + 1), want # <<>>
    PROVE  /\ Head(want) \in 1 .. Limit + 1
           /\ <<1>> \in Seq(1 .. Limit + 1) /\ <<1>> # <<>>
           /\ \A k \in Kind : Parts[k] \in Seq(1 .. Limit + 1) /\ Parts[k] # <<>>
           /\ Len(want) > 1 => Tail(want) \in Seq(1 .. Limit + 1) /\ Tail(want) # <<>>
<1>1. Head(want) \in 1 .. Limit + 1
    BY HeadTailProperties
<1>2. <<1>> \in Seq(1 .. Limit + 1) /\ <<1>> # <<>>
    BY DEF InboxAssumption
<1>3. \A k \in Kind : Parts[k] \in Seq(1 .. Limit + 1) /\ Parts[k] # <<>>
    BY DEF InboxAssumption
<1>4. Len(want) > 1 => Tail(want) \in Seq(1 .. Limit + 1) /\ Tail(want) # <<>>
    BY Shorter
<1> QED
    BY <1>1, <1>2, <1>3, <1>4

\* Every step keeps the types.
LEMMA TypeStep ==
    ASSUME InboxAssumption, TypeOK, [Next]_vars
    PROVE  TypeOK'
<1> USE InboxAssumption DEF InboxAssumption, TypeOK, Reading
<1>1. CASE UNCHANGED vars
    BY <1>1 DEF vars, client, receiving, reading
<1>2. CASE Client
    BY <1>2 DEF Client, Send, Hangup, receiving, reading
<1>3. CASE TestStop
    BY <1>3 DEF TestStop, client, reading
<1>4. CASE ReceiveFails
    BY <1>4 DEF ReceiveFails, client, reading
<1>5. ASSUME NEW n \in 1 .. Chunk, Receive(n)
      PROVE  TypeOK'
    BY <1>5 DEF Receive, client, reading
<1>6. CASE pushByte
  <2>1. CASE Len(recvQueue) > Limit
    BY <1>6, <2>1 DEF pushByte, NextByte, client, reading
  <2>2. CASE ~(Len(recvQueue) > Limit)
    <3>1. recvQueue' \in Seq(Nat) /\ Len(recvQueue') = Len(recvQueue) + 1
      BY <1>6, <2>2, Pushed DEF pushByte
    <3>2. Len(recvQueue) \in Nat
      BY LenProperties
    <3> QED
      BY <1>6, <2>2, <3>1, <3>2 DEF pushByte, NextByte, client, reading
  <2> QED
    BY <2>1, <2>2
<1>7. CASE TestDisconnected
    BY <1>7 DEF TestDisconnected, client, receiving, reading
<1>8. CASE NotEnough
    BY <1>8 DEF NotEnough, client, receiving, reading
<1>9. ASSUME popExact(Head(want))
      PROVE  /\ taken' \in Seq(Nat) /\ recvQueue' \in Seq(Nat)
             /\ Len(recvQueue') <= Limit + 1
  <2>1. Head(want) \in Nat \ {0}
    BY WantStep
  <2>2. Len(recvQueue) \in Nat
    BY LenProperties
  <2> QED
    BY <1>9, <2>1, <2>2, Popped
<1>10. CASE UnknownPacket
    BY <1>9, <1>10 DEF UnknownPacket, client, receiving
<1>11. CASE ReadPart
  <2>1. want' \in Seq(1 .. Limit + 1) /\ want' # <<>>
    BY <1>11, WantStep DEF ReadPart
  <2> QED
    BY <1>9, <1>11, <2>1 DEF ReadPart, client, receiving
<1>12. CASE Leave
    BY <1>12 DEF Leave, client, receiving, reading
<1>13. CASE Delete
    BY <1>13 DEF Delete, client, receiving, reading
<1>14. ASSUME NEW k \in Kind, ReadId(k)
       PROVE  TypeOK'
    BY <1>9, <1>14, WantStep DEF ReadId, client, receiving
<1> QED
    BY <1>1, <1>2, <1>3, <1>4, <1>5, <1>6, <1>7, <1>8, <1>10, <1>11, <1>12, <1>13,
       <1>14 DEF Next, Receiver, Handler

\* No thread pushes more than was received, or reads a part of no length.
THEOREM TypeCorrect == Spec => []TypeOK
<1>1. Init => TypeOK
  <2>1. <<1>> \in Seq(1 .. Limit + 1) /\ <<1>> # <<>>
    BY InboxAssumption DEF InboxAssumption
  <2>2. <<>> \in Seq(Nat) /\ Len(<<>>) = 0
    OBVIOUS
  <2> SUFFICES ASSUME Init
               PROVE  TypeOK
    OBVIOUS
  <2>3. recvQueue \in Seq(Nat) /\ taken \in Seq(Nat) /\ Len(recvQueue) <= Limit + 1
    BY <2>2, InboxAssumption DEF InboxAssumption, Init
  <2>4. sent \in Nat /\ got \in Nat /\ pushed \in Nat /\ pushed <= got /\ got <= sent
    BY DEF Init
  <2> QED
    BY <2>1, <2>3, <2>4, Zenon DEF Init, TypeOK, Reading
<1>2. TypeOK /\ [Next]_vars => TypeOK'
    BY InboxAssumption, TypeStep
<1> QED
    BY <1>1, <1>2, PTL DEF Spec

-----------------------------------------------------------------------------

\* The first n bytes in the queue continue what was taken.
Follows(n) == \A i \in 1 .. n : recvQueue[i] = Len(taken) + i

\* Before a byte is dropped the queue holds exactly the bytes pushed and not
\* taken.  Afterwards a handler that tested the flag too early still finds a
\* full queue without a gap in it, enough for the one part it may take.
Flow ==
    /\ InStep
    /\ ~dropped => Follows(Len(recvQueue)) /\ Len(taken) + Len(recvQueue) = pushed
    /\ dropped => /\ disconnected
                  /\ handler = "popping" => /\ Len(recvQueue) > Limit
                                            /\ Follows(Limit + 1)
                                            /\ Len(taken) + Limit + 1 <= pushed

\* The handler's step: the part it takes is without a gap.
LEMMA PopStep ==
    ASSUME InboxAssumption, TypeOK, Flow, handler = "popping", popExact(Head(want)),
           handler' # "popping", UNCHANGED <<pushed, dropped, disconnected>>
    PROVE  /\ Flow'
           /\ taken' = [i \in 1 .. Len(taken) + Head(want) |-> i]
           /\ Len(taken) + Head(want) <= sent
<1> DEFINE n == Head(want)
<1>1. n \in 1 .. Limit + 1 /\ Limit \in Nat
    BY WantStep DEF TypeOK, InboxAssumption
<1>2. Len(taken) \in Nat /\ Len(recvQueue) \in Nat /\ pushed \in Nat
      /\ got \in Nat /\ sent \in Nat /\ pushed <= got /\ got <= sent
    BY LenProperties DEF TypeOK
<1>3. /\ taken' \in Seq(Nat) /\ Len(taken') = Len(taken) + n
      /\ \A i \in 1 .. Len(taken) : taken'[i] = taken[i]
      /\ \A i \in Len(taken) + 1 .. Len(taken) + n : taken'[i] = recvQueue[i - Len(taken)]
      /\ recvQueue' \in Seq(Nat) /\ Len(recvQueue') = Len(recvQueue) - n
      /\ \A i \in 1 .. Len(recvQueue) - n : recvQueue'[i] = recvQueue[n + i]
      /\ n <= Len(recvQueue)
  <2>1. taken \in Seq(Nat) /\ recvQueue \in Seq(Nat) /\ n \in Nat \ {0}
    BY <1>1 DEF TypeOK
  <2>2. popExact(n)
    OBVIOUS
  <2> QED
    BY <2>1, <2>2, Popped
<1>4. Follows(n)
    BY <1>1, <1>2, <1>3 DEF Flow, Follows
<1>5. Len(taken) + n <= sent
    BY <1>1, <1>2, <1>3 DEF Flow
<1>6. \A i \in 1 .. Len(taken) + n : taken'[i] = i
  <2> SUFFICES ASSUME NEW i \in 1 .. Len(taken) + n
               PROVE  taken'[i] = i
    OBVIOUS
  <2>1. CASE i <= Len(taken)
    <3>1. taken[i] = i
      BY <1>2, <2>1 DEF Flow, InStep
    <3> QED
      BY <1>1, <1>2, <1>3, <2>1, <3>1
  <2>2. CASE ~(i <= Len(taken))
    <3>1. i - Len(taken) \in 1 .. n /\ i \in Len(taken) + 1 .. Len(taken) + n
      BY <1>1, <1>2, <2>2
    <3>2. recvQueue[i - Len(taken)] = i
      BY <1>1, <1>2, <1>4, <3>1 DEF Follows
    <3> QED
      BY <1>3, <3>1, <3>2
  <2> QED
    BY <2>1, <2>2
<1>7. taken' = [i \in 1 .. Len(taken) + n |-> i]
  <2>1. DOMAIN taken' = 1 .. Len(taken) + n /\ taken' = [i \in DOMAIN taken' |-> taken'[i]]
    BY <1>3, LenProperties
  <2> QED
    BY <1>6, <2>1
<1>8. InStep'
    BY <1>3, <1>7 DEF InStep
<1>9. ~dropped => (Follows(Len(recvQueue)) /\ Len(taken) + Len(recvQueue) = pushed)'
  <2> SUFFICES ASSUME ~dropped
               PROVE  (Follows(Len(recvQueue)) /\ Len(taken) + Len(recvQueue) = pushed)'
    OBVIOUS
  <2>1. Follows(Len(recvQueue)) /\ Len(taken) + Len(recvQueue) = pushed
    BY DEF Flow
  <2>2. Len(taken') + Len(recvQueue') = pushed'
    BY <1>1, <1>2, <1>3, <2>1
  <2>3. ASSUME NEW i \in 1 .. Len(recvQueue) - n
        PROVE  recvQueue'[i] = Len(taken) + n + i
    <3>1. n + i \in 1 .. Len(recvQueue)
      BY <1>1, <1>2
    <3>2. recvQueue[n + i] = Len(taken) + (n + i)
      BY <2>1, <3>1 DEF Follows
    <3> QED
      BY <1>1, <1>2, <1>3, <3>2
  <2> QED
    BY <1>1, <1>2, <1>3, <2>2, <2>3 DEF Follows
<1> QED
    BY <1>5, <1>7, <1>8, <1>9 DEF Flow

\* Every step keeps Flow.
LEMMA FlowStep ==
    ASSUME InboxAssumption, TypeOK, Flow, [Next]_vars
    PROVE  Flow'
<1> USE DEF Flow, InStep, Follows
<1>1. CASE UNCHANGED vars
    BY <1>1 DEF vars, receiving, reading
<1>2. CASE Client
  <2>1. CASE Send
    BY <2>1 DEF Send, receiving, reading
  <2>2. CASE Hangup
    BY <2>2 DEF Hangup, receiving, reading
  <2> QED
    BY <1>2, <2>1, <2>2 DEF Client
<1>3. CASE TestStop
    BY <1>3 DEF TestStop, reading
<1>4. CASE ReceiveFails
    BY <1>4 DEF ReceiveFails, reading
<1>5. ASSUME NEW n \in 1 .. Chunk, Receive(n)
      PROVE  Flow'
    BY <1>5 DEF Receive, reading
<1>6. CASE pushByte
  <2>1. /\ pushed' = pushed + 1 /\ taken' = taken /\ handler' = handler
        /\ pushed \in Nat /\ Len(recvQueue) \in Nat /\ Len(taken) \in Nat
        /\ Limit \in Nat /\ Len(recvQueue) <= Limit + 1
    BY <1>6, LenProperties DEF pushByte, NextByte, TypeOK, InboxAssumption, reading
  <2>2. CASE Len(recvQueue) > Limit
    <3>1. dropped' /\ disconnected' /\ recvQueue' = recvQueue /\ Len(recvQueue) = Limit + 1
      BY <1>6, <2>1, <2>2 DEF pushByte
    <3>2. (Follows(Limit + 1) /\ Len(taken) + Limit + 1 <= pushed) \/ handler # "popping"
      BY <2>1, <3>1
    <3> QED
      BY <2>1, <3>1, <3>2
  <2>3. CASE ~(Len(recvQueue) > Limit)
    <3>1. /\ Len(recvQueue') = Len(recvQueue) + 1
          /\ \A i \in 1 .. Len(recvQueue) : recvQueue'[i] = recvQueue[i]
          /\ recvQueue'[Len(recvQueue) + 1] = pushed + 1
          /\ UNCHANGED <<disconnected, dropped>>
      BY <1>6, <2>1, <2>3, Pushed DEF pushByte, TypeOK
    <3>2. CASE dropped
      BY <2>1, <2>3, <3>1, <3>2
    <3>3. CASE ~dropped
      <4>1. \A i \in 1 .. Len(recvQueue) + 1 : recvQueue'[i] = Len(taken) + i
        <5>1. \A i \in 1 .. Len(recvQueue) : recvQueue'[i] = Len(taken) + i
          BY <3>1, <3>3
        <5>2. recvQueue'[Len(recvQueue) + 1] = Len(taken) + Len(recvQueue) + 1
          BY <3>1, <3>3
        <5>3. Len(taken) \in Nat /\ Len(recvQueue) \in Nat
          BY <2>1
        <5> DEFINE f == recvQueue'
                   n == Len(recvQueue)
                   m == Len(taken)
        <5>4. /\ n \in Nat /\ m \in Nat
              /\ \A i \in 1 .. n : f[i] = m + i
              /\ f[n + 1] = m + n + 1
          BY <5>1, <5>2, <5>3
        <5> HIDE DEF f, n, m
        <5>5. ASSUME NEW i \in 1 .. n + 1
              PROVE  f[i] = m + i
          <6>1. CASE i \in 1 .. n
            BY <5>4, <6>1
          <6>2. CASE i = n + 1
            BY <5>4, <6>2
          <6> QED
            BY <5>4, <6>1, <6>2
        <5> QED
          BY <5>5 DEF f, n, m
      <4> QED
        BY <2>1, <3>1, <3>3, <4>1
    <3> QED
      BY <3>2, <3>3
  <2> QED
    BY <2>2, <2>3
<1>7. CASE TestDisconnected
    BY <1>7 DEF TestDisconnected, receiving, reading
<1>8. CASE NotEnough
    BY <1>8 DEF NotEnough, receiving, reading
<1>9. CASE UnknownPacket
    BY <1>9, PopStep DEF UnknownPacket, receiving
<1>10. CASE ReadPart
    BY <1>10, PopStep DEF ReadPart, receiving
<1>11. CASE Leave
    BY <1>11 DEF Leave, receiving, reading
<1>12. CASE Delete
    BY <1>12 DEF Delete, receiving, reading
<1>13. ASSUME NEW k \in Kind, ReadId(k)
       PROVE  Flow'
    BY <1>13, PopStep DEF ReadId, receiving
<1> QED
    BY <1>1, <1>2, <1>3, <1>4, <1>5, <1>6, <1>7, <1>8, <1>9, <1>10, <1>11, <1>12,
       <1>13 DEF Next, Receiver, Handler

\* Flow holds at the start.
LEMMA FlowInit == Init => Flow
BY DEF Init, Flow, InStep, Follows

\* The handler is never out of step with its client.
THEOREM AlwaysInStep == Spec => []InStep
<1>1. TypeOK /\ Flow /\ [Next]_vars => Flow'
    BY InboxAssumption, FlowStep
<1>2. Flow => InStep
    BY DEF Flow
<1> QED
    BY <1>1, <1>2, FlowInit, TypeCorrect, PTL DEF Spec

-----------------------------------------------------------------------------

\* What the handler still reads of a packet is made of parts of packets.
WantParts == want \in Seq(PartLengths)

\* The parts of a packet are among the lengths of the channel.
LEMMA PartsOfPackets ==
    ASSUME InboxAssumption, NEW k \in Kind
    PROVE  Parts[k] \in Seq(PartLengths)
<1>1. Parts[k] \in Seq(1 .. Limit + 1)
    BY DEF InboxAssumption
<1>2. \A i \in 1 .. Len(Parts[k]) : Parts[k][i] \in PartLengths
    BY DEF PartLengths
<1>3. /\ Len(Parts[k]) \in Nat /\ DOMAIN Parts[k] = 1 .. Len(Parts[k])
      /\ Parts[k] = [i \in DOMAIN Parts[k] |-> Parts[k][i]]
    BY <1>1, LenProperties
<1>4. Parts[k] \in [1 .. Len(Parts[k]) -> PartLengths]
    BY <1>2, <1>3
<1> QED
    BY <1>3, <1>4, SeqDef

\* What the handler waits for are such lengths, whatever the step.
LEMMA WantPartsStep ==
    ASSUME InboxAssumption, TypeOK, WantParts, [Next]_vars
    PROVE  WantParts'
<1> USE DEF WantParts
<1>1. CASE want' = want
    BY <1>1
<1>2. ASSUME NEW k \in Kind, ReadId(k)
      PROVE  WantParts'
    BY <1>2, PartsOfPackets DEF ReadId
<1>3. CASE ReadPart
  <2>1. CASE Len(want) > 1
    <3>1. Tail(want) \in Seq(PartLengths)
      BY <2>1, Shorter
    <3> QED
      BY <1>3, <2>1, <3>1 DEF ReadPart
  <2>2. CASE ~(Len(want) > 1)
    <3>1. <<1>> \in Seq(PartLengths)
      BY DEF PartLengths
    <3> QED
      BY <1>3, <2>2, <3>1 DEF ReadPart
  <2> QED
    BY <2>1, <2>2
<1>4. CASE Client \/ Receiver \/ UNCHANGED vars
    BY <1>1, <1>4 DEF Client, Send, Hangup, Receiver, TestStop, ReceiveFails, Receive,
       pushByte, NextByte, vars, reading
<1>5. CASE TestDisconnected \/ NotEnough \/ UnknownPacket \/ Leave \/ Delete
    BY <1>1, <1>5 DEF TestDisconnected, NotEnough, UnknownPacket, Leave, Delete, reading
<1> QED
    BY <1>2, <1>3, <1>4, <1>5 DEF Next, Handler

\* A step of the threads is a step of the channel, or none.
LEMMA StreamStep ==
    ASSUME InboxAssumption, TypeOK, Flow, WantParts, [Next]_vars
    PROVE  [Stream!Next]_(Stream!vars)
<1> USE DEF Stream!vars
<1> DEFINE over == handler \notin Reading
<1>1. CASE UNCHANGED <<sent, taken, over>>
    BY <1>1
<1>2. ASSUME handler = "popping", popExact(Head(want)), handler' # "popping",
             UNCHANGED <<sent, pushed, dropped, disconnected>>
      PROVE  Stream!Next
  <2>1. /\ taken' = [i \in 1 .. Len(taken) + Head(want) |-> i]
        /\ Len(taken) + Head(want) <= sent
    BY <1>2, PopStep
  <2>2. Head(want) \in PartLengths
    BY HeadTailProperties DEF WantParts, TypeOK
  <2>3. Stream!Read(Head(want))
    BY <1>2, <2>1 DEF Stream!Read, Reading
  <2> QED
    BY <2>2, <2>3 DEF Stream!Next
<1>3. CASE Send
    BY <1>3 DEF Send, reading, Stream!Next, Stream!Send
<1>4. CASE Hangup \/ Receiver \/ UNCHANGED vars
    BY <1>1, <1>4 DEF Hangup, Receiver, TestStop, ReceiveFails, Receive, pushByte,
       NextByte, vars, client, reading
<1>5. CASE TestDisconnected
  <2>1. CASE disconnected
    BY <1>5, <2>1 DEF TestDisconnected, client, reading, Reading, Stream!Next, Stream!End
  <2>2. CASE ~disconnected
    BY <1>1, <1>5, <2>2 DEF TestDisconnected, client, reading, Reading
  <2> QED
    BY <2>1, <2>2
<1>6. CASE NotEnough \/ Leave \/ Delete
    BY <1>1, <1>6 DEF NotEnough, Leave, Delete, client, reading, Reading
<1>7. CASE UnknownPacket
    BY <1>2, <1>7 DEF UnknownPacket, client, receiving
<1>8. CASE ReadPart
    BY <1>2, <1>8 DEF ReadPart, client, receiving
<1>9. ASSUME NEW k \in Kind, ReadId(k)
      PROVE  Stream!Next
    BY <1>2, <1>9 DEF ReadId, client, receiving
<1> QED
    BY <1>3, <1>4, <1>5, <1>6, <1>7, <1>8, <1>9 DEF Next, Client, Handler

\* The two threads and the bounded queue implement the channel.
THEOREM Implements == Spec => StreamSpec
<1>1. Init => Stream!Init
    BY DEF Init, Stream!Init, Reading
<1>2. Init => WantParts
  <2>1. <<1>> \in Seq(PartLengths)
    BY DEF PartLengths
  <2> QED
    BY <2>1 DEF Init, WantParts
<1>3. TypeOK /\ WantParts /\ [Next]_vars => WantParts'
    BY InboxAssumption, WantPartsStep
<1>4. TypeOK /\ Flow /\ [Next]_vars => Flow'
    BY InboxAssumption, FlowStep
<1>5. TypeOK /\ Flow /\ WantParts /\ [Next]_vars => [Stream!Next]_(Stream!vars)
    BY InboxAssumption, StreamStep
<1> QED
    BY <1>1, <1>2, <1>3, <1>4, <1>5, FlowInit, TypeCorrect, PTL
    DEF Spec, StreamSpec, Stream!Spec

-----------------------------------------------------------------------------

\* The receiver stops once it is told to, and only a broken connection, an
\* overflow or an unknown packet makes the handler leave.
Ending ==
    /\ disconnected => receiver = "done" \/ dropped
    /\ handler \notin Reading => disconnected \/ refused

\* The receiver has ended when the Player is deleted, unless the connection
\* ended by an unknown packet or an overflow.
THEOREM ReceiverHasEnded == Spec => []ReceiverEnds
<1>1. Init => Ending
    BY DEF Init, Ending, Reading
<1>2. TypeOK /\ Ending /\ [Next]_vars => Ending'
  <2> SUFFICES ASSUME TypeOK, Ending, [Next]_vars
               PROVE  Ending'
    OBVIOUS
  <2> USE DEF Ending, Reading
  <2>1. CASE Client \/ UNCHANGED vars
    BY <2>1 DEF Client, Send, Hangup, vars, receiving, reading
  <2>2. CASE Receiver
    BY <2>2 DEF Receiver, TestStop, ReceiveFails, Receive, pushByte, NextByte, reading
  <2>3. CASE TestDisconnected \/ NotEnough \/ Leave \/ Delete
    BY <2>3 DEF TestDisconnected, NotEnough, Leave, Delete, receiving, reading
  <2>4. CASE UnknownPacket \/ ReadPart
    BY <2>4 DEF UnknownPacket, ReadPart, receiving
  <2>5. ASSUME NEW k \in Kind, ReadId(k)
        PROVE  Ending'
    BY <2>5 DEF ReadId, receiving
  <2> QED
    BY <2>1, <2>2, <2>3, <2>4, <2>5 DEF Next, Handler
<1>3. Ending => ReceiverEnds
    BY DEF Ending, ReceiverEnds, Reading
<1> QED
    BY <1>1, <1>2, <1>3, TypeCorrect, PTL DEF Spec
=============================================================================
