-------------------------------- MODULE Inbox --------------------------------
(***************************************************************************)
(* The input side of one connection: its receiver thread (main.cpp) puts   *)
(* what recv returns byte by byte into Player::recvQueue, and its handler  *)
(* takes packets out of it, part by part, with popExact.  The queue is     *)
(* bounded: a byte that does not fit is dropped and ends the connection,   *)
(* but neither thread stops at once.  At the end the handler deletes the   *)
(* Player, whether or not the detached receiver still runs.                *)
(*                                                                         *)
(* A byte is its position in what the client sends; its value matters only *)
(* where it is read as a packet id, and is chosen there.                   *)
(***************************************************************************)
EXTENDS Naturals, Sequences

CONSTANTS
    Limit,     \* 65536: with more than this in the queue, pushByte drops
    Chunk,     \* 512: what one recv returns at most
    Kind,      \* known packets: 0x05, 0x08, 0x0d
    Parts,     \* how many bytes each popExact of such a packet asks for
    MaxBytes   \* bound: bytes the client sends

ASSUME InboxAssumption ==
    /\ Limit \in Nat /\ Chunk \in Nat \ {0} /\ MaxBytes \in Nat
    /\ Parts \in [Kind -> Seq(1 .. Limit + 1) \ {<<>>}]

VARIABLES
    sent,          \* bytes the client has sent
    peer,          \* the client's end of the connection: "open", "closed"
    receiver,      \* where the receiver thread is
    got,           \* bytes recv has returned
    pushed,        \* bytes the receiver has passed to pushByte
    recvQueue,     \* Player::recvQueue
    handler,       \* where the handler thread is
    want,          \* lengths of the parts of the packet it still reads
    inBody,        \* it has read the packet id
    taken,         \* history: the bytes it popped
    disconnected,  \* Player::disconnected
    stopSender,    \* the flag the handler shares with its threads
    dropped,       \* history: pushByte has dropped a byte
    refused        \* history: the handler met an unknown packet id

client == <<sent, peer>>
receiving == <<receiver, got, pushed>>
reading == <<want, inBody, taken, refused>>
vars == <<client, receiving, recvQueue, handler, reading, disconnected,
          stopSender, dropped>>

Reading == {"testing", "popping"}

TypeOK ==
    /\ sent \in Nat /\ peer \in {"open", "closed"}
    /\ receiver \in {"testing", "receiving", "pushing", "done"}
    /\ got \in Nat /\ pushed \in Nat
    /\ pushed <= got /\ got <= sent
    /\ receiver = "pushing" => pushed < got
    /\ recvQueue \in Seq(Nat) /\ Len(recvQueue) <= Limit + 1
    /\ handler \in Reading \cup {"leaving", "closing", "gone"}
    /\ want \in Seq(1 .. Limit + 1) /\ want # <<>>
    /\ inBody \in BOOLEAN /\ taken \in Seq(Nat)
    /\ disconnected \in BOOLEAN /\ stopSender \in BOOLEAN
    /\ dropped \in BOOLEAN /\ refused \in BOOLEAN

Init ==
    /\ sent = 0 /\ peer = "open"
    /\ receiver = "testing" /\ got = 0 /\ pushed = 0
    /\ recvQueue = <<>>
    /\ handler = "testing" /\ want = <<1>> /\ inBody = FALSE /\ taken = <<>>
    /\ disconnected = FALSE /\ stopSender = FALSE
    /\ dropped = FALSE /\ refused = FALSE

-----------------------------------------------------------------------------
(* The client. *)

Send ==
    /\ peer = "open" /\ sent < MaxBytes
    /\ sent' = sent + 1
    /\ UNCHANGED <<peer, receiving, recvQueue, handler, reading, disconnected,
                   stopSender, dropped>>

Hangup ==
    /\ peer = "open"
    /\ peer' = "closed"
    /\ UNCHANGED <<sent, receiving, recvQueue, handler, reading, disconnected,
                   stopSender, dropped>>

-----------------------------------------------------------------------------
(* The receiver thread. *)

\* while(!stopSender->load())
TestStop ==
    /\ receiver = "testing"
    /\ receiver' = IF stopSender THEN "done" ELSE "receiving"
    /\ UNCHANGED <<client, got, pushed, recvQueue, handler, reading,
                   disconnected, stopSender, dropped>>

Receive(n) ==
    /\ receiver = "receiving"
    /\ got + n <= sent
    /\ got' = got + n
    /\ receiver' = "pushing"
    /\ UNCHANGED <<client, pushed, recvQueue, handler, reading, disconnected,
                   stopSender, dropped>>

\* Fault: the loop goes on after a failed recv.
ReceiveFails_Retries ==
    /\ receiver = "receiving" /\ peer = "closed"
    /\ disconnected' = TRUE
    /\ receiver' = "testing"
    /\ UNCHANGED <<client, got, pushed, recvQueue, handler, reading,
                   stopSender, dropped>>

\* recv returns 0 or an error (bytes that were in flight may be lost).
ReceiveFails ==
    /\ receiver = "receiving" /\ peer = "closed"
    /\ disconnected' = TRUE
    /\ receiver' = "done"
    /\ UNCHANGED <<client, got, pushed, recvQueue, handler, reading,
                   stopSender, dropped>>

NextByte ==
    /\ receiver = "pushing"
    /\ pushed' = pushed + 1
    /\ receiver' = IF pushed + 1 = got THEN "testing" ELSE "pushing"

\* Fault: the byte is dropped and the connection goes on.
pushByte_Lossy ==
    /\ NextByte
    /\ IF Len(recvQueue) > Limit
       THEN dropped' = TRUE /\ UNCHANGED recvQueue
       ELSE recvQueue' = Append(recvQueue, pushed + 1) /\ UNCHANGED dropped
    /\ UNCHANGED <<client, got, handler, reading, disconnected, stopSender>>

\* Fault: the size is not looked at.
pushByte_Unbounded ==
    /\ NextByte
    /\ recvQueue' = Append(recvQueue, pushed + 1)
    /\ UNCHANGED <<client, got, handler, reading, disconnected, stopSender, dropped>>

\* The receiver does not look whether an earlier byte was dropped.  (What it
\* pushes into a deleted Player goes anywhere: see ReceiverEnds.)
pushByte ==
    /\ NextByte
    /\ IF Len(recvQueue) > Limit
       THEN disconnected' = TRUE /\ dropped' = TRUE /\ UNCHANGED recvQueue
       ELSE /\ recvQueue' = Append(recvQueue, pushed + 1)
            /\ UNCHANGED <<disconnected, dropped>>
    /\ UNCHANGED <<client, got, handler, reading, stopSender>>

-----------------------------------------------------------------------------
(* The handler thread. *)

\* Fault: the flag is looked at only when the queue is empty.
TestDisconnected_Drains ==
    /\ handler = "testing"
    /\ handler' = IF disconnected /\ recvQueue = <<>> THEN "leaving" ELSE "popping"
    /\ UNCHANGED <<client, receiving, recvQueue, reading, disconnected,
                   stopSender, dropped>>

\* The tests of `disconnected` at the head of the loop and in qrecvExact.
TestDisconnected ==
    /\ handler = "testing"
    /\ handler' = IF disconnected THEN "leaving" ELSE "popping"
    /\ UNCHANGED <<client, receiving, recvQueue, reading, disconnected,
                   stopSender, dropped>>

\* Fault: the size is compared the wrong way at the boundary.
popExact_Strict(n) ==
    /\ Len(recvQueue) > n
    /\ taken' = taken \o SubSeq(recvQueue, 1, n)
    /\ recvQueue' = SubSeq(recvQueue, n + 1, Len(recvQueue))

\* Fault: what there is counts as the part.
popExact_Short(n) ==
    LET m == IF Len(recvQueue) < n THEN Len(recvQueue) ELSE n IN
    /\ m > 0
    /\ taken' = taken \o SubSeq(recvQueue, 1, m)
    /\ recvQueue' = SubSeq(recvQueue, m + 1, Len(recvQueue))

popExact(n) ==
    /\ Len(recvQueue) >= n
    /\ taken' = taken \o SubSeq(recvQueue, 1, n)
    /\ recvQueue' = SubSeq(recvQueue, n + 1, Len(recvQueue))

\* popExact fails: sleep, and test again.
NotEnough ==
    /\ handler = "popping" /\ Len(recvQueue) < Head(want)
    /\ handler' = "testing"
    /\ UNCHANGED <<client, receiving, recvQueue, reading, disconnected,
                   stopSender, dropped>>

\* The first byte of a packet selects the case that reads the rest.
ReadId(k) ==
    /\ handler = "popping" /\ ~inBody
    /\ popExact(Head(want))
    /\ handler' = "testing"
    /\ inBody' = TRUE /\ want' = Parts[k]
    /\ UNCHANGED <<client, receiving, disconnected, stopSender, dropped, refused>>

\* default: a Disconnect packet is enqueued, and the loop left.
UnknownPacket ==
    /\ handler = "popping" /\ ~inBody
    /\ popExact(Head(want))
    /\ handler' = "leaving"
    /\ refused' = TRUE
    /\ UNCHANGED <<client, receiving, want, inBody, disconnected, stopSender, dropped>>

\* A part of the body; after the last the packet is handled, which may take
\* any time, and the loop goes round.
ReadPart ==
    /\ handler = "popping" /\ inBody
    /\ popExact(Head(want))
    /\ handler' = "testing"
    /\ inBody' = (Len(want) > 1)
    /\ want' = IF Len(want) > 1 THEN Tail(want) ELSE <<1>>
    /\ UNCHANGED <<client, receiving, disconnected, stopSender, dropped, refused>>

\* Out of the map, level unloaded; the threads are told to stop.
Leave ==
    /\ handler = "leaving"
    /\ stopSender' = TRUE
    /\ handler' = "closing"
    /\ UNCHANGED <<client, receiving, recvQueue, reading, disconnected, dropped>>

\* 50 ms later: closesocket, and delete player.
Delete ==
    /\ handler = "closing"
    /\ handler' = "gone"
    /\ UNCHANGED <<client, receiving, recvQueue, reading, disconnected,
                   stopSender, dropped>>

-----------------------------------------------------------------------------

Client == Send \/ Hangup
Receiver ==
    TestStop \/ ReceiveFails \/ pushByte \/ \E n \in 1 .. Chunk : Receive(n)
Handler ==
    \/ TestDisconnected \/ NotEnough \/ UnknownPacket \/ ReadPart
    \/ Leave \/ Delete
    \/ \E k \in Kind : ReadId(k)

Next == Client \/ Receiver \/ Handler

Spec == Init /\ [][Next]_vars

\* Both threads are scheduled.  The client owes nothing.
FairSpec == Spec /\ WF_vars(Receiver) /\ WF_vars(Handler)

-----------------------------------------------------------------------------
(* Properties. *)

\* The handler is never out of step with its client: what it popped is what
\* was sent, from the first byte on, although bytes after a full queue are
\* dropped and the receiver goes on pushing behind the gap.  It holds because
\* a full queue holds a whole part and the flag is tested before every part.
InStep == taken = [i \in 1 .. Len(taken) |-> i]

\* The two threads and their queue implement a channel that delivers whole
\* parts of a prefix of what is sent.
PartLengths == {1} \cup UNION {{Parts[k][i] : i \in 1 .. Len(Parts[k])} : k \in Kind}
Stream == INSTANCE ByteStream WITH
    PartLength <- PartLengths, read <- taken, over <- handler \notin Reading
StreamSpec == Stream!Spec

\* The receiver is at its end, and touches the Player no more, when the Player
\* is deleted.  Not so when the connection ended by an unknown packet or by an
\* overflow: then the receiver sits in recv or is still pushing.
ReceiverEnds == handler = "gone" => receiver = "done" \/ refused \/ dropped

\* Bytes that complete the part the handler waits for reach it, also when the
\* queue is full, unless the connection ends.
PartArrives ==
    \A n \in 0 .. MaxBytes :
        (Len(taken) = n /\ sent >= n + Head(want))
            ~> (Len(taken) > n \/ handler = "gone")

\* A connection that broke or overflowed is taken down.
BrokenEnds == (peer = "closed" \/ dropped) ~> (handler = "gone")
===============================================================================
