----------------------------- MODULE ByteStream -----------------------------
(***************************************************************************)
(* What a packet handler expects of its connection: the bytes come one     *)
(* after the other, in whole parts, none missing, until it is over.        *)
(* Inbox implements this with two threads and a bounded queue.             *)
(***************************************************************************)
EXTENDS Naturals, Sequences

CONSTANT PartLength  \* lengths a reader may ask for

VARIABLES
    sent,  \* number of bytes the client has sent; byte i is the i-th
    read,  \* the bytes handed to the reader
    over   \* the reader gets no more

vars == <<sent, read, over>>

Init == sent = 0 /\ read = <<>> /\ over = FALSE

Send ==
    /\ sent' = sent + 1
    /\ UNCHANGED <<read, over>>

Read(n) ==
    /\ ~over
    /\ Len(read) + n <= sent
    /\ read' = [i \in 1 .. Len(read) + n |-> i]
    /\ over' \in BOOLEAN
    /\ UNCHANGED sent

End ==
    /\ over' = TRUE
    /\ UNCHANGED <<sent, read>>

Next == Send \/ End \/ \E n \in PartLength : Read(n)

Spec == Init /\ [][Next]_vars
=============================================================================
