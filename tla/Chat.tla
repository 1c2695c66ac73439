-------------------------------- MODULE Chat --------------------------------
(***************************************************************************)
(* What the players of the server are promised about what is said to       *)
(* everybody: all hear the same messages in the same order, from the       *)
(* moment they came in, and none is left out or heard twice.  Delivery     *)
(* implements this with a mutex around the walk over the players, a queue  *)
(* and a sender thread per player, and sockets that fill up.               *)
(***************************************************************************)
EXTENDS Naturals

CONSTANT Player

VARIABLES
    said,     \* number of messages said to everybody; message i is the i-th
    present,  \* players who are connected
    heard     \* the last message each of them heard

vars == <<said, present, heard>>

Init == said = 0 /\ present = {} /\ heard = [p \in Player |-> 0]

Enter(p) ==
    /\ p \notin present
    /\ present' = present \cup {p}
    /\ heard' = [heard EXCEPT ![p] = said]
    /\ UNCHANGED said

Say ==
    /\ said' = said + 1
    /\ UNCHANGED <<present, heard>>

Hear(p) ==
    /\ p \in present /\ heard[p] < said
    /\ heard' = [heard EXCEPT ![p] = heard[p] + 1]
    /\ UNCHANGED <<said, present>>

Exit(p) ==
    /\ p \in present
    /\ present' = present \ {p}
    /\ UNCHANGED <<said, heard>>

Next == Say \/ \E p \in Player : Enter(p) \/ Hear(p) \/ Exit(p)

Spec == Init /\ [][Next]_vars
=============================================================================
