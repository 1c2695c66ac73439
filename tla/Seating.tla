------------------------------ MODULE Seating ------------------------------
(***************************************************************************)
(* What players are promised about their ids, as seats in a room: who      *)
(* comes in takes a seat nobody sits in and keeps it until it leaves;      *)
(* somebody has to stand only when every seat is taken.  Roster implements *)
(* this with a map, two critical sections and an exit in three steps.      *)
(***************************************************************************)
CONSTANTS
    Person,
    Seat,
    Standing   \* not a seat

VARIABLES
    inside,    \* persons in the room
    seat       \* their seats, or Standing

vars == <<inside, seat>>

Init == inside = {} /\ seat = [p \in Person |-> Standing]

Taken(k) == \E p \in inside : seat[p] = k

Enter(p) ==
    /\ p \notin inside
    /\ inside' = inside \cup {p}
    /\ \/ \E k \in Seat : ~Taken(k) /\ seat' = [seat EXCEPT ![p] = k]
       \/ (\A k \in Seat : Taken(k)) /\ seat' = [seat EXCEPT ![p] = Standing]

Exit(p) ==
    /\ p \in inside
    /\ inside' = inside \ {p}
    /\ seat' = [seat EXCEPT ![p] = Standing]

Next == \E p \in Person : Enter(p) \/ Exit(p)

Spec == Init /\ [][Next]_vars
=============================================================================
