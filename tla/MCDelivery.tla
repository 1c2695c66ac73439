----------------------------- MODULE MCDelivery -----------------------------
(* An instance of Delivery: players 0 and 1; a signal may interrupt the first  *)
(* handler wherever it is.                                                     *)
EXTENDS Delivery, TLC

TwoPlayers == 0 .. 1
AHandler == {<<"handler", 0>>}
=============================================================================
