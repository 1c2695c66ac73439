------------------------------- MODULE MCInbox -------------------------------
(* An instance of Inbox: a queue of three bytes, a packet in one part and a  *)
(* packet in two (as set block: seven bytes, then one).                      *)
EXTENDS Inbox, TLC

CONSTANTS chat, block

MCKind == {chat, block}
MCParts == chat :> <<3>> @@ block :> <<3, 1>>
=============================================================================
