--------------------------- MODULE MCTelegramBridge ---------------------------
(***************************************************************************)
(* An instance of TelegramBridge for TLC: two chats, the second one writes *)
(* first.                                                                  *)
(***************************************************************************)
EXTENDS TelegramBridge, TLC

CONSTANTS c1, c2

MCChatOf == [u \in Update |-> IF u = 2 THEN c1 ELSE c2]
=============================================================================
