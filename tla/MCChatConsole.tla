---------------------------- MODULE MCChatConsole ---------------------------
(* A console that sends three messages over two sockets: enough for a Stop  *)
(* whose answer comes during the next turn, for one New session or one      *)
(* reconnection at any moment, and for the last attempt to fail.            *)
EXTENDS ChatConsole

MCMaxMessages == 3
MCMaxSockets == 2
MCMaxReconnectAttempts == 1
=============================================================================
