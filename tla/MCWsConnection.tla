---------------------------- MODULE MCWsConnection ----------------------------
(***************************************************************************)
(* Clients for model checking WsConnection: a command before a Close,      *)
(* before and behind what the reader answers itself, and no command.       *)
(***************************************************************************)
EXTENDS WsConnection

MCScripts ==
  { <<"command", "close">>, <<"command", "ping">>, <<"unreadable", "command">>, <<"binary">> }
=============================================================================
