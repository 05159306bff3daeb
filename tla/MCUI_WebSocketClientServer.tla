--------------------- MODULE MCUI_WebSocketClientServer ---------------------
(* Small instances of UI_WebSocketClientServer for TLC. *)
EXTENDS UI_WebSocketClientServer
CONSTANTS s1, s2
=============================================================================
