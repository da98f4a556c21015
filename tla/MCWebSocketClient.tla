------------------------- MODULE MCWebSocketClient -------------------------
(* Model-checking instance of WebSocketClient.                             *)
EXTENDS WebSocketClient
=============================================================================
