--------------------------- MODULE MCWebsocketServer --------------------------
(* A small instance of WebsocketServer: two connections, one of which is    *)
(* written on.                                                             *)
EXTENDS WebsocketServer
===============================================================================
