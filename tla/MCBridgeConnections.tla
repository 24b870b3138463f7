------------------------- MODULE MCBridgeConnections -------------------------
(* Three requests to connect and three sockets over a map of two tokens.     *)
EXTENDS BridgeConnections
=============================================================================
