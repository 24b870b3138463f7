----------------------------- MODULE MCBridgeProxy -----------------------------
\* A channel of one message, so that both readers wait for room in it.
EXTENDS BridgeProxy
=============================================================================
