------------------------------ MODULE MCMcpQueue ------------------------------
\* Two clients, two calls each, all under one key: every call may be a repeat.
EXTENDS McpQueue
=============================================================================
