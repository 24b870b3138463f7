--------------------------- MODULE BridgeConnections ---------------------------
(***************************************************************************)
(* The two requests that open a proxied connection (src/src/bridge.rs).    *)
(* POST /connect opens a TCP stream to the game server and keeps it in     *)
(* pending_connections under a fresh token; GET /socket with that token    *)
(* takes it out and hands it to a proxy (BridgeProxy models the proxy).    *)
(* Handlers of different requests run at the same time and share only the  *)
(* mutex around the map; a browser that leaves drops a handler at the      *)
(* await where it is, or leaves it to finish for nobody.                   *)
(***************************************************************************)
EXTENDS Integers, FiniteSets

CONSTANTS
    Connect,    \* POST /connect requests; also their streams and their tokens
                \* (Uuid::new_v4 is taken to give every request its own)
    Socket,     \* GET /socket requests
    MaxPending, \* max_pending_connections
    NoConnect   \* a socket that has named no token

ASSUME ConnectionsAssumption == MaxPending \in Nat \ {0} /\ NoConnect \notin Connect

VARIABLES
    handler,  \* where connect_tcp is
    answer,   \* how it answered, if the answer reached its browser
    pending,  \* tokens in pending_connections
    socket,   \* where socket_ws, or the proxy it started, is
    token,    \* the token it was asked for
    open      \* streams that are open

vars == <<handler, answer, pending, socket, token, open>>

-----------------------------------------------------------------------------
\* Faulty forms of actions defined below.

\* The token stays in the map.
FindToken(s, c) ==
    /\ socket[s] = "new" /\ answer[c] = "token"
    /\ token' = [token EXCEPT ![s] = c]
    /\ socket' = [socket EXCEPT ![s] = IF c \in pending THEN "upgrading" ELSE "not_found"]
    /\ UNCHANGED <<handler, answer, pending, open>>

\* The limit is not looked at under the lock.
InsertUnchecked(c, reached) ==
    /\ handler[c] = "connected"
    /\ pending' = pending \cup {c}
    /\ handler' = [handler EXCEPT ![c] = "done"]
    /\ answer' = [answer EXCEPT ![c] = IF reached THEN "token" ELSE "lost"]
    /\ UNCHANGED <<socket, token, open>>

\* A failed upgrade gives the token back.
UpgradeReturnsToken(s) ==
    /\ socket[s] = "upgrading"
    /\ socket' = [socket EXCEPT ![s] = "ended"]
    /\ pending' = pending \cup {token[s]}
    /\ UNCHANGED <<handler, answer, token, open>>

\* There is no timeout: only a stream that opened can still fail.
ConnectFailsSlowly(c) ==
    /\ handler[c] = "connecting" /\ c \in open
    /\ handler' = [handler EXCEPT ![c] = "done"]
    /\ answer' = [answer EXCEPT ![c] = "error"]
    /\ UNCHANGED <<pending, socket, token, open>>

-----------------------------------------------------------------------------
Init ==
    /\ handler = [c \in Connect |-> "new"] /\ answer = [c \in Connect |-> "none"]
    /\ pending = {} /\ open = {}
    /\ socket = [s \in Socket |-> "new"] /\ token = [s \in Socket |-> NoConnect]

-----------------------------------------------------------------------------
\* connect_tcp.

\* A request the checks of origin, host and port let through starts to connect.
Begin(c) ==
    /\ handler[c] = "new"
    /\ handler' = [handler EXCEPT ![c] = "connecting"]
    /\ UNCHANGED <<answer, pending, socket, token, open>>

\* TcpStream::connect succeeds; no await is left in the handler.
Connected(c) ==
    /\ handler[c] = "connecting"
    /\ open' = open \cup {c}
    /\ handler' = [handler EXCEPT ![c] = "connected"]
    /\ UNCHANGED <<answer, pending, socket, token>>

\* It fails, or the timeout ends it: 502 or 504.
ConnectFails(c) ==
    /\ handler[c] = "connecting"
    /\ handler' = [handler EXCEPT ![c] = "done"]
    /\ answer' = [answer EXCEPT ![c] = "error"]
    /\ UNCHANGED <<pending, socket, token, open>>

\* The browser leaves, and the handler is dropped at its await.
Abandon(c) ==
    /\ handler[c] = "connecting"
    /\ handler' = [handler EXCEPT ![c] = "done"]
    /\ answer' = [answer EXCEPT ![c] = "lost"]
    /\ UNCHANGED <<pending, socket, token, open>>

\* insert_pending_connection: the check and the insertion under one lock.
Full == Cardinality(pending) >= MaxPending

\* A full map drops the stream (503).  The answer may find its browser gone.
Insert(c, reached) ==
    /\ handler[c] = "connected"
    /\ handler' = [handler EXCEPT ![c] = "done"]
    /\ IF Full
       THEN /\ open' = open \ {c} /\ UNCHANGED pending
            /\ answer' = [answer EXCEPT ![c] = IF reached THEN "error" ELSE "lost"]
       ELSE /\ pending' = pending \cup {c} /\ UNCHANGED open
            /\ answer' = [answer EXCEPT ![c] = IF reached THEN "token" ELSE "lost"]
    /\ UNCHANGED <<socket, token>>

-----------------------------------------------------------------------------
\* socket_ws.

\* A browser asks with a token it was given, for the first time or again: the
\* token is taken out of the map, or is not there (404).
TakeToken(s, c) ==
    /\ socket[s] = "new" /\ answer[c] = "token"
    /\ token' = [token EXCEPT ![s] = c]
    /\ pending' = pending \ {c}
    /\ socket' = [socket EXCEPT ![s] = IF c \in pending THEN "upgrading" ELSE "not_found"]
    /\ UNCHANGED <<handler, answer, open>>

\* on_upgrade starts the proxy ...
Upgrade(s) ==
    /\ socket[s] = "upgrading"
    /\ socket' = [socket EXCEPT ![s] = "proxying"]
    /\ UNCHANGED <<handler, answer, pending, token, open>>

\* ... or the browser is gone, and the stream is dropped with the callback.
UpgradeFails(s) ==
    /\ socket[s] = "upgrading"
    /\ socket' = [socket EXCEPT ![s] = "ended"]
    /\ open' = open \ {token[s]}
    /\ UNCHANGED <<handler, answer, pending, token>>

\* proxy_socket returns.
ProxyReturns(s) ==
    /\ socket[s] = "proxying"
    /\ socket' = [socket EXCEPT ![s] = "ended"]
    /\ open' = open \ {token[s]}
    /\ UNCHANGED <<handler, answer, pending, token>>

-----------------------------------------------------------------------------
\* What a handler does without the game server or the browser.
Handler(c) == ConnectFails(c) \/ \E reached \in BOOLEAN : Insert(c, reached)

Next ==
    \/ \E c \in Connect : Begin(c) \/ Connected(c) \/ Handler(c) \/ Abandon(c)
    \/ \E s \in Socket, c \in Connect : TakeToken(s, c)
    \/ \E s \in Socket : Upgrade(s) \/ UpgradeFails(s) \/ ProxyReturns(s)

Spec == Init /\ [][Next]_vars

\* The runtime runs a handler that can go on, and the timer of connect_timeout
\* fires; neither the game server nor a browser owes anything.
FairSpec == Spec /\ \A c \in Connect : WF_vars(Handler(c))

-----------------------------------------------------------------------------
\* Every variable keeps its type, and the map its limit however many handlers
\* connect at once.
TypeOK ==
    /\ handler \in [Connect -> {"new", "connecting", "connected", "done"}]
    /\ answer \in [Connect -> {"none", "token", "error", "lost"}]
    /\ pending \subseteq Connect /\ Cardinality(pending) <= MaxPending
    /\ socket \in [Socket -> {"new", "not_found", "upgrading", "proxying", "ended"}]
    /\ token \in [Socket -> Connect \cup {NoConnect}]
    /\ open \subseteq Connect

\* Who holds the stream of a request.
Owners(c) ==
    {<<"handler", x>> : x \in {c} \cap {d \in Connect : handler[d] = "connected"}}
    \cup {<<"pending", x>> : x \in {c} \cap pending}
    \cup {<<"socket", s>> : s \in {t \in Socket :
                token[t] = c /\ socket[t] \in {"upgrading", "proxying"}}}

\* An open stream has one owner, and one that nobody owns is closed: no two
\* proxies share a stream, and no path through the handlers leaves one behind.
OneOwner ==
    \A c \in Connect : Cardinality(Owners(c)) = IF c \in open THEN 1 ELSE 0

\* A token is good for one socket, whatever became of it: a browser that asks
\* again with it finds nothing.
TokenSpentOnce ==
    \A s, t \in Socket :
        s # t /\ token[s] = token[t] /\ token[s] # NoConnect =>
            socket[s] = "not_found" \/ socket[t] = "not_found"

\* A request to connect ends, though the game server may never answer it.
ConnectEnds ==
    \A c \in Connect : handler[c] = "connecting" ~> handler[c] = "done"
=============================================================================
