----------------------- MODULE BridgeConnections_proofs -----------------------
(***************************************************************************)
(* Proofs about BridgeConnections, for any requests and any limit of the   *)
(* map.                                                                    *)
(*                                                                         *)
(* IInv says where the stream of a request is at each point of its way     *)
(* from connect_tcp through the map to a proxy.                            *)
(***************************************************************************)
EXTENDS BridgeConnections, FiniteSetTheorems, TLAPS

-----------------------------------------------------------------------------
(* The inductive invariant.                                                *)

Typed ==
    /\ handler \in [Connect -> {"new", "connecting", "connected", "done"}]
    /\ answer \in [Connect -> {"none", "token", "error", "lost"}]
    /\ pending \subseteq Connect
    /\ socket \in [Socket -> {"new", "not_found", "upgrading", "proxying", "ended"}]
    /\ token \in [Socket -> Connect \cup {NoConnect}]
    /\ open \subseteq Connect

\* The map keeps its limit; it is filled one token at a time.
WithinLimit == IsFiniteSet(pending) /\ Cardinality(pending) <= MaxPending

\* The socket took the stream of the request out of the map.
Took(s, c) == token[s] = c /\ socket[s] # "not_found"
Holds(s, c) == token[s] = c /\ socket[s] \in {"upgrading", "proxying"}

\* A handler has its stream, and has said nothing, until it is done.
HandlersHold ==
    \A c \in Connect :
        /\ handler[c] # "done" => answer[c] = "none" /\ c \notin pending
        /\ handler[c] \in {"new", "connecting"} => c \notin open
        /\ handler[c] = "connected" => c \in open

\* A stream in the map is open, and no socket has had it.
MapHolds ==
    \A c \in pending : c \in open /\ \A s \in Socket : ~Took(s, c)

\* A socket names a token that a browser was given, and has its stream while it
\* upgrades or proxies.
SocketsHold ==
    \A s \in Socket :
        /\ socket[s] = "new" <=> token[s] = NoConnect
        /\ token[s] # NoConnect => answer[token[s]] = "token"
        /\ socket[s] \in {"upgrading", "proxying"} => token[s] \in open

\* An open stream is somewhere.
OpenIsHeld ==
    \A c \in open :
        handler[c] = "connected" \/ c \in pending \/ \E s \in Socket : Holds(s, c)

IInv ==
    /\ Typed /\ WithinLimit /\ HandlersHold /\ MapHolds /\ SocketsHold /\ OpenIsHeld
    /\ TokenSpentOnce

-----------------------------------------------------------------------------
(* Steps.                                                                  *)

\* Before its handler is done, and while it is in the map, no socket holds the
\* stream of a request.
LEMMA NotYetTaken ==
    ASSUME IInv, NEW c \in Connect, handler[c] # "done" \/ c \in pending,
           NEW s \in Socket
    PROVE  ~Took(s, c)
<1>1. CASE c \in pending
    BY <1>1 DEF IInv, MapHolds
<1>2. CASE handler[c] # "done"
    BY <1>2, ConnectionsAssumption DEF IInv, HandlersHold, SocketsHold, Took
<1> QED
    BY <1>1, <1>2

\* connect_tcp starts, fails or is abandoned while it has no stream.
LEMMA EarlySteps ==
    ASSUME IInv, NEW c \in Connect, Begin(c) \/ ConnectFails(c) \/ Abandon(c)
    PROVE  IInv'
<1>1. /\ handler[c] \in {"new", "connecting"}
      /\ \/ handler' = [handler EXCEPT ![c] = "connecting"] /\ answer' = answer
         \/ /\ handler' = [handler EXCEPT ![c] = "done"]
            /\ \/ answer' = [answer EXCEPT ![c] = "error"]
               \/ answer' = [answer EXCEPT ![c] = "lost"]
      /\ UNCHANGED <<pending, socket, token, open>>
    BY DEF Begin, ConnectFails, Abandon
<1>2. Typed
    BY DEF IInv
<1>3. /\ \A d \in Connect : d # c => handler'[d] = handler[d] /\ answer'[d] = answer[d]
      /\ handler'[c] \in {"connecting", "done"}
      /\ handler'[c] # "done" => answer'[c] = answer[c]
      /\ answer[c] = "none" /\ c \notin pending /\ c \notin open
    BY <1>1, <1>2 DEF Typed, IInv, HandlersHold
<1>4. Typed' /\ WithinLimit'
    BY <1>1, <1>2 DEF Typed, WithinLimit, IInv
<1>5. HandlersHold'
    BY <1>1, <1>3 DEF IInv, HandlersHold
<1>6. MapHolds' /\ TokenSpentOnce'
    BY <1>1 DEF IInv, MapHolds, Took, TokenSpentOnce
<1>7. SocketsHold'
    BY <1>1, <1>2, <1>3 DEF IInv, SocketsHold, Typed
<1>8. OpenIsHeld'
    BY <1>1, <1>2, <1>3 DEF IInv, OpenIsHeld, Holds, Typed
<1> QED
    BY <1>4, <1>5, <1>6, <1>7, <1>8 DEF IInv

\* The handler has its stream.
LEMMA ConnectedStep ==
    ASSUME IInv, NEW c \in Connect, Connected(c)
    PROVE  IInv'
<1>1. /\ handler[c] = "connecting" /\ open' = open \cup {c}
      /\ handler' = [handler EXCEPT ![c] = "connected"]
      /\ UNCHANGED <<answer, pending, socket, token>>
    BY DEF Connected
<1>2. Typed
    BY DEF IInv
<1>3. /\ \A d \in Connect : d # c => handler'[d] = handler[d]
      /\ handler'[c] = "connected" /\ answer[c] = "none" /\ c \notin pending
    BY <1>1, <1>2 DEF Typed, IInv, HandlersHold
<1>4. Typed' /\ WithinLimit'
    BY <1>1, <1>2 DEF Typed, WithinLimit, IInv
<1>5. HandlersHold'
    BY <1>1, <1>3 DEF IInv, HandlersHold
<1>6. MapHolds' /\ TokenSpentOnce'
    BY <1>1 DEF IInv, MapHolds, Took, TokenSpentOnce
<1>7. SocketsHold'
    BY <1>1 DEF IInv, SocketsHold
<1>8. OpenIsHeld'
    BY <1>1, <1>2, <1>3 DEF IInv, OpenIsHeld, Holds, Typed
<1> QED
    BY <1>4, <1>5, <1>6, <1>7, <1>8 DEF IInv

\* The stream goes into the map, under its limit, or is dropped.
LEMMA InsertStep ==
    ASSUME IInv, NEW c \in Connect, NEW reached \in BOOLEAN, Insert(c, reached)
    PROVE  IInv'
<1>1. /\ handler[c] = "connected"
      /\ handler' = [handler EXCEPT ![c] = "done"]
      /\ \/ /\ Full /\ open' = open \ {c} /\ pending' = pending
            /\ answer' = [answer EXCEPT ![c] = IF reached THEN "error" ELSE "lost"]
         \/ /\ ~Full /\ pending' = pending \cup {c} /\ open' = open
            /\ answer' = [answer EXCEPT ![c] = IF reached THEN "token" ELSE "lost"]
      /\ UNCHANGED <<socket, token>>
    BY DEF Insert
<1>2. Typed
    BY DEF IInv
<1>3. /\ \A d \in Connect : d # c => handler'[d] = handler[d] /\ answer'[d] = answer[d]
      /\ handler'[c] = "done" /\ answer[c] = "none" /\ c \notin pending /\ c \in open
    BY <1>1, <1>2 DEF Typed, IInv, HandlersHold
<1>4. \A s \in Socket : ~Took(s, c) /\ token[s] # c
    BY <1>1, <1>3, NotYetTaken, ConnectionsAssumption DEF IInv, SocketsHold
<1>5. Typed'
    BY <1>1, <1>2 DEF Typed
<1>6. WithinLimit'
    <2>1. IsFiniteSet(pending) /\ Cardinality(pending) <= MaxPending
        BY DEF IInv, WithinLimit
    <2>2. CASE Full
        BY <1>1, <2>1, <2>2 DEF WithinLimit
    <2>3. CASE ~Full
        <3>1. Cardinality(pending) \in Nat
            BY <2>1, FS_CardinalityType
        <3>2. Cardinality(pending) + 1 <= MaxPending
            BY <2>3, <3>1, ConnectionsAssumption DEF Full
        <3>3. IsFiniteSet(pending \cup {c}) /\ Cardinality(pending \cup {c}) = Cardinality(pending) + 1
            BY <1>3, <2>1, FS_AddElement
        <3> QED
            BY <1>1, <2>3, <3>2, <3>3 DEF WithinLimit
    <2> QED
        BY <2>2, <2>3
<1>7. HandlersHold'
    BY <1>1, <1>3 DEF IInv, HandlersHold
<1>8. MapHolds'
    BY <1>1, <1>3, <1>4 DEF IInv, MapHolds, Took
<1>9. SocketsHold'
    BY <1>1, <1>2, <1>3, <1>4 DEF IInv, SocketsHold, Typed
<1>10. OpenIsHeld'
    BY <1>1, <1>2, <1>3 DEF IInv, OpenIsHeld, Holds, Typed
<1>11. TokenSpentOnce'
    BY <1>1 DEF IInv, TokenSpentOnce
<1> QED
    BY <1>5, <1>6, <1>7, <1>8, <1>9, <1>10, <1>11 DEF IInv

\* A socket takes the stream out of the map, or finds nothing.
LEMMA TakeTokenStep ==
    ASSUME IInv, NEW s \in Socket, NEW c \in Connect, TakeToken(s, c)
    PROVE  IInv'
<1>1. /\ socket[s] = "new" /\ answer[c] = "token"
      /\ token' = [token EXCEPT ![s] = c] /\ pending' = pending \ {c}
      /\ socket' = [socket EXCEPT ![s] = IF c \in pending THEN "upgrading" ELSE "not_found"]
      /\ UNCHANGED <<handler, answer, open>>
    BY DEF TakeToken
<1>2. Typed
    BY DEF IInv
<1>3. /\ token'[s] = c /\ c # NoConnect
      /\ socket'[s] = IF c \in pending THEN "upgrading" ELSE "not_found"
      /\ \A t \in Socket : t # s => token'[t] = token[t] /\ socket'[t] = socket[t]
    BY <1>1, <1>2, ConnectionsAssumption DEF Typed
<1>4. \A t \in Socket : c \in pending => ~Took(t, c)
    BY NotYetTaken
<1>5. Typed'
    BY <1>1, <1>2 DEF Typed
<1>6. WithinLimit'
    <2>1. IsFiniteSet(pending \ {c})
        BY FS_RemoveElement DEF IInv, WithinLimit
    <2>2. Cardinality(pending \ {c}) <= Cardinality(pending)
        BY FS_Subset DEF IInv, WithinLimit
    <2>3. Cardinality(pending \ {c}) \in Nat /\ Cardinality(pending) \in Nat
        BY <2>1, FS_CardinalityType DEF IInv, WithinLimit
    <2> QED
        BY <1>1, <2>1, <2>2, <2>3, ConnectionsAssumption DEF IInv, WithinLimit
<1>7. HandlersHold'
    BY <1>1 DEF IInv, HandlersHold
<1>8. MapHolds'
    BY <1>1, <1>3 DEF IInv, MapHolds, Took
<1>9. SocketsHold'
    BY <1>1, <1>3 DEF IInv, SocketsHold, MapHolds
<1>10. OpenIsHeld'
    <2>1. s \in Socket /\ token[s] = NoConnect /\ ~\E d \in Connect : Holds(s, d)
        BY <1>1, ConnectionsAssumption DEF IInv, SocketsHold, Holds
    <2>2. \A d \in open : \A t \in Socket : Holds(t, d) => Holds(t, d)'
        BY <1>2, <1>3, <2>1 DEF Holds, Typed
    <2>3. c \in pending => Holds(s, c)'
        BY <1>3 DEF Holds
    <2> QED
        BY <1>1, <2>2, <2>3 DEF IInv, OpenIsHeld
<1>11. TokenSpentOnce'
    BY <1>3, <1>4 DEF IInv, TokenSpentOnce, Took
<1> QED
    BY <1>5, <1>6, <1>7, <1>8, <1>9, <1>10, <1>11 DEF IInv

\* The proxy starts on the stream that its socket holds.
LEMMA UpgradeStep ==
    ASSUME IInv, NEW s \in Socket, Upgrade(s)
    PROVE  IInv'
<1>1. /\ socket[s] = "upgrading" /\ socket' = [socket EXCEPT ![s] = "proxying"]
      /\ UNCHANGED <<handler, answer, pending, token, open>>
    BY DEF Upgrade
<1>2. Typed
    BY DEF IInv
<1>3. /\ socket'[s] = "proxying"
      /\ \A t \in Socket : t # s => socket'[t] = socket[t]
    BY <1>1, <1>2 DEF Typed
<1>4. Typed' /\ WithinLimit' /\ HandlersHold'
    BY <1>1, <1>2 DEF Typed, IInv, WithinLimit, HandlersHold
<1>5. MapHolds' /\ SocketsHold' /\ TokenSpentOnce'
    BY <1>1, <1>3 DEF IInv, MapHolds, SocketsHold, TokenSpentOnce, Took
<1>6. OpenIsHeld'
    <2>1. \A d \in open : \A t \in Socket : Holds(t, d) => Holds(t, d)'
        BY <1>1, <1>3 DEF Holds
    <2> QED
        BY <1>1, <2>1 DEF IInv, OpenIsHeld
<1> QED
    BY <1>4, <1>5, <1>6 DEF IInv

\* A socket that ends closes the stream it held, which nobody else holds.
LEMMA EndStep ==
    ASSUME IInv, NEW s \in Socket, UpgradeFails(s) \/ ProxyReturns(s)
    PROVE  IInv'
<1>1. /\ socket[s] \in {"upgrading", "proxying"} /\ socket' = [socket EXCEPT ![s] = "ended"]
      /\ open' = open \ {token[s]}
      /\ UNCHANGED <<handler, answer, pending, token>>
    BY DEF UpgradeFails, ProxyReturns
<1>2. Typed
    BY DEF IInv
<1>3. /\ socket'[s] = "ended"
      /\ \A t \in Socket : t # s => socket'[t] = socket[t]
    BY <1>1, <1>2 DEF Typed
<1>4. token[s] \in Connect /\ token[s] # NoConnect /\ Took(s, token[s])
    BY <1>1, <1>2 DEF IInv, SocketsHold, Typed, Took
<1>5. token[s] \notin pending /\ handler[token[s]] = "done"
    BY <1>4, NotYetTaken
<1>6. \A t \in Socket : t # s => ~Took(t, token[s])
    BY <1>1, <1>4 DEF IInv, TokenSpentOnce, Took
<1>7. Typed' /\ WithinLimit'
    BY <1>1, <1>2 DEF Typed, IInv, WithinLimit
<1>8. HandlersHold' /\ MapHolds'
    BY <1>1, <1>3, <1>5 DEF IInv, HandlersHold, MapHolds, Took
<1>9. SocketsHold' /\ TokenSpentOnce'
    BY <1>1, <1>3, <1>6 DEF IInv, SocketsHold, TokenSpentOnce, Took
<1>10. OpenIsHeld'
    <2>1. \A d \in open' : \A t \in Socket : Holds(t, d) => Holds(t, d)'
        BY <1>1, <1>3 DEF Holds
    <2> QED
        BY <1>1, <2>1 DEF IInv, OpenIsHeld
<1> QED
    BY <1>7, <1>8, <1>9, <1>10 DEF IInv

-----------------------------------------------------------------------------
(* Theorems.                                                               *)

\* The invariant holds at the start and through every step.
LEMMA InitInvariant == Init => IInv
<1> SUFFICES ASSUME Init PROVE IInv
    OBVIOUS
<1>1. WithinLimit
    BY FS_EmptySet, ConnectionsAssumption DEF Init, WithinLimit
<1>2. Typed /\ HandlersHold /\ MapHolds /\ SocketsHold /\ OpenIsHeld /\ TokenSpentOnce
    BY DEF Init, Typed, HandlersHold, MapHolds, SocketsHold, OpenIsHeld, TokenSpentOnce
<1> QED
    BY <1>1, <1>2 DEF IInv

LEMMA StepInvariant == IInv /\ [Next]_vars => IInv'
<1> SUFFICES ASSUME IInv, [Next]_vars PROVE IInv'
    OBVIOUS
<1>1. CASE \E c \in Connect : Begin(c) \/ Connected(c) \/ Handler(c) \/ Abandon(c)
    BY <1>1, EarlySteps, ConnectedStep, InsertStep DEF Handler
<1>2. CASE \E s \in Socket, c \in Connect : TakeToken(s, c)
    BY <1>2, TakeTokenStep
<1>3. CASE \E s \in Socket : Upgrade(s) \/ UpgradeFails(s) \/ ProxyReturns(s)
    BY <1>3, UpgradeStep, EndStep
<1>4. CASE UNCHANGED vars
    BY <1>4 DEF vars, IInv, Typed, WithinLimit, HandlersHold, MapHolds, SocketsHold,
        OpenIsHeld, TokenSpentOnce, Took, Holds
<1> QED
    BY <1>1, <1>2, <1>3, <1>4 DEF Next

LEMMA Invariant == Spec => []IInv
BY InitInvariant, StepInvariant, PTL DEF Spec

\* Every variable keeps its type, and the map of waiting streams its limit,
\* however many handlers connect at once.
THEOREM TypeCorrect == Spec => []TypeOK
<1>1. IInv => TypeOK
    BY DEF IInv, Typed, WithinLimit, TypeOK
<1> QED
    BY <1>1, Invariant, PTL

\* A token opens one socket, whatever became of that socket.
THEOREM TokensAreSpentOnce == Spec => []TokenSpentOnce
<1>1. IInv => TokenSpentOnce
    BY DEF IInv
<1> QED
    BY <1>1, Invariant, PTL

\* An open stream has exactly one owner -- its handler, the map, or one socket --
\* and a stream that nobody owns is closed.
THEOREM StreamsHaveOneOwner == Spec => []OneOwner
<1>1. IInv => OneOwner
    <2> SUFFICES ASSUME IInv, NEW c \in Connect
                 PROVE  Cardinality(Owners(c)) = IF c \in open THEN 1 ELSE 0
        BY DEF OneOwner
    <2> DEFINE inHandler == handler[c] = "connected"
    <2>1. Owners(c) = (IF inHandler THEN {<<"handler", c>>} ELSE {})
                      \cup (IF c \in pending THEN {<<"pending", c>>} ELSE {})
                      \cup {<<"socket", s>> : s \in {t \in Socket : Holds(t, c)}}
        BY DEF Owners, Holds
    <2>2. \A s \in Socket : Holds(s, c) => Took(s, c) /\ c \in open
        BY DEF IInv, SocketsHold, Holds, Took
    <2>3. \A s, t \in Socket : Holds(s, c) /\ Holds(t, c) => s = t
        BY ConnectionsAssumption DEF IInv, TokenSpentOnce, Holds
    <2>4. inHandler \/ c \in pending => \A s \in Socket : ~Holds(s, c)
        BY <2>2, NotYetTaken
    <2>5. (inHandler => c \in open /\ c \notin pending) /\ (c \in pending => c \in open)
        BY DEF IInv, HandlersHold, MapHolds
    <2>6. CASE c \in open
        <3>1. \E x : Owners(c) = {x}
            <4>1. CASE inHandler
                BY <2>1, <2>4, <2>5, <4>1
            <4>2. CASE c \in pending
                BY <2>1, <2>4, <2>5, <4>2
            <4>3. CASE ~inHandler /\ c \notin pending
                <5>1. PICK s \in Socket : Holds(s, c)
                    BY <2>6, <4>3 DEF IInv, OpenIsHeld
                <5>2. {t \in Socket : Holds(t, c)} = {s}
                    BY <2>3, <5>1
                <5>3. {<<"socket", t>> : t \in {u \in Socket : Holds(u, c)}} = {<<"socket", s>>}
                    BY <5>2
                <5>4. Owners(c) = {<<"socket", s>>}
                    BY <2>1, <4>3, <5>3
                <5> QED
                    BY <5>4
            <4> QED
                BY <4>1, <4>2, <4>3
        <3> QED
            BY <2>6, <3>1, FS_Singleton
    <2>7. CASE c \notin open
        <3>1. Owners(c) = {}
            BY <2>1, <2>2, <2>5, <2>7
        <3> QED
            BY <2>7, <3>1, FS_EmptySet
    <2> QED
        BY <2>6, <2>7
<1> QED
    BY <1>1, Invariant, PTL
=============================================================================
