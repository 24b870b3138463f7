------------------------------- MODULE McpQueue -------------------------------
(***************************************************************************)
(* Tool calls (src/src/mcp.rs, src/src/server.rs, src/src/bridge.rs).  An  *)
(* HTTP handler thread puts each call on a channel and waits a limited     *)
(* time for its answer on a channel of that call's own; the game thread    *)
(* takes a limited number of calls per tick.  A call whose handler has     *)
(* given up still runs.  Clients repeat calls, under the same idempotency  *)
(* key; what a call does to the world is reduced here to the row of its    *)
(* build (BuildService has the rest).  Leaving the server drops, in an     *)
(* order the code does not fix, the receiving end of the channel and the   *)
(* bridge, whose drop waits for the handlers that are still at work.       *)
(* The bridge takes requests before the game thread ticks, and the start   *)
(* of the server may still fail then.                                      *)
(***************************************************************************)
EXTENDS Integers, Sequences, FiniteSets

CONSTANTS
    Client,     \* clients; each has one call open at a time
    Key,        \* idempotency keys
    TickLimit,  \* MAX_MCP_REQUESTS_PER_TICK
    MaxCalls,   \* bound on the calls of a client, for TLC
    NoCall      \* the game thread is serving no call

Call == [client : Client, n : 1..MaxCalls, key : Key]
Result == {"applied", "repeated", "failed"}

ASSUME LimitAssumption ==
    /\ TickLimit \in Nat \ {0}
    /\ MaxCalls \in Nat
    /\ NoCall \notin Call
    /\ IsFiniteSet(Client)

VARIABLES
    game,     \* what the game thread is at
    left,     \* calls it may still take in this tick
    current,  \* the call it is serving, and its result once it has run
    alive,    \* which of the queue and the bridge have not been dropped
    queue,    \* calls on the channel
    handler,  \* what the handler of each client is at
    open,     \* the last call of each client
    answer,   \* what each handler's own channel holds: the call answered
    built,    \* keys that have a row in builds
    changes,  \* history: how often each key changed the world
    unread,   \* history: keys whose committed row failed to load
    ran,      \* history: calls in the order they ran
    outcome   \* history: how the calls of each client ended, in order

vars == <<game, left, current, alive, queue, handler, open, answer, built,
          changes, unread, ran, outcome>>
gameVars == <<game, left, current, alive>>
worldVars == <<built, changes, unread, ran>>

NoAnswer == [n |-> 0, result |-> "none"]
Calls(c) == Len(outcome[c]) + (IF handler[c] = "idle" THEN 0 ELSE 1)

\* The call a handler waits for is still to be answered by someone.
ReplyExpected(c) ==
    \/ \E i \in DOMAIN queue : queue[i] = open[c]
    \/ current.call = open[c]
Waiting(c) == handler[c] = "waiting"

-----------------------------------------------------------------------------
\* Faulty forms of actions defined below.

\* The row of an earlier call is not looked up.
RunAgain ==
    /\ current.call # NoCall /\ current.result = "none"
    /\ ran' = Append(ran, current.call)
    /\ current' = [current EXCEPT !.result = "applied"]
    /\ built' = built \cup {current.call.key}
    /\ changes' = [changes EXCEPT ![current.call.key] = @ + 1]
    /\ UNCHANGED <<game, left, alive, queue, handler, open, answer, unread, outcome>>

\* The last call that came is taken first.
TakeLast ==
    /\ game = "tick" /\ current.call = NoCall
    /\ left > 0 /\ queue # <<>>
    /\ current' = [call |-> queue[Len(queue)], result |-> "none"]
    /\ queue' = SubSeq(queue, 1, Len(queue) - 1)
    /\ left' = left - 1
    /\ UNCHANGED <<game, alive, handler, open, answer, worldVars, outcome>>

\* A handler that gives up says the channel was closed.
GiveUpAsClosed(c) ==
    /\ Waiting(c) /\ answer[c] = NoAnswer
    /\ outcome' = [outcome EXCEPT ![c] = Append(@, "closed")]
    /\ handler' = [handler EXCEPT ![c] = "idle"]
    /\ UNCHANGED <<gameVars, queue, open, answer, worldVars>>

\* The limit of a tick is not looked at.
TakePastLimit ==
    /\ game = "tick" /\ current.call = NoCall
    /\ queue # <<>>
    /\ current' = [call |-> Head(queue), result |-> "none"]
    /\ queue' = Tail(queue)
    /\ left' = left - 1
    /\ UNCHANGED <<game, alive, handler, open, answer, worldVars, outcome>>

\* A call whose handler has given up is taken off the queue and dropped.
TakeOrDrop ==
    /\ game = "tick" /\ current.call = NoCall
    /\ left > 0 /\ queue # <<>>
    /\ current' = IF Waiting(Head(queue).client) /\ open[Head(queue).client] = Head(queue)
                  THEN [call |-> Head(queue), result |-> "none"] ELSE current
    /\ queue' = Tail(queue)
    /\ left' = left - 1
    /\ UNCHANGED <<game, alive, handler, open, answer, worldVars, outcome>>

\* A handler waits for its answer without a limit.
NeverGiveUp(c) == FALSE

-----------------------------------------------------------------------------
Init ==
    /\ game = "starting" /\ left = TickLimit
    /\ current = [call |-> NoCall, result |-> "none"]
    /\ alive = {"queue", "bridge"}
    /\ queue = <<>>
    /\ handler = [c \in Client |-> "idle"]
    /\ open = [c \in Client |-> NoCall]
    /\ answer = [c \in Client |-> NoAnswer]
    /\ built = {} /\ changes = [k \in Key |-> 0] /\ unread = {}
    /\ ran = <<>>
    /\ outcome = [c \in Client |-> <<>>]

-----------------------------------------------------------------------------
\* A handler thread.

\* mcp_post, while the bridge still takes requests, starts a blocking task.  It
\* may do so before BridgeRuntime::start has heard that the bridge is up.
Post(c, k) ==
    /\ "bridge" \in alive /\ game # "joining"
    /\ handler[c] = "idle" /\ Calls(c) < MaxCalls
    /\ handler' = [handler EXCEPT ![c] = "sending"]
    /\ open' = [open EXCEPT ![c] = [client |-> c, n |-> Calls(c) + 1, key |-> k]]
    /\ answer' = [answer EXCEPT ![c] = NoAnswer]
    /\ UNCHANGED <<gameVars, queue, worldVars, outcome>>

Return(c, how) ==
    /\ outcome' = [outcome EXCEPT ![c] = Append(@, how)]
    /\ handler' = [handler EXCEPT ![c] = "idle"]
    /\ UNCHANGED <<gameVars, open, answer, worldVars>>

\* handle_tools_call sends the call; without a receiver that is an error.
Send(c) ==
    /\ handler[c] = "sending"
    /\ IF "queue" \in alive
       THEN /\ queue' = Append(queue, open[c])
            /\ handler' = [handler EXCEPT ![c] = "waiting"]
            /\ UNCHANGED <<gameVars, open, answer, worldVars, outcome>>
       ELSE Return(c, "closed") /\ UNCHANGED queue

\* recv_timeout returns an answer, runs out of time, or finds that the other
\* end was dropped unanswered.
Receive(c) ==
    /\ Waiting(c) /\ answer[c] # NoAnswer
    /\ Return(c, answer[c].result) /\ UNCHANGED queue

GiveUp(c) ==
    /\ Waiting(c) /\ answer[c] = NoAnswer
    /\ Return(c, "timeout") /\ UNCHANGED queue

FindClosed(c) ==
    /\ Waiting(c) /\ answer[c] = NoAnswer /\ ~ReplyExpected(c)
    /\ Return(c, "closed") /\ UNCHANGED queue

Handler(c) == Send(c) \/ Receive(c) \/ GiveUp(c) \/ FindClosed(c)

-----------------------------------------------------------------------------
\* The game thread.

\* run: BridgeRuntime::start hears from the bridge's thread that it is up, and the
\* application starts to tick ...
Start ==
    /\ game = "starting"
    /\ game' = "tick"
    /\ UNCHANGED <<left, current, alive, queue, handler, open, answer, worldVars, outcome>>

\* ... or start hears of an error, or nothing for two seconds, though the bridge
\* may be serving by now: run panics.  With start's locals goes the sender of the
\* shutdown signal, which ends the bridge too; nobody joins its thread.
StartFails ==
    /\ game = "starting"
    /\ game' = "leaving" /\ alive' = alive \ {"bridge"}
    /\ UNCHANGED <<left, current, queue, handler, open, answer, worldVars, outcome>>

\* One turn of handle_mcp_requests: try_recv ...
Take ==
    /\ game = "tick" /\ current.call = NoCall
    /\ left > 0 /\ queue # <<>>
    /\ current' = [call |-> Head(queue), result |-> "none"]
    /\ queue' = Tail(queue)
    /\ left' = left - 1
    /\ UNCHANGED <<game, alive, handler, open, answer, worldVars, outcome>>

\* ... handle_mcp_tool, here apply_build_plan: it answers with the row of the
\* key, or changes the world and commits the row, or fails and leaves the world
\* alone (and the row too, unless it failed to load a row it had committed) ...
Run ==
    /\ current.call # NoCall /\ current.result = "none"
    /\ ran' = Append(ran, current.call)
    /\ \E result \in Result :
        /\ current' = [current EXCEPT !.result = result]
        /\ result = "repeated" => current.call.key \in built
        /\ result = "applied" => current.call.key \notin built
        /\ \/ result # "applied" /\ UNCHANGED <<built, changes, unread>>
           \/ /\ result = "applied"
              /\ built' = built \cup {current.call.key}
              /\ changes' = [changes EXCEPT ![current.call.key] = @ + 1]
              /\ UNCHANGED unread
           \/ /\ result = "failed" /\ current.call.key \notin built
              /\ built' = built \cup {current.call.key}
              /\ unread' = unread \cup {current.call.key}
              /\ UNCHANGED changes
    /\ UNCHANGED <<game, left, alive, queue, handler, open, answer, outcome>>

\* ... and respond: nobody hears it if the handler has given up.
Respond ==
    /\ current.call # NoCall /\ current.result # "none"
    /\ LET c == current.call.client
       IN answer' = IF Waiting(c) /\ open[c] = current.call
                    THEN [answer EXCEPT ![c] =
                            [n |-> current.call.n, result |-> current.result]]
                    ELSE answer
    /\ current' = [call |-> NoCall, result |-> "none"]
    /\ UNCHANGED <<game, left, alive, queue, handler, open, worldVars, outcome>>

\* The queue is empty or the tick has taken all it may.
TickOver ==
    /\ game = "tick" /\ current.call = NoCall
    /\ queue = <<>> \/ left = 0

EndTick ==
    /\ TickOver /\ left # TickLimit
    /\ left' = TickLimit
    /\ UNCHANGED <<game, current, alive, queue, handler, open, answer, worldVars, outcome>>

\* exit_on_shutdown_signal: the application ends with this tick.
Exit ==
    /\ TickOver
    /\ game' = "leaving"
    /\ UNCHANGED <<left, current, alive, queue, handler, open, answer, worldVars, outcome>>

\* McpRuntime is dropped, with the calls still on the channel.
DropQueue ==
    /\ game = "leaving" /\ "queue" \in alive
    /\ alive' = alive \ {"queue"} /\ queue' = <<>>
    /\ UNCHANGED <<game, left, current, handler, open, answer, worldVars, outcome>>

\* Drop for BridgeRuntime ends the listener and joins its thread, which first
\* serves the requests it has taken.
DropBridge ==
    /\ game = "leaving" /\ "bridge" \in alive
    /\ game' = "joining"
    /\ UNCHANGED <<left, current, alive, queue, handler, open, answer, worldVars, outcome>>

JoinBridge ==
    /\ game = "joining" /\ \A c \in Client : handler[c] = "idle"
    /\ game' = "leaving" /\ alive' = alive \ {"bridge"}
    /\ UNCHANGED <<left, current, queue, handler, open, answer, worldVars, outcome>>

Game == Start \/ Take \/ Run \/ Respond \/ EndTick \/ DropQueue \/ DropBridge \/ JoinBridge

-----------------------------------------------------------------------------
Next ==
    \/ \E c \in Client, k \in Key : Post(c, k)
    \/ \E c \in Client : Handler(c)
    \/ Game \/ StartFails \/ Exit

Spec == Init /\ [][Next]_vars

\* Both threads run, and recv_timeout returns; clients and signals are free.
FairSpec == Spec /\ WF_vars(Game) /\ \A c \in Client : WF_vars(Handler(c))

-----------------------------------------------------------------------------
\* Every variable keeps its type.
TypeOK ==
    /\ game \in {"starting", "tick", "leaving", "joining"}
    /\ left \in 0..TickLimit
    /\ current \in [call : Call \cup {NoCall}, result : Result \cup {"none"}]
    /\ alive \subseteq {"queue", "bridge"}
    /\ queue \in Seq(Call) /\ Len(queue) <= Cardinality(Client) * MaxCalls
    /\ handler \in [Client -> {"idle", "sending", "waiting"}]
    /\ open \in [Client -> Call \cup {NoCall}]
    /\ answer \in [Client -> [n : 0..MaxCalls, result : Result \cup {"none"}]]
    /\ built \subseteq Key
    /\ changes \in [Key -> Nat] /\ unread \subseteq Key
    /\ ran \in Seq(Call)
    /\ outcome \in [Client -> Seq(Result \cup {"timeout", "closed"})]

Ended(call) == call.n <= Len(outcome[call.client])
How(call) == outcome[call.client][call.n]
HasRun(call) == \E i \in DOMAIN ran : ran[i] = call

\* However late it runs, a call runs before the later calls of its client, and
\* at most once: a timed-out call cannot overtake what its client did next.
RunsInCallOrder ==
    \A i, j \in DOMAIN ran :
        i < j /\ ran[i].client = ran[j].client => ran[i].n < ran[j].n

\* "closed" is a definite answer: such a call has not run and will not.  Only a
\* timeout leaves its client in doubt.
ClosedMeansNeverRun ==
    \A i \in DOMAIN ran : Ended(ran[i]) => How(ran[i]) # "closed"

\* A client that repeats a call until it is answered changes the world once,
\* whatever copies of it ran late; and an answer never runs ahead of the world,
\* unless a committed row failed to load (ErrorLeavesNoRecord in BuildService).
RetriesApplyOnce ==
    \A k \in Key :
        /\ changes[k] <= 1
        /\ \A i \in DOMAIN ran :
              /\ ran[i].key = k /\ Ended(ran[i])
              /\ How(ran[i]) \in {"applied", "repeated"}
              => changes[k] = 1 \/ k \in unread

\* A call on the queue runs in the end, also when its handler has given up,
\* unless the server stops first: the limit of a tick only delays it.
SentCallsRun ==
    \A c \in Client : \A n \in 1..MaxCalls : \A k \in Key :
        LET call == [client |-> c, n |-> n, key |-> k]
        IN (\E i \in DOMAIN queue : queue[i] = call) ~> (HasRun(call) \/ game \in {"leaving", "joining"})

\* Leaving the server ends, in either order of the drops: the game thread waits
\* for handlers that wait for the game thread.
LeavingEnds == game = "leaving" ~> alive = {}
=============================================================================
