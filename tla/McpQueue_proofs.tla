--------------------------- MODULE McpQueue_proofs ---------------------------
(***************************************************************************)
(* Proofs about McpQueue, for any finite set of clients, any keys, any     *)
(* limit of calls per tick and any number of calls.                        *)
(*                                                                         *)
(* IInv follows a call from its handler through the channel and the game   *)
(* thread: who still waits for it, in which order the calls of a client    *)
(* run, and what the world must hold when an answer is on its way.         *)
(***************************************************************************)
EXTENDS McpQueue, SequenceTheorems, TLAPS, FiniteSetTheorems

-----------------------------------------------------------------------------
(* The inductive invariant.                                                *)

Typed ==
    /\ game \in {"starting", "tick", "leaving", "joining"}
    /\ left \in 0..TickLimit
    /\ current \in [call : Call \cup {NoCall}, result : Result \cup {"none"}]
    /\ alive \subseteq {"queue", "bridge"}
    /\ queue \in Seq(Call)
    /\ handler \in [Client -> {"idle", "sending", "waiting"}]
    /\ open \in [Client -> Call \cup {NoCall}]
    /\ answer \in [Client -> [n : 0..MaxCalls, result : Result \cup {"none"}]]
    /\ built \subseteq Key
    /\ changes \in [Key -> Nat] /\ unread \subseteq Key
    /\ ran \in Seq(Call)
    /\ outcome \in [Client -> Seq(Result \cup {"timeout", "closed"})]

\* The call of a busy handler is the next of its client's.
OpenIsNext ==
    \A c \in Client : handler[c] # "idle" =>
        open[c] \in Call /\ open[c].client = c /\ open[c].n = Len(outcome[c]) + 1

\* A call that has left its handler's hands has ended there, or is waited for.
Heeded(call) == Ended(call) \/ (Waiting(call.client) /\ open[call.client] = call)

Pending == current.call # NoCall /\ current.result = "none"

AllHeeded ==
    /\ \A i \in DOMAIN queue : Heeded(queue[i])
    /\ \A i \in DOMAIN ran : Heeded(ran[i])
    /\ Pending => Heeded(current.call)

\* m comes before n, if both are calls of one client.
Before(m, n) == m.client = n.client => m.n < n.n

\* The calls that ran, the one about to run and those on the channel are in the
\* order in which each client made them.
InOrder ==
    /\ \A i, j \in DOMAIN ran : i < j => Before(ran[i], ran[j])
    /\ \A i, j \in DOMAIN queue : i < j => Before(queue[i], queue[j])
    /\ \A i \in DOMAIN ran, j \in DOMAIN queue : Before(ran[i], queue[j])
    /\ Pending =>
        /\ \A i \in DOMAIN ran : Before(ran[i], current.call)
        /\ \A j \in DOMAIN queue : Before(current.call, queue[j])

\* A call that has not run can only have ended by a timeout.
OnlyTimedOut ==
    /\ \A i \in DOMAIN queue : Ended(queue[i]) => How(queue[i]) = "timeout"
    /\ Pending /\ Ended(current.call) => How(current.call) = "timeout"

\* An answer belongs to a call that ran, and tells what the world holds.
AnswersAreTrue ==
    /\ \A c \in Client : handler[c] # "idle" /\ answer[c] # NoAnswer =>
        /\ answer[c].result \in Result
        /\ \E i \in DOMAIN ran : ran[i] = open[c]
        /\ answer[c].result \in {"applied", "repeated"} => open[c].key \in built
    /\ current.call # NoCall /\ ~Pending =>
        /\ \E i \in DOMAIN ran : ran[i] = current.call
        /\ current.result \in {"applied", "repeated"} => current.call.key \in built

\* A call that ran and is still waited for has its answer, or is getting it.
RanIsAnswered ==
    \A c \in Client : \A i \in DOMAIN ran :
        Waiting(c) /\ ran[i] = open[c] => answer[c] # NoAnswer \/ current.call = open[c]

\* How the calls that ran ended.
EndsAreTrue ==
    \A i \in DOMAIN ran : Ended(ran[i]) =>
        /\ How(ran[i]) # "closed"
        /\ How(ran[i]) \in {"applied", "repeated"} => ran[i].key \in built

\* A row is there because the world changed once, or it failed to load.
RowsAreTrue ==
    \A k \in Key :
        /\ changes[k] <= 1
        /\ changes[k] = 1 => k \in built
        /\ k \in built => changes[k] = 1 \/ k \in unread

IInv ==
    /\ Typed /\ OpenIsNext /\ AllHeeded /\ InOrder /\ OnlyTimedOut
    /\ AnswersAreTrue /\ RanIsAnswered /\ EndsAreTrue /\ RowsAreTrue

flow == <<current, queue, handler, open, answer, built, changes, unread, ran, outcome>>

-----------------------------------------------------------------------------
(* Steps.                                                                  *)

\* The calls on the channel and the calls that ran are calls.
LEMMA CallsTyped ==
    ASSUME IInv
    PROVE  /\ Len(queue) \in Nat /\ DOMAIN queue = 1..Len(queue)
           /\ \A i \in DOMAIN queue : queue[i] \in Call
           /\ Len(ran) \in Nat /\ DOMAIN ran = 1..Len(ran)
           /\ \A i \in DOMAIN ran : ran[i] \in Call
           /\ Pending => current.call \in Call
           /\ \A m \in Call : m.client \in Client /\ m.n \in 1..MaxCalls /\ m.n \in Nat /\ m.key \in Key
           /\ \A c \in Client : Len(outcome[c]) \in Nat
<1>1. queue \in Seq(Call) /\ ran \in Seq(Call)
    BY DEF IInv, Typed
<1>2. \A c \in Client : outcome[c] \in Seq(Result \cup {"timeout", "closed"})
    BY DEF IInv, Typed
<1>3. Pending => current.call \in Call
    BY DEF IInv, Typed, Pending
<1>4. \A c \in Client : Len(outcome[c]) \in Nat
    BY <1>2, LenProperties, ElementOfSeq
<1>5. \A m \in Call : m.client \in Client /\ m.n \in 1..MaxCalls /\ m.n \in Nat /\ m.key \in Key
    BY LimitAssumption DEF Call
<1> QED
    BY <1>1, <1>3, <1>4, <1>5, LenProperties, ElementOfSeq

\* A step that leaves the calls alone leaves the invariant alone.
LEMMA FlowUnchanged ==
    ASSUME IInv, Typed', UNCHANGED flow
    PROVE  IInv'
<1> USE DEF flow, Waiting, Heeded, Ended, How, Pending, NoAnswer
<1>1. OpenIsNext' /\ AllHeeded'
    BY DEF IInv, OpenIsNext, AllHeeded
<1>2. InOrder'
    BY DEF IInv, InOrder, Before
<1>3. OnlyTimedOut' /\ EndsAreTrue' /\ RowsAreTrue'
    BY DEF IInv, OnlyTimedOut, EndsAreTrue, RowsAreTrue
<1>4. AnswersAreTrue' /\ RanIsAnswered'
    BY DEF IInv, AnswersAreTrue, RanIsAnswered
<1> QED
    BY <1>1, <1>2, <1>3, <1>4 DEF IInv

\* A handler that returns ends its own call, and no other.
LEMMA ReturnEndsOwnCall ==
    ASSUME IInv, NEW c \in Client, handler[c] # "idle",
           NEW how \in Result \cup {"timeout", "closed"}, Return(c, how)
    PROVE  /\ outcome' \in [Client -> Seq(Result \cup {"timeout", "closed"})]
           /\ \A m \in Call :
                /\ Ended(m) => Ended(m)' /\ How(m)' = How(m)
                /\ Ended(m)' /\ ~Ended(m) => m.client = c /\ m.n = open[c].n /\ How(m)' = how
                /\ Heeded(m) => Heeded(m)'
                /\ Heeded(m) /\ Ended(m)' /\ ~Ended(m) => Waiting(c) /\ m = open[c]
           /\ \A d \in Client : d # c =>
                handler'[d] = handler[d] /\ outcome'[d] = outcome[d]
           /\ handler'[c] = "idle"
<1> DEFINE Ways == Result \cup {"timeout", "closed"}
<1>1. /\ outcome[c] \in Seq(Ways) /\ outcome \in [Client -> Seq(Ways)]
      /\ handler \in [Client -> {"idle", "sending", "waiting"}]
    BY DEF IInv, Typed
<1>2. /\ Append(outcome[c], how) \in Seq(Ways)
      /\ Len(Append(outcome[c], how)) = Len(outcome[c]) + 1
      /\ \A i \in 1..Len(outcome[c]) : Append(outcome[c], how)[i] = outcome[c][i]
      /\ Append(outcome[c], how)[Len(outcome[c]) + 1] = how
      /\ Len(outcome[c]) \in Nat
    BY <1>1, AppendProperties, LenProperties, ElementOfSeq
<1>3. /\ outcome' = [outcome EXCEPT ![c] = Append(outcome[c], how)]
      /\ handler' = [handler EXCEPT ![c] = "idle"] /\ open' = open
    BY DEF Return
<1> HIDE DEF Ways
<1>4. /\ outcome'[c] = Append(outcome[c], how) /\ handler'[c] = "idle"
      /\ outcome' \in [Client -> Seq(Ways)]
      /\ \A d \in Client : d # c => outcome'[d] = outcome[d] /\ handler'[d] = handler[d]
    BY <1>1, <1>2, <1>3
<1>5. open[c].client = c /\ open[c].n = Len(outcome[c]) + 1
    BY DEF IInv, OpenIsNext
<1>6. ASSUME NEW m \in Call
      PROVE  /\ Ended(m) => Ended(m)' /\ How(m)' = How(m)
             /\ Ended(m)' /\ ~Ended(m) => m.client = c /\ m.n = open[c].n /\ How(m)' = how
             /\ Heeded(m) => Heeded(m)'
             /\ Heeded(m) /\ Ended(m)' /\ ~Ended(m) => Waiting(c) /\ m = open[c]
    <2>1. m.client \in Client /\ m.n \in Nat /\ m.n >= 1
        BY LimitAssumption DEF Call
    <2>2. CASE m.client # c
        BY <1>3, <1>4, <2>1, <2>2 DEF Ended, How, Heeded, Waiting
    <2>3. CASE m.client = c
        <3>1. Ended(m) <=> m.n <= Len(outcome[c])
            BY <2>3 DEF Ended
        <3>2. Ended(m)' <=> m.n <= Len(outcome[c]) + 1
            BY <1>2, <1>4, <2>3 DEF Ended
        <3>3. Ended(m) => How(m)' = How(m)
            BY <1>2, <1>4, <2>1, <2>3, <3>1 DEF How
        <3>4. m.n = Len(outcome[c]) + 1 => How(m)' = how
            BY <1>2, <1>4, <2>3 DEF How
        <3>5. Heeded(m) => Ended(m) \/ (Waiting(c) /\ m = open[c])
            BY <2>3 DEF Heeded
        <3>6. m = open[c] => Ended(m)'
            BY <1>2, <1>5, <3>2
        <3>7. Heeded(m) => Heeded(m)'
            BY <1>2, <2>1, <3>1, <3>2, <3>5, <3>6 DEF Heeded
        <3> QED
            BY <1>2, <1>5, <2>1, <2>3, <3>1, <3>2, <3>3, <3>4, <3>5, <3>7
    <2> QED
        BY <2>2, <2>3
<1> QED
    BY <1>4, <1>6 DEF Ways

\* A handler that returns keeps the invariant, when what it says is so: of a
\* call that is still to run only a timeout is said, and "closed" of none that ran.
LEMMA ReturnKeepsInvariant ==
    ASSUME IInv, NEW c \in Client, handler[c] # "idle",
           NEW how \in Result \cup {"timeout", "closed"},
           Return(c, how), UNCHANGED queue,
           how # "timeout" =>
                /\ \A i \in DOMAIN queue : queue[i] # open[c]
                /\ ~(Pending /\ current.call = open[c]),
           how = "closed" => \A i \in DOMAIN ran : ran[i] # open[c],
           how \in {"applied", "repeated"} => open[c].key \in built
    PROVE  IInv'
<1>1. /\ UNCHANGED <<game, left, current, alive, queue, open, answer, built, changes, unread, ran>>
      /\ handler' = [handler EXCEPT ![c] = "idle"]
    BY DEF Return, gameVars, worldVars
<1>2. /\ outcome' \in [Client -> Seq(Result \cup {"timeout", "closed"})]
      /\ \A m \in Call :
            /\ Ended(m) => Ended(m)' /\ How(m)' = How(m)
            /\ Ended(m)' /\ ~Ended(m) => m.client = c /\ m.n = open[c].n /\ How(m)' = how
            /\ Heeded(m) => Heeded(m)'
            /\ Heeded(m) /\ Ended(m)' /\ ~Ended(m) => Waiting(c) /\ m = open[c]
      /\ \A d \in Client : d # c =>
            handler'[d] = handler[d] /\ outcome'[d] = outcome[d]
      /\ handler'[c] = "idle"
    BY ReturnEndsOwnCall
<1>3. /\ \A i \in DOMAIN queue : queue[i] \in Call /\ Heeded(queue[i])
      /\ \A i \in DOMAIN ran : ran[i] \in Call /\ Heeded(ran[i])
      /\ Pending => current.call \in Call /\ Heeded(current.call)
    BY CallsTyped DEF IInv, AllHeeded
<1>4. Typed'
    BY <1>1, <1>2 DEF IInv, Typed
<1>5. OpenIsNext'
    BY <1>1, <1>2 DEF IInv, OpenIsNext
<1>6. AllHeeded'
    BY <1>1, <1>2, <1>3 DEF AllHeeded, Pending
<1>7. InOrder'
    BY <1>1 DEF IInv, InOrder, Before, Pending
<1>8. OnlyTimedOut'
    <2>1. ASSUME NEW i \in DOMAIN queue, NEW m, m = queue[i], Ended(m)'
          PROVE  How(m)' = "timeout"
        <3>1. CASE Ended(m)
            BY <1>2, <1>3, <2>1, <3>1 DEF IInv, OnlyTimedOut
        <3>2. CASE ~Ended(m)
            BY <1>2, <1>3, <2>1, <3>2
        <3> QED
            BY <3>1, <3>2
    <2>2. ASSUME Pending, NEW m, m = current.call, Ended(m)'
          PROVE  How(m)' = "timeout"
        <3>1. CASE Ended(m)
            BY <1>2, <1>3, <2>2, <3>1 DEF IInv, OnlyTimedOut
        <3>2. CASE ~Ended(m)
            BY <1>2, <1>3, <2>2, <3>2
        <3> QED
            BY <3>1, <3>2
    <2> QED
        BY <1>1, <2>1, <2>2 DEF OnlyTimedOut, Pending, Ended, How
<1>9. EndsAreTrue'
    <2>1. ASSUME NEW i \in DOMAIN ran, NEW m, m = ran[i], Ended(m)'
          PROVE  /\ How(m)' # "closed"
                 /\ How(m)' \in {"applied", "repeated"} => ran[i].key \in built
        <3>1. CASE Ended(m)
            BY <1>2, <1>3, <2>1, <3>1 DEF IInv, EndsAreTrue
        <3>2. CASE ~Ended(m)
            BY <1>2, <1>3, <2>1, <3>2
        <3> QED
            BY <3>1, <3>2
    <2> QED
        BY <1>1, <2>1 DEF EndsAreTrue, Ended, How
<1>10. AnswersAreTrue' /\ RanIsAnswered'
    BY <1>1, <1>2 DEF IInv, AnswersAreTrue, RanIsAnswered, Waiting, Pending, NoAnswer
<1>11. RowsAreTrue'
    BY <1>1 DEF IInv, RowsAreTrue
<1> QED
    BY <1>4, <1>5, <1>6, <1>7, <1>8, <1>9, <1>10, <1>11 DEF IInv

\* The handler's three ways to return.
LEMMA HandlerReturns ==
    ASSUME IInv, NEW c \in Client,
           \/ Send(c) /\ "queue" \notin alive
           \/ Receive(c) \/ GiveUp(c) \/ FindClosed(c)
    PROVE  IInv'
<1>1. /\ \A i \in DOMAIN queue : queue[i] \in Call
      /\ \A i \in DOMAIN ran : ran[i] \in Call /\ ran[i].client \in Client /\ ran[i].n \in Nat
      /\ Len(outcome[c]) \in Nat
    BY CallsTyped
<1>2. CASE Send(c) /\ "queue" \notin alive
    <2>1. handler[c] = "sending" /\ Return(c, "closed") /\ UNCHANGED queue
        BY <1>2 DEF Send
    <2>2. open[c] \in Call /\ open[c].client = c /\ ~Heeded(open[c])
        BY <1>1, <2>1 DEF IInv, OpenIsNext, Heeded, Ended, Waiting
    <2>3. /\ \A i \in DOMAIN queue : queue[i] # open[c]
          /\ \A i \in DOMAIN ran : ran[i] # open[c]
          /\ ~(Pending /\ current.call = open[c])
        BY <2>2 DEF IInv, AllHeeded
    <2> QED
        BY <2>1, <2>3, ReturnKeepsInvariant
<1>3. CASE Receive(c)
    <2>1. /\ Waiting(c) /\ handler[c] # "idle" /\ answer[c] # NoAnswer
          /\ Return(c, answer[c].result) /\ UNCHANGED queue
        BY <1>3 DEF Receive, Waiting
    <2>2. /\ answer[c].result \in Result
          /\ answer[c].result \in {"applied", "repeated"} => open[c].key \in built
        BY <2>1 DEF IInv, AnswersAreTrue
    <2>3. PICK i \in DOMAIN ran : ran[i] = open[c]
        BY <2>1 DEF IInv, AnswersAreTrue
    <2>4. /\ \A j \in DOMAIN queue : queue[j] # open[c]
          /\ ~(Pending /\ current.call = open[c])
        BY <1>1, <2>3 DEF IInv, InOrder, Before
    <2> QED
        BY <2>1, <2>2, <2>4, ReturnKeepsInvariant DEF Result
<1>4. CASE GiveUp(c)
    BY <1>4, ReturnKeepsInvariant DEF GiveUp, Waiting
<1>5. CASE FindClosed(c)
    <2>1. /\ Waiting(c) /\ handler[c] # "idle" /\ answer[c] = NoAnswer
          /\ Return(c, "closed") /\ UNCHANGED queue
          /\ \A j \in DOMAIN queue : queue[j] # open[c]
          /\ current.call # open[c]
        BY <1>5 DEF FindClosed, Waiting, ReplyExpected
    <2>2. \A i \in DOMAIN ran : ran[i] # open[c]
        BY <2>1 DEF IInv, RanIsAnswered
    <2> QED
        BY <2>1, <2>2, ReturnKeepsInvariant
<1> QED
    BY <1>2, <1>3, <1>4, <1>5

\* A new call is not yet anywhere.
LEMMA PostKeepsInvariant ==
    ASSUME IInv, NEW c \in Client, NEW k \in Key, Post(c, k)
    PROVE  IInv'
<1>1. /\ handler[c] = "idle" /\ Calls(c) < MaxCalls
      /\ handler' = [handler EXCEPT ![c] = "sending"]
      /\ open' = [open EXCEPT ![c] = [client |-> c, n |-> Calls(c) + 1, key |-> k]]
      /\ answer' = [answer EXCEPT ![c] = NoAnswer]
      /\ UNCHANGED <<game, left, current, alive, queue, built, changes, unread, ran, outcome>>
    BY DEF Post, gameVars, worldVars
<1>2. Len(outcome[c]) \in Nat /\ Calls(c) = Len(outcome[c])
    BY <1>1, CallsTyped DEF Calls
<1>3. [client |-> c, n |-> Calls(c) + 1, key |-> k] \in Call
    BY <1>1, <1>2, LimitAssumption DEF Call
<1>4. Typed
    BY DEF IInv
<1>5. /\ handler'[c] = "sending" /\ answer'[c] = NoAnswer
      /\ open'[c] = [client |-> c, n |-> Len(outcome[c]) + 1, key |-> k] /\ open'[c] \in Call
      /\ \A d \in Client : d # c =>
            handler'[d] = handler[d] /\ open'[d] = open[d] /\ answer'[d] = answer[d]
    BY <1>1, <1>2, <1>3, <1>4 DEF Typed
<1>6. NoAnswer \in [n : 0..MaxCalls, result : Result \cup {"none"}]
    BY LimitAssumption DEF NoAnswer
<1>7. Typed'
    BY <1>1, <1>3, <1>4, <1>6 DEF Typed
<1>8. OpenIsNext'
    BY <1>1, <1>5 DEF IInv, OpenIsNext
<1>9. \A m \in Call : Heeded(m) => Heeded(m)'
    BY <1>1, <1>5, CallsTyped DEF Heeded, Ended, Waiting
<1>10. AllHeeded'
    <2>1. /\ \A i \in DOMAIN queue : Heeded(queue[i])'
          /\ \A i \in DOMAIN ran : Heeded(ran[i])'
          /\ Pending => Heeded(current.call)'
        BY <1>1, <1>9, CallsTyped DEF IInv, AllHeeded, Heeded, Ended, Waiting
    <2> QED
        BY <1>1, <2>1 DEF AllHeeded, Pending
<1>11. InOrder' /\ OnlyTimedOut' /\ EndsAreTrue' /\ RowsAreTrue'
    BY <1>1 DEF IInv, InOrder, Before, OnlyTimedOut, EndsAreTrue, RowsAreTrue,
        Pending, Ended, How
<1>12. AnswersAreTrue' /\ RanIsAnswered'
    BY <1>1, <1>5 DEF IInv, AnswersAreTrue, RanIsAnswered, Waiting, Pending, NoAnswer
<1> QED
    BY <1>7, <1>8, <1>10, <1>11, <1>12 DEF IInv

\* A call goes on the channel behind all earlier calls of its client, none of
\* which is waited for.
LEMMA SendKeepsInvariant ==
    ASSUME IInv, NEW c \in Client, Send(c), "queue" \in alive
    PROVE  IInv'
<1>1. /\ handler[c] = "sending" /\ queue' = Append(queue, open[c])
      /\ handler' = [handler EXCEPT ![c] = "waiting"]
      /\ UNCHANGED <<game, left, current, alive, open, answer, built, changes, unread, ran, outcome>>
    BY DEF Send, gameVars, worldVars
<1>2. /\ open[c] \in Call /\ open[c].client = c /\ open[c].n = Len(outcome[c]) + 1
      /\ ~Ended(open[c])
    BY <1>1, CallsTyped DEF IInv, OpenIsNext, Ended
<1>3. /\ handler'[c] = "waiting"
      /\ \A d \in Client : d # c => handler'[d] = handler[d]
    BY <1>1 DEF IInv, Typed
<1>4. /\ queue' \in Seq(Call) /\ DOMAIN queue' = 1..(Len(queue) + 1)
      /\ \A i \in DOMAIN queue : queue'[i] = queue[i]
      /\ queue'[Len(queue) + 1] = open[c]
      /\ \A i \in DOMAIN queue' : i \in DOMAIN queue \/ i = Len(queue) + 1
    BY <1>1, <1>2, AppendProperties, LenProperties DEF IInv, Typed
<1>5. \A m \in Call : Heeded(m) => Heeded(m)'
    BY <1>1, <1>3, CallsTyped DEF Heeded, Ended, Waiting
<1>6. Heeded(open[c])'
    BY <1>1, <1>2, <1>3 DEF Heeded, Waiting
<1>7. \A m \in Call : m.client = c /\ Heeded(m) => m.n < open[c].n
    BY <1>1, <1>2, CallsTyped DEF Heeded, Ended, Waiting
<1>8. Typed'
    BY <1>1, <1>4 DEF IInv, Typed
<1>9. OpenIsNext'
    BY <1>1, <1>3 DEF IInv, OpenIsNext
<1>10. AllHeeded'
    <2>1. \A i \in DOMAIN queue' : queue'[i] \in Call /\ (Heeded(queue'[i]) \/ queue'[i] = open[c])
        BY <1>2, <1>4, CallsTyped DEF IInv, AllHeeded
    <2>2. /\ \A i \in DOMAIN ran : Heeded(ran[i])'
          /\ Pending => Heeded(current.call)'
        BY <1>1, <1>5, CallsTyped DEF IInv, AllHeeded, Heeded, Ended, Waiting
    <2>3. \A i \in DOMAIN queue' : Heeded(queue[i])'
        BY <1>1, <1>5, <1>6, <2>1 DEF Heeded, Ended, Waiting
    <2> QED
        BY <1>1, <2>2, <2>3 DEF AllHeeded, Pending
<1>11. InOrder'
    <2>1. /\ \A i \in DOMAIN queue : Before(queue[i], open[c])
          /\ \A i \in DOMAIN ran : Before(ran[i], open[c])
          /\ Pending => Before(current.call, open[c])
        BY <1>2, <1>7, CallsTyped DEF IInv, AllHeeded, Before
    <2>2. /\ \A i, j \in DOMAIN queue' : i < j => Before(queue'[i], queue'[j])
          /\ \A i \in DOMAIN ran, j \in DOMAIN queue' : Before(ran[i], queue'[j])
          /\ Pending => \A j \in DOMAIN queue' : Before(current.call, queue'[j])
        BY <1>4, <2>1, CallsTyped DEF IInv, InOrder
    <2> QED
        BY <1>1, <2>2 DEF IInv, InOrder, Pending, Before
<1>12. OnlyTimedOut'
    <2>1. \A i \in DOMAIN queue' : Ended(queue'[i]) => How(queue'[i]) = "timeout"
        BY <1>2, <1>4 DEF IInv, OnlyTimedOut
    <2> QED
        BY <1>1, <2>1 DEF IInv, OnlyTimedOut, Ended, How, Pending
<1>13. EndsAreTrue' /\ RowsAreTrue'
    BY <1>1 DEF IInv, EndsAreTrue, RowsAreTrue, Ended, How
<1>14. \A i \in DOMAIN ran : ran[i] # open[c]
    BY <1>2, <1>7, CallsTyped DEF IInv, AllHeeded
<1>15. RanIsAnswered' /\ AnswersAreTrue'
    BY <1>1, <1>3, <1>14 DEF IInv, RanIsAnswered, AnswersAreTrue, Waiting, Pending, NoAnswer
<1> QED
    BY <1>8, <1>9, <1>10, <1>11, <1>12, <1>13, <1>15 DEF IInv

\* The game thread takes the first call on the channel.
LEMMA TakeKeepsInvariant ==
    ASSUME IInv, Take
    PROVE  IInv'
<1>1. /\ queue # <<>> /\ current.call = NoCall /\ left > 0
      /\ current' = [call |-> Head(queue), result |-> "none"]
      /\ queue' = Tail(queue) /\ left' = left - 1
      /\ UNCHANGED <<game, alive, handler, open, answer, built, changes, unread, ran, outcome>>
    BY DEF Take, worldVars
<1>2. Typed
    BY DEF IInv
<1>3. /\ 1 \in DOMAIN queue /\ Head(queue) = queue[1] /\ Head(queue) \in Call
      /\ queue' \in Seq(Call)
      /\ \A i \in DOMAIN queue' : i + 1 \in DOMAIN queue /\ queue'[i] = queue[i + 1]
      /\ DOMAIN queue \subseteq Nat /\ DOMAIN queue' \subseteq Nat /\ \A i \in DOMAIN queue' : 1 < i + 1
    BY <1>1, <1>2, HeadTailProperties, LenProperties, EmptySeq, ElementOfSeq DEF Typed
<1>4. ~Pending /\ Pending' /\ current'.call = queue[1] /\ current'.call # NoCall
    BY <1>1, <1>3, LimitAssumption DEF Pending
<1>5. Typed'
    BY <1>1, <1>2, <1>3, LimitAssumption DEF Typed
<1>6. OpenIsNext' /\ EndsAreTrue' /\ RowsAreTrue'
    BY <1>1 DEF IInv, OpenIsNext, EndsAreTrue, RowsAreTrue, Ended, How
<1>7. AllHeeded'
    BY <1>1, <1>3, <1>4 DEF IInv, AllHeeded, Heeded, Ended, Waiting
<1>8. InOrder'
    <2>1. \A i, j \in DOMAIN queue' : i < j => Before(queue'[i], queue'[j])
        BY <1>3 DEF IInv, InOrder
    <2>2. \A i \in DOMAIN ran, j \in DOMAIN queue' : Before(ran[i], queue'[j])
        BY <1>3 DEF IInv, InOrder
    <2>3. \A i \in DOMAIN ran : Before(ran[i], queue[1])
        BY <1>3 DEF IInv, InOrder
    <2>4. \A j \in DOMAIN queue' : Before(queue[1], queue'[j])
        BY <1>3 DEF IInv, InOrder
    <2>5. \A i, j \in DOMAIN ran : i < j => Before(ran[i], ran[j])
        BY DEF IInv, InOrder
    <2> QED
        BY <1>1, <1>4, <2>1, <2>2, <2>3, <2>4, <2>5 DEF InOrder, Before
<1>9. OnlyTimedOut'
    BY <1>1, <1>3, <1>4 DEF IInv, OnlyTimedOut, Ended, How
<1>10. AnswersAreTrue' /\ RanIsAnswered'
    BY <1>1, <1>4, <1>2, LimitAssumption DEF IInv, Typed, OpenIsNext, AnswersAreTrue,
        RanIsAnswered, Waiting, Pending, NoAnswer
<1> QED
    BY <1>5, <1>6, <1>7, <1>8, <1>9, <1>10 DEF IInv

\* The calls still on the channel are dropped with it.
LEMMA DropQueueKeepsInvariant ==
    ASSUME IInv, DropQueue
    PROVE  IInv'
<1>1. /\ queue' = <<>> /\ alive' = alive \ {"queue"}
      /\ UNCHANGED <<game, left, current, handler, open, answer, built, changes, unread, ran, outcome>>
    BY DEF DropQueue, worldVars
<1>2. queue' \in Seq(Call) /\ DOMAIN queue' = {}
    BY <1>1, EmptySeq
<1>3. Typed'
    BY <1>1, <1>2 DEF IInv, Typed
<1>4. OpenIsNext' /\ EndsAreTrue' /\ RowsAreTrue' /\ OnlyTimedOut'
    BY <1>1, <1>2 DEF IInv, OpenIsNext, EndsAreTrue, RowsAreTrue, OnlyTimedOut, Ended,
        How, Pending
<1>5. AllHeeded' /\ InOrder'
    BY <1>1, <1>2 DEF IInv, AllHeeded, InOrder, Before, Heeded, Ended, Waiting, Pending
<1>6. AnswersAreTrue' /\ RanIsAnswered'
    BY <1>1 DEF IInv, AnswersAreTrue, RanIsAnswered, Waiting, Pending, NoAnswer
<1> QED
    BY <1>3, <1>4, <1>5, <1>6 DEF IInv

\* A call runs behind all those that ran, and the world holds what its result
\* says.
LEMMA RunKeepsInvariant ==
    ASSUME IInv, Run
    PROVE  IInv'
<1> DEFINE m == current.call
<1>1. /\ Pending /\ m \in Call /\ m.key \in Key
      /\ ran' = Append(ran, m)
      /\ UNCHANGED <<game, left, alive, queue, handler, open, answer, outcome>>
    BY CallsTyped DEF Run, Pending
<1>2. PICK result \in Result :
        /\ current' = [current EXCEPT !.result = result]
        /\ result = "repeated" => m.key \in built
        /\ result = "applied" => m.key \notin built
        /\ \/ result # "applied" /\ UNCHANGED <<built, changes, unread>>
           \/ /\ result = "applied"
              /\ built' = built \cup {m.key}
              /\ changes' = [changes EXCEPT ![m.key] = @ + 1]
              /\ UNCHANGED unread
           \/ /\ result = "failed" /\ m.key \notin built
              /\ built' = built \cup {m.key}
              /\ unread' = unread \cup {m.key}
              /\ UNCHANGED changes
    BY DEF Run
<1> HIDE DEF m
<1>3. Typed
    BY DEF IInv
<1>4. /\ current'.call = m /\ current'.result = result /\ result # "none"
      /\ current' \in [call : Call \cup {NoCall}, result : Result \cup {"none"}]
      /\ ~Pending' /\ m # NoCall
    BY <1>1, <1>2, <1>3 DEF Typed, Pending, Result, m
<1>5. /\ ran' \in Seq(Call) /\ DOMAIN ran' = 1..(Len(ran) + 1)
      /\ \A i \in DOMAIN ran : ran'[i] = ran[i] /\ i \in DOMAIN ran' /\ i < Len(ran) + 1
      /\ ran'[Len(ran) + 1] = m /\ Len(ran) + 1 \in DOMAIN ran'
      /\ \A i \in DOMAIN ran' : i \in DOMAIN ran \/ i = Len(ran) + 1
    BY <1>1, <1>3, AppendProperties, LenProperties, CallsTyped DEF Typed
<1>6. built \subseteq built'
    BY <1>2
<1>7. RowsAreTrue'
    <2>1. ASSUME NEW k \in Key, k # m.key
          PROVE  /\ (k \in built') <=> (k \in built)
                 /\ changes'[k] = changes[k]
                 /\ (k \in unread') <=> (k \in unread)
        BY <1>2, <1>3, <2>1 DEF Typed
    <2>2. changes[m.key] \in Nat /\ (m.key \notin built => changes[m.key] = 0)
        <3>1. changes[m.key] \in Nat
            BY <1>1, <1>3 DEF Typed
        <3>2. changes[m.key] <= 1 /\ (changes[m.key] = 1 => m.key \in built)
            BY <1>1 DEF IInv, RowsAreTrue
        <3> QED
            BY <3>1, <3>2
    <2>3. CASE result = "applied"
        <3>1. /\ changes[m.key] = 0 /\ m.key \in built'
              /\ changes' = [changes EXCEPT ![m.key] = @ + 1]
            BY <1>2, <2>2, <2>3
        <3>2. changes'[m.key] = changes[m.key] + 1
            BY <1>1, <1>3, <3>1 DEF Typed
        <3>3. changes'[m.key] = 1
            BY <3>1, <3>2
        <3> QED
            BY <2>1, <3>1, <3>3 DEF IInv, RowsAreTrue
    <2>4. CASE result # "applied"
        BY <1>2, <2>2, <2>4 DEF IInv, RowsAreTrue
    <2> QED
        BY <2>3, <2>4
<1>8. Typed'
    <2>1. built' \subseteq Key /\ unread' \subseteq Key
        <3>1. built \subseteq Key /\ unread \subseteq Key
            BY <1>3 DEF Typed
        <3>2. built' \subseteq built \cup {m.key} /\ unread' \subseteq unread \cup {m.key}
            BY <1>2
        <3> QED
            BY <1>1, <3>1, <3>2
    <2>2. changes' = changes \/ changes' = [changes EXCEPT ![m.key] = @ + 1]
        BY <1>2
    <2>3. changes' \in [Key -> Nat]
        <3>1. changes \in [Key -> Nat]
            BY <1>3 DEF Typed
        <3> QED
            BY <1>1, <2>2, <3>1
    <2> QED
        BY <1>1, <1>3, <1>4, <1>5, <2>1, <2>3 DEF Typed
<1>9. OpenIsNext'
    BY <1>1 DEF IInv, OpenIsNext
<1>10. AllHeeded'
    BY <1>1, <1>4, <1>5 DEF IInv, AllHeeded, Heeded, Ended, Waiting, m
<1>11. InOrder'
    <2>1. \A i, j \in DOMAIN ran' : i < j => Before(ran'[i], ran'[j])
        BY <1>1, <1>5, CallsTyped DEF IInv, InOrder, m
    <2>2. \A i \in DOMAIN ran', j \in DOMAIN queue : Before(ran'[i], queue[j])
        BY <1>1, <1>5 DEF IInv, InOrder, m
    <2>3. \A i, j \in DOMAIN queue : i < j => Before(queue[i], queue[j])
        BY DEF IInv, InOrder
    <2> QED
        BY <1>1, <1>4, <2>1, <2>2, <2>3 DEF InOrder, Before
<1>12. OnlyTimedOut'
    BY <1>1, <1>4 DEF IInv, OnlyTimedOut, Ended, How
<1>13. EndsAreTrue'
    <2>1. Ended(m) => How(m) = "timeout"
        BY <1>1 DEF IInv, OnlyTimedOut, m
    <2>2. ASSUME NEW i \in DOMAIN ran', Ended(ran'[i])
          PROVE  /\ How(ran'[i]) # "closed"
                 /\ How(ran'[i]) \in {"applied", "repeated"} => ran'[i].key \in built'
        BY <1>5, <1>6, <2>1, <2>2 DEF IInv, EndsAreTrue
    <2> QED
        BY <1>1, <2>2 DEF EndsAreTrue, Ended, How
<1>14. AnswersAreTrue'
    <2>1. result \in {"applied", "repeated"} => m.key \in built'
        BY <1>2
    <2>2. ASSUME NEW c \in Client, handler[c] # "idle", answer[c] # NoAnswer
          PROVE  /\ answer[c].result \in Result
                 /\ \E i \in DOMAIN ran' : ran'[i] = open[c]
                 /\ answer[c].result \in {"applied", "repeated"} => open[c].key \in built'
        BY <1>5, <1>6, <2>2 DEF IInv, AnswersAreTrue
    <2> QED
        BY <1>1, <1>4, <1>5, <2>1, <2>2 DEF AnswersAreTrue, NoAnswer
<1>15. RanIsAnswered'
    <2>1. ASSUME NEW c \in Client, NEW i \in DOMAIN ran', Waiting(c), ran'[i] = open[c]
          PROVE  answer[c] # NoAnswer \/ m = open[c]
        BY <1>1, <1>5, <2>1 DEF IInv, RanIsAnswered, m
    <2> QED
        BY <1>1, <1>4, <2>1 DEF RanIsAnswered, Waiting, NoAnswer
<1> QED
    BY <1>7, <1>8, <1>9, <1>10, <1>11, <1>12, <1>13, <1>14, <1>15 DEF IInv

\* The answer goes to the handler of this very call, if it still waits.
LEMMA RespondKeepsInvariant ==
    ASSUME IInv, Respond
    PROVE  IInv'
<1> DEFINE m == current.call
           c == m.client
           a == [n |-> m.n, result |-> current.result]
<1>1. /\ m # NoCall /\ current.result # "none" /\ ~Pending
      /\ answer' = IF Waiting(c) /\ open[c] = m THEN [answer EXCEPT ![c] = a] ELSE answer
      /\ current' = [call |-> NoCall, result |-> "none"]
      /\ UNCHANGED <<game, left, alive, queue, handler, open, built, changes, unread, ran, outcome>>
    BY DEF Respond, worldVars, Pending
<1>2. Typed
    BY DEF IInv
<1>3. m \in Call /\ current.result \in Result /\ c \in Client /\ m.n \in 0..MaxCalls
    BY <1>1, <1>2, LimitAssumption DEF Typed, Call
<1>4. a \in [n : 0..MaxCalls, result : Result \cup {"none"}] /\ a # NoAnswer
    BY <1>1, <1>3 DEF NoAnswer
<1>5. /\ \E i \in DOMAIN ran : ran[i] = m
      /\ a.result \in {"applied", "repeated"} => m.key \in built
    BY <1>1 DEF IInv, AnswersAreTrue
<1>6. a.result \in Result
    BY <1>3
<1> HIDE DEF m, c, a
<1>7. \A d \in Client : \/ answer'[d] = answer[d] /\ ~(Waiting(d) /\ open[d] = m)
                        \/ answer'[d] = a /\ Waiting(d) /\ open[d] = m
    <2>1. \A d \in Client : Waiting(d) /\ open[d] = m => d = c
        BY DEF IInv, OpenIsNext, Waiting, c
    <2> QED
        BY <1>1, <1>2, <1>3, <2>1 DEF Typed
<1>8. ~Pending' /\ current'.call = NoCall
    BY <1>1 DEF Pending
<1>9. Typed'
    BY <1>1, <1>2, <1>3, <1>4 DEF Typed
<1>10. OpenIsNext' /\ EndsAreTrue' /\ RowsAreTrue'
    BY <1>1 DEF IInv, OpenIsNext, EndsAreTrue, RowsAreTrue, Ended, How
<1>11. AllHeeded' /\ InOrder' /\ OnlyTimedOut'
    BY <1>1, <1>8 DEF IInv, AllHeeded, InOrder, OnlyTimedOut, Before, Heeded, Ended,
        How, Waiting
<1>12. AnswersAreTrue'
    <2>1. ASSUME NEW d \in Client, handler[d] # "idle", answer'[d] # NoAnswer
          PROVE  /\ answer'[d].result \in Result
                 /\ \E i \in DOMAIN ran : ran[i] = open[d]
                 /\ answer'[d].result \in {"applied", "repeated"} => open[d].key \in built
        BY <1>5, <1>6, <1>7, <2>1 DEF IInv, AnswersAreTrue
    <2> QED
        BY <1>1, <1>8, <2>1 DEF AnswersAreTrue, NoAnswer
<1>13. RanIsAnswered'
    <2>1. ASSUME NEW d \in Client, NEW i \in DOMAIN ran, Waiting(d), ran[i] = open[d]
          PROVE  answer'[d] # NoAnswer
        BY <1>4, <1>7, <2>1 DEF IInv, RanIsAnswered, m
    <2> QED
        BY <1>1, <2>1 DEF RanIsAnswered, Waiting, NoAnswer
<1> QED
    BY <1>9, <1>10, <1>11, <1>12, <1>13 DEF IInv

-----------------------------------------------------------------------------
(* Theorems.                                                               *)

\* The invariant holds at the start and through every step.
LEMMA InitInvariant == Init => IInv
<1> SUFFICES ASSUME Init PROVE IInv
    OBVIOUS
<1>1. <<>> \in Seq(Call) /\ \A S : <<>> \in Seq(S)
    BY EmptySeq
<1>2. Typed
    BY <1>1, LimitAssumption DEF Init, Typed, NoAnswer
<1>3. OpenIsNext /\ AllHeeded /\ InOrder /\ OnlyTimedOut
    BY DEF Init, OpenIsNext, AllHeeded, InOrder, OnlyTimedOut, Pending
<1>4. AnswersAreTrue /\ RanIsAnswered /\ EndsAreTrue /\ RowsAreTrue
    BY DEF Init, AnswersAreTrue, RanIsAnswered, EndsAreTrue, RowsAreTrue, Pending
<1> QED
    BY <1>2, <1>3, <1>4 DEF IInv

LEMMA StepInvariant == IInv /\ [Next]_vars => IInv'
<1> SUFFICES ASSUME IInv, [Next]_vars PROVE IInv'
    OBVIOUS
<1>1. CASE \E c \in Client, k \in Key : Post(c, k)
    BY <1>1, PostKeepsInvariant
<1>2. CASE \E c \in Client : Handler(c)
    BY <1>2, SendKeepsInvariant, HandlerReturns DEF Handler
<1>3. CASE Take
    BY <1>3, TakeKeepsInvariant
<1>4. CASE Run
    BY <1>4, RunKeepsInvariant
<1>5. CASE Respond
    BY <1>5, RespondKeepsInvariant
<1>6. CASE DropQueue
    BY <1>6, DropQueueKeepsInvariant
<1>7. CASE Start \/ EndTick \/ DropBridge \/ JoinBridge \/ StartFails \/ Exit \/ UNCHANGED vars
    <2>1. UNCHANGED flow
        BY <1>7 DEF flow, vars, worldVars, Start, EndTick, DropBridge, JoinBridge,
            StartFails, Exit
    <2>2. /\ game \in {"starting", "tick", "leaving", "joining"} /\ left \in 0..TickLimit
          /\ alive \subseteq {"queue", "bridge"} /\ TickLimit \in 0..TickLimit
        BY LimitAssumption DEF IInv, Typed
    <2>3. /\ game' \in {"starting", "tick", "leaving", "joining"} /\ left' \in 0..TickLimit
          /\ alive' \subseteq {"queue", "bridge"}
        BY <1>7, <2>2 DEF vars, Start, EndTick, DropBridge, JoinBridge, StartFails, Exit
    <2>4. Typed'
        BY <2>1, <2>3 DEF IInv, Typed, flow
    <2> QED
        BY <2>1, <2>4, FlowUnchanged
<1> QED
    BY <1>1, <1>2, <1>3, <1>4, <1>5, <1>6, <1>7 DEF Next, Game

LEMMA Invariant == Spec => []IInv
BY InitInvariant, StepInvariant, PTL DEF Spec

\* The channel has no limit of its own, but a client has one call open at a time:
\* it never holds a call twice, so it never holds more than all clients make.
LEMMA QueueIsBounded ==
    ASSUME IInv
    PROVE  Len(queue) <= Cardinality(Client) * MaxCalls
<1> DEFINE T == Client \X (1..MaxCalls)
           f == [i \in 1..Len(queue) |-> <<queue[i].client, queue[i].n>>]
<1>1. IsFiniteSet(T) /\ Cardinality(T) = Cardinality(Client) * MaxCalls
    <2>1. IsFiniteSet(1..MaxCalls) /\ Cardinality(1..MaxCalls) = MaxCalls
        BY LimitAssumption, FS_Interval
    <2> QED
        BY <2>1, LimitAssumption, FS_Product
<1>2. f \in [1..Len(queue) -> T]
    BY CallsTyped
<1>3. \A i, j \in 1..Len(queue) : f[i] = f[j] => i = j
    <2>1. ASSUME NEW i \in 1..Len(queue), NEW j \in 1..Len(queue), i < j
          PROVE  f[i] # f[j]
        BY <2>1, CallsTyped DEF IInv, InOrder, Before
    <2> QED
        BY <2>1, CallsTyped
<1>4. f \in Injection(1..Len(queue), T)
    BY <1>2, <1>3 DEF Injection, IsInjective
<1>5. Cardinality(1..Len(queue)) <= Cardinality(T)
    BY <1>1, <1>4, FS_Injection
<1>6. Cardinality(1..Len(queue)) = Len(queue)
    <2>1. Len(queue) \in Nat /\ 1 \in Int
        BY CallsTyped
    <2> HIDE DEF f
    <2>2. \A n \in Int : Cardinality(1..n) = IF 1 > n THEN 0 ELSE n - 1 + 1
        BY FS_Interval
    <2> QED
        BY <2>1, <2>2
<1> QED
    BY <1>1, <1>5, <1>6

\* Every variable keeps its type; the game thread stays within the limit of its
\* tick, and the channel within what its clients can have open.
THEOREM TypeCorrect == Spec => []TypeOK
<1>1. IInv => TypeOK
    BY QueueIsBounded DEF IInv, Typed, TypeOK
<1> QED
    BY <1>1, Invariant, PTL

\* A client's calls run in the order it made them, each at most once, also the
\* ones whose handler gave up long before.
THEOREM OrderKept == Spec => []RunsInCallOrder
<1>1. IInv => RunsInCallOrder
    BY DEF IInv, InOrder, Before, RunsInCallOrder
<1> QED
    BY <1>1, Invariant, PTL

\* A call that was answered "closed" has not run and will not.
THEOREM ClosedIsDefinite == Spec => []ClosedMeansNeverRun
<1>1. IInv => ClosedMeansNeverRun
    BY DEF IInv, EndsAreTrue, ClosedMeansNeverRun
<1> QED
    BY <1>1, Invariant, PTL

\* Repeating a call changes the world at most once, and "applied" or "repeated"
\* is only ever said of a change that was made, or whose row failed to load.
THEOREM RetryIsSafe == Spec => []RetriesApplyOnce
<1>1. IInv => RetriesApplyOnce
    <2> SUFFICES ASSUME IInv, NEW k \in Key
                 PROVE  /\ changes[k] <= 1
                        /\ \A i \in DOMAIN ran :
                              /\ ran[i].key = k /\ Ended(ran[i])
                              /\ How(ran[i]) \in {"applied", "repeated"}
                              => changes[k] = 1 \/ k \in unread
        BY DEF RetriesApplyOnce
    <2> QED
        BY DEF IInv, EndsAreTrue, RowsAreTrue
<1> QED
    BY <1>1, Invariant, PTL
=============================================================================
