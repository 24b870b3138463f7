------------------------------ MODULE BridgeProxy ------------------------------
(***************************************************************************)
(* proxy_socket (src/src/bridge.rs): the bridge between one browser's      *)
(* WebSocket and one TCP connection to the game server.  Four tasks share  *)
(* it.  The TCP reader and the WebSocket reader both put messages on one   *)
(* bounded channel, which the WebSocket writer empties; the main task      *)
(* waits for either reader to end, aborts the other one, gives up its own  *)
(* sender and waits for the writer.  A step of a task ends at an await.    *)
(***************************************************************************)
EXTENDS Integers, Sequences, SequencesExt

CONSTANTS
    Capacity,   \* ws_queue_capacity
    MaxChunks,  \* bound on the chunks the server sends, for TLC
    MaxInputs   \* bound on the messages the browser sends, for TLC

ASSUME CapacityAssumption ==
    Capacity \in Nat \ {0} /\ MaxChunks \in Nat /\ MaxInputs \in Nat

VARIABLES
    server,   \* the server's end of the TCP connection
    sent,     \* chunks the server has sent
    read,     \* chunks the TCP reader has read
    got,      \* data the server was sent
    browser,  \* the browser's end of the WebSocket
    inputs,   \* messages the browser has sent
    wire,     \* those the WebSocket reader has not read
    received, \* messages the browser was sent
    channel,  \* the outbound channel
    reader,   \* the TCP reader: where it is, and the message it is sending
    input,    \* the WebSocket reader, likewise
    writer,   \* the WebSocket writer, likewise
    main,     \* the main task
    failed    \* history: a write to the server has failed

vars == <<server, sent, read, got, browser, inputs, wire, received, channel,
          reader, input, writer, main, failed>>
outside == <<server, sent, browser, inputs>>

Chunk(n) == [kind |-> "data", n |-> n]
Goodbye == [kind |-> "goodbye", n |-> 0]
Close == [kind |-> "close", n |-> 0]
Ping == [kind |-> "ping", n |-> 0]
Pong == [kind |-> "pong", n |-> 0]

At(place, message) == [at |-> place, message |-> message]
Idle(place) == At(place, Close)
Ended(task) == task.at \in {"done", "aborted"}

\* The senders of the channel still alive.
SenderAlive == ~Ended(reader) \/ ~Ended(input) \/ main = "select"
ReceiverAlive == ~Ended(writer)

\* A task sends on the channel: it waits for room, and fails when the receiver
\* is gone.
CanSend == Len(channel) < Capacity \/ ~ReceiverAlive
SendOn(message) ==
    channel' = IF ReceiverAlive THEN Append(channel, message) ELSE channel

-----------------------------------------------------------------------------
\* Faulty forms of actions defined below.

\* A chunk that finds the channel full is dropped.
ReaderTrySend ==
    /\ reader.at = "send"
    /\ channel' = IF ReceiverAlive /\ Len(channel) < Capacity
                  THEN Append(channel, reader.message) ELSE channel
    /\ reader' = Idle("read")
    /\ UNCHANGED <<outside, read, got, wire, received, input, writer, main, failed>>

\* The writer is aborted with the readers.
JoinAbortingWriter ==
    /\ main = "join"
    /\ writer' = Idle("aborted") /\ channel' = <<>>
    /\ main' = "done"
    /\ UNCHANGED <<outside, read, got, wire, received, reader, input, failed>>

\* The main task keeps its sender while it waits.
WriterEndsLate ==
    /\ writer.at = "recv" /\ channel = <<>>
    /\ ~SenderAlive /\ main = "done"
    /\ writer' = Idle("done")
    /\ UNCHANGED <<outside, read, got, wire, received, channel, reader, input, main, failed>>

\* The other reader is left to itself.
AbortNeither ==
    /\ main = "select" /\ (Ended(reader) \/ Ended(input))
    /\ main' = "join"
    /\ UNCHANGED <<outside, read, got, wire, received, channel, reader, input, writer, failed>>


-----------------------------------------------------------------------------
Init ==
    /\ server = "open" /\ sent = 0 /\ read = 0 /\ got = <<>>
    /\ browser = "open" /\ inputs = 0 /\ wire = <<>> /\ received = <<>>
    /\ channel = <<>>
    /\ reader = Idle("read") /\ input = Idle("read") /\ writer = Idle("recv")
    /\ main = "select" /\ failed = FALSE

-----------------------------------------------------------------------------
\* The two ends.

ServerSends ==
    /\ server = "open" /\ sent < MaxChunks
    /\ sent' = sent + 1
    /\ UNCHANGED <<server, read, got, browser, inputs, wire, received, channel,
                   reader, input, writer, main, failed>>

ServerEnds(how) ==
    /\ server = "open"
    /\ server' = how
    /\ UNCHANGED <<sent, read, got, browser, inputs, wire, received, channel,
                   reader, input, writer, main, failed>>

BrowserSends(message) ==
    /\ browser = "open" /\ inputs < MaxInputs
    /\ inputs' = inputs + 1
    /\ wire' = Append(wire, message)
    /\ UNCHANGED <<server, sent, read, got, browser, received, channel, reader,
                   input, writer, main, failed>>

\* A Close frame, or the connection breaks.
BrowserEnds(how) ==
    /\ browser = "open"
    /\ browser' = how
    /\ wire' = IF how = "closing" THEN Append(wire, Close) ELSE wire
    /\ UNCHANGED <<server, sent, read, got, inputs, received, channel, reader,
                   input, writer, main, failed>>

Outside ==
    \/ ServerSends \/ ServerEnds("closed") \/ ServerEnds("reset")
    \/ BrowserSends(Ping) \/ BrowserSends(Chunk(inputs + 1))
    \/ BrowserEnds("closing") \/ BrowserEnds("gone")

-----------------------------------------------------------------------------
\* tcp_reader_task: read a chunk and send it; at the end of the stream, or at an
\* error, send the goodbye and the Close.

ReaderReads ==
    /\ reader.at = "read" /\ server # "reset" /\ read < sent
    /\ read' = read + 1
    /\ reader' = At("send", Chunk(read + 1))
    /\ UNCHANGED <<outside, got, wire, received, channel, input, writer, main, failed>>

ReaderFindsEnd ==
    /\ reader.at = "read"
    /\ server = "reset" \/ (server = "closed" /\ read = sent)
    /\ reader' = At("goodbye", Goodbye)
    /\ UNCHANGED <<outside, read, got, wire, received, channel, input, writer, main, failed>>

\* Only a chunk that cannot be sent ends the task at once.
ReaderSends ==
    /\ reader.at \in {"send", "goodbye", "close"} /\ CanSend
    /\ SendOn(reader.message)
    /\ reader' = CASE reader.at = "goodbye" -> At("close", Close)
                   [] reader.at = "send" /\ ReceiverAlive -> Idle("read")
                   [] OTHER -> Idle("done")
    /\ UNCHANGED <<outside, read, got, wire, received, input, writer, main, failed>>

Reader == ReaderReads \/ ReaderFindsEnd \/ ReaderSends

-----------------------------------------------------------------------------
\* ws_reader_task: a ping is answered on the channel, anything else is written
\* to the server; a Close, an error or a failed write ends it.

InputReads ==
    /\ input.at = "read" /\ (wire # <<>> \/ browser = "gone")
    /\ LET next == IF wire = <<>> THEN Close ELSE Head(wire)
       IN input' = CASE next = Ping -> At("pong", Pong)
                     [] next = Close -> Idle("done")
                     [] OTHER -> At("write", next)
    /\ wire' = IF wire = <<>> THEN wire ELSE Tail(wire)
    /\ UNCHANGED <<outside, read, got, received, channel, reader, writer, main, failed>>

InputAnswersPing ==
    /\ input.at = "pong" /\ CanSend
    /\ SendOn(Pong)
    /\ input' = Idle("read")
    /\ UNCHANGED <<outside, read, got, wire, received, reader, writer, main, failed>>

\* write_all (an open server reads): once the server has closed, it may still seem to succeed.
InputWrites ==
    /\ input.at = "write"
    /\ \/ /\ server # "reset"
          /\ got' = IF server = "open" THEN Append(got, input.message.n) ELSE got
          /\ input' = Idle("read") /\ UNCHANGED failed
       \/ /\ server # "open"
          /\ input' = Idle("done") /\ failed' = TRUE /\ UNCHANGED got
    /\ UNCHANGED <<outside, read, wire, received, channel, reader, writer, main>>

Input == InputReads \/ InputAnswersPing \/ InputWrites

-----------------------------------------------------------------------------
\* ws_writer: hand each message to the WebSocket until that fails or the last
\* sender is gone and the channel is empty.

WriterTakes ==
    /\ writer.at = "recv" /\ channel # <<>>
    /\ writer' = At("send", Head(channel)) /\ channel' = Tail(channel)
    /\ UNCHANGED <<outside, read, got, wire, received, reader, input, main, failed>>

\* The browser takes the message, and answers a Close with its own.  Nothing can
\* be sent behind a Close, whichever end sent it first.
WriterSends ==
    /\ writer.at = "send"
    /\ browser # "gone" /\ ~Contains(received, Close)
    /\ received' = Append(received, writer.message)
    /\ writer' = Idle("recv")
    /\ IF writer.message = Close /\ browser = "open"
       THEN browser' = "closing" /\ wire' = Append(wire, Close)
       ELSE UNCHANGED <<browser, wire>>
    /\ UNCHANGED <<server, sent, inputs, read, got, channel, reader, input, main, failed>>

WriterFails ==
    /\ writer.at = "send"
    /\ browser # "open" \/ Contains(received, Close)
    /\ writer' = Idle("done") /\ channel' = <<>>
    /\ UNCHANGED <<outside, read, got, wire, received, reader, input, main, failed>>

WriterEnds ==
    /\ writer.at = "recv" /\ channel = <<>> /\ ~SenderAlive
    /\ writer' = Idle("done")
    /\ UNCHANGED <<outside, read, got, wire, received, channel, reader, input, main, failed>>

Writer == WriterTakes \/ WriterSends \/ WriterFails \/ WriterEnds

-----------------------------------------------------------------------------
\* The main task: select!, then abort the other reader at the await where it is
\* and wait for that ...
Abort ==
    /\ main = "select" /\ (Ended(reader) \/ Ended(input))
    /\ reader' = IF Ended(reader) THEN reader ELSE Idle("aborted")
    /\ input' = IF Ended(input) THEN input ELSE Idle("aborted")
    /\ main' = "join"
    /\ UNCHANGED <<outside, read, got, wire, received, channel, writer, failed>>

\* ... drop(outbound_tx), and wait for the writer.
Join ==
    /\ main = "join" /\ Ended(writer)
    /\ main' = "done"
    /\ UNCHANGED <<outside, read, got, wire, received, channel, reader, input, writer, failed>>

Main == Abort \/ Join

-----------------------------------------------------------------------------
Next == Outside \/ Reader \/ Input \/ Writer \/ Main

Spec == Init /\ [][Next]_vars

\* The runtime runs every task that can go on, and the browser reads what it is
\* sent, or its connection breaks.
FairSpec ==
    /\ Spec
    /\ WF_vars(Reader) /\ WF_vars(Input) /\ WF_vars(Writer) /\ WF_vars(Main)

-----------------------------------------------------------------------------
\* Before a data message come all chunks with a smaller number and no other, and
\* no goodbye.
InSequence(s) ==
    \A i \in DOMAIN s : s[i].kind = "data" =>
        /\ \A n \in 1..(s[i].n - 1) : \E j \in 1..(i - 1) : s[j] = Chunk(n)
        /\ \A j \in 1..(i - 1) : s[j].kind = "data" => s[j].n < s[i].n
        /\ \A j \in 1..(i - 1) : s[j] # Goodbye

\* The browser is sent the server's chunks with no gap and in order, although
\* pongs come between them from another task; a goodbye comes only behind them,
\* and nothing behind the Close.  What reaches the server arrives in the order
\* the browser sent it, and once.
StreamsInOrder ==
    /\ InSequence(received)
    /\ \A i \in DOMAIN received : received[i].kind = "data" => received[i].n \in 1..sent
    /\ \A i \in DOMAIN received : received[i] = Close => i = Len(received)
    /\ \A i, j \in DOMAIN got : i < j => got[i] < got[j]

\* When proxy_socket returns, no task of it is left behind.
NothingOutlivesProxy ==
    main = "done" => Ended(reader) /\ Ended(input) /\ Ended(writer)

\* A server that closes in good order is heard to the end: all it sent reaches
\* the browser, then the goodbye and the Close -- unless the browser left, or a
\* write to the server failed first, which aborts the reader.
ServerHeardToTheEnd ==
    server = "closed" ~>
        \/ /\ \A n \in 1..sent : Contains(received, Chunk(n))
           /\ Contains(received, Goodbye) /\ Contains(received, Close)
        \/ browser # "open" /\ ~Contains(received, Close)
        \/ failed

\* Either end leaving ends the proxy: no task waits for ever on a full channel
\* that nobody empties, or on a sender that nobody drops.
ProxyEnds == server # "open" \/ browser # "open" ~> main = "done"
=============================================================================
