-------------------------- MODULE BridgeProxy_proofs --------------------------
(***************************************************************************)
(* Proofs about BridgeProxy, for any capacity of the channel and any       *)
(* number of messages either way.                                          *)
(*                                                                         *)
(* A message for the browser passes the TCP reader, the channel and the    *)
(* writer.  IInv says of every message on that way which ones are ahead of *)
(* it, and the same of the messages for the server.                        *)
(***************************************************************************)
EXTENDS BridgeProxy, SequenceTheorems, TLAPS

-----------------------------------------------------------------------------
(* Sequences, in the form the proofs below use: an index set, and the       *)
(* element at each index.                                                  *)

\* The indices of a sequence, and where its elements come from.
LEMMA SeqIndices ==
    ASSUME NEW S, NEW s \in Seq(S)
    PROVE  /\ Len(s) \in Nat /\ DOMAIN s = 1..Len(s)
           /\ \A i \in DOMAIN s : s[i] \in S
BY LenProperties, ElementOfSeq

\* A sequence with one element appended.
LEMMA Appended ==
    ASSUME NEW S, NEW s \in Seq(S), NEW e \in S
    PROVE  /\ Append(s, e) \in Seq(S)
           /\ Len(Append(s, e)) = Len(s) + 1
           /\ DOMAIN Append(s, e) = 1..(Len(s) + 1)
           /\ \A i \in DOMAIN s : Append(s, e)[i] = s[i]
           /\ Append(s, e)[Len(s) + 1] = e
           /\ \A i \in DOMAIN Append(s, e) : i \in DOMAIN s \/ i = Len(s) + 1
<1>1. Len(s) \in Nat /\ DOMAIN s = 1..Len(s)
    BY SeqIndices
<1>2. /\ Append(s, e) \in Seq(S)
      /\ Len(Append(s, e)) = Len(s) + 1
      /\ \A i \in 1..Len(s) : Append(s, e)[i] = s[i]
      /\ Append(s, e)[Len(s) + 1] = e
    BY AppendProperties
<1>3. DOMAIN Append(s, e) = 1..(Len(s) + 1)
    BY <1>2, SeqIndices
<1> QED
    BY <1>1, <1>2, <1>3

\* A sequence without its head.
LEMMA Beheaded ==
    ASSUME NEW S, NEW s \in Seq(S), s # <<>>
    PROVE  /\ 1 \in DOMAIN s /\ Head(s) = s[1] /\ Head(s) \in S
           /\ Tail(s) \in Seq(S)
           /\ Len(Tail(s)) = Len(s) - 1
           /\ \A i \in DOMAIN Tail(s) : i + 1 \in DOMAIN s /\ Tail(s)[i] = s[i + 1]
           /\ \A i \in DOMAIN s : i = 1 \/ (i - 1 \in DOMAIN Tail(s) /\ Tail(s)[i - 1] = s[i])
<1>1. /\ Len(s) \in Nat \ {0} /\ DOMAIN s = 1..Len(s)
    BY SeqIndices, EmptySeq
<1>2. /\ Head(s) \in S /\ Tail(s) \in Seq(S) /\ Len(Tail(s)) = Len(s) - 1
      /\ \A i \in 1..Len(Tail(s)) : Tail(s)[i] = s[i + 1]
    BY HeadTailProperties
<1>3. DOMAIN Tail(s) = 1..(Len(s) - 1)
    BY <1>2, SeqIndices
<1>4. Head(s) = s[1]
    BY <1>1
<1> QED
    BY <1>1, <1>2, <1>3, <1>4

-----------------------------------------------------------------------------
(* The inductive invariant.                                                *)

Signal == {Goodbye, Close, Ping, Pong}
Message == Signal \cup {Chunk(n) : n \in Nat \ {0}}
Task(places) == [at : places \cup {"done", "aborted"}, message : Message]

Typed ==
    /\ sent \in Nat /\ read \in Nat /\ inputs \in Nat
    /\ got \in Seq(Nat)
    /\ wire \in Seq(Message) /\ received \in Seq(Message) /\ channel \in Seq(Message)
    /\ reader \in Task({"read", "send", "goodbye", "close"})
    /\ input \in Task({"read", "write", "pong"})
    /\ writer \in Task({"recv", "send"})
    /\ main \in {"select", "join", "done"}

Data(m) == m.kind = "data"

\* m may come before k on the way to the browser.
Precedes(m, k) == Data(k) => m # Goodbye /\ (Data(m) => m.n < k.n)

\* The number of the chunk the reader is sending, or will send next.
Coming == IF reader.at = "send" THEN read ELSE read + 1
ReaderIsAtData == reader.at \in {"read", "send"}

\* The reader sends what it has read.
ReaderSendsWhatItRead ==
    /\ read <= sent
    /\ reader.at = "send" => read # 0 /\ reader.message = Chunk(read)
    /\ reader.at = "goodbye" => reader.message = Goodbye
    /\ reader.at = "close" => reader.message = Close

\* No message for the browser overtakes another.
InFlightOrder ==
    /\ \A i, j \in DOMAIN received : i < j => Precedes(received[i], received[j])
    /\ \A i, j \in DOMAIN channel : i < j => Precedes(channel[i], channel[j])
    /\ \A i \in DOMAIN received, j \in DOMAIN channel : Precedes(received[i], channel[j])
    /\ writer.at = "send" =>
        /\ \A i \in DOMAIN received : Precedes(received[i], writer.message)
        /\ \A j \in DOMAIN channel : Precedes(writer.message, channel[j])

\* Everything on its way to the browser may come before m.
AllPrecede(m) ==
    /\ \A i \in DOMAIN received : Precedes(received[i], m)
    /\ \A j \in DOMAIN channel : Precedes(channel[j], m)
    /\ writer.at = "send" => Precedes(writer.message, m)

\* No chunk is missing ahead of another.
Came(n) == \E i \in DOMAIN received : received[i] = Chunk(n)
Held(n) == writer.at = "send" /\ writer.message = Chunk(n)
Queued(n, k) == \E j \in DOMAIN channel : j < k /\ channel[j] = Chunk(n)
OnItsWay(n) == Came(n) \/ Held(n) \/ Queued(n, Len(channel) + 1)

InFlightWhole ==
    /\ \A i \in DOMAIN received : Data(received[i]) =>
        \A n \in 1..(received[i].n - 1) : \E j \in 1..(i - 1) : received[j] = Chunk(n)
    /\ writer.at = "send" /\ Data(writer.message) =>
        \A n \in 1..(writer.message.n - 1) : Came(n)
    /\ \A k \in DOMAIN channel : Data(channel[k]) =>
        \A n \in 1..(channel[k].n - 1) : Came(n) \/ Held(n) \/ Queued(n, k)

\* Every chunk on its way was sent by the server.
WasSent ==
    /\ \A i \in DOMAIN received : Data(received[i]) => received[i].n <= sent
    /\ \A j \in DOMAIN channel : Data(channel[j]) => channel[j].n <= sent
    /\ writer.at = "send" /\ Data(writer.message) => writer.message.n <= sent

CloseIsLast == \A i \in DOMAIN received : received[i] = Close => i = Len(received)

\* What the reader sends next comes behind all that, and closes up to it as long
\* as anyone is listening.
ReaderIsNext ==
    ReaderIsAtData =>
        /\ AllPrecede(Chunk(Coming))
        /\ ReceiverAlive => \A n \in 1..(Coming - 1) : OnItsWay(n)

InFlight == InFlightOrder /\ InFlightWhole /\ WasSent /\ CloseIsLast
Outbound == ReaderSendsWhatItRead /\ InFlight /\ ReaderIsNext

\* The way to the server: a socket's messages, the one being written, and what
\* the server got, in the order the browser sent them.
InboundOrder ==
    /\ \A j \in DOMAIN wire : Data(wire[j]) \/ wire[j] \in {Ping, Close}
    /\ \A i, j \in DOMAIN got : i < j => got[i] < got[j]
    /\ \A i, j \in DOMAIN wire : i < j /\ Data(wire[i]) /\ Data(wire[j]) => wire[i].n < wire[j].n
    /\ \A i \in DOMAIN got, j \in DOMAIN wire : Data(wire[j]) => got[i] < wire[j].n
    /\ input.at = "write" =>
        /\ Data(input.message)
        /\ \A i \in DOMAIN got : got[i] < input.message.n
        /\ \A j \in DOMAIN wire : Data(wire[j]) => input.message.n < wire[j].n
        /\ input.message.n <= inputs
    /\ \A i \in DOMAIN got : got[i] <= inputs
    /\ \A j \in DOMAIN wire : Data(wire[j]) => wire[j].n <= inputs

\* The main task goes on when the tasks it waits for have ended.
MainWaits ==
    /\ main # "select" => Ended(reader) /\ Ended(input)
    /\ main = "done" => Ended(writer)

IInv == Typed /\ Outbound /\ InboundOrder /\ MainWaits

-----------------------------------------------------------------------------
(* The way to the browser.                                                 *)

\* What the kinds of message are, and that chunks differ by their numbers.
LEMMA Messages ==
    /\ \A m \in Message : m.n \in Nat /\ (Data(m) => m.n # 0 /\ m = Chunk(m.n))
    /\ \A n \in Nat \ {0} : Chunk(n) \in Message /\ Data(Chunk(n)) /\ Chunk(n).n = n
    /\ \A n, k : Chunk(n) = Chunk(k) => n = k
    /\ \A m \in Signal : m \in Message /\ ~Data(m) /\ \A n : Chunk(n) # m
    /\ Close \in Signal /\ Goodbye \in Signal /\ Ping \in Signal /\ Pong \in Signal
    /\ \A n : Chunk(n) # Goodbye /\ Chunk(n) # Close /\ Chunk(n) # Ping /\ Chunk(n) # Pong
<1> USE DEF Message, Signal, Chunk, Goodbye, Close, Ping, Pong, Data
<1>1. \A m \in Message : m.n \in Nat /\ (Data(m) => m.n # 0 /\ m = Chunk(m.n))
    OBVIOUS
<1>2. \A n \in Nat \ {0} : Chunk(n) \in Message /\ Data(Chunk(n)) /\ Chunk(n).n = n
    OBVIOUS
<1>3. ASSUME NEW n, NEW k, Chunk(n) = Chunk(k) PROVE n = k
    <2>1. Chunk(n).n = n /\ Chunk(k).n = k
        OBVIOUS
    <2> QED
        BY <1>3, <2>1
<1>4. \A m \in Signal : m \in Message /\ ~Data(m)
    OBVIOUS
<1>5. Close \in Signal /\ Goodbye \in Signal /\ Ping \in Signal /\ Pong \in Signal
    OBVIOUS
<1>6. \A n : Data(Chunk(n))
    OBVIOUS
<1>7. \A m \in Signal : \A n : Chunk(n) # m
    <2> HIDE DEF Signal, Chunk, Data
    <2> QED
        BY <1>4, <1>6
<1> HIDE DEF Message, Signal, Chunk, Goodbye, Close, Ping, Pong, Data
<1> QED
    BY <1>1, <1>2, <1>3, <1>4, <1>5, <1>7

\* The sequences of messages are what they are.
LEMMA LinesTyped ==
    ASSUME Typed
    PROVE  /\ Len(received) \in Nat /\ DOMAIN received = 1..Len(received)
           /\ \A i \in DOMAIN received : received[i] \in Message
           /\ Len(channel) \in Nat /\ DOMAIN channel = 1..Len(channel)
           /\ \A i \in DOMAIN channel : channel[i] \in Message
           /\ Len(wire) \in Nat /\ DOMAIN wire = 1..Len(wire)
           /\ \A i \in DOMAIN wire : wire[i] \in Message
           /\ Len(got) \in Nat /\ DOMAIN got = 1..Len(got)
           /\ \A i \in DOMAIN got : got[i] \in Nat
<1>1. received \in Seq(Message) /\ channel \in Seq(Message) /\ wire \in Seq(Message)
    BY DEF Typed
<1>2. got \in Seq(Nat)
    BY DEF Typed
<1>3. Len(got) \in Nat /\ DOMAIN got = 1..Len(got) /\ \A i \in DOMAIN got : got[i] \in Nat
    BY <1>2, SeqIndices
<1> QED
    BY <1>1, <1>3, SeqIndices

\* A step that leaves the way to the browser alone.
LEMMA OutboundUnchanged ==
    ASSUME Typed, Outbound, UNCHANGED <<received, channel, writer, reader, read>>,
           sent' \in Nat, sent' >= sent
    PROVE  Outbound'
<1>1. ReaderSendsWhatItRead'
    BY DEF Typed, Outbound, ReaderSendsWhatItRead
<1>2. InFlightOrder' /\ InFlightWhole' /\ CloseIsLast'
    BY DEF Outbound, InFlight, InFlightOrder, InFlightWhole, CloseIsLast, Precedes, Came,
        Held, Queued, Data
<1>3. WasSent'
    BY LinesTyped, Messages DEF Typed, Task, Outbound, InFlight, WasSent, Data
<1>4. ReaderIsNext'
    BY DEF Outbound, ReaderIsNext, ReaderIsAtData, AllPrecede, Precedes, Coming,
        ReceiverAlive, Ended, OnItsWay, Came, Held, Queued, Data
<1> QED
    BY <1>1, <1>2, <1>3, <1>4 DEF Outbound, InFlight

\* A message that closes up to those on their way can follow them on the channel.
LEMMA ChannelGrows ==
    ASSUME Typed, InFlight, NEW m \in Message, AllPrecede(m),
           Data(m) => m.n <= sent /\ \A n \in 1..(m.n - 1) : OnItsWay(n),
           channel' = Append(channel, m), UNCHANGED <<received, writer, sent>>
    PROVE  /\ InFlight'
           /\ \A k : AllPrecede(k) /\ Precedes(m, k) => AllPrecede(k)'
           /\ \A n : OnItsWay(n) => OnItsWay(n)'
           /\ \A n : m = Chunk(n) => OnItsWay(n)'
<1>1. /\ DOMAIN channel' = 1..(Len(channel) + 1) /\ Len(channel') = Len(channel) + 1
      /\ \A j \in DOMAIN channel : channel'[j] = channel[j] /\ j \in DOMAIN channel' /\ j < Len(channel) + 1
      /\ channel'[Len(channel) + 1] = m /\ Len(channel) + 1 \in DOMAIN channel'
      /\ \A j \in DOMAIN channel' : j \in DOMAIN channel \/ j = Len(channel) + 1
      /\ Len(channel) \in Nat /\ DOMAIN channel \subseteq Nat /\ DOMAIN channel' \subseteq Nat
    BY Appended, LinesTyped DEF Typed
<1>2. InFlightOrder'
    <2>1. \A i, j \in DOMAIN channel' : i < j => Precedes(channel'[i], channel'[j])
        BY <1>1 DEF InFlight, InFlightOrder, AllPrecede
    <2>2. \A i \in DOMAIN received, j \in DOMAIN channel' : Precedes(received[i], channel'[j])
        BY <1>1 DEF InFlight, InFlightOrder, AllPrecede
    <2>3. writer.at = "send" => \A j \in DOMAIN channel' : Precedes(writer.message, channel'[j])
        BY <1>1 DEF InFlight, InFlightOrder, AllPrecede
    <2> QED
        BY <2>1, <2>2, <2>3 DEF InFlight, InFlightOrder, Precedes, Data
<1>3. \A n, k : Queued(n, k) => Queued(n, k)'
    BY <1>1 DEF Queued
<1>4. \A n : (Came(n) <=> Came(n)') /\ (Held(n) <=> Held(n)')
    BY DEF Came, Held
<1>5. \A n : Queued(n, Len(channel) + 1) => Queued(n, Len(channel) + 2)'
    BY <1>1 DEF Queued
<1>6. \A n : m = Chunk(n) => Queued(n, Len(channel) + 2)'
    BY <1>1 DEF Queued
<1>7. InFlightWhole'
    <2>1. ASSUME NEW k \in DOMAIN channel', Data(channel'[k]), NEW n \in 1..(channel'[k].n - 1)
          PROVE  Came(n)' \/ Held(n)' \/ Queued(n, k)'
        <3>1. CASE k \in DOMAIN channel
            BY <1>1, <1>3, <1>4, <2>1, <3>1 DEF InFlight, InFlightWhole
        <3>2. CASE k = Len(channel) + 1
            BY <1>1, <1>3, <1>4, <2>1, <3>2 DEF OnItsWay
        <3> QED
            BY <1>1, <3>1, <3>2
    <2> QED
        BY <1>4, <2>1 DEF InFlight, InFlightWhole, Data
<1>8. WasSent' /\ CloseIsLast'
    BY <1>1 DEF InFlight, WasSent, CloseIsLast, Data
<1>9. \A k : AllPrecede(k) /\ Precedes(m, k) => AllPrecede(k)'
    BY <1>1 DEF AllPrecede, Precedes, Data
<1>10. \A n : (OnItsWay(n) => OnItsWay(n)') /\ (m = Chunk(n) => OnItsWay(n)')
    BY <1>1, <1>4, <1>5, <1>6 DEF OnItsWay, Queued
<1> QED
    BY <1>2, <1>7, <1>8, <1>9, <1>10 DEF InFlight

\* A chunk is read and waits to be sent.
LEMMA ReaderReadsStep ==
    ASSUME Typed, Outbound, ReaderReads
    PROVE  Outbound'
<1>1. /\ reader.at = "read" /\ read < sent /\ read' = read + 1
      /\ reader' = At("send", Chunk(read + 1))
      /\ UNCHANGED <<sent, received, channel, writer>>
    BY DEF ReaderReads, outside
<1>2. read \in Nat /\ sent \in Nat
    BY DEF Typed
<1>3. Coming = read + 1 /\ Coming' = read + 1 /\ ReaderIsAtData /\ ReaderIsAtData'
    BY <1>1 DEF Coming, ReaderIsAtData, At
<1>4. ReaderSendsWhatItRead'
    BY <1>1, <1>2 DEF Outbound, ReaderSendsWhatItRead, At
<1>5. InFlight'
    BY <1>1 DEF Outbound, InFlight, InFlightOrder, InFlightWhole, WasSent, CloseIsLast,
        Precedes, Came, Held, Queued, Data
<1>6. ReaderIsNext'
    BY <1>1, <1>3 DEF Outbound, ReaderIsNext, AllPrecede, Precedes,
        ReceiverAlive, Ended, OnItsWay, Came, Held, Queued, Data
<1> QED
    BY <1>4, <1>5, <1>6 DEF Outbound

\* The reader leaves the data behind: the stream has ended, or it is aborted.
LEMMA ReaderStops ==
    ASSUME Typed, Outbound,
           reader' \in {reader, At("goodbye", Goodbye), Idle("aborted")},
           UNCHANGED <<received, channel, writer, read, sent>>
    PROVE  Outbound'
<1>1. CASE reader' = reader
    BY <1>1, OutboundUnchanged DEF Typed
<1>2. CASE reader' \in {At("goodbye", Goodbye), Idle("aborted")}
    <2>1. ReaderSendsWhatItRead' /\ ~ReaderIsAtData'
        BY <1>2 DEF Outbound, ReaderSendsWhatItRead, ReaderIsAtData, At, Idle
    <2>2. InFlight'
        BY DEF Outbound, InFlight, InFlightOrder, InFlightWhole, WasSent, CloseIsLast,
            Precedes, Came, Held, Queued, Data
    <2> QED
        BY <2>1, <2>2 DEF Outbound, ReaderIsNext
<1> QED
    BY <1>1, <1>2

\* The reader's message goes on the channel, or is lost with the receiver.
LEMMA ReaderSendsStep ==
    ASSUME Typed, Outbound, ReaderSends
    PROVE  Outbound'
<1>1. /\ reader.at \in {"send", "goodbye", "close"}
      /\ reader' = CASE reader.at = "goodbye" -> At("close", Close)
                     [] reader.at = "send" /\ ReceiverAlive -> Idle("read")
                     [] OTHER -> Idle("done")
      /\ channel' = IF ReceiverAlive THEN Append(channel, reader.message) ELSE channel
      /\ UNCHANGED <<sent, read, received, writer>>
    BY DEF ReaderSends, SendOn, outside
<1>2. read \in Nat /\ sent \in Nat /\ read <= sent
    BY DEF Typed, Outbound, ReaderSendsWhatItRead
<1>3. reader.at = "send" =>
        read \in Nat \ {0} /\ reader.message = Chunk(read) /\ Coming = read
    BY <1>2 DEF Outbound, ReaderSendsWhatItRead, Coming
<1>4. reader.at = "goodbye" => reader.message = Goodbye /\ reader' = At("close", Close)
    BY <1>1 DEF Outbound, ReaderSendsWhatItRead
<1>5. reader.at = "close" => reader.message = Close /\ reader' = Idle("done")
    BY <1>1 DEF Outbound, ReaderSendsWhatItRead
<1>6. reader.at = "send" => reader' = IF ReceiverAlive THEN Idle("read") ELSE Idle("done")
    BY <1>1
<1>7. ReaderSendsWhatItRead'
    BY <1>1, <1>2, <1>4, <1>5, <1>6 DEF ReaderSendsWhatItRead, At, Idle
<1>8. ReaderIsAtData' => reader.at = "send" /\ ReceiverAlive /\ Coming' = read + 1
    BY <1>1, <1>4, <1>5, <1>6 DEF ReaderIsAtData, Coming, At, Idle
<1>9. CASE ReceiverAlive
    <2> DEFINE m == reader.message
    <2>1. m \in Message /\ channel' = Append(channel, m)
        BY <1>1, <1>9 DEF Typed, Task
    <2>2. AllPrecede(m)
        <3>1. CASE reader.at = "send"
            BY <1>3, <3>1 DEF Outbound, ReaderIsNext, ReaderIsAtData
        <3>2. CASE reader.at # "send"
            BY <1>1, <1>4, <1>5, <3>2, Messages DEF AllPrecede, Precedes
        <3> QED
            BY <3>1, <3>2
    <2>3. Data(m) => m.n <= sent /\ \A n \in 1..(m.n - 1) : OnItsWay(n)
        <3>1. CASE reader.at = "send"
            <4>1. m.n = read
                BY <1>3, <3>1, Messages
            <4> QED
                BY <1>2, <1>3, <1>9, <3>1, <4>1 DEF Outbound, ReaderIsNext, ReaderIsAtData
        <3>2. CASE reader.at # "send"
            BY <1>1, <1>4, <1>5, <3>2, Messages
        <3> QED
            BY <3>1, <3>2
    <2>4. /\ InFlight'
          /\ \A k : AllPrecede(k) /\ Precedes(m, k) => AllPrecede(k)'
          /\ \A n : OnItsWay(n) => OnItsWay(n)'
          /\ \A n : m = Chunk(n) => OnItsWay(n)'
        <3> HIDE DEF m
        <3> QED
            BY <1>1, <2>1, <2>2, <2>3, ChannelGrows DEF Outbound
    <2>5. ReaderIsNext'
        <3> SUFFICES ASSUME ReaderIsAtData'
                     PROVE  AllPrecede(Chunk(Coming))' /\ \A n \in 1..(Coming' - 1) : OnItsWay(n)'
            BY DEF ReaderIsNext
        <3>1. reader.at = "send" /\ m = Chunk(read) /\ Coming' = read + 1 /\ Coming = read
            BY <1>3, <1>8
        <3>2. AllPrecede(Chunk(read)) /\ \A n \in 1..(read - 1) : OnItsWay(n)
            BY <1>9, <3>1 DEF Outbound, ReaderIsNext, ReaderIsAtData
        <3>3. AllPrecede(Chunk(read + 1)) /\ Precedes(m, Chunk(read + 1))
            BY <1>2, <1>3, <3>1, <3>2, Messages, LinesTyped
            DEF AllPrecede, Precedes, Typed, Task
        <3>4. \A k : k = Chunk(read + 1) => AllPrecede(k)'
            BY <2>4, <3>3
        <3>5. AllPrecede(Chunk(Coming))'
            BY <3>1, <3>4 DEF AllPrecede, Precedes, Chunk
        <3>6. \A n \in 1..(Coming' - 1) : n \in 1..(read - 1) \/ m = Chunk(n)
            BY <1>2, <3>1
        <3>7. \A n \in 1..(Coming' - 1) : OnItsWay(n)'
            BY <2>4, <3>2, <3>6
        <3> QED
            BY <3>5, <3>7
    <2> QED
        BY <1>7, <2>4, <2>5 DEF Outbound
<1>10. CASE ~ReceiverAlive
    <2>1. InFlight'
        BY <1>1, <1>10 DEF Outbound, InFlight, InFlightOrder, InFlightWhole, WasSent,
            CloseIsLast, Precedes, Came, Held, Queued, Data
    <2> QED
        BY <1>7, <1>8, <1>10, <2>1 DEF Outbound, ReaderIsNext
<1> QED
    BY <1>9, <1>10

\* A pong goes between the reader's messages.
LEMMA PongGoesBetween ==
    ASSUME Typed, Outbound, SendOn(Pong), UNCHANGED <<received, writer, reader, read, sent>>
    PROVE  Outbound'
<1>1. CASE ReceiverAlive
    <2>1. channel' = Append(channel, Pong) /\ Pong \in Message /\ ~Data(Pong) /\ Pong # Goodbye
        BY <1>1, Messages DEF SendOn, Pong, Goodbye
    <2>2. AllPrecede(Pong)
        BY <2>1 DEF AllPrecede, Precedes
    <2>3. \A k : Precedes(Pong, k)
        BY <2>1 DEF Precedes
    <2>4. /\ InFlight'
          /\ \A k : AllPrecede(k) => AllPrecede(k)'
          /\ \A n : OnItsWay(n) => OnItsWay(n)'
        BY <2>1, <2>2, <2>3, ChannelGrows DEF Outbound
    <2>5. ReaderIsNext'
        <3>1. (ReaderIsAtData' <=> ReaderIsAtData) /\ Coming' = Coming /\ (ReceiverAlive' <=> ReceiverAlive)
            BY DEF ReaderIsAtData, Coming, ReceiverAlive, Ended
        <3> QED
            BY <2>4, <3>1 DEF Outbound, ReaderIsNext
    <2>6. ReaderSendsWhatItRead'
        BY DEF Outbound, ReaderSendsWhatItRead
    <2> QED
        BY <2>4, <2>5, <2>6 DEF Outbound
<1>2. CASE ~ReceiverAlive
    BY <1>2, OutboundUnchanged DEF SendOn, Typed
<1> QED
    BY <1>1, <1>2

\* The writer takes the first message from the channel.
LEMMA WriterTakesStep ==
    ASSUME Typed, Outbound, WriterTakes
    PROVE  Outbound'
<1>1. /\ writer.at = "recv" /\ channel # <<>> /\ channel' = Tail(channel)
      /\ writer' = At("send", Head(channel))
      /\ UNCHANGED <<sent, read, received, reader>>
    BY DEF WriterTakes, outside
<1>2. /\ 1 \in DOMAIN channel /\ Head(channel) = channel[1]
      /\ Len(channel') = Len(channel) - 1
      /\ \A i \in DOMAIN channel' : i + 1 \in DOMAIN channel /\ channel'[i] = channel[i + 1]
      /\ \A i \in DOMAIN channel : i = 1 \/ (i - 1 \in DOMAIN channel' /\ channel'[i - 1] = channel[i])
      /\ DOMAIN channel \subseteq Nat /\ DOMAIN channel' = 1..(Len(channel) - 1) /\ Len(channel) \in Nat
    BY <1>1, Beheaded, SeqIndices, LinesTyped DEF Typed
<1>3. writer'.at = "send" /\ writer'.message = channel[1] /\ writer.at # "send"
    BY <1>1, <1>2 DEF At
<1>4. ReaderSendsWhatItRead'
    BY <1>1 DEF Outbound, ReaderSendsWhatItRead
<1>5. InFlightOrder'
    <2>1. /\ \A i, j \in DOMAIN channel' : i < j => Precedes(channel'[i], channel'[j])
          /\ \A i \in DOMAIN received, j \in DOMAIN channel' : Precedes(received[i], channel'[j])
          /\ \A i \in DOMAIN received : Precedes(received[i], channel[1])
          /\ \A j \in DOMAIN channel' : Precedes(channel[1], channel'[j])
        BY <1>2 DEF Outbound, InFlight, InFlightOrder
    <2> QED
        BY <1>1, <1>3, <2>1 DEF Outbound, InFlight, InFlightOrder, Precedes, Data
<1>6. \A n, k : k \in DOMAIN channel' \cup {Len(channel)} =>
        (Came(n) \/ Held(n) \/ Queued(n, k + 1) => (Came(n) \/ Held(n) \/ Queued(n, k))')
    <2> SUFFICES ASSUME NEW n, NEW k \in DOMAIN channel' \cup {Len(channel)}
                 PROVE  Came(n) \/ Held(n) \/ Queued(n, k + 1)
                            => (Came(n) \/ Held(n) \/ Queued(n, k))'
        OBVIOUS
    <2>1. Came(n) => Came(n)'
        BY <1>1 DEF Came
    <2>2. ~Held(n)
        BY <1>3 DEF Held
    <2>3. ASSUME NEW j \in DOMAIN channel, j < k + 1, channel[j] = Chunk(n)
          PROVE  Held(n)' \/ Queued(n, k)'
        <3>1. CASE j = 1
            BY <1>3, <2>3, <3>1 DEF Held
        <3>2. CASE j # 1
            <4>1. j - 1 \in DOMAIN channel' /\ channel'[j - 1] = Chunk(n) /\ j - 1 < k
                BY <1>2, <2>3, <3>2
            <4> QED
                BY <4>1 DEF Queued
        <3> QED
            BY <3>1, <3>2
    <2>4. Queued(n, k + 1) => Held(n)' \/ Queued(n, k)'
        BY <2>3 DEF Queued
    <2> QED
        BY <2>1, <2>2, <2>4
<1>7. InFlightWhole'
    <2>1. \A n : Came(n)' <=> Came(n)
        BY <1>1 DEF Came
    <2>2. Data(channel[1]) => \A n \in 1..(channel[1].n - 1) : Came(n)
        BY <1>2, <1>3 DEF Outbound, InFlight, InFlightWhole, Held, Queued
    <2>3. ASSUME NEW k \in DOMAIN channel', Data(channel'[k])
          PROVE  \A n \in 1..(channel'[k].n - 1) : (Came(n) \/ Held(n) \/ Queued(n, k))'
        BY <1>2, <1>6, <2>3 DEF Outbound, InFlight, InFlightWhole
    <2> QED
        BY <1>1, <1>3, <2>1, <2>2, <2>3 DEF Outbound, InFlight, InFlightWhole, Data
<1>8. WasSent' /\ CloseIsLast'
    BY <1>1, <1>2, <1>3 DEF Outbound, InFlight, WasSent, CloseIsLast, Data
<1>9. ReaderIsNext'
    <2>1. /\ ReaderIsAtData' <=> ReaderIsAtData
          /\ Coming' = Coming /\ ReceiverAlive
        BY <1>1 DEF ReaderIsAtData, Coming, ReceiverAlive, Ended
    <2>2. \A k : AllPrecede(k) => AllPrecede(k)'
        BY <1>1, <1>2, <1>3 DEF AllPrecede, Precedes, Data
    <2>3. \A n : OnItsWay(n) => OnItsWay(n)'
        BY <1>2, <1>6 DEF OnItsWay, Queued
    <2>4. ReaderIsAtData => AllPrecede(Chunk(Coming))'
        <3>1. \A k : k = Chunk(Coming) /\ ReaderIsAtData => AllPrecede(k)'
            BY <2>2 DEF Outbound, ReaderIsNext
        <3> QED
            BY <2>1, <3>1 DEF AllPrecede, Precedes, Chunk
    <2> QED
        BY <2>1, <2>3, <2>4 DEF Outbound, ReaderIsNext
<1> QED
    BY <1>4, <1>5, <1>7, <1>8, <1>9 DEF Outbound, InFlight

\* The message the writer has reaches the browser, behind all that came.
LEMMA WriterSendsStep ==
    ASSUME Typed, Outbound, WriterSends
    PROVE  Outbound'
<1> DEFINE m == writer.message
<1>1. /\ writer.at = "send" /\ ~Contains(received, Close)
      /\ received' = Append(received, m) /\ writer' = Idle("recv")
      /\ UNCHANGED <<sent, read, channel, reader>>
    BY DEF WriterSends
<1>2. m \in Message
    BY DEF Typed, Task
<1>3. /\ DOMAIN received' = 1..(Len(received) + 1) /\ Len(received') = Len(received) + 1
      /\ \A j \in DOMAIN received : received'[j] = received[j] /\ j \in DOMAIN received' /\ j < Len(received) + 1
      /\ received'[Len(received) + 1] = m /\ Len(received) + 1 \in DOMAIN received'
      /\ \A j \in DOMAIN received' : j \in DOMAIN received \/ j = Len(received) + 1
      /\ Len(received) \in Nat /\ DOMAIN received = 1..Len(received)
    BY <1>1, <1>2, Appended, LinesTyped DEF Typed
<1>4. writer'.at # "send" /\ (ReceiverAlive <=> ReceiverAlive')
    BY <1>1 DEF Idle, At, ReceiverAlive, Ended
<1> HIDE DEF m
<1>5. ReaderSendsWhatItRead'
    BY <1>1 DEF Outbound, ReaderSendsWhatItRead
<1>6. InFlightOrder'
    <2>1. /\ \A i, j \in DOMAIN received' : i < j => Precedes(received'[i], received'[j])
          /\ \A i \in DOMAIN received', j \in DOMAIN channel : Precedes(received'[i], channel[j])
        BY <1>1, <1>3 DEF Outbound, InFlight, InFlightOrder, m
    <2> QED
        BY <1>1, <1>4, <2>1 DEF Outbound, InFlight, InFlightOrder, Precedes, Data
<1>7. /\ \A n : Came(n) \/ Held(n) => Came(n)'
      /\ \A n, k : Queued(n, k) <=> Queued(n, k)'
    BY <1>1, <1>3 DEF Came, Held, Queued, m
<1>8. InFlightWhole'
    <2>1. ASSUME NEW i \in DOMAIN received', Data(received'[i]), NEW n \in 1..(received'[i].n - 1)
          PROVE  \E j \in 1..(i - 1) : received'[j] = Chunk(n)
        <3>1. CASE i \in DOMAIN received
            <4>1. PICK j \in 1..(i - 1) : received[j] = Chunk(n)
                BY <1>3, <2>1, <3>1 DEF Outbound, InFlight, InFlightWhole
            <4>2. j \in DOMAIN received
                BY <1>3, <3>1
            <4> QED
                BY <1>3, <4>1, <4>2
        <3>2. CASE i = Len(received) + 1
            <4>1. PICK j \in DOMAIN received : received[j] = Chunk(n)
                BY <1>1, <1>3, <2>1, <3>2 DEF Outbound, InFlight, InFlightWhole, Came, m
            <4> QED
                BY <1>3, <3>2, <4>1
        <3> QED
            BY <1>3, <3>1, <3>2
    <2>2. ASSUME NEW k \in DOMAIN channel, Data(channel[k])
          PROVE  \A n \in 1..(channel[k].n - 1) : (Came(n) \/ Held(n) \/ Queued(n, k))'
        BY <1>7, <2>2 DEF Outbound, InFlight, InFlightWhole
    <2> QED
        BY <1>1, <1>4, <2>1, <2>2 DEF InFlightWhole, Data
<1>9. WasSent'
    BY <1>1, <1>3, <1>4 DEF Outbound, InFlight, WasSent, Data, m
<1>10. CloseIsLast'
    <2>1. \A i \in DOMAIN received : received[i] # Close
        BY <1>1, <1>3 DEF Contains
    <2> QED
        BY <1>3, <2>1 DEF CloseIsLast, Close
<1>11. ReaderIsNext'
    <2>1. /\ ReaderIsAtData' <=> ReaderIsAtData
          /\ Coming' = Coming
        BY <1>1 DEF ReaderIsAtData, Coming
    <2>2. \A k : AllPrecede(k) => AllPrecede(k)'
        BY <1>1, <1>3, <1>4 DEF AllPrecede, Precedes, Data, m
    <2>3. \A n : OnItsWay(n) => OnItsWay(n)'
        BY <1>1, <1>7 DEF OnItsWay, Queued
    <2>4. ReaderIsAtData => AllPrecede(Chunk(Coming))'
        <3>1. \A k : k = Chunk(Coming) /\ ReaderIsAtData => AllPrecede(k)'
            BY <2>2 DEF Outbound, ReaderIsNext
        <3> QED
            BY <2>1, <3>1 DEF AllPrecede, Precedes, Chunk
    <2> QED
        BY <1>4, <2>1, <2>3, <2>4 DEF Outbound, ReaderIsNext
<1> QED
    BY <1>5, <1>6, <1>8, <1>9, <1>10, <1>11 DEF Outbound, InFlight

\* The writer ends, and what is still on the channel is dropped with it.
LEMMA WriterStops ==
    ASSUME Typed, Outbound, channel' = <<>>, writer' = Idle("done"),
           UNCHANGED <<received, reader, read, sent>>
    PROVE  Outbound'
<1>1. DOMAIN channel' = {} /\ writer'.at = "done" /\ ~ReceiverAlive'
    BY EmptySeq, SeqIndices DEF Idle, At, ReceiverAlive, Ended
<1>2. ReaderSendsWhatItRead'
    BY DEF Outbound, ReaderSendsWhatItRead
<1>3. InFlightOrder' /\ InFlightWhole' /\ WasSent' /\ CloseIsLast'
    BY <1>1 DEF Outbound, InFlight, InFlightOrder, InFlightWhole, WasSent, CloseIsLast,
        Precedes, Data
<1>4. ReaderIsNext'
    BY <1>1 DEF Outbound, ReaderIsNext, ReaderIsAtData, AllPrecede, Coming, Precedes, Data
<1> QED
    BY <1>2, <1>3, <1>4 DEF Outbound, InFlight

-----------------------------------------------------------------------------
(* The way to the server.                                                  *)

\* The browser's next message carries a greater number than all before it.
LEMMA WireGrows ==
    ASSUME Typed, InboundOrder, NEW m \in Message, wire' = Append(wire, m),
           inputs' \in Nat, inputs' >= inputs, Data(m) => m.n = inputs + 1 /\ inputs' = inputs + 1,
           Data(m) \/ m \in {Ping, Close},
           UNCHANGED <<got, input>>
    PROVE  InboundOrder'
<1>1. /\ DOMAIN wire' = 1..(Len(wire) + 1)
      /\ \A j \in DOMAIN wire : wire'[j] = wire[j] /\ j < Len(wire) + 1
      /\ wire'[Len(wire) + 1] = m
      /\ \A j \in DOMAIN wire' : j \in DOMAIN wire \/ j = Len(wire) + 1
      /\ DOMAIN wire' \subseteq Nat /\ Len(wire) \in Nat
    BY Appended, LinesTyped DEF Typed
<1>2. inputs \in Nat /\ m.n \in Nat /\ \A i \in DOMAIN got : got[i] \in Nat
    BY Messages, LinesTyped DEF Typed
<1>3. \A j \in DOMAIN wire : wire[j].n \in Nat
    BY Messages, LinesTyped
<1>4. input.message.n \in Nat
    BY Messages DEF Typed, Task
<1>5. \A i, j \in DOMAIN wire' : i < j /\ Data(wire'[i]) /\ Data(wire'[j]) => wire'[i].n < wire'[j].n
    BY <1>1, <1>2, <1>3 DEF InboundOrder
<1>6. \A i \in DOMAIN got, j \in DOMAIN wire' : Data(wire'[j]) => got[i] < wire'[j].n
    BY <1>1, <1>2 DEF InboundOrder
<1>7. input.at = "write" => \A j \in DOMAIN wire' : Data(wire'[j]) => input.message.n < wire'[j].n
    BY <1>1, <1>2, <1>4 DEF InboundOrder
<1>8. \A j \in DOMAIN wire' : Data(wire'[j]) => wire'[j].n <= inputs'
    BY <1>1, <1>2, <1>3 DEF InboundOrder
<1>9. /\ input.at = "write" => input.message.n <= inputs'
      /\ \A i \in DOMAIN got : got[i] <= inputs'
    BY <1>2, <1>4 DEF InboundOrder
<1>10. \A j \in DOMAIN wire' : Data(wire'[j]) \/ wire'[j] \in {Ping, Close}
    BY <1>1 DEF InboundOrder
<1> QED
    BY <1>5, <1>6, <1>7, <1>8, <1>9, <1>10 DEF InboundOrder, Data, Ping, Close

\* A step that leaves the way to the server alone, or takes the reader off a message.
LEMMA InboundUnchanged ==
    ASSUME Typed, InboundOrder, UNCHANGED <<got, wire, inputs>>,
           input' = input \/ input'.at # "write"
    PROVE  InboundOrder'
BY DEF InboundOrder, Data, Ping, Close

\* The reader of the socket takes the first message.
LEMMA InputReadsStep ==
    ASSUME Typed, InboundOrder, InputReads
    PROVE  InboundOrder'
<1>1. UNCHANGED <<got, inputs>> /\ input.at = "read"
    BY DEF InputReads, outside
<1>2. CASE wire = <<>>
    BY <1>1, <1>2, InboundUnchanged, Messages DEF InputReads, Close, Ping, Idle, At
<1>3. CASE wire # <<>>
    <2>1. /\ 1 \in DOMAIN wire /\ Head(wire) = wire[1] /\ wire' = Tail(wire)
          /\ \A i \in DOMAIN wire' : i + 1 \in DOMAIN wire /\ wire'[i] = wire[i + 1]
          /\ DOMAIN wire \subseteq Nat /\ DOMAIN wire' \subseteq Nat /\ \A i \in DOMAIN wire' : 1 < i + 1
        BY <1>3, Beheaded, SeqIndices DEF Typed, InputReads
    <2>2. input'.at = "write" => input'.message = wire[1] /\ wire[1] # Ping /\ wire[1] # Close
        BY <1>3, <2>1 DEF InputReads, Idle, At
    <2>3. /\ \A i, j \in DOMAIN wire' : i < j /\ Data(wire'[i]) /\ Data(wire'[j]) => wire'[i].n < wire'[j].n
          /\ \A i \in DOMAIN got, j \in DOMAIN wire' : Data(wire'[j]) => got[i] < wire'[j].n
          /\ \A j \in DOMAIN wire' : Data(wire'[j]) => wire'[j].n <= inputs
        BY <2>1 DEF InboundOrder
    <2>4. Data(wire[1]) =>
            /\ \A i \in DOMAIN got : got[i] < wire[1].n
            /\ \A j \in DOMAIN wire' : Data(wire'[j]) => wire[1].n < wire'[j].n
            /\ wire[1].n <= inputs
        BY <2>1 DEF InboundOrder
    <2>5. input'.at = "write" => Data(wire[1])
        BY <2>1, <2>2 DEF InboundOrder
    <2> QED
        BY <1>1, <2>1, <2>2, <2>3, <2>4, <2>5 DEF InboundOrder, Data, Ping, Close
<1> QED
    BY <1>2, <1>3

\* The reader of the socket writes its message to the server, or fails to.
LEMMA InputWritesStep ==
    ASSUME Typed, InboundOrder, InputWrites
    PROVE  InboundOrder'
<1>1. /\ input.at = "write" /\ input' \in {Idle("read"), Idle("done")}
      /\ got' = Append(got, input.message.n) \/ got' = got
      /\ UNCHANGED <<wire, inputs>>
    BY DEF InputWrites, outside
<1>2. input'.at # "write"
    BY <1>1 DEF Idle, At
<1>3. CASE got' = got
    BY <1>1, <1>2, <1>3, InboundUnchanged
<1>4. CASE got' = Append(got, input.message.n)
    <2>1. input.message.n \in Nat
        BY Messages DEF Typed, Task
    <2>2. /\ \A i \in DOMAIN got : got'[i] = got[i] /\ i < Len(got) + 1
          /\ got'[Len(got) + 1] = input.message.n
          /\ \A i \in DOMAIN got' : i \in DOMAIN got \/ i = Len(got) + 1
          /\ DOMAIN got' \subseteq Nat /\ Len(got) \in Nat
        <3>1. got \in Seq(Nat)
            BY DEF Typed
        <3>2. /\ DOMAIN got' = 1..(Len(got) + 1)
              /\ \A i \in DOMAIN got : got'[i] = got[i]
              /\ got'[Len(got) + 1] = input.message.n
              /\ \A i \in DOMAIN got' : i \in DOMAIN got \/ i = Len(got) + 1
            BY <1>4, <2>1, <3>1, Appended
        <3>3. Len(got) \in Nat /\ DOMAIN got = 1..Len(got)
            BY <3>1, SeqIndices
        <3> QED
            BY <3>2, <3>3
    <2>3. \A i, j \in DOMAIN got' : i < j => got'[i] < got'[j]
        BY <1>1, <2>2 DEF InboundOrder
    <2>4. /\ \A i \in DOMAIN got', j \in DOMAIN wire : Data(wire[j]) => got'[i] < wire[j].n
          /\ \A i \in DOMAIN got' : got'[i] <= inputs
        BY <1>1, <2>2 DEF InboundOrder
    <2> QED
        BY <1>1, <1>2, <2>3, <2>4 DEF InboundOrder, Data, Ping, Close
<1> QED
    BY <1>1, <1>3, <1>4

-----------------------------------------------------------------------------
(* Theorems.                                                               *)

\* What a task may be at.
LEMMA Places ==
    /\ \A m \in Message :
        /\ At("send", m) \in Task({"read", "send", "goodbye", "close"})
        /\ At("send", m) \in Task({"recv", "send"})
        /\ At("write", m) \in Task({"read", "write", "pong"})
    /\ At("goodbye", Goodbye) \in Task({"read", "send", "goodbye", "close"})
    /\ At("close", Close) \in Task({"read", "send", "goodbye", "close"})
    /\ At("pong", Pong) \in Task({"read", "write", "pong"})
    /\ Idle("read") \in Task({"read", "send", "goodbye", "close"})
    /\ Idle("read") \in Task({"read", "write", "pong"})
    /\ Idle("recv") \in Task({"recv", "send"})
    /\ \A places : Idle("done") \in Task(places) /\ Idle("aborted") \in Task(places)
BY Messages DEF At, Idle, Task

\* Every step keeps the types.
LEMMA StepTyped == Typed /\ Next => Typed'
<1> SUFFICES ASSUME Typed, Next PROVE Typed'
    OBVIOUS
<1> USE Places, Messages
<1>1. CASE ServerSends \/ ServerEnds("closed") \/ ServerEnds("reset")
    BY <1>1 DEF Typed, ServerSends, ServerEnds
<1>2. ASSUME NEW m \in Message, BrowserSends(m)
      PROVE  Typed'
    <2>1. Append(wire, m) \in Seq(Message)
        BY Appended DEF Typed
    <2> QED
        BY <1>2, <2>1 DEF Typed, BrowserSends
<1>3. CASE BrowserEnds("closing") \/ BrowserEnds("gone")
    <2>1. Append(wire, Close) \in Seq(Message)
        BY Appended DEF Typed
    <2> QED
        BY <1>3, <2>1 DEF Typed, BrowserEnds
<1>4. CASE ReaderReads \/ ReaderFindsEnd
    <2>1. Chunk(read + 1) \in Message
        BY DEF Typed
    <2> QED
        BY <1>4, <2>1 DEF Typed, ReaderReads, ReaderFindsEnd, outside
<1>5. CASE ReaderSends
    <2>1. reader.message \in Message
        BY DEF Typed, Task
    <2>2. Append(channel, reader.message) \in Seq(Message)
        BY <2>1, Appended DEF Typed
    <2>3. reader' \in Task({"read", "send", "goodbye", "close"})
        BY <1>5 DEF ReaderSends
    <2>4. channel' \in Seq(Message)
        BY <1>5, <2>2 DEF ReaderSends, SendOn, Typed
    <2>5. UNCHANGED <<sent, read, inputs, got, wire, received, input, writer, main>>
        BY <1>5 DEF ReaderSends, outside
    <2> QED
        BY <2>3, <2>4, <2>5 DEF Typed
<1>6. CASE InputReads
    <2>1. wire' \in Seq(Message)
        BY <1>6, Beheaded DEF Typed, InputReads
    <2>2. input' \in Task({"read", "write", "pong"})
        <3>1. wire # <<>> => Head(wire) \in Message
            BY Beheaded DEF Typed
        <3> QED
            BY <1>6, <3>1 DEF InputReads
    <2>3. UNCHANGED <<sent, read, inputs, got, received, channel, reader, writer, main>>
        BY <1>6 DEF InputReads, outside
    <2> QED
        BY <2>1, <2>2, <2>3 DEF Typed
<1>7. CASE InputAnswersPing
    <2>1. Append(channel, Pong) \in Seq(Message)
        BY Appended DEF Typed
    <2> QED
        BY <1>7, <2>1 DEF Typed, InputAnswersPing, SendOn, outside
<1>8. CASE InputWrites
    <2>1. input.message.n \in Nat
        BY DEF Typed, Task
    <2>2. Append(got, input.message.n) \in Seq(Nat)
        BY <2>1, Appended DEF Typed
    <2>3. /\ got' = Append(got, input.message.n) \/ got' = got
          /\ input' \in {Idle("read"), Idle("done")}
          /\ UNCHANGED <<sent, read, inputs, wire, received, channel, reader, writer, main>>
        BY <1>8 DEF InputWrites, outside
    <2>4. got' \in Seq(Nat)
        BY <2>2, <2>3 DEF Typed
    <2> QED
        BY <2>3, <2>4 DEF Typed
<1>9. CASE WriterTakes
    <2>1. Head(channel) \in Message /\ Tail(channel) \in Seq(Message)
        BY <1>9, Beheaded DEF Typed, WriterTakes
    <2> QED
        BY <1>9, <2>1 DEF Typed, WriterTakes, outside
<1>10. CASE WriterSends
    <2>1. writer.message \in Message
        BY DEF Typed, Task
    <2>2. Append(received, writer.message) \in Seq(Message) /\ Append(wire, Close) \in Seq(Message)
        BY <2>1, Appended DEF Typed
    <2> QED
        BY <1>10, <2>2 DEF Typed, WriterSends
<1>11. CASE WriterFails \/ WriterEnds
    <2>1. <<>> \in Seq(Message)
        BY EmptySeq
    <2> QED
        BY <1>11, <2>1 DEF Typed, WriterFails, WriterEnds, outside
<1>12. CASE Abort \/ Join
    BY <1>12 DEF Typed, Abort, Join, outside
<1>13. Chunk(inputs + 1) \in Message
    BY DEF Typed
<1> QED
    BY <1>1, <1>2, <1>3, <1>4, <1>5, <1>6, <1>7, <1>8, <1>9, <1>10, <1>11, <1>12, <1>13
    DEF Next, Outside, Reader, Input, Writer, Main

\* The invariant holds at the start and through every step.
LEMMA InitInvariant == Init => IInv
<1> SUFFICES ASSUME Init PROVE IInv
    OBVIOUS
<1>1. <<>> \in Seq(Message) /\ <<>> \in Seq(Nat)
    BY EmptySeq
<1>2. Typed
    BY <1>1, Places DEF Init, Typed
<1>3. Outbound
    BY DEF Init, Outbound, ReaderSendsWhatItRead, InFlight, InFlightOrder, InFlightWhole,
        WasSent, CloseIsLast, ReaderIsNext, AllPrecede, Coming, Idle, At
<1>4. InboundOrder /\ MainWaits
    BY DEF Init, InboundOrder, MainWaits, Idle, At
<1> QED
    BY <1>2, <1>3, <1>4 DEF IInv

LEMMA StepOutbound == Typed /\ Outbound /\ Next => Outbound'
<1> SUFFICES ASSUME Typed, Outbound, Next PROVE Outbound'
    OBVIOUS
<1>1. CASE Outside \/ InputReads \/ InputWrites \/ Join
    <2>1. UNCHANGED <<received, channel, writer, reader, read>> /\ sent' \in {sent, sent + 1}
        BY <1>1 DEF Outside, ServerSends, ServerEnds, BrowserSends, BrowserEnds, InputReads,
            InputWrites, Join, outside
    <2> QED
        BY <2>1, OutboundUnchanged DEF Typed
<1>2. CASE ReaderFindsEnd \/ Abort
    BY <1>2, ReaderStops DEF ReaderFindsEnd, Abort, outside
<1>3. CASE InputAnswersPing
    BY <1>3, PongGoesBetween DEF InputAnswersPing, outside
<1>4. CASE WriterFails \/ WriterEnds
    BY <1>4, WriterStops DEF WriterFails, WriterEnds, outside
<1> QED
    BY <1>1, <1>2, <1>3, <1>4, ReaderReadsStep, ReaderSendsStep, WriterTakesStep,
        WriterSendsStep
    DEF Next, Reader, Input, Writer, Main

LEMMA StepInbound == Typed /\ InboundOrder /\ Next => InboundOrder'
<1> SUFFICES ASSUME Typed, InboundOrder, Next PROVE InboundOrder'
    OBVIOUS
<1>1. inputs \in Nat
    BY DEF Typed
<1>2. CASE BrowserSends(Ping)
    BY <1>1, <1>2, WireGrows, Messages DEF BrowserSends
<1>3. CASE BrowserSends(Chunk(inputs + 1))
    BY <1>1, <1>3, WireGrows, Messages DEF BrowserSends
<1>4. ASSUME wire' = Append(wire, Close), UNCHANGED <<got, input, inputs>>
      PROVE  InboundOrder'
    BY <1>1, <1>4, WireGrows, Messages
<1>5. CASE BrowserEnds("closing") \/ BrowserEnds("gone") \/ WriterSends
    BY <1>4, <1>5, InboundUnchanged DEF BrowserEnds, WriterSends
<1>6. CASE ServerSends \/ ServerEnds("closed") \/ ServerEnds("reset") \/ Reader
           \/ WriterTakes \/ WriterFails \/ WriterEnds \/ Join
    BY <1>6, InboundUnchanged DEF ServerSends, ServerEnds, Reader, ReaderReads, ReaderFindsEnd,
        ReaderSends, WriterTakes, WriterFails, WriterEnds, Join, outside
<1>7. CASE InputAnswersPing \/ Abort
    BY <1>7, InboundUnchanged DEF InputAnswersPing, Abort, Idle, At, outside
<1> QED
    BY <1>2, <1>3, <1>5, <1>6, <1>7, InputReadsStep, InputWritesStep
    DEF Next, Outside, Input, Writer, Main

\* Tasks that have ended stay ended, and the main task waits for them.
LEMMA StepMain == Typed /\ MainWaits /\ Next => MainWaits'
<1> SUFFICES ASSUME Typed, MainWaits, Next PROVE MainWaits'
    OBVIOUS
<1>1. CASE Outside
    BY <1>1 DEF Outside, ServerSends, ServerEnds, BrowserSends, BrowserEnds, MainWaits, Ended
<1>2. CASE Reader
    BY <1>2 DEF Reader, ReaderReads, ReaderFindsEnd, ReaderSends, MainWaits, Ended
<1>3. CASE Input
    BY <1>3 DEF Input, InputReads, InputAnswersPing, InputWrites, MainWaits, Ended
<1>4. CASE Writer
    BY <1>4 DEF Writer, WriterTakes, WriterSends, WriterFails, WriterEnds, MainWaits, Ended
<1>5. CASE Abort
    BY <1>5 DEF Abort, MainWaits, Ended, Idle, At
<1>6. CASE Join
    BY <1>6 DEF Join, MainWaits, Ended
<1> QED
    BY <1>1, <1>2, <1>3, <1>4, <1>5, <1>6 DEF Next, Main

LEMMA StepInvariant == IInv /\ [Next]_vars => IInv'
<1> SUFFICES ASSUME IInv, [Next]_vars PROVE IInv'
    OBVIOUS
<1>1. CASE Next
    BY <1>1, StepTyped, StepOutbound, StepInbound, StepMain DEF IInv
<1>2. CASE UNCHANGED vars
    <2>1. Typed' /\ MainWaits'
        BY <1>2 DEF IInv, Typed, MainWaits, Ended, vars
    <2>2. Outbound' /\ InboundOrder'
        BY <1>2, OutboundUnchanged, InboundUnchanged DEF IInv, Typed, vars
    <2> QED
        BY <2>1, <2>2 DEF IInv
<1> QED
    BY <1>1, <1>2

LEMMA Invariant == Spec => []IInv
BY InitInvariant, StepInvariant, PTL DEF Spec

\* The browser is sent a prefix of the server's chunks, in order and whole, a
\* goodbye only behind them and nothing behind the Close; and the server gets the
\* browser's messages in order.
THEOREM ProxyKeepsOrder == Spec => []StreamsInOrder
<1>1. IInv => StreamsInOrder
    <2> SUFFICES ASSUME IInv PROVE StreamsInOrder
        OBVIOUS
    <2>1. InSequence(received)
        <3> SUFFICES ASSUME NEW i \in DOMAIN received, Data(received[i])
                     PROVE  /\ \A n \in 1..(received[i].n - 1) : \E j \in 1..(i - 1) : received[j] = Chunk(n)
                            /\ \A j \in 1..(i - 1) : received[j].kind = "data" => received[j].n < received[i].n
                            /\ \A j \in 1..(i - 1) : received[j] # Goodbye
            BY DEF InSequence, Data
        <3>1. \A n \in 1..(received[i].n - 1) : \E j \in 1..(i - 1) : received[j] = Chunk(n)
            BY DEF IInv, Outbound, InFlight, InFlightWhole
        <3>2. ASSUME NEW j \in 1..(i - 1)
              PROVE  Precedes(received[j], received[i])
            <4>1. j \in DOMAIN received /\ j < i
                BY LinesTyped DEF IInv
            <4> QED
                BY <4>1 DEF IInv, Outbound, InFlight, InFlightOrder
        <3> QED
            BY <3>1, <3>2 DEF Precedes, Data
    <2>2. \A i \in DOMAIN received : received[i].kind = "data" => received[i].n \in 1..sent
        <3> SUFFICES ASSUME NEW i \in DOMAIN received, Data(received[i])
                     PROVE  received[i].n \in 1..sent
            BY DEF Data
        <3>1. received[i].n \in Nat \ {0} /\ sent \in Nat
            BY LinesTyped, Messages DEF IInv, Typed
        <3>2. received[i].n <= sent
            BY DEF IInv, Outbound, InFlight, WasSent
        <3> QED
            BY <3>1, <3>2
    <2> QED
        BY <2>1, <2>2 DEF IInv, Outbound, InFlight, CloseIsLast, InboundOrder, StreamsInOrder
<1> QED
    BY <1>1, Invariant, PTL

\* When proxy_socket returns, its three tasks have ended.
THEOREM ProxyLeavesNothing == Spec => []NothingOutlivesProxy
<1>1. IInv => NothingOutlivesProxy
    BY DEF IInv, MainWaits, NothingOutlivesProxy
<1> QED
    BY <1>1, Invariant, PTL
=============================================================================
