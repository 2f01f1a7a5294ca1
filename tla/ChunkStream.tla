----------------------------- MODULE ChunkStream -----------------------------
(***************************************************************************)
(* How the server reads an RTMP connection: the loop of                    *)
(* Listener::ReadCallback (server/net.cc) around OnRead of ChunkCodec,     *)
(* over a byte stream that arrives in pieces cut anywhere.                 *)
(*                                                                         *)
(* The client, code outside this repository, sends the messages of Script  *)
(* on several chunk streams, their chunks interleaved in any way, each     *)
(* first chunk in any of the formats RTMP allows there.  It never changes  *)
(* its chunk size from the 128 bytes the server assumes.                   *)
(***************************************************************************)
EXTENDS ChunkCodec

CONSTANTS
    Script,      \* for each chunk stream id, the messages the client sends
    MaxInFlight  \* bound: tokens sent and not yet arrived when more are sent

ScriptMessage == [type: Nat, length: Nat \ {0}, stream_id: Nat, timestamp: Nat]

ASSUME ConstantsAssumption ==
    /\ \A c \in DOMAIN Script : Script[c] \in Seq(ScriptMessage)
    /\ MaxInFlight \in Nat \ {0}

VARIABLES
    \* client
    greeted,    \* handshake messages sent: 0..3
    next,       \* for each chunk stream, the message being sent
    offset,     \* and how many of its payload units are out
    last,       \* and the header fields last sent on it, <<>> at first
    began,      \* ghost: the format that message began with
    completed,  \* ghost: messages sent to their last chunk, in that order
    wire,       \* tokens sent that have not arrived
    \* server
    session,    \* the RTMPSession
    delivered,  \* ghost: what HandleMessage was called with
    looping,    \* inside the loop of ReadCallback
    pre         \* its variable pre

vars == <<greeted, next, offset, last, began, completed, wire, session, delivered, looping, pre>>

ChunkStreams == DOMAIN Script

-----------------------------------------------------------------------------
(* The server *)

\* Mutant: OnRead is called once per callback.
LoopOnce == pre = 0 /\ session.buffer # <<>>

\* Mutant: the loop does not notice that nothing was consumed.
LoopWhileData == session.buffer # <<>>

\* The test of the for loop of ReadCallback.
LoopGoesOn == pre # Len(session.buffer) /\ session.buffer # <<>>

\* ReadCallback is called, with n tokens in the socket, and takes them all.
Receive(n) ==
    /\ session.open /\ ~ looping
    /\ n \in 1..Len(wire)
    /\ session' = [session EXCEPT !.buffer = @ \o SubSeq(wire, 1, n)]
    /\ wire' = SubSeq(wire, n + 1, Len(wire))
    /\ looping' = TRUE
    /\ pre' = 0
    /\ UNCHANGED <<greeted, next, offset, last, began, completed, delivered>>

LoopBody ==
    /\ looping /\ LoopGoesOn
    /\ \E s \in {OnRead(session)} :
           /\ session' = [s EXCEPT !.handled = <<>>]
           /\ delivered' = delivered \o s.handled
           /\ pre' = IF s.open THEN Len(session.buffer) ELSE 0
           /\ looping' = s.open
    /\ UNCHANGED <<greeted, next, offset, last, began, completed, wire>>

LoopEnd ==
    /\ looping /\ ~ LoopGoesOn
    /\ looping' = FALSE
    /\ pre' = 0
    /\ UNCHANGED <<greeted, next, offset, last, began, completed, wire, session, delivered>>

-----------------------------------------------------------------------------
(* The client *)

Greet ==
    /\ greeted < 3
    /\ Len(wire) < MaxInFlight
    /\ greeted' = greeted + 1
    /\ wire' = wire \o CASE greeted = 0 -> Handshake("c0", 1)
                         [] greeted = 1 -> Handshake("c1", C1Size)
                         [] greeted = 2 -> Handshake("c2", C2Size)
    /\ UNCHANGED <<next, offset, last, began, completed, session, delivered, looping, pre>>

Current(c) == Script[c][next[c]]

\* The message before the current one on a chunk stream.
Before(c) == Script[c][next[c] - 1]

Delta(c) == Current(c).timestamp - Before(c).timestamp

\* The formats the first chunk of the current message may have.
Formats(c) ==
    {0} \cup
    {f \in {1, 2, 3} :
        /\ next[c] > 1
        /\ Current(c).stream_id = Before(c).stream_id
        /\ Current(c).timestamp >= Before(c).timestamp
        /\ f >= 2 => /\ Current(c).type = Before(c).type
                     /\ Current(c).length = Before(c).length
        /\ f = 3 => Delta(c) = last[c].timestamp}

Units(c, from, to) ==
    [i \in 1..(to - from) |-> [token |-> "data", csid |-> c, message |-> next[c], unit |-> from + i]]

SendChunk(c, format) ==
    /\ greeted = 3
    /\ Len(wire) < MaxInFlight
    /\ next[c] <= Len(Script[c])
    /\ format \in (IF offset[c] = 0 THEN Formats(c) ELSE {3})
    /\ LET m == Current(c)
           common == IF offset[c] # 0 THEN last[c]
                     ELSE [timestamp |-> IF format = 0 THEN m.timestamp ELSE Delta(c),
                           length |-> m.length, type |-> m.type, stream_id |-> m.stream_id]
           to == Min({offset[c] + ChunkSize, m.length})
           ends == to = m.length
       IN  /\ wire' = wire \o SerializeHeader(format, c, common) \o Units(c, offset[c], to)
           /\ last' = [last EXCEPT ![c] = common]
           /\ began' = IF offset[c] = 0 THEN [began EXCEPT ![c] = format] ELSE began
           /\ next' = IF ends THEN [next EXCEPT ![c] = @ + 1] ELSE next
           /\ offset' = [offset EXCEPT ![c] = IF ends THEN 0 ELSE to]
           /\ completed' = IF ends THEN Append(completed, <<c, next[c], began'[c]>>) ELSE completed
    /\ UNCHANGED <<greeted, session, delivered, looping, pre>>

Init ==
    /\ greeted = 0
    /\ next = [c \in ChunkStreams |-> 1]
    /\ offset = [c \in ChunkStreams |-> 0]
    /\ last = [c \in ChunkStreams |-> <<>>]
    /\ began = [c \in ChunkStreams |-> 0]
    /\ completed = <<>>
    /\ wire = <<>>
    /\ session = NewSession
    /\ delivered = <<>>
    /\ looping = FALSE
    /\ pre = 0

\* The client has nothing more to send and all of it was read.
Quiet ==
    /\ \A c \in ChunkStreams : next[c] > Len(Script[c])
    /\ wire = <<>> /\ ~ looping
    /\ UNCHANGED vars

Next ==
    \/ Greet
    \/ \E c \in ChunkStreams, format \in 0..3 : SendChunk(c, format)
    \/ \E n \in 1..Len(wire) : Receive(n)
    \/ LoopBody
    \/ LoopEnd
    \/ Quiet

(***************************************************************************)
(* The network delivers, libevent calls ReadCallback when bytes are there, *)
(* and a callback that was called runs on.  The client may stop anywhere.  *)
(***************************************************************************)
Fairness ==
    /\ WF_vars(\E n \in 1..Len(wire) : Receive(n))
    /\ WF_vars(LoopBody)
    /\ WF_vars(LoopEnd)

Spec == Init /\ [][Next]_vars /\ Fairness

-----------------------------------------------------------------------------
(* Properties *)

\* The j-th message the client completed.
SentMessage(j) == Script[completed[j][1]][completed[j][2]]

(***************************************************************************)
(* Whatever the cuts in the byte stream and the interleaving of the chunk  *)
(* streams, HandleMessage gets the messages the client sent, in the order  *)
(* of their last chunks, each with its type, stream, length and every unit *)
(* of its own payload in order.  A client that follows RTMP is never       *)
(* disconnected: each chunk finds the previous header and the previous     *)
(* timestamp its format needs.                                             *)
(***************************************************************************)
MessagesIntact ==
    /\ session.open
    /\ Len(delivered) <= Len(completed)
    /\ \A j \in DOMAIN delivered :
        LET m == SentMessage(j)
        IN  /\ delivered[j].type = m.type
            /\ delivered[j].stream_id = m.stream_id
            /\ delivered[j].length = m.length
            /\ delivered[j].payload =
                [k \in 1..m.length |-> [token |-> "data", csid |-> completed[j][1],
                                        message |-> completed[j][2], unit |-> k]]

(***************************************************************************)
(* When ReadCallback returns, no message is complete in the buffer: the    *)
(* loop never stops one OnRead too early, which would hold a message back  *)
(* until the client sends something else.                                  *)
(***************************************************************************)
NothingHeldBack ==
    ~ looping =>
        \A i \in DOMAIN session.buffer :
            LET u == session.buffer[i]
            IN  u.token = "data" => u.unit < Script[u.csid][u.message].length

\* The message stream of the j-th completed message, as the server keys it.
IdOf(j) == MessageId(completed[j][1], SentMessage(j).stream_id)

\* The last message up to the j-th on its stream with an absolute timestamp.
AbsoluteBefore(j) ==
    Max({k \in 1..j : completed[k][3] = 0 /\ IdOf(k) = IdOf(j)})

Long(j) == SentMessage(j).length > ChunkSize

(***************************************************************************)
(* Timestamps below the mark reach HandleMessage as the client meant them, *)
(* deltas of any length and format added up, as long as the absolute       *)
(* timestamp they count from is zero or came in a one-chunk message.       *)
(***************************************************************************)
TimestampsIntact ==
    \A j \in DOMAIN delivered :
        LET m == SentMessage(j)
            k == AbsoluteBefore(j)
        IN  m.timestamp < Mark /\ (k = j \/ SentMessage(k).timestamp = 0 \/ ~ Long(k))
            => delivered[j].timestamp = m.timestamp

(***************************************************************************)
(* What the name message_previous_timestamp_ and the log line of           *)
(* rtmp.cc:398 say: between messages, it holds the timestamp of the        *)
(* previous message of that id.                                            *)
(***************************************************************************)
PreviousTimestampRemembered ==
    \A j \in DOMAIN delivered :
        \/ IdOf(j) \in DOMAIN session.reading
        \/ \E k \in DOMAIN delivered : k > j /\ IdOf(k) = IdOf(j)
        \/ session.previous[IdOf(j)] = delivered[j].timestamp

(***************************************************************************)
(* The read loop ends, and every message sent to its last chunk is handled *)
(* though the client may send nothing more.                                *)
(***************************************************************************)
EventuallyDelivered == <>[](Len(delivered) = Len(completed))
=============================================================================
