------------------------------- MODULE Outbound -------------------------------
(***************************************************************************)
(* What the server writes to one client: the handshake, the replies to its *)
(* commands and, once it plays, metadata and media (server/rtmp.cc), cut   *)
(* into chunks by ChunkSerializeHelper (server/chunk_message.cc) and       *)
(* handed to libevent by Session::Write (server/net.h), which may fail and *)
(* then leaves the bytes for the next call.                                *)
(*                                                                         *)
(* At the other end is the reader of ChunkCodec: what the server writes    *)
(* must be an RTMP stream that its own OnRead understands.                 *)
(*                                                                         *)
(* A message is its type, stream, timestamp, length and its number; AMF    *)
(* values are so many units of payload.                                    *)
(***************************************************************************)
EXTENDS ChunkCodec

CONSTANTS
    ReplyLengths,  \* lengths of a CommandMessage, in payload units
    MediaLengths,  \* lengths of a media or metadata payload
    Timestamps,    \* timestamps of media
    MaxReplay,     \* bound: frames in the cache of the room that is entered
    MaxSent        \* bound: messages written

MediaTypes == {8, 9}
MetaType == 18
CommandType == 20

ASSUME OutboundAssumption ==
    /\ ReplyLengths \cup MediaLengths \subseteq Nat \ {0}
    /\ Timestamps \subseteq Nat
    /\ {MaxReplay, MaxSent} \subseteq Nat

VARIABLES
    stage,      \* how far the client is with this session
    unwritten,  \* write_data_buffer_
    wire,       \* tokens libevent has that have not arrived
    client,     \* the client's side of the connection, as ChunkCodec reads it
    sent,       \* ghost: the messages that were serialized
    heard       \* ghost: the messages the client got

vars == <<stage, unwritten, wire, client, sent, heard>>

\* msid_for_create_stream_, by a number that fits
StreamId == 1

Init ==
    /\ stage = "UNINTIALIZED"
    /\ unwritten = <<>>
    /\ wire = <<>>
    /\ client = NewSession
    /\ sent = <<>>
    /\ heard = <<>>

-----------------------------------------------------------------------------
(* Messages *)

\* AckWindowSize and SetPeerBandwidth
Control(type) == [type |-> type, stream_id |-> 0, timestamp |-> 0, length |-> 1]

\* CommandMessage
Command(length) == [type |-> CommandType, stream_id |-> 0, timestamp |-> 0, length |-> length]

\* RTMPSession::SendMetaData
MetaData(length) == [type |-> MetaType, stream_id |-> StreamId, timestamp |-> 0, length |-> length]

\* RTMPSession::SendMediaData
MediaData(type, timestamp, length) ==
    [type |-> type, stream_id |-> StreamId, timestamp |-> timestamp, length |-> length]

\* GetChunkStreamIdForSending
ChunkStreamIdForSending(type) ==
    CASE type \in 1..6 -> 2
      [] type \in MediaTypes \cup {MetaType} -> 4
      [] type = CommandType -> 3

\* What Room caches: video with the timestamps and lengths there are.
Frames == {MediaData(9, t, l) : t \in Timestamps, l \in MediaLengths}

\* The message header of a message.  The type that is compared with 7 is
\* that of the header, still 0, so timestamp and stream are never copied.
ChunkCommon(m) == [timestamp |-> 0, length |-> m.length, type |-> m.type, stream_id |-> 0]

\* The format of the i-th chunk of a message.
Format(i) == IF i = 1 THEN 0 ELSE 3

\* ChunkSerializeHelper::Serialize for message number n; the chunk size for
\* sending is the one for reading.
Serialize(m, n) ==
    FlattenSeq([i \in 1..((m.length + ChunkSize - 1) \div ChunkSize) |->
        LET from == (i - 1) * ChunkSize
            to == Min({from + ChunkSize, m.length})
        IN  SerializeHeader(Format(i), ChunkStreamIdForSending(m.type), ChunkCommon(m))
            \o [k \in 1..(to - from) |-> [token |-> "data", message |-> n, unit |-> from + k]]])

\* What is appended to write_data_buffer_ before one Write.
SerializeAll(ms, sentBefore) == FlattenSeq([i \in 1..Len(ms) |-> Serialize(ms[i], sentBefore + i)])

-----------------------------------------------------------------------------
(* Write *)

\* Mutant: the buffer is cleared whether or not libevent took it.
WriteForgets(pieces, k) ==
    /\ wire' = wire \o (IF k = 0 THEN <<>> ELSE unwritten \o FlattenSeq(SubSeq(pieces, 1, k)))
    /\ unwritten' = <<>>

\* Pieces are appended to the buffer, Write is called after each, and the
\* last call that succeeds is the k-th: it takes all the buffer holds.
Write(pieces, k) ==
    /\ wire' = wire \o (IF k = 0 THEN <<>> ELSE unwritten \o FlattenSeq(SubSeq(pieces, 1, k)))
    /\ unwritten' = (IF k = 0 THEN unwritten ELSE <<>>)
                    \o FlattenSeq(SubSeq(pieces, k + 1, Len(pieces)))

\* Bursts of messages, one Write for each.
Send(bursts) ==
    LET before(i) == Len(sent) + Len(FlattenSeq(SubSeq(bursts, 1, i - 1)))
        all == FlattenSeq(bursts)
    IN  /\ Len(sent) + Len(all) <= MaxSent
        /\ sent' = sent \o all
        /\ \E k \in 0..Len(bursts) :
            Write([i \in 1..Len(bursts) |-> SerializeAll(bursts[i], before(i))], k)

-----------------------------------------------------------------------------
(* The server *)

\* SendS0AndS1, on c0
SendS0AndS1 ==
    /\ stage = "UNINTIALIZED"
    /\ Write(<<Handshake("s0", 1) \o Handshake("s1", C1Size)>>, 1)
    /\ stage' = "VERSION_SENT"
    /\ UNCHANGED <<client, sent, heard>>

\* SendS2, on c1
SendS2 ==
    /\ stage = "VERSION_SENT"
    /\ Write(<<Handshake("s2", C2Size)>>, 1)
    /\ stage' = "ACK_SENT"
    /\ UNCHANGED <<client, sent, heard>>

\* A handshake message that cannot be written makes OnRead return false.
HandshakeFails ==
    /\ stage \in {"UNINTIALIZED", "VERSION_SENT"}
    /\ stage' = "closed"
    /\ UNCHANGED <<unwritten, wire, client, sent, heard>>

\* connect, after c2
Connect ==
    /\ stage = "ACK_SENT"
    /\ \E l \in ReplyLengths : Send(<<<<Control(5), Control(6), Command(l)>>>>)
    /\ stage' = "connected"
    /\ UNCHANGED <<client, heard>>

\* releaseStream, FCPublish, FCUnpublish, createStream, publish
Answer ==
    /\ stage = "connected"
    /\ \E l \in ReplyLengths : Send(<<<<Command(l)>>>>)
    /\ UNCHANGED <<stage, client, heard>>

\* play: EnterRoom sends what Room::Enter replays, then comes the reply.
Play ==
    /\ stage = "connected"
    /\ \E meta \in {<<>>} \cup {<<MetaData(l)>> : l \in MediaLengths},
          aac \in {<<>>} \cup {<<MediaData(8, 0, l)>> : l \in MediaLengths},
          cache \in SeqOf(Frames, MaxReplay),
          status \in ReplyLengths :
        LET ms == Append(meta \o aac \o cache, Command(status))
        IN  Send([i \in 1..Len(ms) |-> <<ms[i]>>])
    /\ stage' = "playing"
    /\ UNCHANGED <<client, heard>>

\* The room of a viewer broadcasts metadata or a frame.
Broadcast ==
    /\ stage = "playing"
    /\ \E l \in MediaLengths :
        \/ Send(<<<<MetaData(l)>>>>)
        \/ \E type \in MediaTypes, t \in Timestamps : Send(<<<<MediaData(type, t, l)>>>>)
    /\ UNCHANGED <<stage, client, heard>>

-----------------------------------------------------------------------------
(* The client *)

Reads == OnRead(client) # client

ClientReceives(n) ==
    /\ client.open /\ ~ Reads
    /\ n \in 1..Len(wire)
    /\ client' = [client EXCEPT !.buffer = @ \o SubSeq(wire, 1, n)]
    /\ wire' = SubSeq(wire, n + 1, Len(wire))
    /\ UNCHANGED <<stage, unwritten, sent, heard>>

ClientReads ==
    /\ client.open /\ Reads
    /\ \E s \in {OnRead(client)} :
        /\ client' = [s EXCEPT !.handled = <<>>]
        /\ heard' = heard \o s.handled
    /\ UNCHANGED <<stage, unwritten, wire, sent>>

Next ==
    \/ SendS0AndS1
    \/ SendS2
    \/ HandshakeFails
    \/ Connect
    \/ Answer
    \/ Play
    \/ Broadcast
    \/ \E n \in 1..Len(wire) : ClientReceives(n)
    \/ ClientReads

Spec == Init /\ [][Next]_vars

-----------------------------------------------------------------------------
(* Properties *)

(***************************************************************************)
(* The client hears what the server sent, in order, each message with its  *)
(* type, its length and all of its payload, though replies and broadcasts  *)
(* share a buffer and any Write may fail, and its reader never meets a     *)
(* chunk that it would reject.  A failed Write delays and loses nothing:   *)
(* once the buffers are empty and the client has read on, it has heard     *)
(* every message.                                                          *)
(***************************************************************************)
HeardAsSent ==
    /\ client.open
    /\ Len(heard) <= Len(sent)
    /\ \A j \in DOMAIN heard :
        /\ heard[j].type = sent[j].type
        /\ heard[j].payload =
            [k \in 1..sent[j].length |-> [token |-> "data", message |-> j, unit |-> k]]
    /\ unwritten = <<>> /\ wire = <<>> /\ ~ Reads => Len(heard) = Len(sent)

(***************************************************************************)
(* What SendMediaData(type, timestamp, payload) and the lines 124 to 131   *)
(* of ChunkSerializeHelper::Serialize are written for: media arrives with  *)
(* its timestamp.                                                          *)
(***************************************************************************)
TimestampsSent ==
    \A j \in DOMAIN heard :
        heard[j].type \in MediaTypes => heard[j].timestamp = sent[j].timestamp
===============================================================================
