------------------------------ MODULE ChunkCodec ------------------------------
(***************************************************************************)
(* An RTMP byte stream and how a session of the server reads it: the chunk *)
(* header codec (server/chunk_message.cc) and the handshake states and the *)
(* reassembly of chunks of RTMPSession::OnRead (server/rtmp.cc), as        *)
(* functions of the session.                                               *)
(*                                                                         *)
(* The stream is cut at the grain the code can tell apart: the tokens are  *)
(* the basic header of a chunk, its message header, its extended           *)
(* timestamp and units of payload; the handshake messages have as many     *)
(* tokens as C1Size and C2Size say.  A prefix of the tokens stands for a   *)
(* prefix of the bytes.                                                    *)
(***************************************************************************)
EXTENDS Naturals, Sequences, FiniteSets, SequencesExt

CONSTANTS
    ChunkSize,   \* max_chunk_size_, in payload units
    Mark,        \* the timestamp field that announces an extended timestamp
    C1Size,      \* tokens of the handshake message c1
    C2Size       \* and of c2

ASSUME CodecAssumption == {ChunkSize, Mark, C1Size, C2Size} \subseteq Nat \ {0}

-----------------------------------------------------------------------------
(* The chunk format *)

Handshake(name, size) == [i \in 1..size |-> [token |-> name]]

\* The fields in the message header of each format.
Fields(format) ==
    CASE format = 0 -> {"timestamp", "length", "type", "stream_id"}
      [] format = 1 -> {"timestamp", "length", "type"}
      [] format = 2 -> {"timestamp"}
      [] format = 3 -> {}

\* ChunkHeader::Serialize: a timestamp of Mark or more goes to the extended
\* timestamp, in every chunk of the message.
SerializeHeader(format, csid, common) ==
    LET short == [common EXCEPT !.timestamp = Min({@, Mark})]
    IN  <<[token |-> "basic", format |-> format, csid |-> csid]>>
        \o (IF format = 3 THEN <<>>
            ELSE <<[token |-> "header", common |-> [f \in Fields(format) |-> short[f]]]>>)
        \o (IF common.timestamp >= Mark
            THEN <<[token |-> "extended", timestamp |-> common.timestamp]>> ELSE <<>>)

-----------------------------------------------------------------------------
(* The server: one RTMPSession as a record, OnRead as a function of it *)

NewSession ==
    [state |-> "UNINTIALIZED", open |-> TRUE, buffer |-> <<>>,
     commons |-> <<>>, previous |-> <<>>, reading |-> <<>>, handled |-> <<>>]

Put(f, k, v) == [x \in DOMAIN f \cup {k} |-> IF x = k THEN v ELSE f[x]]
Erase(f, k) == [x \in DOMAIN f \ {k} |-> f[x]]

\* ByteStream >> Commit after n tokens.
Consume(s, n) == [s EXCEPT !.buffer = SubSeq(@, n + 1, Len(@))]

\* OnRead returns false: ReadCallback closes the session.
Fail(s) == [s EXCEPT !.open = FALSE]

\* The tokens of the chunk header at the front of the buffer, 0 if some
\* have not arrived.  For format 3 the extended timestamp depends on the
\* previous chunk of the chunk stream.
HeaderSize(s) ==
    LET chunk == Head(s.buffer)
        fixed == IF chunk.format = 3 THEN 1 ELSE 2
        field == IF chunk.format = 3 THEN s.commons[chunk.csid].timestamp
                 ELSE s.buffer[2].common.timestamp
    IN  IF Len(s.buffer) < fixed THEN 0
        ELSE IF field < Mark THEN fixed
        ELSE IF Len(s.buffer) > fixed THEN fixed + 1
        ELSE 0

\* chunk_header.common once the fields the format lacks have been copied
\* from the previous chunk.
Common(s, format, csid) ==
    [f \in Fields(0) |-> IF f \in Fields(format) THEN s.buffer[2].common[f]
                         ELSE s.commons[csid][f]]

\* Mutant: messages are told apart by their message stream only.
MessageIdOfStream(csid, msid) == <<0, msid>>

\* GetMessageId: the key of a message that is being read.
MessageId(csid, msid) == <<csid, msid>>

\* Absolute for format 0, else relative to what the message id remembers.
MessageTimestamp(s, format, id, common) ==
    IF format = 0 THEN common.timestamp ELSE s.previous[id] + common.timestamp

\* expect_data_len
PayloadSize(s, id, common) ==
    Min({ChunkSize, IF id \in DOMAIN s.reading
                    THEN s.reading[id].length - Len(s.reading[id].payload)
                    ELSE common.length})

\* Mutant: the end of a message does not move the previous timestamp.
PreviousAbsolute(s, id, format, done, timestamp) ==
    IF format = 0 THEN Put(s.previous, id, timestamp) ELSE s.previous

\* message_previous_timestamp_ after a chunk that computed timestamp.
PreviousAfter(s, id, format, done, timestamp) ==
    IF format = 0 \/ done THEN Put(s.previous, id, timestamp) ELSE s.previous

\* reading_messages_ after a chunk.
ReadingAfter(s, id, done, msg) ==
    IF done THEN Erase(s.reading, id) ELSE Put(s.reading, id, msg)

\* The writes for a chunk that is complete in the buffer: its payload joins
\* the message being read, and a message that is complete is handled.
StoreChunk(s, format, csid, common, header) ==
    LET id == MessageId(csid, common.stream_id)
        size == PayloadSize(s, id, common)
        timestamp == MessageTimestamp(s, format, id, common)
        start == IF id \in DOMAIN s.reading THEN s.reading[id]
                 ELSE [type |-> common.type, timestamp |-> timestamp,
                       stream_id |-> common.stream_id, length |-> common.length,
                       payload |-> <<>>]
        msg == [start EXCEPT !.payload = @ \o SubSeq(s.buffer, header + 1, header + size)]
        done == Len(msg.payload) = msg.length
    IN  [Consume(s, header + size) EXCEPT
            !.commons = Put(@, csid, common),
            !.previous = PreviousAfter(s, id, format, done, timestamp),
            !.reading = ReadingAfter(s, id, done, msg),
            !.handled = IF done THEN Append(@, msg) ELSE @]

\* The checks between the header and the writes.
ReadChunk(s, format, csid, header) ==
    LET common == Common(s, format, csid)
        id == MessageId(csid, common.stream_id)
    IN  IF format # 0 /\ id \notin DOMAIN s.previous THEN Fail(s)
        ELSE IF Len(s.buffer) < header + PayloadSize(s, id, common) THEN s
        ELSE StoreChunk(s, format, csid, common, header)

OnReadInHandeShakeDoneState(s) ==
    LET format == Head(s.buffer).format
        csid == Head(s.buffer).csid
    IN  IF s.buffer = <<>> \/ (format # 3 /\ HeaderSize(s) = 0) THEN s
        ELSE IF format # 0 /\ csid \notin DOMAIN s.commons THEN Fail(s)
        ELSE IF HeaderSize(s) = 0 THEN s
        ELSE ReadChunk(s, format, csid, HeaderSize(s))

OnReadInAckSentState(s) ==
    IF Len(s.buffer) < C2Size THEN s
    ELSE OnReadInHandeShakeDoneState(
            [Consume(s, C2Size) EXCEPT !.state = "HANDESHAKE_DONE"])

OnReadInVersionSentState(s) ==
    IF Len(s.buffer) < C1Size THEN s
    ELSE OnReadInAckSentState([Consume(s, C1Size) EXCEPT !.state = "ACK_SENT"])

OnReadInUninitializedState(s) ==
    IF s.buffer = <<>> THEN s
    ELSE OnReadInVersionSentState([Consume(s, 1) EXCEPT !.state = "VERSION_SENT"])

\* RTMPSession::OnRead: in one call a state falls through to the next.
OnRead(s) ==
    CASE s.state = "UNINTIALIZED" -> OnReadInUninitializedState(s)
      [] s.state = "VERSION_SENT" -> OnReadInVersionSentState(s)
      [] s.state = "ACK_SENT" -> OnReadInAckSentState(s)
      [] s.state = "HANDESHAKE_DONE" -> OnReadInHandeShakeDoneState(s)
=============================================================================
