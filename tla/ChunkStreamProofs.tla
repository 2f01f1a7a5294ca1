-------------------------- MODULE ChunkStreamProofs --------------------------
(***************************************************************************)
(* Proofs about ChunkStream: the loop of Listener::ReadCallback            *)
(* (server/net.cc) around RTMPSession::OnRead (server/rtmp.cc) hands on    *)
(* the messages a client sends, whole and in order, and leaves none of     *)
(* them in its buffer.                                                     *)
(*                                                                         *)
(* The argument.  What the client has written is never forgotten: there    *)
(* are a sequence all of tokens and a history h of chunks, h[k] the state  *)
(* the client was in after its k-th (Written), such that the tokens of     *)
(* the k-th chunk stand in all where h[k - 1] ended (ChunkAt).  The server *)
(* has taken the first r chunks, its buffer is the next of all, the wire   *)
(* is the rest (Reading, Tells), and what it keeps of headers and of       *)
(* messages half read is what h[r] says (Knows).  OnRead either takes the  *)
(* chunk its buffer begins with, or that chunk is not all there, and then  *)
(* no message ends in the buffer (Read).  The history is existentially     *)
(* quantified in Invariant, so the specification needs no variable for it. *)
(*                                                                         *)
(* Of timestamps, the server is right about a message that counts from an  *)
(* absolute one it remembers rightly (Plain).  Between messages it then    *)
(* remembers the last one's timestamp, within a message the timestamp less *)
(* what the message's next chunk will add to it again (Clock).             *)
(***************************************************************************)
EXTENDS ChunkStream, SequenceTheorems, TLAPS

-----------------------------------------------------------------------------
(* What is said of the client *)

Commons == [timestamp : Nat, length : Nat, type : Nat, stream_id : Nat]

\* What may be on the wire.
Token ==
    [token : {"c0", "c1", "c2"}]
    \cup [token : {"basic"}, format : 0..3, csid : ChunkStreams]
    \cup [token : {"header"}, common : UNION {[F -> Nat] : F \in SUBSET Fields(0)}]
    \cup [token : {"extended"}, timestamp : Nat]
    \cup [token : {"data"}, csid : ChunkStreams, message : Nat, unit : Nat]

Unit(c, i, k) == [token |-> "data", csid |-> c, message |-> i, unit |-> k]

\* The units from + 1 to to of the i-th message of a chunk stream.
Piece(c, i, from, to) == [k \in 1..(to - from) |-> Unit(c, i, from + k)]

\* The header fields as they are written, without the extended timestamp.
Short(common) == [common EXCEPT !.timestamp = Min({@, Mark})]

Describes(common, m) ==
    /\ common \in Commons
    /\ common.length = m.length
    /\ common.type = m.type
    /\ common.stream_id = m.stream_id

\* The message the last header on a chunk stream was about, 0 if none.
Latest(a, c) == IF a.offset[c] # 0 THEN a.next[c] ELSE a.next[c] - 1

Stream(c, i) == Script[c][i].stream_id
Stamp(c, i) == Script[c][i].timestamp

\* The k-th of the completed messages q is the last on chunk stream c whose
\* timestamp is absolute.
Anchor(q, c, k) ==
    /\ k \in 1..Len(q)
    /\ q[k][1] = c
    /\ q[k][3] = 0
    /\ \A i \in 1..Len(q) : (i > k /\ q[i][1] = c) => q[i][3] # 0

\* And of those up to the j-th it is the last on the chunk stream of the j-th.
AnchorOf(q, j, k) ==
    /\ k \in 1..j
    /\ q[k][1] = q[j][1]
    /\ q[k][3] = 0
    /\ \A i \in 1..j : (i > k /\ q[i][1] = q[j][1]) => q[i][3] # 0

\* The server remembers the timestamp of an absolute message rightly.
Plain(q, k) ==
    Stamp(q[k][1], q[k][2]) = 0 \/ ~ (Script[q[k][1]][q[k][2]].length > ChunkSize)

\* What a message with a relative timestamp counts from is on its message stream.
Counts(a) ==
    /\ \A c \in ChunkStreams :
           /\ a.next[c] # 1 => \E k : /\ Anchor(a.completed, c, k)
                                      /\ Stream(c, a.completed[k][2]) = Stream(c, a.next[c] - 1)
           /\ a.offset[c] # 0 => Script[c][a.next[c]].length > ChunkSize
           /\ (a.offset[c] # 0 /\ a.began[c] # 0) => /\ a.next[c] # 1
                                                     /\ Stream(c, a.next[c]) = Stream(c, a.next[c] - 1)
    /\ \A j \in 1..Len(a.completed) :
           \E k : /\ AnchorOf(a.completed, j, k)
                  /\ Stream(a.completed[j][1], a.completed[k][2])
                     = Stream(a.completed[j][1], a.completed[j][2])

\* A state of the client.
Client(a) ==
    /\ a.next \in [ChunkStreams -> Nat \ {0}]
    /\ a.offset \in [ChunkStreams -> Nat]
    /\ a.last \in [ChunkStreams -> Commons \cup {<<>>}]
    /\ a.began \in [ChunkStreams -> 0..3]
    /\ a.completed \in Seq(ChunkStreams \X Nat \X (0..3))
    /\ \A c \in ChunkStreams :
           /\ a.next[c] <= Len(Script[c]) + 1
           /\ a.offset[c] # 0 => /\ a.next[c] <= Len(Script[c])
                                 /\ a.offset[c] < Script[c][a.next[c]].length
           /\ Latest(a, c) # 0 => Describes(a.last[c], Script[c][Latest(a, c)])
    /\ Counts(a)

\* How many tokens stand before the payload of a chunk.
Fixed(b) == IF b.format = 3 THEN 1 ELSE 2
HeaderLength(b) == IF b.common.timestamp >= Mark THEN Fixed(b) + 1 ELSE Fixed(b)

\* A client in state a sends the chunk b, which ends in state b.
Follows(a, b) ==
    /\ b.csid \in ChunkStreams
    /\ b.format \in 0..3
    /\ a.next[b.csid] <= Len(Script[b.csid])
    /\ Describes(b.common, Script[b.csid][a.next[b.csid]])
    /\ b.to \in Nat
    /\ b.to = Min({a.offset[b.csid] + ChunkSize, Script[b.csid][a.next[b.csid]].length})
    /\ a.offset[b.csid] # 0 => b.format = 3
    /\ b.format # 0 =>
           /\ Latest(a, b.csid) # 0
           /\ \A f \in Fields(0) \ Fields(b.format) : b.common[f] = a.last[b.csid][f]
    /\ (a.offset[b.csid] = 0 /\ b.format = 0) => b.common.timestamp = Stamp(b.csid, a.next[b.csid])
    /\ (a.offset[b.csid] = 0 /\ b.format # 0) =>
           Stamp(b.csid, a.next[b.csid]) = Stamp(b.csid, a.next[b.csid] - 1) + b.common.timestamp
    /\ b.last = [a.last EXCEPT ![b.csid] = b.common]
    /\ b.began = IF a.offset[b.csid] = 0 THEN [a.began EXCEPT ![b.csid] = b.format] ELSE a.began
    /\ IF b.to = Script[b.csid][a.next[b.csid]].length
       THEN /\ b.next = [a.next EXCEPT ![b.csid] = @ + 1]
            /\ b.offset = [a.offset EXCEPT ![b.csid] = 0]
            /\ b.completed = Append(a.completed, <<b.csid, a.next[b.csid], b.began[b.csid]>>)
       ELSE /\ b.next = a.next
            /\ b.offset = [a.offset EXCEPT ![b.csid] = b.to]
            /\ b.completed = a.completed
    /\ b.at = a.at + HeaderLength(b) + b.to - a.offset[b.csid]

\* The tokens of that chunk in everything the client has written.
ChunkAt(all, a, b) ==
    /\ all[a.at + 1] = [token |-> "basic", format |-> b.format, csid |-> b.csid]
    /\ b.format # 3 =>
           all[a.at + 2] = [token |-> "header",
                            common |-> [f \in Fields(b.format) |-> Short(b.common)[f]]]
    /\ b.common.timestamp >= Mark => all[a.at + Fixed(b) + 1].token = "extended"
    /\ \A i \in 1..(b.to - a.offset[b.csid]) :
           all[a.at + HeaderLength(b) + i] = Unit(b.csid, a.next[b.csid], a.offset[b.csid] + i)

Greeting == 1 + C1Size + C2Size

\* Everything the client has written: all the tokens, h[1] .. h[n] the chunks,
\* each with the state the client was in after it.
Written(all, h, n) ==
    /\ all \in Seq(Token)
    /\ n \in Nat
    /\ \A k \in 0..n : Client(h[k]) /\ h[k].at \in Nat /\ h[k].at >= Greeting
    /\ h[0].at = Greeting
    /\ h[0].next = [c \in ChunkStreams |-> 1]
    /\ h[0].offset = [c \in ChunkStreams |-> 0]
    /\ h[0].completed = <<>>
    /\ \A k \in 1..n : Follows(h[k - 1], h[k]) /\ ChunkAt(all, h[k - 1], h[k]) /\ h[k].at <= Len(all)
    /\ \A i \in 1..Len(all) : i <= Greeting => all[i].token # "data"
    /\ \A k \in 0..n : \A j \in 1..Len(h[k].completed) :
           j <= Len(h[n].completed) /\ h[n].completed[j] = h[k].completed[j]
    /\ Len(all) <= h[n].at

-----------------------------------------------------------------------------
(* What is said of the server *)

SessionFields == {"state", "open", "buffer", "commons", "previous", "reading", "handled"}

Messages == [type : Nat, timestamp : Nat, stream_id : Nat, length : Nat, payload : Seq(Token)]

\* A message that was read up to its k-th unit.
ReadUpTo(msg, c, i, k) ==
    /\ msg \in Messages
    /\ msg.type = Script[c][i].type
    /\ msg.stream_id = Script[c][i].stream_id
    /\ msg.length = Script[c][i].length
    /\ msg.payload = Piece(c, i, 0, k)

\* What previous, reading and d say of the timestamps below the mark, if the last
\* absolute one is remembered rightly or is the message's own.
Clock(previous, reading, d, a) ==
    /\ \A c \in ChunkStreams : \A k :
           (a.next[c] # 1 /\ a.offset[c] = 0 /\ Anchor(a.completed, c, k) /\ Plain(a.completed, k)
                /\ Stamp(c, a.next[c] - 1) < Mark)
           => previous[MessageId(c, Stream(c, a.next[c] - 1))] = Stamp(c, a.next[c] - 1)
    /\ \A c \in ChunkStreams :
           (a.offset[c] # 0 /\ a.began[c] = 0 /\ Stamp(c, a.next[c]) < Mark)
           => /\ reading[MessageId(c, Stream(c, a.next[c]))].timestamp = Stamp(c, a.next[c])
              /\ previous[MessageId(c, Stream(c, a.next[c]))] = Stamp(c, a.next[c])
              /\ a.last[c].timestamp = Stamp(c, a.next[c])
    /\ \A c \in ChunkStreams : \A k :
           (a.offset[c] # 0 /\ a.began[c] # 0 /\ Anchor(a.completed, c, k) /\ Plain(a.completed, k)
                /\ Stamp(c, a.next[c]) < Mark)
           => /\ reading[MessageId(c, Stream(c, a.next[c]))].timestamp = Stamp(c, a.next[c])
              /\ previous[MessageId(c, Stream(c, a.next[c]))] + a.last[c].timestamp = Stamp(c, a.next[c])
    /\ \A j \in 1..Len(d) : \A k :
           (AnchorOf(a.completed, j, k) /\ (k = j \/ Plain(a.completed, k))
                /\ Stamp(a.completed[j][1], a.completed[j][2]) < Mark)
           => d[j].timestamp = Stamp(a.completed[j][1], a.completed[j][2])

\* The session knows what the client told it up to state a, the handler was
\* given d.
Knows(s, d, a) ==
    /\ \A c \in ChunkStreams :
           Latest(a, c) # 0 =>
               /\ c \in DOMAIN s.commons
               /\ s.commons[c] = Short(a.last[c])
               /\ MessageId(c, a.last[c].stream_id) \in DOMAIN s.previous
    /\ \A id \in DOMAIN s.previous : s.previous[id] \in Nat
    /\ \A c \in ChunkStreams :
           a.offset[c] # 0 =>
               /\ MessageId(c, a.last[c].stream_id) \in DOMAIN s.reading
               /\ ReadUpTo(s.reading[MessageId(c, a.last[c].stream_id)], c, a.next[c], a.offset[c])
    /\ \A id \in DOMAIN s.reading :
           \E c \in ChunkStreams : a.offset[c] # 0 /\ id = MessageId(c, a.last[c].stream_id)
    /\ d \in Seq(Messages)
    /\ Len(d) = Len(a.completed)
    /\ \A j \in 1..Len(d) :
           ReadUpTo(d[j], a.completed[j][1], a.completed[j][2],
                    Script[a.completed[j][1]][a.completed[j][2]].length)
    /\ Clock(s.previous, s.reading, d, a)

\* Where the server is in what the client has written: p tokens and r chunks
\* have been taken.
Place(state, h, n, p, r) ==
    \/ state = "UNINTIALIZED" /\ p = 0 /\ r = 0
    \/ state = "VERSION_SENT" /\ p = 1 /\ r = 0
    \/ state = "ACK_SENT" /\ p = 1 + C1Size /\ r = 0
    \/ state = "HANDESHAKE_DONE" /\ r \in 0..n /\ p = h[r].at

Reading(s, d, all, e, h, n, p, r) ==
    /\ DOMAIN s = SessionFields
    /\ s.open = TRUE
    /\ s.handled = <<>>
    /\ s.buffer \in Seq(Token)
    /\ p \in Nat /\ r \in Nat /\ e \in Nat
    /\ Place(s.state, h, n, p, r)
    /\ p + Len(s.buffer) = e
    /\ e <= Len(all)
    /\ \A i \in 1..Len(s.buffer) : s.buffer[i] = all[p + i]
    /\ Knows(s, d, h[r])

NoneComplete(buffer) ==
    \A i \in DOMAIN buffer :
        buffer[i].token = "data" => buffer[i].unit < Script[buffer[i].csid][buffer[i].message].length

-----------------------------------------------------------------------------
(* A chunk at the front of the buffer *)

\* Which fields the formats have.
LEMMA FieldsOf ==
    /\ Fields(0) = {"timestamp", "length", "type", "stream_id"}
    /\ \A f \in 0..3 : /\ Fields(f) \subseteq Fields(0)
                       /\ "timestamp" \in Fields(f) <=> f # 3
  BY DEF Fields

\* What the header field for the timestamp keeps of it.
LEMMA ShortOf ==
    ASSUME NEW common \in Commons
    PROVE  /\ Short(common) \in Commons
           /\ Short(common).length = common.length
           /\ Short(common).type = common.type
           /\ Short(common).stream_id = common.stream_id
           /\ common.timestamp < Mark => Short(common).timestamp = common.timestamp
           /\ common.timestamp >= Mark => Short(common).timestamp = Mark
  <1>1. common.timestamp \in Nat /\ Mark \in Nat
    BY CodecAssumption DEF Commons, CodecAssumption
  <1> DEFINE least == Min({common.timestamp, Mark})
  <1>2. CASE common.timestamp < Mark
    <2>1. \A y \in {common.timestamp, Mark} : common.timestamp <= y
      BY <1>1, <1>2
    <2>2. least = common.timestamp
      BY <1>1, <2>1 DEF Min
    <2> HIDE DEF least
    <2>3. Short(common) = [common EXCEPT !.timestamp = least]
      BY DEF Short, least
    <2> QED
      BY <1>1, <1>2, <2>2, <2>3 DEF Commons
  <1>3. CASE ~ (common.timestamp < Mark)
    <2>1. \A y \in {common.timestamp, Mark} : Mark <= y
      BY <1>1, <1>3
    <2>2. least = Mark
      BY <1>1, <2>1 DEF Min
    <2> HIDE DEF least
    <2>3. Short(common) = [common EXCEPT !.timestamp = least]
      BY DEF Short, least
    <2> QED
      BY <1>1, <1>3, <2>2, <2>3 DEF Commons
  <1> QED
    BY <1>2, <1>3

\* The session s, given what it has handled, is at the chunk b that the client
\* sent in state a, and has some of it.
Facing(s, d, all, a, b) ==
    /\ DOMAIN s = SessionFields
    /\ s.open = TRUE
    /\ s.handled = <<>>
    /\ s.buffer \in Seq(Token)
    /\ s.buffer # <<>>
    /\ \A i \in 1..Len(s.buffer) : s.buffer[i] = all[a.at + i]
    /\ a.at \in Nat
    /\ Client(a)
    /\ Follows(a, b)
    /\ ChunkAt(all, a, b)
    /\ Knows(s, d, a)

\* The first token says which format and which chunk stream.
LEMMA FacesBasic ==
    ASSUME NEW s, NEW d, NEW all, NEW a, NEW b, Facing(s, d, all, a, b)
    PROVE  Head(s.buffer).format = b.format /\ Head(s.buffer).csid = b.csid
  <1>1. Head(s.buffer) = all[a.at + 1]
    BY DEF Facing
  <1> QED
    BY <1>1 DEF Facing, ChunkAt

\* What the session has of the chunk stream when the chunk needs it.
LEMMA FacesKnown ==
    ASSUME NEW s, NEW d, NEW all, NEW a, NEW b, Facing(s, d, all, a, b), b.format # 0
    PROVE  /\ b.csid \in DOMAIN s.commons
           /\ a.last[b.csid] \in Commons
           /\ s.commons[b.csid] = Short(a.last[b.csid])
           /\ MessageId(b.csid, b.common.stream_id) \in DOMAIN s.previous
           /\ a.last[b.csid].stream_id = b.common.stream_id
           /\ \A f \in Fields(0) \ Fields(b.format) : b.common[f] = a.last[b.csid][f]
           /\ b.format = 3 => a.last[b.csid].timestamp = b.common.timestamp
  <1>1. b.csid \in ChunkStreams /\ b.format \in 1..3
    <2>1. Follows(a, b)
      BY DEF Facing
    <2>2. b.csid \in ChunkStreams /\ b.format \in 0..3
      BY <2>1 DEF Follows
    <2> QED
      BY <2>2
  <1>2. /\ Latest(a, b.csid) # 0
        /\ \A f \in Fields(0) \ Fields(b.format) : b.common[f] = a.last[b.csid][f]
    BY DEF Facing, Follows
  <1>3. "stream_id" \in Fields(0) \ Fields(b.format)
    BY <1>1 DEF Fields
  <1>4. a.last[b.csid] \in Commons
    BY <1>1, <1>2 DEF Facing, Client, Describes
  <1>5. a.last[b.csid].stream_id = b.common.stream_id
    BY <1>2, <1>3
  <1>6. b.format = 3 => "timestamp" \in Fields(0) \ Fields(b.format)
    BY <1>1 DEF Fields
  <1>7. /\ b.csid \in DOMAIN s.commons
        /\ s.commons[b.csid] = Short(a.last[b.csid])
        /\ MessageId(b.csid, a.last[b.csid].stream_id) \in DOMAIN s.previous
    BY <1>1, <1>2 DEF Facing, Knows
  <1> QED
    BY <1>2, <1>4, <1>5, <1>6, <1>7

\* The length of the header is known when it is there.
LEMMA FacesHeader ==
    ASSUME NEW s, NEW d, NEW all, NEW a, NEW b, Facing(s, d, all, a, b)
    PROVE  HeaderSize(s) = IF Len(s.buffer) < HeaderLength(b) THEN 0 ELSE HeaderLength(b)
  <1> DEFINE short == Short(b.common)
             field == IF b.format = 3 THEN s.commons[b.csid].timestamp
                      ELSE s.buffer[2].common.timestamp
  <1>1. Head(s.buffer).format = b.format /\ Head(s.buffer).csid = b.csid
    BY FacesBasic
  <1>2. b.common \in Commons /\ b.format \in 0..3
    BY DEF Facing, Follows, Describes
  <1>3. Len(s.buffer) \in Nat /\ Len(s.buffer) >= 1
    BY DEF Facing
  <1>4. b.common.timestamp \in Nat /\ Mark \in Nat /\ short.timestamp \in Nat
        /\ (short.timestamp < Mark <=> b.common.timestamp < Mark)
    BY <1>2, ShortOf, CodecAssumption DEF Commons, CodecAssumption
  <1>5. HeaderSize(s) = IF Len(s.buffer) < Fixed(b) THEN 0
                        ELSE IF field < Mark THEN Fixed(b)
                        ELSE IF Len(s.buffer) > Fixed(b) THEN Fixed(b) + 1
                        ELSE 0
    BY <1>1 DEF HeaderSize, Fixed
  <1>6. ASSUME Len(s.buffer) >= Fixed(b)
        PROVE  field = short.timestamp
    <2>1. CASE b.format = 3
      <3>1. s.commons[b.csid] = Short(a.last[b.csid]) /\ a.last[b.csid] \in Commons
            /\ a.last[b.csid].timestamp = b.common.timestamp
        BY <2>1, FacesKnown
      <3>2. Short(a.last[b.csid]).timestamp = short.timestamp
        BY <3>1, <1>2, <1>4, ShortOf
      <3> QED
        BY <2>1, <3>1, <3>2
    <2>2. CASE b.format # 3
      <3>1. s.buffer[2] = all[a.at + 2]
        BY <1>3, <1>6, <2>2 DEF Fixed, Facing
      <3>2. s.buffer[2] = [token |-> "header", common |-> [f \in Fields(b.format) |-> short[f]]]
        BY <3>1, <2>2 DEF Facing, ChunkAt
      <3>3. "timestamp" \in Fields(b.format)
        BY <1>2, <2>2, FieldsOf
      <3> HIDE DEF short
      <3> QED
        BY <2>2, <3>2, <3>3
    <2> QED
      BY <2>1, <2>2
  <1> HIDE DEF short, field
  <1>7. Fixed(b) \in Nat
    BY DEF Fixed
  <1> QED
    BY <1>3, <1>4, <1>5, <1>6, <1>7 DEF HeaderLength

\* With the header there, the fields come out as they went in.
LEMMA FacesCommon ==
    ASSUME NEW s, NEW d, NEW all, NEW a, NEW b, Facing(s, d, all, a, b),
           Len(s.buffer) >= HeaderLength(b)
    PROVE  Common(s, b.format, b.csid) = Short(b.common)
  <1> DEFINE short == Short(b.common)
  <1>1. b.common \in Commons /\ b.format \in 0..3
    BY DEF Facing, Follows, Describes
  <1>2. short \in Commons
    BY <1>1, ShortOf
  <1>3. \A f \in Fields(b.format) : f \in Fields(0) /\ s.buffer[2].common[f] = short[f]
    <2>1. CASE b.format = 3
      BY <2>1 DEF Fields
    <2>2. CASE b.format # 3
      <3>1. Len(s.buffer) \in Nat /\ Len(s.buffer) >= 2
        BY <2>2 DEF HeaderLength, Fixed, Facing
      <3>2. s.buffer[2] = all[a.at + 2]
        BY <3>1 DEF Facing
      <3>3. s.buffer[2] = [token |-> "header", common |-> [f \in Fields(b.format) |-> short[f]]]
        BY <3>2, <2>2 DEF Facing, ChunkAt
      <3> HIDE DEF short
      <3> QED
        BY <1>1, <3>3, FieldsOf
    <2> QED
      BY <2>1, <2>2
  <1>4. \A f \in Fields(0) \ Fields(b.format) : s.commons[b.csid][f] = short[f]
    <2>1. CASE b.format = 0
      BY <2>1
    <2>2. CASE b.format # 0
      <3>1. /\ a.last[b.csid] \in Commons
            /\ s.commons[b.csid] = Short(a.last[b.csid])
            /\ \A f \in Fields(0) \ Fields(b.format) : b.common[f] = a.last[b.csid][f]
        BY <2>2, FacesKnown
      <3>2. \A f \in Fields(0) \ Fields(b.format) : Short(a.last[b.csid])[f] = short[f]
        <4> SUFFICES ASSUME NEW f \in Fields(0) \ Fields(b.format)
                     PROVE  Short(a.last[b.csid])[f] = short[f]
          OBVIOUS
        <4>1. b.common[f] = a.last[b.csid][f]
          BY <3>1
        <4>2. f \in {"timestamp", "length", "type", "stream_id"}
          BY FieldsOf
        <4>3. b.common.timestamp \in Nat /\ Mark \in Nat
          BY <1>1, CodecAssumption DEF Commons, CodecAssumption
        <4>4. CASE f = "timestamp"
          BY <4>1, <4>3, <4>4, <1>1, <3>1, ShortOf
        <4>5. CASE f = "length"
          BY <4>1, <4>5, <1>1, <3>1, ShortOf
        <4>6. CASE f = "type"
          BY <4>1, <4>6, <1>1, <3>1, ShortOf
        <4>7. CASE f = "stream_id"
          BY <4>1, <4>7, <1>1, <3>1, ShortOf
        <4> QED
          BY <4>2, <4>4, <4>5, <4>6, <4>7
      <3> QED
        BY <3>1, <3>2
    <2> QED
      BY <2>1, <2>2
  <1> HIDE DEF short
  <1>5. Common(s, b.format, b.csid) = [f \in Fields(0) |-> short[f]]
    BY <1>3, <1>4 DEF Common
  <1>6. short = [f \in {"timestamp", "length", "type", "stream_id"} |-> short[f]]
    BY <1>2 DEF Commons
  <1>7. Common(s, b.format, b.csid) = short
    BY <1>5, <1>6, FieldsOf
  <1> QED
    BY <1>7 DEF short

\* The smaller of two numbers.
LEMMA MinOfTwo ==
    ASSUME NEW x \in Int, NEW y \in Int
    PROVE  /\ x <= y => Min({x, y}) = x
           /\ y <= x => Min({x, y}) = y
  <1>1. ASSUME x <= y
        PROVE  Min({x, y}) = x
    <2>1. \A z \in {x, y} : x <= z
      BY <1>1
    <2>2. \A w \in {x, y} : (\A z \in {x, y} : w <= z) => w = x
      BY <1>1
    <2> QED
      BY <2>1, <2>2 DEF Min
  <1>2. ASSUME y <= x
        PROVE  Min({x, y}) = y
    <2>1. \A z \in {x, y} : y <= z
      BY <1>2
    <2>2. \A w \in {x, y} : (\A z \in {x, y} : w <= z) => w = y
      BY <1>2
    <2> QED
      BY <2>1, <2>2 DEF Min
  <1> QED
    BY <1>1, <1>2

\* The numbers of a chunk.
LEMMA ChunkNumbers ==
    ASSUME NEW a, NEW b, Client(a), Follows(a, b)
    PROVE  /\ b.csid \in ChunkStreams
           /\ a.next[b.csid] \in 1..Len(Script[b.csid])
           /\ Script[b.csid][a.next[b.csid]] \in ScriptMessage
           /\ a.offset[b.csid] \in Nat
           /\ b.to \in Nat
           /\ a.offset[b.csid] < b.to
           /\ b.to <= Script[b.csid][a.next[b.csid]].length
           /\ b.to - a.offset[b.csid] = Min({ChunkSize, Script[b.csid][a.next[b.csid]].length - a.offset[b.csid]})
  <1> DEFINE c == b.csid
             m == Script[c][a.next[c]]
  <1>1. c \in ChunkStreams /\ a.next[c] <= Len(Script[c]) /\ b.to \in Nat
        /\ b.to = Min({a.offset[c] + ChunkSize, m.length})
    BY DEF Follows
  <1>2. a.next[c] \in Nat \ {0} /\ a.offset[c] \in Nat
        /\ (a.offset[c] # 0 => a.offset[c] < m.length)
    BY <1>1 DEF Client
  <1>3. Script[c] \in Seq(ScriptMessage)
    BY <1>1, ConstantsAssumption DEF ConstantsAssumption, ChunkStreams
  <1>4. a.next[c] \in 1..Len(Script[c]) /\ m \in ScriptMessage
    BY <1>1, <1>2, <1>3
  <1>5. m.length \in Nat \ {0}
    BY <1>4 DEF ScriptMessage
  <1>6. ChunkSize \in Nat \ {0}
    BY CodecAssumption DEF CodecAssumption
  <1> HIDE DEF m
  <1>7. a.offset[c] + ChunkSize <= m.length => b.to = a.offset[c] + ChunkSize
    BY SMTT(40), <1>1, <1>2, <1>5, <1>6, MinOfTwo
  <1>8. m.length <= a.offset[c] + ChunkSize => b.to = m.length
    BY SMTT(40), <1>1, <1>2, <1>5, <1>6, MinOfTwo
  <1>9. a.offset[c] < m.length
    BY <1>2, <1>5
  <1>10. b.to - a.offset[c] = Min({ChunkSize, m.length - a.offset[c]})
    <2>1. CASE a.offset[c] + ChunkSize <= m.length
      <3>1. ChunkSize <= m.length - a.offset[c]
        BY <2>1, <1>2, <1>5, <1>6
      <3>2. Min({ChunkSize, m.length - a.offset[c]}) = ChunkSize
        BY <3>1, <1>2, <1>5, <1>6, MinOfTwo
      <3> QED
        BY <3>2, <2>1, <1>2, <1>6, <1>7
    <2>2. CASE ~ (a.offset[c] + ChunkSize <= m.length)
      <3>1. m.length - a.offset[c] <= ChunkSize /\ m.length <= a.offset[c] + ChunkSize
        BY <2>2, <1>2, <1>5, <1>6
      <3>2. Min({ChunkSize, m.length - a.offset[c]}) = m.length - a.offset[c]
        BY <3>1, <1>2, <1>5, <1>6, MinOfTwo
      <3> QED
        BY <3>1, <3>2, <1>8
    <2> QED
      BY <2>1, <2>2
  <1>11. a.offset[c] < b.to /\ b.to <= m.length
    BY <1>1, <1>2, <1>5, <1>6, <1>7, <1>8, <1>9
  <1> QED
    BY <1>1, <1>2, <1>4, <1>10, <1>11 DEF m

\* The payload of a message is its pieces put together.
LEMMA Pieces ==
    ASSUME NEW c \in ChunkStreams, NEW i \in Nat, NEW from \in Nat, NEW to \in Nat, from <= to
    PROVE  /\ Piece(c, i, from, to) \in Seq(Token)
           /\ Len(Piece(c, i, from, to)) = to - from
           /\ \A k \in 1..(to - from) : Piece(c, i, from, to)[k] = Unit(c, i, from + k)
           /\ Piece(c, i, 0, from) \in Seq(Token)
           /\ Len(Piece(c, i, 0, from)) = from
           /\ Piece(c, i, 0, from) \o Piece(c, i, from, to) = Piece(c, i, 0, to)
  <1>1. \A k \in Nat : Unit(c, i, k) \in Token
    BY DEF Unit, Token
  <1>2. \A x, y \in Nat : x <= y => /\ Piece(c, i, x, y) \in Seq(Token)
                                    /\ Len(Piece(c, i, x, y)) = y - x
                                    /\ \A k \in 1..(y - x) : Piece(c, i, x, y)[k] = Unit(c, i, x + k)
    <2> SUFFICES ASSUME NEW x \in Nat, NEW y \in Nat, x <= y
                 PROVE  /\ Piece(c, i, x, y) \in Seq(Token)
                        /\ Len(Piece(c, i, x, y)) = y - x
                        /\ \A k \in 1..(y - x) : Piece(c, i, x, y)[k] = Unit(c, i, x + k)
      OBVIOUS
    <2> DEFINE n == y - x
    <2>1. n \in Nat
      OBVIOUS
    <2>2. \A k \in 1..n : x + k \in Nat
      OBVIOUS
    <2>3. Piece(c, i, x, y) = [k \in 1..n |-> Unit(c, i, x + k)]
      BY DEF Piece
    <2> HIDE DEF n
    <2>4. Piece(c, i, x, y) \in [1..n -> Token]
      BY <1>1, <2>2, <2>3
    <2>5. Piece(c, i, x, y) \in Seq(Token) /\ Len(Piece(c, i, x, y)) = n
      BY <2>1, <2>4
    <2> QED
      BY <2>3, <2>5 DEF n
  <1> DEFINE l == Piece(c, i, 0, from)
             r == Piece(c, i, from, to)
             w == Piece(c, i, 0, to)
  <1>3. /\ l \in Seq(Token) /\ Len(l) = from
        /\ \A k \in 1..from : l[k] = Unit(c, i, k)
    <2>1. 0 \in Nat /\ 0 <= from
      OBVIOUS
    <2>2. /\ Piece(c, i, 0, from) \in Seq(Token)
          /\ Len(Piece(c, i, 0, from)) = from - 0
          /\ \A k \in 1..(from - 0) : Piece(c, i, 0, from)[k] = Unit(c, i, 0 + k)
      BY <1>2, <2>1, Zenon
    <2>3. from - 0 = from /\ \A k \in 1..from : 0 + k = k
      OBVIOUS
    <2>4. \A k \in 1..from : Piece(c, i, 0, from)[k] = Unit(c, i, k)
      BY <2>2, <2>3, Zenon
    <2> QED
      BY <2>2, <2>3, <2>4
  <1>4. /\ r \in Seq(Token) /\ Len(r) = to - from
        /\ \A k \in 1..(to - from) : r[k] = Unit(c, i, from + k)
    BY <1>2
  <1>5. /\ w \in Seq(Token) /\ Len(w) = to
        /\ \A k \in 1..to : w[k] = Unit(c, i, k)
    <2>1. 0 \in Nat /\ 0 <= to
      OBVIOUS
    <2>2. /\ Piece(c, i, 0, to) \in Seq(Token)
          /\ Len(Piece(c, i, 0, to)) = to - 0
          /\ \A k \in 1..(to - 0) : Piece(c, i, 0, to)[k] = Unit(c, i, 0 + k)
      BY <1>2, <2>1, Zenon
    <2>3. to - 0 = to /\ \A k \in 1..to : 0 + k = k
      OBVIOUS
    <2>4. \A k \in 1..to : Piece(c, i, 0, to)[k] = Unit(c, i, k)
      BY <2>2, <2>3, Zenon
    <2> QED
      BY <2>2, <2>3, <2>4
  <1> HIDE DEF l, r, w
  <1>6. l \o r \in Seq(Token) /\ Len(l \o r) = to
    BY <1>3, <1>4
  <1>7. \A k \in 1..to : (l \o r)[k] = w[k]
    <2> SUFFICES ASSUME NEW k \in 1..to
                 PROVE  (l \o r)[k] = w[k]
      OBVIOUS
    <2>1. CASE k <= from
      BY <2>1, <1>3, <1>4, <1>5
    <2>2. CASE ~ (k <= from)
      <3>1. k - from \in 1..(to - from) /\ from + (k - from) = k
        BY <2>2
      <3>2. (l \o r)[k] = r[k - from]
        BY <2>2, <3>1, <1>3, <1>4
      <3>3. r[k - from] = Unit(c, i, from + (k - from))
        BY <3>1, <1>4
      <3> QED
        BY <3>1, <3>2, <3>3, <1>5
    <2> QED
      BY <2>1, <2>2
  <1>8. l \o r = w
    BY <1>5, <1>6, <1>7, SeqEqual
  <1> QED
    BY <1>3, <1>4, <1>8 DEF l, r, w

\* A message is being read just when its chunk is not the first.
LEMMA FacesReading ==
    ASSUME NEW s, NEW d, NEW all, NEW a, NEW b, Facing(s, d, all, a, b)
    PROVE  LET id == MessageId(b.csid, b.common.stream_id)
           IN  /\ id \in DOMAIN s.reading <=> a.offset[b.csid] # 0
               /\ a.offset[b.csid] # 0 =>
                    /\ ReadUpTo(s.reading[id], b.csid, a.next[b.csid], a.offset[b.csid])
                    /\ a.last[b.csid].stream_id = b.common.stream_id
               /\ PayloadSize(s, id, Short(b.common)) = b.to - a.offset[b.csid]
  <1> DEFINE c == b.csid
             m == Script[c][a.next[c]]
             id == MessageId(c, b.common.stream_id)
             from == a.offset[c]
  <1>0. Client(a) /\ Follows(a, b)
    BY DEF Facing
  <1>1. /\ c \in ChunkStreams /\ m \in ScriptMessage /\ from \in Nat /\ b.to \in Nat
        /\ a.next[c] \in Nat /\ a.next[c] # 0
        /\ from < b.to /\ b.to <= m.length
        /\ b.to - from = Min({ChunkSize, m.length - from})
    <2>1. \A i \in 1..Len(Script[c]) : i \in Nat /\ i # 0
      OBVIOUS
    <2> QED
      BY <1>0, <2>1, ChunkNumbers
  <1>2. b.common \in Commons /\ b.common.stream_id = m.stream_id /\ b.common.length = m.length
    BY <1>0 DEF Follows, Describes
  <1>3. from # 0 => a.last[c].stream_id = b.common.stream_id
    BY <1>0, <1>1, <1>2 DEF Client, Latest, Describes
  <1>4. from # 0 => id \in DOMAIN s.reading /\ ReadUpTo(s.reading[id], c, a.next[c], from)
    BY <1>1, <1>3 DEF Facing, Knows
  <1>5. id \in DOMAIN s.reading => from # 0
    <2> SUFFICES ASSUME id \in DOMAIN s.reading
                 PROVE  from # 0
      OBVIOUS
    <2>1. PICK e \in ChunkStreams : a.offset[e] # 0 /\ id = MessageId(e, a.last[e].stream_id)
      BY DEF Facing, Knows
    <2>2. e = c
      BY <2>1 DEF MessageId
    <2> QED
      BY <2>1, <2>2
  <1>6. Short(b.common).length = m.length
    BY <1>2, ShortOf
  <1>7. PayloadSize(s, id, Short(b.common)) = b.to - from
    <2>1. CASE from # 0
      <3>1. s.reading[id].length = m.length /\ s.reading[id].payload = Piece(c, a.next[c], 0, from)
        BY <2>1, <1>4 DEF ReadUpTo
      <3>2. Len(s.reading[id].payload) = from
        BY <3>1, <1>1, Pieces
      <3> QED
        BY <2>1, <1>1, <1>4, <3>1, <3>2 DEF PayloadSize
    <2>2. CASE from = 0
      <3>1. id \notin DOMAIN s.reading
        BY <2>2, <1>5
      <3>2. m.length - from = m.length
        BY <2>2, <1>1 DEF ScriptMessage
      <3> QED
        BY <1>1, <1>6, <3>1, <3>2 DEF PayloadSize
    <2> QED
      BY <2>1, <2>2
  <1> QED
    BY <1>3, <1>4, <1>5, <1>7

\* What the message looks like after the chunk.
MessageAfter(s, b, msg) ==
    LET id == MessageId(b.csid, b.common.stream_id)
    IN  IF id \in DOMAIN s.reading THEN msg.timestamp = s.reading[id].timestamp
        ELSE msg.timestamp = MessageTimestamp(s, b.format, id, Short(b.common))

\* The session once the chunk, the i-th message's up to b.to, is taken; it is the
\* message's last if done is TRUE.
Taken(s, t, b, msg, done, size) ==
    LET id == MessageId(b.csid, b.common.stream_id)
    IN  /\ DOMAIN t = SessionFields
        /\ t.state = s.state
        /\ t.open = TRUE
        /\ t.buffer = SubSeq(s.buffer, HeaderLength(b) + size + 1, Len(s.buffer))
        /\ t.commons = Put(s.commons, b.csid, Short(b.common))
        /\ t.previous = IF b.format = 0 \/ done = TRUE
                        THEN Put(s.previous, id, MessageTimestamp(s, b.format, id, Short(b.common)))
                        ELSE s.previous
        /\ t.reading = IF done = TRUE THEN Erase(s.reading, id) ELSE Put(s.reading, id, msg)
        /\ t.handled = IF done = TRUE THEN <<msg>> ELSE <<>>

\* The timestamp the chunk gives is a number.
LEMMA FacesTimestamp ==
    ASSUME NEW s, NEW d, NEW all, NEW a, NEW b, Facing(s, d, all, a, b)
    PROVE  MessageTimestamp(s, b.format, MessageId(b.csid, b.common.stream_id), Short(b.common)) \in Nat
  <1>1. b.common \in Commons
    BY DEF Facing, Follows, Describes
  <1>2. Short(b.common).timestamp \in Nat
    BY <1>1, ShortOf DEF Commons
  <1>3. b.format # 0 => s.previous[MessageId(b.csid, b.common.stream_id)] \in Nat
    BY FacesKnown DEF Facing, Knows
  <1> QED
    BY <1>2, <1>3 DEF MessageTimestamp

LEMMA FacesStored ==
    ASSUME NEW s, NEW d, NEW all, NEW a, NEW b, Facing(s, d, all, a, b),
           Len(s.buffer) >= HeaderLength(b) + (b.to - a.offset[b.csid])
    PROVE  \E msg, done :
              /\ ReadUpTo(msg, b.csid, a.next[b.csid], b.to)
              /\ MessageAfter(s, b, msg)
              /\ done \in BOOLEAN
              /\ done = TRUE <=> b.to = Script[b.csid][a.next[b.csid]].length
              /\ Taken(s, StoreChunk(s, b.format, b.csid, Short(b.common), HeaderLength(b)),
                       b, msg, done, b.to - a.offset[b.csid])
  <1> DEFINE c == b.csid
             i == a.next[c]
             m == Script[c][i]
             from == a.offset[c]
             common == Short(b.common)
             header == HeaderLength(b)
             id == MessageId(c, common.stream_id)
             size == PayloadSize(s, id, common)
             timestamp == MessageTimestamp(s, b.format, id, common)
             start == IF id \in DOMAIN s.reading THEN s.reading[id]
                      ELSE [type |-> common.type, timestamp |-> timestamp,
                            stream_id |-> common.stream_id, length |-> common.length,
                            payload |-> <<>>]
             msg == [start EXCEPT !.payload = @ \o SubSeq(s.buffer, header + 1, header + size)]
             done == Len(msg.payload) = msg.length
             t == StoreChunk(s, b.format, c, common, header)
  <1>0. Client(a) /\ Follows(a, b)
    BY DEF Facing
  <1>1. /\ c \in ChunkStreams /\ m \in ScriptMessage /\ from \in Nat /\ b.to \in Nat
        /\ i \in Nat /\ from < b.to /\ b.to <= m.length
    <2>1. \A k \in 1..Len(Script[c]) : k \in Nat
      OBVIOUS
    <2> QED
      BY <1>0, <2>1, ChunkNumbers
  <1>p. /\ Piece(c, i, from, b.to) \in Seq(Token)
        /\ Len(Piece(c, i, from, b.to)) = b.to - from
        /\ \A k \in 1..(b.to - from) : Piece(c, i, from, b.to)[k] = Unit(c, i, from + k)
        /\ Piece(c, i, 0, from) \in Seq(Token)
        /\ Len(Piece(c, i, 0, from)) = from
        /\ Piece(c, i, 0, b.to) \in Seq(Token)
        /\ Len(Piece(c, i, 0, b.to)) = b.to
        /\ Piece(c, i, 0, from) \o Piece(c, i, from, b.to) = Piece(c, i, 0, b.to)
    <2> HIDE DEF c, i, m, from
    <2> DEFINE to == b.to
    <2>1. from <= to /\ to <= to /\ to \in Nat
      BY <1>1 DEF ScriptMessage
    <2> HIDE DEF to
    <2>2. /\ Piece(c, i, from, to) \in Seq(Token)
          /\ Len(Piece(c, i, from, to)) = to - from
          /\ \A k \in 1..(to - from) : Piece(c, i, from, to)[k] = Unit(c, i, from + k)
          /\ Piece(c, i, 0, from) \in Seq(Token)
          /\ Len(Piece(c, i, 0, from)) = from
          /\ Piece(c, i, 0, from) \o Piece(c, i, from, to) = Piece(c, i, 0, to)
      BY <1>1, <2>1, Pieces
    <2>3. Piece(c, i, 0, to) \in Seq(Token) /\ Len(Piece(c, i, 0, to)) = to
      BY <1>1, <2>1, Pieces
    <2> QED
      BY <2>2, <2>3 DEF to
  <1>2. b.common \in Commons /\ b.format \in 0..3 /\ b.common.stream_id = m.stream_id
        /\ b.common.length = m.length /\ b.common.type = m.type
    BY <1>0 DEF Follows, Describes
  <1>3. common \in Commons /\ common.stream_id = b.common.stream_id
        /\ common.length = m.length /\ common.type = m.type
    BY <1>2, ShortOf
  <1>4. header \in Nat /\ Mark \in Nat
    <2>1. Fixed(b) \in Nat
      BY DEF Fixed
    <2> QED
      BY <2>1, CodecAssumption DEF HeaderLength, CodecAssumption
  <1>5. id = MessageId(c, b.common.stream_id)
    BY <1>3
  <1>6. /\ id \in DOMAIN s.reading <=> from # 0
        /\ from # 0 => ReadUpTo(s.reading[id], c, i, from)
        /\ size = b.to - from
    BY <1>5, FacesReading
  <1>7. timestamp \in Nat
    BY <1>5, FacesTimestamp
  <1> DEFINE piece == SubSeq(s.buffer, header + 1, header + size)
  <1>8. piece = Piece(c, i, from, b.to)
    <2>1. s.buffer \in Seq(Token) /\ Len(s.buffer) \in Nat /\ header + size <= Len(s.buffer)
      BY <1>6 DEF Facing
    <2>2. size \in Nat /\ size >= 1
      BY <1>1, <1>6
    <2> HIDE DEF size, header
    <2>3. header + 1 \in 1..Len(s.buffer) + 1 /\ header + size \in 0..Len(s.buffer)
      BY <1>4, <2>1, <2>2
    <2>4. /\ piece \in Seq(Token) /\ Len(piece) = size
          /\ \A k \in 1..size : piece[k] = s.buffer[header + k]
      <3>1. header + 1 <= header + size + 1
        BY <1>4, <2>2
      <3>2. \A k \in 1..size : (header + 1) + k - 1 = header + k
        BY <1>4, <2>2
      <3>3. (header + size) - (header + 1) + 1 = size
        BY <1>4, <2>2
      <3>4. \A k \in (header + 1)..(header + size) : s.buffer[k] \in Token
        BY <1>4, <2>1, <2>2
      <3> QED
        BY <1>4, <2>1, <2>2, <2>3, <3>1, <3>2, <3>3, <3>4, SubSeqProperties
    <2>5. \A k \in 1..size : s.buffer[header + k] = Unit(c, i, from + k)
      <3> SUFFICES ASSUME NEW k \in 1..size
                   PROVE  s.buffer[header + k] = Unit(c, i, from + k)
        OBVIOUS
      <3>1. header + k \in 1..Len(s.buffer)
        BY <1>4, <2>1, <2>2
      <3>2. s.buffer[header + k] = all[a.at + (header + k)]
        BY <3>1 DEF Facing
      <3>3. a.at \in Nat
        BY DEF Facing
      <3>4. a.at + (header + k) = a.at + header + k
        BY <1>4, <2>2, <3>3
      <3>5. all[a.at + header + k] = Unit(c, i, from + k)
        BY <1>6 DEF Facing, ChunkAt, header
      <3> QED
        BY <3>2, <3>4, <3>5
    <2>6. /\ Piece(c, i, from, b.to) \in Seq(Token) /\ Len(Piece(c, i, from, b.to)) = size
          /\ \A k \in 1..size : Piece(c, i, from, b.to)[k] = Unit(c, i, from + k)
      BY <1>p, <1>6
    <2> HIDE DEF piece
    <2>7. \A k \in 1..size : piece[k] = Piece(c, i, from, b.to)[k]
      BY <2>4, <2>5, <2>6
    <2> QED
      BY <2>4, <2>6, <2>7, SeqEqual
  <1> HIDE DEF common, header, m, i
  <1>9. /\ start \in Messages
        /\ start.type = m.type /\ start.stream_id = m.stream_id /\ start.length = m.length
        /\ start.payload = Piece(c, i, 0, from)
    <2>1. CASE from # 0
      BY <2>1, <1>6 DEF ReadUpTo, m, i
    <2>2. CASE from = 0
      <3>1. id \notin DOMAIN s.reading
        BY <2>2, <1>6
      <3> HIDE DEF timestamp, id
      <3>2. start = [type |-> common.type, timestamp |-> timestamp,
                     stream_id |-> common.stream_id, length |-> common.length,
                     payload |-> <<>>]
        BY <3>1
      <3>3. Piece(c, i, 0, from) = <<>>
        BY <1>p, <2>2, EmptySeq
      <3>4. <<>> \in Seq(Token)
        OBVIOUS
      <3> HIDE DEF start
      <3>5. start \in Messages
        BY <3>2, <3>4, <1>3, <1>7 DEF Messages, Commons
      <3> QED
        BY <3>2, <3>3, <3>5, <1>2, <1>3
    <2> QED
      BY <2>1, <2>2
  <1>10. start.timestamp = IF id \in DOMAIN s.reading THEN s.reading[id].timestamp ELSE timestamp
    OBVIOUS
  <1> HIDE DEF start, piece, timestamp
  <1>11. /\ msg \in Messages
         /\ msg.type = m.type /\ msg.stream_id = m.stream_id /\ msg.length = m.length
         /\ msg.payload = Piece(c, i, 0, b.to)
         /\ msg.timestamp = start.timestamp
    <2>1. /\ Piece(c, i, 0, from) \o Piece(c, i, from, b.to) = Piece(c, i, 0, b.to)
          /\ Piece(c, i, 0, b.to) \in Seq(Token)
      BY <1>p
    <2>2. msg = [start EXCEPT !.payload = start.payload \o piece]
      BY DEF piece
    <2>3. start.payload \o piece = Piece(c, i, 0, b.to)
      BY <1>8, <1>9, <2>1
    <2> HIDE DEF msg
    <2> QED
      BY <1>9, <2>1, <2>2, <2>3 DEF Messages
  <1> HIDE DEF msg
  <1>12. ReadUpTo(msg, c, i, b.to)
    BY <1>11 DEF ReadUpTo, m
  <1>13. MessageAfter(s, b, msg)
    BY <1>5, <1>10, <1>11 DEF MessageAfter, timestamp, common
  <1>14. Len(msg.payload) = b.to
    BY <1>p, <1>11
  <1>15. done \in BOOLEAN /\ (done = TRUE <=> b.to = m.length)
    BY <1>11, <1>14
  <1> HIDE DEF size, id
  <1>16. t = [Consume(s, header + size) EXCEPT
                !.commons = Put(@, c, common),
                !.previous = PreviousAfter(s, id, b.format, done, timestamp),
                !.reading = ReadingAfter(s, id, done, msg),
                !.handled = IF done THEN Append(@, msg) ELSE @]
    BY DEF StoreChunk, msg, start, size, id, timestamp
  <1> HIDE DEF done, t
  <1>17. /\ DOMAIN t = DOMAIN s
         /\ t.state = s.state /\ t.open = s.open
         /\ t.buffer = SubSeq(s.buffer, header + size + 1, Len(s.buffer))
         /\ t.commons = Put(s.commons, c, common)
         /\ t.previous = PreviousAfter(s, id, b.format, done, timestamp)
         /\ t.reading = ReadingAfter(s, id, done, msg)
         /\ t.handled = IF done THEN Append(s.handled, msg) ELSE s.handled
    <2>1. DOMAIN s = SessionFields
      BY DEF Facing
    <2> QED
      BY <1>16, <2>1 DEF Consume, SessionFields
  <1>18. Append(<<>>, msg) = <<msg>>
    OBVIOUS
  <1>19. Taken(s, t, b, msg, done, b.to - from)
    <2>1. DOMAIN s = SessionFields /\ s.open = TRUE /\ s.handled = <<>>
      BY DEF Facing
    <2>2. t.handled = IF done = TRUE THEN <<msg>> ELSE <<>>
      BY <1>15, <1>17, <1>18, <2>1
    <2>3. t.reading = IF done = TRUE THEN Erase(s.reading, id) ELSE Put(s.reading, id, msg)
      BY <1>15, <1>17 DEF ReadingAfter
    <2>4. t.previous = IF b.format = 0 \/ done = TRUE THEN Put(s.previous, id, timestamp) ELSE s.previous
      BY <1>15, <1>17 DEF PreviousAfter
    <2>5. id = MessageId(b.csid, b.common.stream_id)
      BY <1>5
    <2> QED
      BY <1>6, <1>17, <2>1, <2>2, <2>3, <2>4, <2>5 DEF Taken, common, header, timestamp
  <1> QED
    BY <1>12, <1>13, <1>15, <1>19 DEF t, i, m, common, header

\* The chunk leaves the other chunk streams alone.
LEMMA OthersStay ==
    ASSUME NEW a, NEW b, Client(a), Follows(a, b), NEW e \in ChunkStreams, e # b.csid
    PROVE  /\ b.next[e] = a.next[e]
           /\ b.offset[e] = a.offset[e]
           /\ b.last[e] = a.last[e]
           /\ b.began[e] = a.began[e]
           /\ Latest(b, e) = Latest(a, e)
  <1>1. b.last[e] = a.last[e]
    BY DEF Follows, Client
  <1>2. b.began[e] = a.began[e]
    BY DEF Follows, Client
  <1>3. b.next[e] = a.next[e] /\ b.offset[e] = a.offset[e]
    <2>1. CASE b.to = Script[b.csid][a.next[b.csid]].length
      BY <2>1 DEF Follows, Client
    <2>2. CASE b.to # Script[b.csid][a.next[b.csid]].length
      BY <2>2 DEF Follows, Client
    <2> QED
      BY <2>1, <2>2
  <1> QED
    BY <1>1, <1>2, <1>3 DEF Latest

\* And what it does to its own.
LEMMA OwnMoves ==
    ASSUME NEW a, NEW b, Client(a), Follows(a, b)
    PROVE  LET c == b.csid
               m == Script[c][a.next[c]]
           IN  /\ b.last[c] = b.common
               /\ a.offset[c] = 0 => b.began[c] = b.format
               /\ a.offset[c] # 0 => b.began[c] = a.began[c]
               /\ Latest(b, c) = a.next[c]
               /\ b.to = m.length => /\ b.next[c] = a.next[c] + 1
                                     /\ b.offset[c] = 0
                                     /\ b.completed = Append(a.completed, <<c, a.next[c], b.began[c]>>)
               /\ b.to # m.length => /\ b.next[c] = a.next[c]
                                     /\ b.offset[c] = b.to
                                     /\ b.completed = a.completed
  <1> DEFINE c == b.csid
             m == Script[c][a.next[c]]
  <1>1. c \in ChunkStreams /\ b.to \in Nat /\ a.offset[c] < b.to /\ a.offset[c] \in Nat
        /\ a.next[c] \in Nat \ {0}
    BY ChunkNumbers DEF Client
  <1>2. b.last[c] = b.common
    BY <1>1 DEF Follows, Client
  <1>3. /\ a.offset[c] = 0 => b.began[c] = b.format
        /\ a.offset[c] # 0 => b.began[c] = a.began[c]
    BY <1>1 DEF Follows, Client
  <1>4. ASSUME b.to = m.length
        PROVE  b.next[c] = a.next[c] + 1 /\ b.offset[c] = 0
               /\ b.completed = Append(a.completed, <<c, a.next[c], b.began[c]>>)
    BY <1>1, <1>4 DEF Follows, Client
  <1>5. ASSUME b.to # m.length
        PROVE  b.next[c] = a.next[c] /\ b.offset[c] = b.to /\ b.completed = a.completed
    BY <1>1, <1>5 DEF Follows, Client
  <1>6. Latest(b, c) = a.next[c]
    <2> HIDE DEF c, m
    <2>1. b.to # 0
      BY <1>1
    <2>2. CASE b.to = m.length
      <3>1. b.next[c] = a.next[c] + 1 /\ b.offset[c] = 0
        BY <2>2, <1>4
      <3>2. (a.next[c] + 1) - 1 = a.next[c]
        BY <1>1
      <3> QED
        BY <3>1, <3>2 DEF Latest
    <2>3. CASE b.to # m.length
      BY <2>1, <2>3, <1>5 DEF Latest
    <2> QED
      BY <2>2, <2>3
  <1> QED
    BY <1>2, <1>3, <1>4, <1>5, <1>6

Completed == ChunkStreams \X Nat \X (0..3)

\* The absolute messages once one more is completed.
LEMMA AppendAnchor ==
    ASSUME NEW q \in Seq(Completed), NEW z \in Completed
    PROVE  LET w == Append(q, z)
           IN  /\ w \in Seq(Completed)
               /\ Len(w) = Len(q) + 1
               /\ w[Len(q) + 1] = z
               /\ \A i \in 1..Len(q) : w[i] = q[i]
               /\ \A c, k : (z[1] # c \/ z[3] # 0) => (Anchor(w, c, k) <=> Anchor(q, c, k))
               /\ z[3] = 0 => \A k : Anchor(w, z[1], k) <=> k = Len(q) + 1
               /\ \A j \in 1..Len(q) : \A k : AnchorOf(w, j, k) <=> AnchorOf(q, j, k)
               /\ \A k : AnchorOf(w, Len(q) + 1, k) <=> Anchor(w, z[1], k)
  <1> DEFINE w == Append(q, z)
             l == Len(q)
  <1>1. /\ w \in Seq(Completed) /\ Len(w) = l + 1 /\ w[l + 1] = z
        /\ \A i \in 1..l : w[i] = q[i]
        /\ l \in Nat
    OBVIOUS
  <1> HIDE DEF w
  <1>2. \A i \in 1..(l + 1) : i \in 1..l \/ i = l + 1
    BY <1>1
  <1>3. \A i \in 1..l : i \in 1..(l + 1) /\ ~ (l + 1 <= i)
    BY <1>1
  <1> DEFINE o == l + 1
  <1>4. o \in 1..o /\ o \in Nat /\ ~ (o > o)
    BY <1>1
  <1> HIDE DEF o
  <1>5. /\ Len(w) = o /\ w[o] = z
        /\ \A i \in 1..o : i \in 1..l \/ i = o
        /\ \A i \in 1..l : i \in 1..o /\ i < o /\ ~ (i > o) /\ i # o
    BY <1>1, <1>2, <1>3 DEF o
  <1> HIDE DEF l
  <1>6. ASSUME NEW c, NEW k, z[1] # c \/ z[3] # 0
        PROVE  Anchor(w, c, k) <=> Anchor(q, c, k)
    <2>1. ASSUME Anchor(w, c, k)
          PROVE  Anchor(q, c, k)
      <3>1. k \in 1..o /\ w[k][1] = c /\ w[k][3] = 0
            /\ \A i \in 1..o : (i > k /\ w[i][1] = c) => w[i][3] # 0
        BY <2>1, <1>5 DEF Anchor
      <3>2. k \in 1..l
        BY <3>1, <1>5, <1>6
      <3>3. q[k][1] = c /\ q[k][3] = 0
            /\ \A i \in 1..l : (i > k /\ q[i][1] = c) => q[i][3] # 0
        BY <3>1, <3>2, <1>1, <1>5
      <3> QED
        BY <3>2, <3>3 DEF Anchor, l
    <2>2. ASSUME Anchor(q, c, k)
          PROVE  Anchor(w, c, k)
      <3>1. k \in 1..l /\ q[k][1] = c /\ q[k][3] = 0
            /\ \A i \in 1..l : (i > k /\ q[i][1] = c) => q[i][3] # 0
        BY <2>2 DEF Anchor, l
      <3>2. k \in 1..o /\ w[k][1] = c /\ w[k][3] = 0
        BY <3>1, <1>1, <1>5
      <3>3. ASSUME NEW i \in 1..o, i > k, w[i][1] = c
            PROVE  w[i][3] # 0
        <4>1. CASE i = o
          BY <4>1, <3>3, <1>5, <1>6
        <4>2. CASE i \in 1..l
          BY <4>2, <3>1, <3>3, <1>1
        <4> QED
          BY <4>1, <4>2, <1>5
      <3> QED
        BY <3>2, <3>3, <1>5 DEF Anchor
    <2> QED
      BY <2>1, <2>2
  <1>7. ASSUME z[3] = 0, NEW k
        PROVE  Anchor(w, z[1], k) <=> k = o
    <2>1. ASSUME Anchor(w, z[1], k)
          PROVE  k = o
      <3>1. k \in 1..o /\ \A i \in 1..o : (i > k /\ w[i][1] = z[1]) => w[i][3] # 0
        BY <2>1, <1>5 DEF Anchor
      <3>2. ~ (o > k)
        BY <3>1, <1>4, <1>5, <1>7
      <3> QED
        BY <3>1, <3>2, <1>4
    <2>2. ASSUME k = o
          PROVE  Anchor(w, z[1], k)
      <3>1. ASSUME NEW i \in 1..o
            PROVE  ~ (i > o)
        BY <1>4
      <3> QED
        BY <2>2, <3>1, <1>4, <1>5, <1>7 DEF Anchor
    <2> QED
      BY <2>1, <2>2
  <1>8. ASSUME NEW j \in 1..l, NEW k
        PROVE  AnchorOf(w, j, k) <=> AnchorOf(q, j, k)
    <2>1. \A i \in 1..j : i \in 1..l
      BY <1>1
    <2>2. w[j] = q[j] /\ \A i \in 1..j : w[i] = q[i]
      BY <2>1, <1>1
    <2> QED
      BY <2>2 DEF AnchorOf
  <1>9. \A k : AnchorOf(w, o, k) <=> Anchor(w, z[1], k)
    BY <1>5 DEF AnchorOf, Anchor
  <1>10. \A c, k : (z[1] # c \/ z[3] # 0) => (Anchor(w, c, k) <=> Anchor(q, c, k))
    BY <1>6
  <1>11. z[3] = 0 => \A k : Anchor(w, z[1], k) <=> k = o
    BY <1>7
  <1>12. \A j \in 1..l : \A k : AnchorOf(w, j, k) <=> AnchorOf(q, j, k)
    BY <1>8
  <1> QED
    BY <1>1, <1>9, <1>10, <1>11, <1>12 DEF o, l, w

\* A message with a relative timestamp is on the message stream of the one before.
LEMMA OwnStream ==
    ASSUME NEW a, NEW b, Client(a), Follows(a, b), b.began[b.csid] # 0
    PROVE  /\ a.next[b.csid] # 1
           /\ Stream(b.csid, a.next[b.csid]) = Stream(b.csid, a.next[b.csid] - 1)
  <1> DEFINE c == b.csid
             i == a.next[c]
  <1>1. c \in ChunkStreams /\ i \in Nat /\ Counts(a)
    BY ChunkNumbers DEF Client
  <1>2. CASE a.offset[c] # 0
    <2>1. a.began[c] # 0
      BY <1>2, OwnMoves
    <2> QED
      BY <2>1, <1>1, <1>2 DEF Counts
  <1>3. CASE a.offset[c] = 0
    <2>0. b.format # 0 /\ b.format \in 0..3
      <3>1. b.format \in 0..3
        BY DEF Follows
      <3>2. b.began[c] = b.format
        BY <1>3, OwnMoves
      <3> QED
        BY <3>1, <3>2
    <2>1. b.format \in 1..3
      BY <2>0
    <2>2. Latest(a, c) # 0 /\ \A f \in Fields(0) \ Fields(b.format) : b.common[f] = a.last[c][f]
      <3>1. b.format # 0 =>
                /\ Latest(a, b.csid) # 0
                /\ \A f \in Fields(0) \ Fields(b.format) : b.common[f] = a.last[b.csid][f]
        BY Zenon DEF Follows
      <3> QED
        BY <2>0, <3>1
    <2>3. "stream_id" \in Fields(0) \ Fields(b.format)
      BY <2>1 DEF Fields
    <2>4. b.common.stream_id = a.last[c].stream_id
      BY <2>2, <2>3
    <2>5. Latest(a, c) = i - 1
      BY <1>3 DEF Latest
    <2>6. i # 1
      BY <2>2, <2>5
    <2>7. b.common.stream_id = Stream(c, i) /\ a.last[c].stream_id = Stream(c, i - 1)
      BY <1>1, <2>2, <2>5 DEF Client, Follows, Describes, Stream
    <2> QED
      BY <2>4, <2>6, <2>7
  <1> QED
    BY <1>2, <1>3

\* The messages completed after the chunk.
LEMMA CompletedMoves ==
    ASSUME NEW a, NEW b, Client(a), Follows(a, b)
    PROVE  LET c == b.csid
               z == <<c, a.next[c], b.began[c]>>
           IN  /\ a.completed \in Seq(Completed)
               /\ z \in Completed
               /\ z[1] = c /\ z[2] = a.next[c] /\ z[3] = b.began[c]
               /\ b.began[c] \in 0..3
  <1> DEFINE c == b.csid
  <1>1. c \in ChunkStreams /\ a.next[c] \in Nat /\ a.completed \in Seq(Completed)
    BY ChunkNumbers DEF Client, Completed
  <1>2. b.began[c] \in 0..3
    BY <1>1 DEF Follows, Client
  <1> QED
    BY <1>1, <1>2 DEF Completed

LEMMA AnchorsMove ==
    ASSUME NEW a, NEW b, Client(a), Follows(a, b), b.to = Script[b.csid][a.next[b.csid]].length
    PROVE  LET c == b.csid
               q == a.completed
               w == b.completed
               l == Len(q)
           IN  /\ Len(w) = l + 1
               /\ w[l + 1] = <<c, a.next[c], b.began[c]>>
               /\ \A j \in 1..l : w[j] = q[j]
               /\ \A e, k : (c # e \/ b.began[c] # 0) => (Anchor(w, e, k) <=> Anchor(q, e, k))
               /\ b.began[c] = 0 => \A k : Anchor(w, c, k) <=> k = l + 1
               /\ \A j \in 1..l : \A k : AnchorOf(w, j, k) <=> AnchorOf(q, j, k)
               /\ \A k : AnchorOf(w, l + 1, k) <=> Anchor(w, c, k)
  <1> DEFINE c == b.csid
             q == a.completed
             w == b.completed
             z == <<c, a.next[c], b.began[c]>>
             l == Len(q)
  <1>1. w = Append(q, z)
    BY OwnMoves
  <1>2. q \in Seq(Completed) /\ z \in Completed /\ z[1] = c /\ z[3] = b.began[c]
    BY CompletedMoves
  <1> HIDE DEF w, q, z, l, c
  <1>3. /\ Len(w) = l + 1
        /\ w[l + 1] = z
        /\ \A j \in 1..l : w[j] = q[j]
        /\ \A e, k : (c # e \/ b.began[c] # 0) => (Anchor(w, e, k) <=> Anchor(q, e, k))
        /\ b.began[c] = 0 => \A k : Anchor(w, c, k) <=> k = l + 1
        /\ \A j \in 1..l : \A k : AnchorOf(w, j, k) <=> AnchorOf(q, j, k)
        /\ \A k : AnchorOf(w, l + 1, k) <=> Anchor(w, c, k)
    BY <1>1, <1>2, AppendAnchor DEF l
  <1> QED
    BY <1>3 DEF w, q, z, l, c

LEMMA FollowsCounts ==
    ASSUME NEW a, NEW b, Client(a), Follows(a, b)
    PROVE  Counts(b)
  <1> DEFINE c == b.csid
             i == a.next[c]
             m == Script[c][i]
             q == a.completed
             w == b.completed
             z == <<c, i, b.began[c]>>
             l == Len(q)
  <1>1. /\ c \in ChunkStreams /\ i \in Nat /\ m \in ScriptMessage
        /\ b.to \in Nat /\ b.to <= m.length /\ Counts(a)
    <2>1. \A k \in 1..Len(Script[c]) : k \in Nat
      OBVIOUS
    <2> QED
      BY <2>1, ChunkNumbers DEF Client
  <1>2. /\ b.to = m.length => /\ b.next[c] = i + 1
                              /\ b.offset[c] = 0
                              /\ w = Append(q, z)
        /\ b.to # m.length => /\ b.next[c] = i
                              /\ b.offset[c] = b.to
                              /\ w = q
    BY OwnMoves
  <1>3. \A e \in ChunkStreams : e # c => /\ b.next[e] = a.next[e]
                                         /\ b.offset[e] = a.offset[e]
                                         /\ b.began[e] = a.began[e]
    BY OthersStay
  <1>4. q \in Seq(Completed) /\ z \in Completed /\ z[1] = c /\ z[2] = i /\ z[3] = b.began[c]
    BY CompletedMoves
  <1>5. b.began[c] # 0 => i # 1 /\ Stream(c, i) = Stream(c, i - 1)
    BY OwnStream
  <1>6. b.to # m.length => m.length > ChunkSize
    <2> SUFFICES ASSUME b.to # m.length
                 PROVE  m.length > ChunkSize
      OBVIOUS
    <2>1. CASE a.offset[c] # 0
      BY <2>1, <1>1 DEF Counts
    <2>2. CASE a.offset[c] = 0
      <3>1. b.to = Min({0 + ChunkSize, m.length})
        BY <2>2 DEF Follows
      <3>2. ChunkSize \in Nat /\ 0 + ChunkSize = ChunkSize /\ m.length \in Nat
        BY <1>1, CodecAssumption DEF CodecAssumption, ScriptMessage
      <3> HIDE DEF m
      <3>3. Min({ChunkSize, m.length}) \in {ChunkSize, m.length}
        BY <3>2, MinOfTwo
      <3>4. b.to = ChunkSize
        BY <3>1, <3>2, <3>3
      <3> QED
        BY <1>1, <3>2, <3>4
    <2> QED
      BY <2>1, <2>2
  <1>7. l \in Nat /\ (i + 1) - 1 = i
    BY <1>1, <1>4
  <1>8. ASSUME b.to = m.length
        PROVE  /\ Len(w) = l + 1
               /\ w[l + 1] = z
               /\ \A j \in 1..l : w[j] = q[j]
               /\ \A e, k : (c # e \/ b.began[c] # 0) => (Anchor(w, e, k) <=> Anchor(q, e, k))
               /\ b.began[c] = 0 => \A k : Anchor(w, c, k) <=> k = l + 1
               /\ \A j \in 1..l : \A k : AnchorOf(w, j, k) <=> AnchorOf(q, j, k)
               /\ \A k : AnchorOf(w, l + 1, k) <=> Anchor(w, c, k)
    BY <1>8, AnchorsMove
  <1> HIDE DEF c, i, m, z, l
  <1>9. ASSUME b.to = m.length
        PROVE  \E k : Anchor(w, c, k) /\ Stream(c, w[k][2]) = Stream(c, i)
    <2>1. CASE b.began[c] = 0
      <3>1. Anchor(w, c, l + 1) /\ w[l + 1] = z
        BY <2>1, <1>8, <1>9
      <3> QED
        BY <3>1, <1>4
    <2>2. CASE b.began[c] # 0
      <3>1. i # 1 /\ Stream(c, i) = Stream(c, i - 1)
        BY <2>2, <1>5
      <3>2. PICK k : Anchor(q, c, k) /\ Stream(c, q[k][2]) = Stream(c, i - 1)
        BY <3>1, <1>1 DEF Counts, i
      <3>3. k \in 1..l
        BY <3>2 DEF Anchor, l
      <3>4. w[k] = q[k]
        BY <3>3, <1>8, <1>9
      <3>5. Anchor(w, c, k)
        BY <2>2, <3>2, <1>8, <1>9
      <3> QED
        BY <3>1, <3>2, <3>4, <3>5
    <2> QED
      BY <2>1, <2>2
  <1>10. ASSUME NEW e \in ChunkStreams
         PROVE  /\ b.next[e] # 1 => \E k : Anchor(w, e, k) /\ Stream(e, w[k][2]) = Stream(e, b.next[e] - 1)
                /\ b.offset[e] # 0 => Script[e][b.next[e]].length > ChunkSize
                /\ (b.offset[e] # 0 /\ b.began[e] # 0) =>
                       b.next[e] # 1 /\ Stream(e, b.next[e]) = Stream(e, b.next[e] - 1)
    <2>1. CASE e = c
      <3>1. CASE b.to = m.length
        <4>1. b.next[e] - 1 = i /\ b.offset[e] = 0
          BY <2>1, <3>1, <1>2, <1>7
        <4> QED
          BY <2>1, <3>1, <4>1, <1>9
      <3>2. CASE b.to # m.length
        <4>1. b.next[e] = i /\ w = q
          BY <2>1, <3>2, <1>2
        <4>2. i # 1 => \E k : Anchor(q, c, k) /\ Stream(c, q[k][2]) = Stream(c, i - 1)
          BY <1>1 DEF Counts, i
        <4> QED
          BY <2>1, <3>2, <4>1, <4>2, <1>5, <1>6 DEF m
      <3> QED
        BY <3>1, <3>2
    <2>2. CASE e # c
      <3>1. b.next[e] = a.next[e] /\ b.offset[e] = a.offset[e] /\ b.began[e] = a.began[e]
        BY <2>2, <1>3
      <3>2. /\ a.offset[e] # 0 => Script[e][a.next[e]].length > ChunkSize
            /\ (a.offset[e] # 0 /\ a.began[e] # 0) =>
                   a.next[e] # 1 /\ Stream(e, a.next[e]) = Stream(e, a.next[e] - 1)
        BY <1>1 DEF Counts
      <3>3. ASSUME a.next[e] # 1
            PROVE  \E k : Anchor(w, e, k) /\ Stream(e, w[k][2]) = Stream(e, a.next[e] - 1)
        <4>1. PICK k : Anchor(q, e, k) /\ Stream(e, q[k][2]) = Stream(e, a.next[e] - 1)
          BY <3>3, <1>1 DEF Counts
        <4>2. k \in 1..l
          BY <4>1 DEF Anchor, l
        <4>3. CASE b.to = m.length
          <5>1. w[k] = q[k] /\ Anchor(w, e, k)
            BY <2>2, <4>1, <4>2, <4>3, <1>8
          <5> QED
            BY <4>1, <5>1
        <4>4. CASE b.to # m.length
          BY <4>1, <4>4, <1>2
        <4> QED
          BY <4>3, <4>4
      <3> QED
        BY <3>1, <3>2, <3>3
    <2> QED
      BY <2>1, <2>2
  <1>11. ASSUME NEW j \in 1..Len(w)
         PROVE  \E k : AnchorOf(w, j, k) /\ Stream(w[j][1], w[k][2]) = Stream(w[j][1], w[j][2])
    <2>0. \A x \in 1..l : \E k : AnchorOf(q, x, k) /\ Stream(q[x][1], q[k][2]) = Stream(q[x][1], q[x][2])
      BY <1>1 DEF Counts, l
    <2>1. CASE b.to # m.length
      BY <2>0, <2>1, <1>2 DEF l
    <2>2. CASE b.to = m.length
      <3>1. j \in 1..l \/ j = l + 1
        BY <2>2, <1>7, <1>8
      <3>2. CASE j \in 1..l
        <4>1. PICK k : AnchorOf(q, j, k) /\ Stream(q[j][1], q[k][2]) = Stream(q[j][1], q[j][2])
          BY <2>0, <3>2
        <4>2. k \in 1..l
          BY <3>2, <4>1, <1>7 DEF AnchorOf
        <4>3. w[j] = q[j] /\ w[k] = q[k] /\ AnchorOf(w, j, k)
          BY <2>2, <3>2, <4>1, <4>2, <1>8
        <4> QED
          BY <4>1, <4>3
      <3>3. CASE j = l + 1
        <4>1. PICK k : Anchor(w, c, k) /\ Stream(c, w[k][2]) = Stream(c, i)
          BY <2>2, <1>9
        <4>2. AnchorOf(w, j, k) /\ w[j] = z
          BY <2>2, <3>3, <4>1, <1>8
        <4> QED
          BY <4>1, <4>2, <1>4
      <3> QED
        BY <3>1, <3>2, <3>3
    <2> QED
      BY <2>1, <2>2
  <1> QED
    BY <1>10, <1>11 DEF Counts

\* What the timestamps are worth with the chunk: those the chunk carries, the one
\* that is remembered and the message's.
LEMMA FacesStamp ==
    ASSUME NEW s, NEW d, NEW all, NEW a, NEW b, Facing(s, d, all, a, b),
           NEW msg, MessageAfter(s, b, msg),
           Stamp(b.csid, a.next[b.csid]) < Mark
    PROVE  LET c == b.csid
               ts == Stamp(c, a.next[c])
               id == MessageId(c, b.common.stream_id)
               stamp == MessageTimestamp(s, b.format, id, Short(b.common))
           IN  /\ b.began[c] = 0 =>
                     /\ msg.timestamp = ts
                     /\ b.common.timestamp = ts
                     /\ a.offset[c] = 0 => b.format = 0 /\ stamp = ts
                     /\ a.offset[c] # 0 => b.format = 3 /\ s.previous[id] = ts /\ (ts = 0 => stamp = ts)
               /\ \A k : (b.began[c] # 0 /\ Anchor(a.completed, c, k) /\ Plain(a.completed, k)) =>
                     /\ b.format # 0
                     /\ msg.timestamp = ts
                     /\ s.previous[id] + b.common.timestamp = ts
                     /\ stamp = ts
  <1> DEFINE c == b.csid
             i == a.next[c]
             ts == Stamp(c, i)
             x == b.common.timestamp
             id == MessageId(c, b.common.stream_id)
             stamp == MessageTimestamp(s, b.format, id, Short(b.common))
             before == s.previous[id]
             from == a.offset[c]
  <1>1. /\ Client(a) /\ Follows(a, b) /\ Knows(s, d, a)
        /\ Clock(s.previous, s.reading, d, a)
    BY DEF Facing, Knows
  <1>2. /\ c \in ChunkStreams /\ i \in Nat /\ i # 0 /\ Script[c][i] \in ScriptMessage /\ from \in Nat
        /\ b.format \in 0..3 /\ b.common \in Commons /\ b.common.stream_id = Stream(c, i)
    <2>1. \A k \in 1..Len(Script[c]) : k \in Nat /\ k # 0
      OBVIOUS
    <2>2. b.format \in 0..3 /\ b.common \in Commons /\ b.common.stream_id = Stream(c, i)
      BY <1>1 DEF Follows, Describes, Stream
    <2> QED
      BY <1>1, <2>1, <2>2, ChunkNumbers
  <1>3. ts \in Nat /\ x \in Nat /\ Mark \in Nat /\ ts < Mark
    BY <1>2, CodecAssumption DEF CodecAssumption, ScriptMessage, Commons, Stamp
  <1>4. x < Mark => Short(b.common).timestamp = x
    BY <1>2, ShortOf
  <1>5. stamp = IF b.format = 0 THEN Short(b.common).timestamp ELSE before + Short(b.common).timestamp
    BY DEF MessageTimestamp
  <1>6. b.format # 0 => before \in Nat
    BY FacesKnown, <1>1 DEF Knows
  <1>7. /\ from = 0 => b.began[c] = b.format
        /\ from # 0 => b.began[c] = a.began[c]
    BY <1>1, OwnMoves
  <1>8. msg.timestamp = IF from # 0 THEN s.reading[id].timestamp ELSE stamp
    BY FacesReading DEF MessageAfter
  <1>9. from # 0 => b.format = 3 /\ x = a.last[c].timestamp
    <2>1. from # 0 => b.format = 3
      BY <1>1 DEF Follows
    <2> QED
      BY <2>1, FacesKnown
  <1>10. id = MessageId(c, Stream(c, i))
    BY <1>2
  <1>11. CASE from = 0 /\ b.format = 0
    <2>1. x = ts
      BY <1>1, <1>11 DEF Follows
    <2> HIDE DEF stamp, ts, x, id, from, c
    <2> QED
      BY <2>1, <1>3, <1>4, <1>5, <1>7, <1>8, <1>11 DEF stamp, ts, x, id, from, c
  <1>12. CASE from = 0 /\ b.format # 0
    <2>1. b.began[c] # 0
      BY <1>7, <1>12
    <2>2. i # 1 /\ Stream(c, i) = Stream(c, i - 1)
      BY <1>1, <2>1, OwnStream
    <2>3. ts = Stamp(c, i - 1) + x
      BY <1>1, <1>12 DEF Follows
    <2>4. Stamp(c, i - 1) \in Nat
      <3>1. i \in 1..Len(Script[c]) /\ Script[c] \in Seq(ScriptMessage)
        BY <1>1, <1>2, ChunkNumbers, ConstantsAssumption DEF ConstantsAssumption, ChunkStreams
      <3>2. i - 1 \in 1..Len(Script[c])
        BY <1>2, <2>2, <3>1
      <3>3. Script[c][i - 1] \in ScriptMessage
        BY <3>1, <3>2
      <3> QED
        BY <3>3 DEF Stamp, ScriptMessage
    <2> DEFINE y == Stamp(c, i - 1)
    <2>5. ASSUME NEW k, Anchor(a.completed, c, k), Plain(a.completed, k)
          PROVE  /\ msg.timestamp = ts
                 /\ before + x = ts
                 /\ stamp = ts
      <3>1. x < Mark /\ y < Mark
        <4> HIDE DEF ts, x, y
        <4> QED
          BY <2>3, <2>4, <1>3 DEF y
      <3>2. before = y
        BY <3>1, <2>2, <2>5, <1>1, <1>2, <1>10, <1>12 DEF Clock
      <3>3. stamp = before + x
        BY <3>1, <1>4, <1>5, <1>12
      <3>4. msg.timestamp = stamp
        BY <1>8, <1>12
      <3> HIDE DEF stamp, before, x, y, ts
      <3> QED
        BY <3>2, <3>3, <3>4, <2>3 DEF y
    <2> QED
      BY <2>1, <2>5, <1>12
  <1>13. CASE from # 0
    <2>1. b.format = 3 /\ x = a.last[c].timestamp /\ b.began[c] = a.began[c]
      BY <1>7, <1>9, <1>13
    <2>2. msg.timestamp = s.reading[id].timestamp
      BY <1>8, <1>13
    <2>3. CASE b.began[c] = 0
      <3>1. s.reading[id].timestamp = ts /\ before = ts /\ x = ts
        BY <2>1, <2>3, <1>1, <1>2, <1>3, <1>10, <1>13 DEF Clock
      <3>2. stamp = ts + ts
        BY <2>1, <3>1, <1>3, <1>4, <1>5
      <3>3. ts = 0 => stamp = ts
        BY <3>2
      <3> QED
        BY <2>1, <2>2, <2>3, <3>1, <3>3, <1>13
    <2>4. CASE b.began[c] # 0
      <3>1. ASSUME NEW k, Anchor(a.completed, c, k), Plain(a.completed, k)
            PROVE  /\ msg.timestamp = ts
                   /\ before + x = ts
                   /\ stamp = ts
        <4>1. s.reading[id].timestamp = ts /\ before + x = ts
          BY <2>1, <2>4, <3>1, <1>1, <1>2, <1>3, <1>10, <1>13 DEF Clock
        <4>2. before \in Nat
          BY <2>1, <1>6
        <4>3. x < Mark
          <5> HIDE DEF before, x, ts
          <5> QED
            BY <4>1, <4>2, <1>3
        <4>4. stamp = ts
          BY <2>1, <4>1, <4>3, <1>4, <1>5
        <4> QED
          BY <2>2, <4>1, <4>4
      <3> QED
        BY <2>1, <2>4, <3>1
    <2> QED
      BY <2>3, <2>4
  <1> QED
    BY <1>11, <1>12, <1>13

\* The other chunk streams' timestamps stay.
LEMMA OthersRemembered ==
    ASSUME NEW s, NEW d, NEW all, NEW a, NEW b, Facing(s, d, all, a, b),
           NEW t, NEW msg, NEW done, NEW size, Taken(s, t, b, msg, done, size),
           NEW e \in ChunkStreams, e # b.csid
    PROVE  /\ Latest(a, e) # 0 =>
                  t.previous[MessageId(e, Stream(e, Latest(a, e)))]
                  = s.previous[MessageId(e, Stream(e, Latest(a, e)))]
           /\ a.offset[e] # 0 =>
                  t.reading[MessageId(e, Stream(e, a.next[e]))]
                  = s.reading[MessageId(e, Stream(e, a.next[e]))]
  <1> DEFINE id == MessageId(b.csid, b.common.stream_id)
             x == MessageId(e, Stream(e, Latest(a, e)))
             stamp == MessageTimestamp(s, b.format, id, Short(b.common))
  <1>1. Client(a) /\ Knows(s, d, a)
    BY DEF Facing
  <1>2. Latest(a, e) # 0 => a.last[e].stream_id = Stream(e, Latest(a, e))
    BY <1>1 DEF Client, Describes, Stream
  <1>3. x # id
    BY DEF MessageId
  <1>4. /\ t.previous = s.previous \/ t.previous = Put(s.previous, id, stamp)
        /\ t.reading = Erase(s.reading, id) \/ t.reading = Put(s.reading, id, msg)
    BY DEF Taken
  <1>5. Latest(a, e) # 0 => x \in DOMAIN s.previous
    BY <1>1, <1>2 DEF Knows
  <1>6. a.offset[e] # 0 => Latest(a, e) = a.next[e] /\ Latest(a, e) # 0
    BY <1>1 DEF Client, Latest
  <1>7. a.offset[e] # 0 => x \in DOMAIN s.reading
    BY <1>1, <1>2, <1>6 DEF Knows
  <1> HIDE DEF x, id, stamp
  <1>8. x \in DOMAIN s.previous => t.previous[x] = s.previous[x]
    BY <1>3, <1>4 DEF Put
  <1>9. x \in DOMAIN s.reading => t.reading[x] = s.reading[x]
    BY <1>3, <1>4 DEF Put, Erase
  <1> QED
    BY <1>5, <1>6, <1>7, <1>8, <1>9 DEF x

\* With the chunk taken the timestamps are what they have to be.
LEMMA FacesClock ==
    ASSUME NEW s, NEW d, NEW all, NEW a, NEW b, Facing(s, d, all, a, b),
           NEW t, NEW msg, NEW done,
           MessageAfter(s, b, msg),
           done = TRUE <=> b.to = Script[b.csid][a.next[b.csid]].length,
           Taken(s, t, b, msg, done, b.to - a.offset[b.csid])
    PROVE  Clock(t.previous, t.reading, d \o t.handled, b)
  <1> DEFINE c == b.csid
             i == a.next[c]
             m == Script[c][i]
             ts == Stamp(c, i)
             x == b.common.timestamp
             id == MessageId(c, b.common.stream_id)
             stamp == MessageTimestamp(s, b.format, id, Short(b.common))
             q == a.completed
             w == b.completed
             l == Len(q)
             g == d \o t.handled
  <1>1. /\ Client(a) /\ Follows(a, b) /\ Knows(s, d, a)
        /\ Clock(s.previous, s.reading, d, a)
    BY DEF Facing, Knows
  <1>2. /\ c \in ChunkStreams /\ i \in Nat /\ i # 0
        /\ b.common.stream_id = Stream(c, i)
    <2>1. \A k \in 1..Len(Script[c]) : k \in Nat /\ k # 0
      OBVIOUS
    <2>2. b.common.stream_id = Stream(c, i)
      BY <1>1 DEF Follows, Describes, Stream
    <2> QED
      BY <1>1, <2>1, <2>2, ChunkNumbers
  <1>3. /\ b.last[c] = b.common
        /\ b.to = m.length => b.next[c] = i + 1 /\ b.offset[c] = 0
        /\ b.to # m.length => b.next[c] = i /\ w = q
    BY <1>1, OwnMoves
  <1>4. \A e \in ChunkStreams : e # c => /\ b.next[e] = a.next[e]
                                         /\ b.offset[e] = a.offset[e]
                                         /\ b.last[e] = a.last[e]
                                         /\ b.began[e] = a.began[e]
    BY <1>1, OthersStay
  <1>5. /\ t.previous = IF b.format = 0 \/ done = TRUE THEN Put(s.previous, id, stamp) ELSE s.previous
        /\ t.reading = IF done = TRUE THEN Erase(s.reading, id) ELSE Put(s.reading, id, msg)
        /\ t.handled = IF done = TRUE THEN <<msg>> ELSE <<>>
    BY DEF Taken
  <1>6. /\ Put(s.previous, id, stamp)[id] = stamp
        /\ Put(s.reading, id, msg)[id] = msg
    BY DEF Put
  <1>7. /\ (ts < Mark /\ b.began[c] = 0) =>
               /\ msg.timestamp = ts
               /\ x = ts
               /\ a.offset[c] = 0 => b.format = 0 /\ stamp = ts
               /\ a.offset[c] # 0 => b.format = 3 /\ s.previous[id] = ts /\ (ts = 0 => stamp = ts)
        /\ \A k : (ts < Mark /\ b.began[c] # 0 /\ Anchor(q, c, k) /\ Plain(q, k)) =>
               /\ b.format # 0
               /\ msg.timestamp = ts
               /\ s.previous[id] + x = ts
               /\ stamp = ts
    BY FacesStamp
  <1>8. b.to = m.length =>
               /\ Len(w) = l + 1
               /\ w[l + 1] = <<c, i, b.began[c]>>
               /\ \A j \in 1..l : w[j] = q[j]
               /\ \A e, k : (c # e \/ b.began[c] # 0) => (Anchor(w, e, k) <=> Anchor(q, e, k))
               /\ b.began[c] = 0 => \A k : Anchor(w, c, k) <=> k = l + 1
               /\ \A j \in 1..l : \A k : AnchorOf(w, j, k) <=> AnchorOf(q, j, k)
               /\ \A k : AnchorOf(w, l + 1, k) <=> Anchor(w, c, k)
    BY <1>1, AnchorsMove
  <1>9. id = MessageId(c, Stream(c, i))
    BY <1>2
  <1>10. ASSUME NEW e \in ChunkStreams, e # c, NEW k, Anchor(w, e, k), Plain(w, k)
         PROVE  Anchor(q, e, k) /\ Plain(q, k)
    <2>1. CASE b.to = m.length
      <3>1. Anchor(q, e, k)
        BY <2>1, <1>8, <1>10
      <3>2. w[k] = q[k]
        BY <2>1, <3>1, <1>8 DEF Anchor
      <3> QED
        BY <3>1, <3>2, <1>10 DEF Plain
    <2>2. CASE b.to # m.length
      BY <2>2, <1>3, <1>10
    <2> QED
      BY <2>1, <2>2
  <1>11. l \in Nat /\ (i + 1) - 1 = i
    BY <1>1, <1>2 DEF Client
  <1>s. a.offset[c] # 0 => m.length > ChunkSize
    BY <1>1, <1>2 DEF Client, Counts
  <1>t. m.length > ChunkSize /\ b.to = m.length /\ Plain(w, l + 1) => ts = 0
    <2> SUFFICES ASSUME m.length > ChunkSize, b.to = m.length, Plain(w, l + 1)
                 PROVE  ts = 0
      OBVIOUS
    <2>1. w[l + 1][1] = c /\ w[l + 1][2] = i
      <3>1. w[l + 1] = <<c, i, b.began[c]>>
        BY <1>8
      <3> HIDE DEF w, l, c, i
      <3> QED
        BY <3>1
    <2>2. Stamp(c, i) = 0 \/ ~ (Script[c][i].length > ChunkSize)
      BY <2>1 DEF Plain
    <2> QED
      BY <2>2 DEF Stamp
  <1> HIDE DEF i, m, ts, id, stamp, q, w, l, x
  <1>r. ASSUME NEW e \in ChunkStreams, e # c
        PROVE  /\ a.next[e] # 1 /\ a.offset[e] = 0 =>
                      t.previous[MessageId(e, Stream(e, a.next[e] - 1))]
                      = s.previous[MessageId(e, Stream(e, a.next[e] - 1))]
               /\ a.offset[e] # 0 =>
                      /\ t.previous[MessageId(e, Stream(e, a.next[e]))]
                         = s.previous[MessageId(e, Stream(e, a.next[e]))]
                      /\ t.reading[MessageId(e, Stream(e, a.next[e]))]
                         = s.reading[MessageId(e, Stream(e, a.next[e]))]
    <2>1. a.next[e] \in Nat
      BY <1>1 DEF Client
    <2>2. a.offset[e] = 0 => Latest(a, e) = a.next[e] - 1
      BY DEF Latest
    <2>3. a.offset[e] # 0 => Latest(a, e) = a.next[e] /\ Latest(a, e) # 0
      BY <1>1 DEF Latest, Client
    <2>4. a.next[e] # 1 => a.next[e] - 1 # 0
      BY <2>1
    <2>5. /\ Latest(a, e) # 0 =>
                t.previous[MessageId(e, Stream(e, Latest(a, e)))]
                = s.previous[MessageId(e, Stream(e, Latest(a, e)))]
          /\ a.offset[e] # 0 =>
                t.reading[MessageId(e, Stream(e, a.next[e]))]
                = s.reading[MessageId(e, Stream(e, a.next[e]))]
      BY <1>r, OthersRemembered
    <2> QED
      BY <2>2, <2>3, <2>4, <2>5
  <1>d. /\ Len(d) = l
        /\ g = IF done = TRUE THEN Append(d, msg) ELSE d
    <2>1. d \in Seq(Messages) /\ Len(d) = l
      BY <1>1 DEF Knows, l, q
    <2>2. CASE done = TRUE
      <3>1. t.handled = <<msg>>
        BY <2>2, <1>5
      <3> QED
        BY <2>1, <2>2, <3>1
    <2>3. CASE done # TRUE
      <3>1. t.handled = <<>>
        BY <2>3, <1>5
      <3>2. g = d
        BY <2>1, <3>1, ConcatEmptySeq
      <3> QED
        BY <2>1, <2>3, <3>2
    <2> QED
      BY <2>2, <2>3
  <1> HIDE DEF c, g
  <1>12. ASSUME NEW e \in ChunkStreams, NEW k,
                b.next[e] # 1, b.offset[e] = 0, Anchor(w, e, k), Plain(w, k), Stamp(e, b.next[e] - 1) < Mark
         PROVE  t.previous[MessageId(e, Stream(e, b.next[e] - 1))] = Stamp(e, b.next[e] - 1)
    <2>1. CASE e # c
      <3>1. Anchor(q, e, k) /\ Plain(q, k)
        BY <2>1, <1>10, <1>12
      <3>2. b.next[e] = a.next[e] /\ a.offset[e] = 0
        BY <2>1, <1>4, <1>12
      <3>3. s.previous[MessageId(e, Stream(e, a.next[e] - 1))] = Stamp(e, a.next[e] - 1)
        BY <3>1, <3>2, <1>1, <1>12 DEF Clock, q
      <3> QED
        BY <2>1, <3>2, <3>3, <1>r, <1>12
    <2>2. CASE e = c
      <3>1. b.to = m.length
        <4>1. ChunkSize \in Nat
          BY CodecAssumption DEF CodecAssumption
        <4>2. b.to # m.length => b.offset[c] = b.to /\ b.to # 0
          <5>1. b.to \in Nat /\ a.offset[c] \in Nat /\ a.offset[c] < b.to
            BY <1>1, ChunkNumbers DEF c
          <5>2. b.to # 0
            BY <5>1
          <5> QED
            BY <5>2, <1>1, OwnMoves DEF c, m, i
        <4> QED
          BY <2>2, <4>2, <1>12
      <3>2. b.next[e] - 1 = i
        BY <2>2, <3>1, <1>3, <1>11
      <3>3. done = TRUE
        BY <3>1 DEF m, i, c
      <3>4. t.previous[id] = stamp
        BY <3>3, <1>5, <1>6
      <3>5. Stamp(c, i) < Mark /\ ts = Stamp(c, i)
        BY <2>2, <3>2, <1>12 DEF ts
      <3>6. stamp = ts
        <4>1. CASE b.began[c] = 0
          <5>1. k = l + 1
            BY <2>2, <3>1, <4>1, <1>8, <1>12
          <5>2. a.offset[c] # 0 => ts = 0
            BY <3>1, <5>1, <1>12, <1>s, <1>t
          <5> QED
            BY <3>5, <4>1, <5>2, <1>7
        <4>2. CASE b.began[c] # 0
          <5>1. Anchor(q, c, k)
            BY <2>2, <3>1, <4>2, <1>8, <1>12
          <5>2. w[k] = q[k]
            BY <3>1, <5>1, <1>8 DEF Anchor, l
          <5>3. Plain(q, k)
            BY <5>2, <1>12 DEF Plain
          <5> QED
            BY <3>5, <4>2, <5>1, <5>3, <1>7
        <4> QED
          BY <4>1, <4>2
      <3> QED
        BY <2>2, <3>2, <3>4, <3>5, <3>6, <1>9
    <2> QED
      BY <2>1, <2>2
  <1>m. ASSUME b.offset[c] # 0
        PROVE  /\ b.to # m.length /\ b.next[c] = i /\ w = q
               /\ t.reading[id] = msg
               /\ t.previous = IF b.format = 0 THEN Put(s.previous, id, stamp) ELSE s.previous
    <2>1. b.to # m.length
      BY <1>3, <1>m
    <2>2. done # TRUE
      BY <2>1 DEF m, i, c
    <2> QED
      BY <2>1, <2>2, <1>3, <1>5, <1>6
  <1>13. ASSUME NEW e \in ChunkStreams, b.offset[e] # 0, b.began[e] = 0, Stamp(e, b.next[e]) < Mark
         PROVE  /\ t.reading[MessageId(e, Stream(e, b.next[e]))].timestamp = Stamp(e, b.next[e])
                /\ t.previous[MessageId(e, Stream(e, b.next[e]))] = Stamp(e, b.next[e])
                /\ b.last[e].timestamp = Stamp(e, b.next[e])
    <2>1. CASE e # c
      <3>1. /\ b.next[e] = a.next[e] /\ a.offset[e] # 0 /\ a.began[e] = 0 /\ b.last[e] = a.last[e]
        BY <2>1, <1>4, <1>13
      <3>2. /\ s.reading[MessageId(e, Stream(e, a.next[e]))].timestamp = Stamp(e, a.next[e])
            /\ s.previous[MessageId(e, Stream(e, a.next[e]))] = Stamp(e, a.next[e])
            /\ a.last[e].timestamp = Stamp(e, a.next[e])
        BY <3>1, <1>1, <1>13 DEF Clock
      <3> QED
        BY <2>1, <3>1, <3>2, <1>r
    <2>2. CASE e = c
      <3>1. b.next[e] = i /\ t.reading[id] = msg
            /\ t.previous = IF b.format = 0 THEN Put(s.previous, id, stamp) ELSE s.previous
        BY <2>2, <1>m, <1>13
      <3>2. Stamp(c, i) < Mark /\ ts = Stamp(c, i)
        BY <2>2, <3>1, <1>13 DEF ts
      <3>3. msg.timestamp = ts /\ x = ts /\ b.last[c].timestamp = x
        BY <2>2, <3>2, <1>3, <1>7, <1>13 DEF x
      <3>4. t.previous[id] = ts
        <4>1. CASE a.offset[c] = 0
          BY <2>2, <3>1, <3>2, <4>1, <1>6, <1>7, <1>13
        <4>2. CASE a.offset[c] # 0
          BY <2>2, <3>1, <3>2, <4>2, <1>7, <1>13
        <4> QED
          BY <4>1, <4>2
      <3> QED
        BY <2>2, <3>1, <3>2, <3>3, <3>4, <1>9
    <2> QED
      BY <2>1, <2>2
  <1>14. ASSUME NEW e \in ChunkStreams, NEW k,
                b.offset[e] # 0, b.began[e] # 0, Anchor(w, e, k), Plain(w, k), Stamp(e, b.next[e]) < Mark
         PROVE  /\ t.reading[MessageId(e, Stream(e, b.next[e]))].timestamp = Stamp(e, b.next[e])
                /\ t.previous[MessageId(e, Stream(e, b.next[e]))] + b.last[e].timestamp = Stamp(e, b.next[e])
    <2>1. CASE e # c
      <3>1. /\ b.next[e] = a.next[e] /\ a.offset[e] # 0 /\ a.began[e] # 0 /\ b.last[e] = a.last[e]
        BY <2>1, <1>4, <1>14
      <3>2. Anchor(q, e, k) /\ Plain(q, k)
        BY <2>1, <1>10, <1>14
      <3>3. /\ s.reading[MessageId(e, Stream(e, a.next[e]))].timestamp = Stamp(e, a.next[e])
            /\ s.previous[MessageId(e, Stream(e, a.next[e]))] + a.last[e].timestamp = Stamp(e, a.next[e])
        BY <3>1, <3>2, <1>1, <1>14 DEF Clock, q
      <3> QED
        BY <2>1, <3>1, <3>3, <1>r
    <2>2. CASE e = c
      <3>1. b.next[e] = i /\ t.reading[id] = msg /\ w = q
            /\ t.previous = IF b.format = 0 THEN Put(s.previous, id, stamp) ELSE s.previous
        BY <2>2, <1>m, <1>14
      <3>2. Stamp(c, i) < Mark /\ ts = Stamp(c, i)
        BY <2>2, <3>1, <1>14 DEF ts
      <3>3. b.format # 0 /\ msg.timestamp = ts /\ s.previous[id] + x = ts
        BY <2>2, <3>1, <3>2, <1>7, <1>14
      <3>4. b.last[c].timestamp = x
        BY <1>3 DEF x
      <3> QED
        BY <2>2, <3>1, <3>2, <3>3, <3>4, <1>9
    <2> QED
      BY <2>1, <2>2
  <1>15. ASSUME NEW j \in 1..Len(g), NEW k,
                AnchorOf(w, j, k), k = j \/ Plain(w, k), Stamp(w[j][1], w[j][2]) < Mark
         PROVE  g[j].timestamp = Stamp(w[j][1], w[j][2])
    <2>d. d \in Seq(Messages) /\ Len(d) = l
      BY <1>1, <1>d DEF Knows
    <2>1. CASE j \in 1..l
      <3>1. g[j] = d[j]
        BY <2>1, <2>d, <1>d
      <3>2. AnchorOf(q, j, k) /\ w[j] = q[j]
        BY <2>1, <1>3, <1>8, <1>15
      <3>3. k \in 1..l
        BY <2>1, <3>2, <1>11 DEF AnchorOf
      <3>4. w[k] = q[k]
        BY <3>3, <1>3, <1>8
      <3>5. k = j \/ Plain(q, k)
        BY <3>4, <1>15 DEF Plain
      <3>6. j \in 1..Len(d) /\ Stamp(q[j][1], q[j][2]) < Mark
        BY <2>1, <2>d, <3>2, <1>15
      <3>7. d[j].timestamp = Stamp(q[j][1], q[j][2])
        BY <3>2, <3>5, <3>6, <1>1 DEF Clock, q
      <3> QED
        BY <3>1, <3>2, <3>7
    <2>2. CASE j \notin 1..l
      <3>1. done = TRUE
        BY <2>2, <2>d, <1>d, <1>15
      <3>2. b.to = m.length
        BY <3>1 DEF m, i, c
      <3>3. Len(g) = l + 1 /\ g[l + 1] = msg
        BY <3>1, <2>d, <1>d
      <3>4. j = l + 1
        BY <2>2, <3>3, <1>11, <1>15
      <3>5. g[j] = msg /\ w[j] = <<c, i, b.began[c]>>
        BY <3>2, <3>3, <3>4, <1>8
      <3>6. Stamp(w[j][1], w[j][2]) = ts
        BY <3>5 DEF ts
      <3>7. Anchor(w, c, k)
        BY <3>2, <3>4, <1>8, <1>15
      <3>8. CASE b.began[c] = 0
        BY <3>5, <3>6, <3>8, <1>7, <1>15
      <3>9. CASE b.began[c] # 0
        <4>1. Anchor(q, c, k)
          BY <3>2, <3>7, <3>9, <1>8
        <4>2. k \in 1..l
          BY <4>1 DEF Anchor, l
        <4>3. k # j /\ w[k] = q[k]
          BY <2>2, <3>2, <4>2, <1>8
        <4>4. Plain(q, k)
          BY <4>3, <1>15 DEF Plain
        <4> QED
          BY <3>5, <3>6, <3>9, <4>1, <4>4, <1>7, <1>15
      <3> QED
        BY <3>8, <3>9
    <2> QED
      BY <2>1, <2>2
  <1>16. Clock(t.previous, t.reading, g, b)
    BY <1>12, <1>13, <1>14, <1>15 DEF Clock, w
  <1> QED
    BY <1>16 DEF g

\* With the chunk taken the session knows what the client told it with it.
LEMMA FacesKnows ==
    ASSUME NEW s, NEW d, NEW all, NEW a, NEW b, Facing(s, d, all, a, b),
           NEW t, NEW msg, NEW done,
           MessageAfter(s, b, msg),
           ReadUpTo(msg, b.csid, a.next[b.csid], b.to),
           done = TRUE <=> b.to = Script[b.csid][a.next[b.csid]].length,
           Taken(s, t, b, msg, done, b.to - a.offset[b.csid])
    PROVE  Knows(t, d \o t.handled, b)
  <1> DEFINE c == b.csid
             i == a.next[c]
             m == Script[c][i]
             id == MessageId(c, b.common.stream_id)
  <1>0. Client(a) /\ Follows(a, b) /\ Knows(s, d, a)
    BY DEF Facing
  <1>1. /\ c \in ChunkStreams /\ b.to \in Nat /\ b.to # 0 /\ i \in Nat
    <2>1. \A k \in 1..Len(Script[c]) : k \in Nat
      OBVIOUS
    <2>2. \A x \in Nat : x < b.to /\ b.to \in Nat => b.to # 0
      OBVIOUS
    <2> QED
      BY <1>0, <2>1, <2>2, ChunkNumbers
  <1>2. /\ b.last[c] = b.common
        /\ b.to = m.length => /\ b.offset[c] = 0
                              /\ b.completed = Append(a.completed, <<c, i, b.began[c]>>)
        /\ b.to # m.length => /\ b.next[c] = i
                              /\ b.offset[c] = b.to
                              /\ b.completed = a.completed
    BY <1>0, OwnMoves
  <1>3. \A e \in ChunkStreams : e # c => /\ b.next[e] = a.next[e]
                                         /\ b.offset[e] = a.offset[e]
                                         /\ b.last[e] = a.last[e]
                                         /\ Latest(b, e) = Latest(a, e)
    BY <1>0, OthersStay
  <1>4. \A e, x, y : e # c => MessageId(e, x) # MessageId(c, y)
    BY DEF MessageId
  <1>5. /\ t.commons = Put(s.commons, c, Short(b.common))
        /\ t.previous = IF b.format = 0 \/ done = TRUE
                        THEN Put(s.previous, id, MessageTimestamp(s, b.format, id, Short(b.common)))
                        ELSE s.previous
        /\ t.reading = IF done = TRUE THEN Erase(s.reading, id) ELSE Put(s.reading, id, msg)
        /\ t.handled = IF done = TRUE THEN <<msg>> ELSE <<>>
    BY DEF Taken
  <1>6. a.offset[c] # 0 => a.last[c].stream_id = b.common.stream_id
    BY FacesReading
  <1>7. b.format # 0 => id \in DOMAIN s.previous
    BY FacesKnown
  <1>8. MessageTimestamp(s, b.format, id, Short(b.common)) \in Nat
    BY FacesTimestamp
  <1> HIDE DEF c, m, i, id
  <1>9. \A x : x \in DOMAIN s.previous => x \in DOMAIN t.previous
    BY <1>5 DEF Put
  <1>10. ASSUME NEW e \in ChunkStreams, Latest(b, e) # 0
         PROVE  /\ e \in DOMAIN t.commons
                /\ t.commons[e] = Short(b.last[e])
                /\ MessageId(e, b.last[e].stream_id) \in DOMAIN t.previous
    <2>1. CASE e = c
      <3>1. id \in DOMAIN t.previous
        <4>1. CASE b.format = 0
          BY <4>1, <1>5 DEF Put
        <4>2. CASE b.format # 0
          BY <4>2, <1>7, <1>9
        <4> QED
          BY <4>1, <4>2
      <3> QED
        BY <2>1, <3>1, <1>2, <1>5 DEF Put, id, c
    <2>2. CASE e # c
      <3>1. /\ e \in DOMAIN s.commons
            /\ s.commons[e] = Short(a.last[e])
            /\ MessageId(e, a.last[e].stream_id) \in DOMAIN s.previous
        BY <2>2, <1>0, <1>3, <1>10 DEF Knows
      <3> QED
        BY <2>2, <3>1, <1>3, <1>5, <1>9 DEF Put
    <2> QED
      BY <2>1, <2>2
  <1>11. \A x \in DOMAIN t.previous : t.previous[x] \in Nat
    <2>1. \A x \in DOMAIN s.previous : s.previous[x] \in Nat
      BY <1>0 DEF Knows
    <2> QED
      BY <2>1, <1>5, <1>8 DEF Put
  <1>12. ASSUME NEW e \in ChunkStreams, b.offset[e] # 0
         PROVE  /\ MessageId(e, b.last[e].stream_id) \in DOMAIN t.reading
                /\ ReadUpTo(t.reading[MessageId(e, b.last[e].stream_id)], e, b.next[e], b.offset[e])
    <2>1. CASE e = c
      <3>1. b.to # m.length
        BY <2>1, <1>2, <1>12
      <3>2. t.reading = Put(s.reading, id, msg)
        BY <3>1, <1>5 DEF m, i, c
      <3>3. b.next[c] = i /\ b.offset[c] = b.to
        BY <3>1, <1>2
      <3>4. id \in DOMAIN t.reading /\ t.reading[id] = msg
        BY <3>2 DEF Put
      <3> QED
        BY <2>1, <3>3, <3>4, <1>2 DEF id, i, c
    <2>2. CASE e # c
      <3> DEFINE other == MessageId(e, a.last[e].stream_id)
      <3>1. other \in DOMAIN s.reading /\ ReadUpTo(s.reading[other], e, a.next[e], a.offset[e])
        BY <2>2, <1>0, <1>3, <1>12 DEF Knows
      <3>2. other # id
        BY <2>2, <1>4 DEF id
      <3>3. b.last[e] = a.last[e] /\ b.next[e] = a.next[e] /\ b.offset[e] = a.offset[e]
        BY <2>2, <1>3
      <3> HIDE DEF other
      <3>4. other \in DOMAIN t.reading /\ t.reading[other] = s.reading[other]
        BY <3>1, <3>2, <1>5 DEF Put, Erase
      <3> QED
        BY <3>1, <3>3, <3>4 DEF other
    <2> QED
      BY <2>1, <2>2
  <1>13. ASSUME NEW x \in DOMAIN t.reading
         PROVE  \E e \in ChunkStreams : b.offset[e] # 0 /\ x = MessageId(e, b.last[e].stream_id)
    <2>1. CASE x = id
      <3>1. b.to # m.length
        BY <2>1, <1>5, <1>13 DEF Erase, m, i, c
      <3> QED
        BY <2>1, <3>1, <1>1, <1>2 DEF id, c
    <2>2. CASE x # id
      <3>1. x \in DOMAIN s.reading
        BY <2>2, <1>5, <1>13 DEF Put, Erase
      <3>2. PICK e \in ChunkStreams : a.offset[e] # 0 /\ x = MessageId(e, a.last[e].stream_id)
        BY <3>1, <1>0 DEF Knows
      <3>3. e # c
        BY <2>2, <3>2, <1>6 DEF id, c
      <3> QED
        BY <3>2, <3>3, <1>3
    <2> QED
      BY <2>1, <2>2
  <1> DEFINE g == d \o t.handled
  <1>14. /\ g \in Seq(Messages)
         /\ Len(g) = Len(b.completed)
         /\ \A j \in 1..Len(g) :
               ReadUpTo(g[j], b.completed[j][1], b.completed[j][2],
                        Script[b.completed[j][1]][b.completed[j][2]].length)
    <2>1. /\ d \in Seq(Messages)
          /\ Len(d) = Len(a.completed)
          /\ \A j \in 1..Len(d) :
               ReadUpTo(d[j], a.completed[j][1], a.completed[j][2],
                        Script[a.completed[j][1]][a.completed[j][2]].length)
      BY <1>0 DEF Knows
    <2>2. CASE b.to # m.length
      <3>1. g = d
        BY <2>1, <2>2, <1>5 DEF m, i, c
      <3>2. b.completed = a.completed
        BY <2>2, <1>2
      <3> HIDE DEF g
      <3> QED
        BY <2>1, <3>1, <3>2
    <2>3. CASE b.to = m.length
      <3> DEFINE z == <<c, i, b.began[c]>>
                 S == ChunkStreams \X Nat \X (0..3)
      <3>1. b.completed = Append(a.completed, z)
        BY <2>3, <1>2
      <3>2. a.completed \in Seq(S)
        BY <1>0 DEF Client
      <3>3. b.began[c] \in 0..3
        BY <1>0, OwnMoves, <1>1 DEF Client, Follows, c
      <3>4. z \in S
        BY <3>3, <1>1
      <3>5. z[1] = c /\ z[2] = i
        OBVIOUS
      <3>6. g = Append(d, msg)
        <4>1. t.handled = <<msg>>
          BY <2>3, <1>5 DEF m, i, c
        <4>2. msg \in Messages
          BY DEF ReadUpTo
        <4> QED
          BY <2>1, <4>1, <4>2, AppendProperties
      <3>7. msg \in Messages /\ ReadUpTo(msg, c, i, Script[c][i].length)
        BY <2>3 DEF ReadUpTo, m, i, c
      <3> HIDE DEF g, z, S
      <3>8. g \in Seq(Messages) /\ Len(g) = Len(d) + 1 /\ g[Len(d) + 1] = msg
            /\ \A j \in 1..Len(d) : g[j] = d[j]
        BY <2>1, <3>6, <3>7
      <3>9. Len(b.completed) = Len(d) + 1 /\ b.completed[Len(d) + 1] = z
            /\ \A j \in 1..Len(d) : b.completed[j] = a.completed[j]
        BY <2>1, <3>1, <3>2, <3>4
      <3>10. ASSUME NEW j \in 1..Len(g)
             PROVE  ReadUpTo(g[j], b.completed[j][1], b.completed[j][2],
                             Script[b.completed[j][1]][b.completed[j][2]].length)
        <4>1. CASE j = Len(d) + 1
          BY <4>1, <3>5, <3>7, <3>8, <3>9
        <4>2. CASE j \in 1..Len(d)
          BY <4>2, <2>1, <3>8, <3>9
        <4>3. Len(d) \in Nat
          BY <2>1
        <4> QED
          BY <4>1, <4>2, <4>3, <3>8
      <3> QED
        BY <3>8, <3>9, <3>10
    <2> QED
      BY <2>2, <2>3
  <1>t. Clock(t.previous, t.reading, g, b)
    BY FacesClock
  <1> HIDE DEF g
  <1>15. Knows(t, g, b)
    BY <1>10, <1>11, <1>12, <1>13, <1>14, <1>t DEF Knows
  <1> QED
    BY <1>15 DEF g

\* What is left of a sequence behind its first k elements.
LEMMA Rest ==
    ASSUME NEW S, NEW q \in Seq(S), NEW k \in Nat, k <= Len(q)
    PROVE  /\ SubSeq(q, k + 1, Len(q)) \in Seq(S)
           /\ Len(SubSeq(q, k + 1, Len(q))) = Len(q) - k
           /\ \A i \in 1..(Len(q) - k) : SubSeq(q, k + 1, Len(q))[i] = q[k + i]
  <1>1. Len(q) \in Nat /\ k + 1 \in Int /\ Len(q) \in Int
    OBVIOUS
  <1>2. \A i \in (k + 1)..Len(q) : q[i] \in S
    OBVIOUS
  <1>3. /\ SubSeq(q, k + 1, Len(q)) \in Seq(S)
        /\ Len(SubSeq(q, k + 1, Len(q))) = IF k + 1 <= Len(q) THEN Len(q) - (k + 1) + 1 ELSE 0
        /\ \A i \in 1..(Len(q) - (k + 1) + 1) : SubSeq(q, k + 1, Len(q))[i] = q[(k + 1) + i - 1]
    BY <1>1, <1>2, SubSeqProperties
  <1> DEFINE w == SubSeq(q, k + 1, Len(q))
  <1> HIDE DEF w
  <1>4. Len(q) - (k + 1) + 1 = Len(q) - k /\ \A i \in Nat : (k + 1) + i - 1 = k + i
    BY <1>1
  <1>5. Len(w) = Len(q) - k
    BY <1>1, <1>3 DEF w
  <1>6. \A i \in 1..(Len(q) - k) : w[i] = q[k + i]
    BY <1>3, <1>4 DEF w
  <1> QED
    BY <1>3, <1>5, <1>6 DEF w

\* The length of the header is a number, at least one.
LEMMA HeaderLengthIs ==
    ASSUME NEW b, b.format \in 0..3
    PROVE  HeaderLength(b) \in Nat /\ HeaderLength(b) >= Fixed(b) /\ Fixed(b) \in {1, 2}
  BY DEF HeaderLength, Fixed

\* A chunk that is not all there holds no message back.
LEMMA FacesNone ==
    ASSUME NEW s, NEW d, NEW all, NEW a, NEW b, Facing(s, d, all, a, b),
           Len(s.buffer) < HeaderLength(b) + (b.to - a.offset[b.csid])
    PROVE  NoneComplete(s.buffer)
  <1> DEFINE c == b.csid
             m == Script[c][a.next[c]]
             from == a.offset[c]
  <1>1. Client(a) /\ Follows(a, b) /\ ChunkAt(all, a, b) /\ s.buffer \in Seq(Token) /\ a.at \in Nat
        /\ b.format \in 0..3
    BY DEF Facing, Follows
  <1>2. from \in Nat /\ b.to \in Nat /\ b.to <= m.length /\ m.length \in Nat
    BY <1>1, ChunkNumbers DEF ScriptMessage
  <1>3. HeaderLength(b) \in Nat /\ HeaderLength(b) >= Fixed(b) /\ Fixed(b) \in {1, 2}
    BY <1>1, HeaderLengthIs
  <1> SUFFICES ASSUME NEW i \in 1..Len(s.buffer), s.buffer[i].token = "data"
               PROVE  s.buffer[i].unit < Script[s.buffer[i].csid][s.buffer[i].message].length
    BY <1>1 DEF NoneComplete
  <1>4. s.buffer[i] = all[a.at + i]
    BY DEF Facing
  <1>5. CASE i > HeaderLength(b)
    <2> DEFINE k == i - HeaderLength(b)
    <2>1. Len(s.buffer) \in Nat
      BY <1>1
    <2> HIDE DEF from, m
    <2>2. k \in Nat /\ k >= 1 /\ k < b.to - from /\ a.at + HeaderLength(b) + k = a.at + i
      BY SMTT(40), <1>1, <1>2, <1>3, <1>5, <2>1 DEF from
    <2>3. k \in 1..(b.to - from)
      BY <1>2, <2>2
    <2> HIDE DEF k
    <2>4. all[a.at + HeaderLength(b) + k] = Unit(c, a.next[c], from + k)
      BY <1>1, <2>3 DEF ChunkAt, from
    <2>5. s.buffer[i] = Unit(c, a.next[c], from + k)
      BY <1>4, <2>2, <2>4
    <2>6. from + k < m.length
      BY <1>2, <2>2
    <2> QED
      BY <2>5, <2>6 DEF Unit, m
  <1>6. CASE ~ (i > HeaderLength(b))
    <2>1. CASE i = 1
      <3>1. all[a.at + i] = [token |-> "basic", format |-> b.format, csid |-> b.csid]
        BY <1>1, <2>1 DEF ChunkAt
      <3> QED
        BY <1>4, <3>1
    <2>2. CASE i = 2 /\ b.format # 3
      <3>1. all[a.at + i] = [token |-> "header",
                             common |-> [f \in Fields(b.format) |-> Short(b.common)[f]]]
        BY <1>1, <2>2 DEF ChunkAt
      <3> QED
        BY <1>4, <3>1
    <2>3. CASE i # 1 /\ ~ (i = 2 /\ b.format # 3)
      <3>1. b.common.timestamp >= Mark /\ i = Fixed(b) + 1
        <4>1. i >= 2 /\ i <= HeaderLength(b)
          BY <1>3, <1>6, <2>3
        <4> QED
          BY <2>3, <4>1 DEF HeaderLength, Fixed
      <3>2. a.at + i = a.at + Fixed(b) + 1
        BY <1>1, <1>3, <3>1
      <3>3. all[a.at + Fixed(b) + 1].token = "extended"
        BY <1>1, <3>1 DEF ChunkAt
      <3> QED
        BY <1>4, <3>2, <3>3
    <2> QED
      BY <2>1, <2>2, <2>3
  <1> QED
    BY <1>5, <1>6

-----------------------------------------------------------------------------
(* OnRead *)

\* Once what t has handled is handled, it is at some place in what was written.
Somewhere(t, d, all, e, h, n) ==
    \E p, r : Reading([t EXCEPT !.handled = <<>>], d \o t.handled, all, e, h, n, p, r)

\* OnRead made t out of s: a session at another place, with less in its buffer,
\* or else no message is complete there.
Read(s, t, d, all, e, h, n) ==
    /\ DOMAIN t = SessionFields
    /\ t.open = TRUE
    /\ t.buffer \in Seq(Token)
    /\ Somewhere(t, d, all, e, h, n)
    /\ \/ Len(t.buffer) < Len(s.buffer)
       \/ t.buffer = s.buffer /\ NoneComplete(s.buffer)

\* A session that OnRead leaves as it was.
LEMMA ReadNothing ==
    ASSUME NEW s, NEW d, NEW all, NEW e, NEW h, NEW n, NEW p, NEW r,
           Reading(s, d, all, e, h, n, p, r), NoneComplete(s.buffer)
    PROVE  Read(s, s, d, all, e, h, n)
  <1> DEFINE t == [s EXCEPT !.handled = <<>>]
             g == d \o s.handled
  <1>1. DOMAIN s = SessionFields /\ s.handled = <<>> /\ s.open = TRUE /\ s.buffer \in Seq(Token)
    BY DEF Reading
  <1>2. /\ DOMAIN t = SessionFields
        /\ t.open = s.open /\ t.handled = <<>> /\ t.buffer = s.buffer /\ t.state = s.state
        /\ t.commons = s.commons /\ t.previous = s.previous /\ t.reading = s.reading
    BY <1>1 DEF SessionFields
  <1>3. d \in Seq(Messages)
    BY DEF Reading, Knows
  <1>4. g = d
    BY <1>1, <1>3
  <1> HIDE DEF t, g
  <1>5. Reading(t, g, all, e, h, n, p, r)
    BY <1>1, <1>2, <1>4 DEF Reading, Place, Knows
  <1> QED
    <2>1. Somewhere(s, d, all, e, h, n)
      BY <1>5 DEF Somewhere, t, g
    <2> QED
      BY <1>1, <2>1 DEF Read

\* A session that is behind the handshake and has something to read is at a
\* chunk that the client has written.
LEMMA DoneFaces ==
    ASSUME NEW s, NEW d, NEW all, NEW e, NEW h, NEW n, NEW p, NEW r,
           Written(all, h, n), Reading(s, d, all, e, h, n, p, r),
           s.state = "HANDESHAKE_DONE", s.buffer # <<>>
    PROVE  /\ r \in Nat /\ r + 1 \in 1..n /\ p = h[r].at
           /\ Facing(s, d, all, h[r], h[r + 1])
  <1>1. /\ n \in Nat /\ r \in 0..n /\ p = h[r].at /\ p \in Nat
        /\ Client(h[r]) /\ h[r].at \in Nat /\ h[n].at \in Nat
    BY DEF Written, Reading, Place
  <1>2. /\ s.buffer \in Seq(Token) /\ p + Len(s.buffer) <= Len(all)
        /\ all \in Seq(Token) /\ Len(all) <= h[n].at
        /\ \A i \in 1..Len(s.buffer) : s.buffer[i] = all[p + i]
    BY DEF Written, Reading
  <1>3. r # n
    <2>1. Len(s.buffer) \in Nat /\ Len(s.buffer) # 0 /\ Len(all) \in Nat
      BY <1>2
    <2> QED
      BY <1>1, <1>2, <2>1
  <1>4. r \in Nat /\ r + 1 \in 1..n /\ (r + 1) - 1 = r
    BY <1>1, <1>3
  <1>5. Follows(h[r], h[r + 1]) /\ ChunkAt(all, h[r], h[r + 1])
    BY <1>4 DEF Written
  <1> QED
    BY <1>1, <1>2, <1>4, <1>5 DEF Facing, Reading

\* The session once a whole chunk is taken.
LEMMA DoneTakes ==
    ASSUME NEW s, NEW d, NEW all, NEW e, NEW h, NEW n, NEW p, NEW r,
           Written(all, h, n), Reading(s, d, all, e, h, n, p, r),
           s.state = "HANDESHAKE_DONE", s.buffer # <<>>,
           Len(s.buffer) >= HeaderLength(h[r + 1]) + (h[r + 1].to - h[r].offset[h[r + 1].csid])
    PROVE  Read(s, StoreChunk(s, h[r + 1].format, h[r + 1].csid, Short(h[r + 1].common),
                              HeaderLength(h[r + 1])), d, all, e, h, n)
  <1> DEFINE a == h[r]
             b == h[r + 1]
             t == StoreChunk(s, b.format, b.csid, Short(b.common), HeaderLength(b))
             size == b.to - a.offset[b.csid]
             k == HeaderLength(b) + size
             u == [t EXCEPT !.handled = <<>>]
             g == d \o t.handled
  <1>1. r \in Nat /\ r + 1 \in 1..n /\ p = a.at /\ Facing(s, d, all, a, b)
    BY DoneFaces
  <1> HIDE DEF a, b
  <1>2. PICK msg, done :
              /\ ReadUpTo(msg, b.csid, a.next[b.csid], b.to)
              /\ MessageAfter(s, b, msg)
              /\ done = TRUE <=> b.to = Script[b.csid][a.next[b.csid]].length
              /\ Taken(s, t, b, msg, done, size)
    BY <1>1, FacesStored DEF a, b
  <1> HIDE DEF t
  <1>3. Knows(t, g, b)
    BY <1>1, <1>2, FacesKnows
  <1>4. Client(a) /\ Follows(a, b) /\ b.format \in 0..3 /\ a.at \in Nat /\ s.buffer \in Seq(Token)
    BY <1>1 DEF Facing, Follows
  <1>5. size \in Nat /\ size >= 1 /\ b.at = p + k
    <2>1. a.offset[b.csid] \in Nat /\ b.to \in Nat /\ a.offset[b.csid] < b.to
      BY <1>4, ChunkNumbers
    <2>2. HeaderLength(b) \in Nat
      BY <1>4, HeaderLengthIs
    <2>3. b.at = a.at + HeaderLength(b) + b.to - a.offset[b.csid]
      BY <1>4 DEF Follows
    <2> QED
      BY <1>1, <1>4, <2>1, <2>2, <2>3
  <1>6. HeaderLength(b) \in Nat /\ k \in Nat /\ k >= 1
    BY <1>4, <1>5, HeaderLengthIs
  <1>7. /\ DOMAIN t = SessionFields /\ t.open = TRUE /\ t.state = "HANDESHAKE_DONE"
        /\ t.buffer = SubSeq(s.buffer, k + 1, Len(s.buffer))
    BY <1>2 DEF Taken
  <1>8. /\ DOMAIN u = SessionFields
        /\ u.open = TRUE /\ u.handled = <<>> /\ u.buffer = t.buffer /\ u.state = "HANDESHAKE_DONE"
        /\ u.commons = t.commons /\ u.previous = t.previous /\ u.reading = t.reading
    BY <1>7 DEF SessionFields
  <1>9. Len(s.buffer) \in Nat /\ k <= Len(s.buffer)
    BY <1>4 DEF a, b
  <1> HIDE DEF k, u, g
  <1>10. /\ t.buffer \in Seq(Token)
         /\ Len(t.buffer) = Len(s.buffer) - k
         /\ \A i \in 1..(Len(s.buffer) - k) : t.buffer[i] = s.buffer[k + i]
    BY <1>4, <1>6, <1>7, <1>9, Rest
  <1>11. Knows(u, g, b)
    BY <1>3, <1>8 DEF Knows
  <1>12. /\ p \in Nat /\ p + Len(s.buffer) = e /\ e <= Len(all) /\ e \in Nat /\ Len(all) \in Nat
         /\ \A i \in 1..Len(s.buffer) : s.buffer[i] = all[p + i]
    <2>1. Len(all) \in Nat
      BY DEF Written
    <2> QED
      BY <2>1 DEF Reading
  <1>13. /\ b.at + Len(t.buffer) = e /\ e <= Len(all)
         /\ \A i \in 1..Len(t.buffer) : t.buffer[i] = all[b.at + i]
    <2>1. b.at + Len(t.buffer) = e /\ e <= Len(all)
      <3>1. Len(t.buffer) = Len(s.buffer) - k /\ b.at = p + k
        BY <1>5, <1>10
      <3> DEFINE l == Len(s.buffer)
                 m == Len(t.buffer)
                 o == b.at
      <3>2. l \in Nat /\ k \in Nat /\ p \in Nat /\ p + l = e /\ m = l - k /\ o = p + k
        BY <3>1, <1>6, <1>9, <1>12
      <3> HIDE DEF l, m, o
      <3>3. o + m = e
        BY <3>2
      <3>4. b.at + Len(t.buffer) = e
        BY <3>3 DEF o, m
      <3> QED
        BY <3>4, <1>12
    <2>2. ASSUME NEW i \in 1..Len(t.buffer)
          PROVE  t.buffer[i] = all[b.at + i]
      <3>1. t.buffer[i] = s.buffer[k + i] /\ k + i \in 1..Len(s.buffer)
        BY <1>6, <1>9, <1>10
      <3>2. p + (k + i) = b.at + i
        BY <1>5, <1>6, <1>12
      <3> QED
        BY <3>1, <3>2, <1>12
    <2> QED
      BY <2>1, <2>2
  <1>14. n \in Nat /\ r + 1 \in Nat /\ r + 1 \in 0..n /\ b.at \in Nat
    BY <1>1, <1>5, <1>6, <1>12 DEF Written
  <1>15. Place(u.state, h, n, b.at, r + 1)
    BY <1>8, <1>14 DEF Place, b
  <1>16. Reading(u, g, all, e, h, n, b.at, r + 1)
    BY <1>8, <1>10, <1>11, <1>13, <1>14, <1>15 DEF Reading, b
  <1>17. Len(t.buffer) < Len(s.buffer)
    BY <1>6, <1>9, <1>10
  <1>18. Read(s, t, d, all, e, h, n)
    <2>1. \E x, y : Reading(u, g, all, e, h, n, x, y)
      BY <1>16
    <2>2. Somewhere(t, d, all, e, h, n)
      BY <2>1 DEF Somewhere, u, g
    <2> QED
      BY <1>7, <1>10, <1>17, <2>2 DEF Read
  <1> QED
    BY <1>18 DEF t, a, b

\* RTMPSession::OnReadInHandeShakeDoneState: one chunk, or nothing.
LEMMA DoneReads ==
    ASSUME NEW s, NEW d, NEW all, NEW e, NEW h, NEW n, NEW p, NEW r,
           Written(all, h, n), Reading(s, d, all, e, h, n, p, r), s.state = "HANDESHAKE_DONE"
    PROVE  Read(s, OnReadInHandeShakeDoneState(s), d, all, e, h, n)
  <1> DEFINE t == OnReadInHandeShakeDoneState(s)
  <1>1. CASE s.buffer = <<>>
    <2>1. t = s
      BY <1>1 DEF OnReadInHandeShakeDoneState
    <2>2. NoneComplete(s.buffer)
      BY <1>1 DEF NoneComplete
    <2> HIDE DEF t
    <2> QED
      BY <2>1, <2>2, ReadNothing DEF t
  <1>2. CASE s.buffer # <<>>
    <2> DEFINE a == h[r]
               b == h[r + 1]
               common == Short(b.common)
               id == MessageId(b.csid, common.stream_id)
    <2>1. Facing(s, d, all, a, b)
      BY <1>2, DoneFaces
    <2>2. Head(s.buffer).format = b.format /\ Head(s.buffer).csid = b.csid
      BY <2>1, FacesBasic
    <2>3. /\ s.buffer \in Seq(Token) /\ b.format \in 0..3 /\ b.common \in Commons
          /\ Client(a) /\ Follows(a, b)
      BY <2>1 DEF Facing, Follows, Describes
    <2>4. HeaderSize(s) = IF Len(s.buffer) < HeaderLength(b) THEN 0 ELSE HeaderLength(b)
      BY <2>1, FacesHeader
    <2>5. HeaderLength(b) \in Nat /\ HeaderLength(b) # 0 /\ Len(s.buffer) \in Nat
      BY <2>3, HeaderLengthIs
    <2>6. b.to - a.offset[b.csid] \in Nat
      <3>1. b.to \in Nat /\ a.offset[b.csid] \in Nat /\ a.offset[b.csid] < b.to
        BY <2>3, ChunkNumbers
      <3> QED
        BY <3>1
    <2>7. b.format # 0 => /\ b.csid \in DOMAIN s.commons
                          /\ MessageId(b.csid, b.common.stream_id) \in DOMAIN s.previous
      BY <2>1, FacesKnown
    <2>8. common.stream_id = b.common.stream_id
      BY <2>3, ShortOf
    <2>9. PayloadSize(s, id, common) = b.to - a.offset[b.csid]
      BY <2>1, <2>8, FacesReading
    <2>10. t = IF b.format # 3 /\ HeaderSize(s) = 0 THEN s
               ELSE IF b.format # 0 /\ b.csid \notin DOMAIN s.commons THEN Fail(s)
               ELSE IF HeaderSize(s) = 0 THEN s
               ELSE ReadChunk(s, b.format, b.csid, HeaderSize(s))
      BY <1>2, <2>2 DEF OnReadInHandeShakeDoneState
    <2> HIDE DEF a, b, common, id, t
    <2>11. CASE Len(s.buffer) < HeaderLength(b)
      <3>1. t = s
        BY <2>4, <2>7, <2>10, <2>11
      <3>2. NoneComplete(s.buffer)
        BY <2>1, <2>5, <2>6, <2>11, FacesNone
      <3> QED
        BY <3>1, <3>2, ReadNothing DEF t
    <2>12. CASE ~ (Len(s.buffer) < HeaderLength(b))
      <3>1. t = ReadChunk(s, b.format, b.csid, HeaderLength(b))
        BY <2>4, <2>5, <2>7, <2>10, <2>12
      <3>2. Common(s, b.format, b.csid) = common
        BY <2>1, <2>5, <2>12, FacesCommon DEF common
      <3>3. t = IF Len(s.buffer) < HeaderLength(b) + (b.to - a.offset[b.csid]) THEN s
                ELSE StoreChunk(s, b.format, b.csid, common, HeaderLength(b))
        BY <2>7, <2>8, <2>9, <3>1, <3>2 DEF ReadChunk, id
      <3>4. CASE Len(s.buffer) < HeaderLength(b) + (b.to - a.offset[b.csid])
        <4>1. NoneComplete(s.buffer)
          BY <2>1, <3>4, FacesNone
        <4> QED
          BY <3>3, <3>4, <4>1, ReadNothing DEF t
      <3>5. CASE ~ (Len(s.buffer) < HeaderLength(b) + (b.to - a.offset[b.csid]))
        <4>1. Len(s.buffer) >= HeaderLength(b) + (b.to - a.offset[b.csid])
          BY <2>5, <2>6, <3>5
        <4>2. t = StoreChunk(s, b.format, b.csid, common, HeaderLength(b))
          BY <3>3, <3>5
        <4>3. Read(s, StoreChunk(s, b.format, b.csid, common, HeaderLength(b)), d, all, e, h, n)
          BY <1>2, <4>1, DoneTakes DEF a, b, common
        <4> QED
          BY <4>2, <4>3 DEF t
      <3> QED
        BY <3>4, <3>5
    <2> QED
      BY <2>11, <2>12
  <1> QED
    BY <1>1, <1>2

\* A piece of the handshake is taken.
LEMMA HandshakeTakes ==
    ASSUME NEW s, NEW d, NEW all, NEW e, NEW h, NEW n, NEW p, NEW r, NEW size, NEW state, NEW q,
           Written(all, h, n), Reading(s, d, all, e, h, n, p, r), r = 0,
           size \in Nat \ {0}, Len(s.buffer) >= size, q = p + size,
           Place(state, h, n, q, 0)
    PROVE  LET t == [Consume(s, size) EXCEPT !.state = state]
           IN  /\ Reading(t, d, all, e, h, n, q, 0)
               /\ Len(t.buffer) < Len(s.buffer)
               /\ t.state = state
  <1> DEFINE t == [Consume(s, size) EXCEPT !.state = state]
  <1>1. DOMAIN s = SessionFields /\ s.handled = <<>> /\ s.open = TRUE /\ s.buffer \in Seq(Token)
    BY DEF Reading
  <1>2. /\ DOMAIN t = SessionFields
        /\ t.state = state /\ t.open = TRUE /\ t.handled = <<>>
        /\ t.buffer = SubSeq(s.buffer, size + 1, Len(s.buffer))
        /\ t.commons = s.commons /\ t.previous = s.previous /\ t.reading = s.reading
    BY <1>1 DEF SessionFields, Consume
  <1>4. Place(t.state, h, n, q, 0)
    BY <1>2
  <1> HIDE DEF t
  <1>5. Len(s.buffer) \in Nat
    BY <1>1
  <1>6. /\ t.buffer \in Seq(Token)
        /\ Len(t.buffer) = Len(s.buffer) - size
        /\ \A i \in 1..(Len(s.buffer) - size) : t.buffer[i] = s.buffer[size + i]
    BY <1>1, <1>2, <1>5, Rest
  <1>7. p \in Nat /\ p + Len(s.buffer) = e /\ e <= Len(all) /\ Len(all) \in Nat
        /\ \A i \in 1..Len(s.buffer) : s.buffer[i] = all[p + i]
    BY DEF Reading, Written
  <1>8. q + Len(t.buffer) = e /\ e <= Len(all) /\ q \in Nat /\ Len(t.buffer) < Len(s.buffer)
    BY <1>5, <1>6, <1>7
  <1>9. ASSUME NEW i \in 1..Len(t.buffer)
        PROVE  t.buffer[i] = all[q + i]
    <2>1. t.buffer[i] = s.buffer[size + i] /\ size + i \in 1..Len(s.buffer)
      BY <1>5, <1>6
    <2>2. p + (size + i) = q + i
      BY <1>7
    <2> QED
      BY <1>7, <2>1, <2>2
  <1>10. Knows(t, d, h[0])
    BY <1>2 DEF Reading, Knows
  <1>11. Reading(t, d, all, e, h, n, q, 0)
    BY <1>2, <1>4, <1>6, <1>8, <1>9, <1>10 DEF Reading
  <1> QED
    BY <1>2, <1>8, <1>11 DEF t

\* In the handshake no message is in the buffer.
LEMMA HandshakeNone ==
    ASSUME NEW s, NEW d, NEW all, NEW e, NEW h, NEW n, NEW p, NEW r,
           Written(all, h, n), Reading(s, d, all, e, h, n, p, r), p + Len(s.buffer) <= Greeting
    PROVE  NoneComplete(s.buffer)
  <1>1. s.buffer \in Seq(Token) /\ all \in Seq(Token) /\ p \in Nat /\ Greeting \in Nat
    BY CodecAssumption DEF Written, Reading, Greeting, CodecAssumption
  <1> SUFFICES ASSUME NEW i \in 1..Len(s.buffer)
               PROVE  s.buffer[i].token # "data"
    BY <1>1 DEF NoneComplete
  <1>2. s.buffer[i] = all[p + i] /\ p + Len(s.buffer) <= Len(all)
    BY DEF Reading
  <1>3. p + i \in 1..Len(all) /\ p + i <= Greeting
    BY <1>1, <1>2
  <1> QED
    BY <1>2, <1>3 DEF Written

\* What is read after a piece of the handshake was taken is read at once.
LEMMA ReadOn ==
    ASSUME NEW s, NEW u, NEW t, NEW d, NEW all, NEW e, NEW h, NEW n,
           s.buffer \in Seq(Token), u.buffer \in Seq(Token),
           Len(u.buffer) < Len(s.buffer), Read(u, t, d, all, e, h, n)
    PROVE  Read(s, t, d, all, e, h, n)
  <1>1. Len(t.buffer) < Len(s.buffer)
    <2>1. Len(t.buffer) \in Nat /\ Len(u.buffer) \in Nat /\ Len(s.buffer) \in Nat
      BY DEF Read
    <2>2. Len(t.buffer) < Len(u.buffer) \/ t.buffer = u.buffer
      BY DEF Read
    <2> QED
      BY <2>1, <2>2
  <1> QED
    BY <1>1 DEF Read

\* RTMPSession::OnRead, whatever state it starts in.
LEMMA OnReadReads ==
    ASSUME NEW s, NEW d, NEW all, NEW e, NEW h, NEW n, NEW p, NEW r,
           Written(all, h, n), Reading(s, d, all, e, h, n, p, r)
    PROVE  Read(s, OnRead(s), d, all, e, h, n)
  <1>0. /\ C1Size \in Nat \ {0} /\ C2Size \in Nat \ {0}
        /\ Greeting = 1 + C1Size + C2Size
        /\ \A v : \A x, y : Reading(v, d, all, e, h, n, x, y) =>
                      v.buffer \in Seq(Token) /\ Len(v.buffer) \in Nat /\ DOMAIN v = SessionFields
    BY CodecAssumption DEF CodecAssumption, Greeting, Reading
  <1>1. ASSUME NEW v, NEW x, NEW y, Reading(v, d, all, e, h, n, x, y), v.state = "ACK_SENT"
        PROVE  Read(v, OnReadInAckSentState(v), d, all, e, h, n)
    <2> DEFINE u == [Consume(v, C2Size) EXCEPT !.state = "HANDESHAKE_DONE"]
    <2>1. x = 1 + C1Size /\ y = 0
      BY <1>1 DEF Reading, Place
    <2>2. v.buffer \in Seq(Token) /\ Len(v.buffer) \in Nat
      BY <1>0, <1>1
    <2>3. CASE Len(v.buffer) < C2Size
      <3>1. OnReadInAckSentState(v) = v
        BY <2>3 DEF OnReadInAckSentState
      <3>2. x + Len(v.buffer) <= Greeting
        BY <1>0, <2>1, <2>2, <2>3
      <3>3. NoneComplete(v.buffer)
        BY <1>1, <3>2, HandshakeNone
      <3> QED
        BY <1>1, <3>1, <3>3, ReadNothing
    <2>4. CASE ~ (Len(v.buffer) < C2Size)
      <3>1. OnReadInAckSentState(v) = OnReadInHandeShakeDoneState(u)
        BY <2>4 DEF OnReadInAckSentState
      <3>2. Place("HANDESHAKE_DONE", h, n, Greeting, 0)
        BY <1>0, <1>1 DEF Place, Written
      <3>3. Greeting = x + C2Size /\ Len(v.buffer) >= C2Size
        BY <1>0, <2>1, <2>2, <2>4
      <3>4. /\ Reading(u, d, all, e, h, n, Greeting, 0)
            /\ Len(u.buffer) < Len(v.buffer)
            /\ u.state = "HANDESHAKE_DONE"
        BY <1>0, <1>1, <2>1, <3>2, <3>3, HandshakeTakes
      <3> HIDE DEF u
      <3>5. Read(u, OnReadInHandeShakeDoneState(u), d, all, e, h, n)
        BY <3>4, DoneReads
      <3>6. u.buffer \in Seq(Token)
        BY <1>0, <3>4
      <3> QED
        BY <2>2, <3>1, <3>4, <3>5, <3>6, ReadOn
    <2> QED
      BY <2>3, <2>4
  <1>2. ASSUME NEW v, NEW x, NEW y, Reading(v, d, all, e, h, n, x, y), v.state = "VERSION_SENT"
        PROVE  Read(v, OnReadInVersionSentState(v), d, all, e, h, n)
    <2> DEFINE u == [Consume(v, C1Size) EXCEPT !.state = "ACK_SENT"]
    <2>1. x = 1 /\ y = 0
      BY <1>2 DEF Reading, Place
    <2>2. v.buffer \in Seq(Token) /\ Len(v.buffer) \in Nat
      BY <1>0, <1>2
    <2>3. CASE Len(v.buffer) < C1Size
      <3>1. OnReadInVersionSentState(v) = v
        BY <2>3 DEF OnReadInVersionSentState
      <3>2. x + Len(v.buffer) <= Greeting
        BY <1>0, <2>1, <2>2, <2>3
      <3>3. NoneComplete(v.buffer)
        BY <1>2, <3>2, HandshakeNone
      <3> QED
        BY <1>2, <3>1, <3>3, ReadNothing
    <2>4. CASE ~ (Len(v.buffer) < C1Size)
      <3>1. OnReadInVersionSentState(v) = OnReadInAckSentState(u)
        BY <2>4 DEF OnReadInVersionSentState
      <3>2. Place("ACK_SENT", h, n, 1 + C1Size, 0)
        BY DEF Place
      <3>3. 1 + C1Size = x + C1Size /\ Len(v.buffer) >= C1Size
        BY <1>0, <2>1, <2>2, <2>4
      <3>4. /\ Reading(u, d, all, e, h, n, 1 + C1Size, 0)
            /\ Len(u.buffer) < Len(v.buffer)
            /\ u.state = "ACK_SENT"
        <4> DEFINE q == 1 + C1Size
        <4>1. /\ q = x + C1Size /\ Len(v.buffer) >= C1Size /\ y = 0
              /\ Place("ACK_SENT", h, n, q, 0)
          BY <2>1, <3>2, <3>3
        <4> HIDE DEF q
        <4>2. LET w == [Consume(v, C1Size) EXCEPT !.state = "ACK_SENT"]
              IN  /\ Reading(w, d, all, e, h, n, q, 0)
                  /\ Len(w.buffer) < Len(v.buffer)
                  /\ w.state = "ACK_SENT"
          BY SMTT(40), <1>0, <1>2, <2>2, <4>1, HandshakeTakes
        <4> QED
          BY <4>2 DEF q
      <3> HIDE DEF u
      <3>5. Read(u, OnReadInAckSentState(u), d, all, e, h, n)
        BY <1>1, <3>4
      <3>6. u.buffer \in Seq(Token)
        BY <1>0, <3>4
      <3> QED
        BY <2>2, <3>1, <3>4, <3>5, <3>6, ReadOn
    <2> QED
      BY <2>3, <2>4
  <1>3. CASE s.state = "UNINTIALIZED"
    <2> DEFINE u == [Consume(s, 1) EXCEPT !.state = "VERSION_SENT"]
    <2>0. OnRead(s) = OnReadInUninitializedState(s)
      BY <1>3 DEF OnRead
    <2>1. p = 0 /\ r = 0
      BY <1>3 DEF Reading, Place
    <2>2. s.buffer \in Seq(Token) /\ Len(s.buffer) \in Nat
      BY <1>0
    <2>3. CASE s.buffer = <<>>
      <3>1. OnRead(s) = s
        BY <2>0, <2>3 DEF OnReadInUninitializedState
      <3>2. NoneComplete(s.buffer)
        BY <2>3 DEF NoneComplete
      <3> QED
        BY <3>1, <3>2, ReadNothing
    <2>4. CASE s.buffer # <<>>
      <3>1. OnRead(s) = OnReadInVersionSentState(u)
        BY <2>0, <2>4 DEF OnReadInUninitializedState
      <3>2. Place("VERSION_SENT", h, n, 1, 0)
        BY DEF Place
      <3>3. 1 = p + 1 /\ Len(s.buffer) >= 1
        BY <2>1, <2>2, <2>4
      <3>4. /\ Reading(u, d, all, e, h, n, 1, 0)
            /\ Len(u.buffer) < Len(s.buffer)
            /\ u.state = "VERSION_SENT"
        <4> DEFINE one == 1
        <4>1. /\ one \in Nat \ {0} /\ one = p + one /\ Len(s.buffer) >= one
              /\ Place("VERSION_SENT", h, n, one, 0) /\ r = 0
          BY <2>1, <3>2, <3>3
        <4> HIDE DEF one
        <4>2. LET w == [Consume(s, one) EXCEPT !.state = "VERSION_SENT"]
              IN  /\ Reading(w, d, all, e, h, n, one, 0)
                  /\ Len(w.buffer) < Len(s.buffer)
                  /\ w.state = "VERSION_SENT"
          BY <1>0, <2>2, <4>1, HandshakeTakes
        <4> QED
          BY <4>2 DEF one
      <3> HIDE DEF u
      <3>5. Read(u, OnReadInVersionSentState(u), d, all, e, h, n)
        BY <1>2, <3>4
      <3>6. u.buffer \in Seq(Token)
        BY <1>0, <3>4
      <3> QED
        BY <2>2, <3>1, <3>4, <3>5, <3>6, ReadOn
    <2> QED
      BY <2>3, <2>4
  <1>4. CASE s.state = "VERSION_SENT"
    BY <1>2, <1>4 DEF OnRead
  <1>5. CASE s.state = "ACK_SENT"
    BY <1>1, <1>5 DEF OnRead
  <1>6. CASE s.state = "HANDESHAKE_DONE"
    BY <1>6, DoneReads DEF OnRead
  <1> QED
    BY <1>3, <1>4, <1>5, <1>6 DEF Reading, Place

-----------------------------------------------------------------------------
(* The client *)

\* After a chunk the client is in a state it can be in.
LEMMA FollowsClient ==
    ASSUME NEW a, NEW b, Client(a), Follows(a, b), a.at \in Nat
    PROVE  Client(b) /\ b.at \in Nat /\ b.at >= a.at
  <1> DEFINE c == b.csid
             m == Script[c][a.next[c]]
  <1>1. /\ c \in ChunkStreams /\ a.next[c] \in 1..Len(Script[c]) /\ m \in ScriptMessage
        /\ a.offset[c] \in Nat /\ b.to \in Nat /\ a.offset[c] < b.to /\ b.to <= m.length
    BY ChunkNumbers
  <1>2. b.format \in 0..3 /\ Describes(b.common, m)
    BY DEF Follows
  <1>3. /\ b.last[c] = b.common
        /\ Latest(b, c) = a.next[c]
        /\ b.to = m.length => /\ b.next[c] = a.next[c] + 1
                              /\ b.offset[c] = 0
                              /\ b.completed = Append(a.completed, <<c, a.next[c], b.began[c]>>)
        /\ b.to # m.length => /\ b.next[c] = a.next[c]
                              /\ b.offset[c] = b.to
                              /\ b.completed = a.completed
    BY OwnMoves
  <1>4. /\ a.next \in [ChunkStreams -> Nat \ {0}] /\ a.offset \in [ChunkStreams -> Nat]
        /\ a.last \in [ChunkStreams -> Commons \cup {<<>>}]
        /\ a.began \in [ChunkStreams -> 0..3]
        /\ a.completed \in Seq(ChunkStreams \X Nat \X (0..3))
    BY DEF Client
  <1>5. b.common \in Commons
    BY <1>2 DEF Describes
  <1>6. b.last \in [ChunkStreams -> Commons \cup {<<>>}]
    <2>1. b.last = [a.last EXCEPT ![c] = b.common]
      BY DEF Follows
    <2> HIDE DEF c
    <2> QED
      BY <1>1, <1>4, <1>5, <2>1
  <1>7. b.began \in [ChunkStreams -> 0..3]
    <2>1. b.began = IF a.offset[c] = 0 THEN [a.began EXCEPT ![c] = b.format] ELSE a.began
      BY DEF Follows
    <2> HIDE DEF c
    <2> QED
      BY <1>1, <1>2, <1>4, <2>1
  <1>8. b.next \in [ChunkStreams -> Nat \ {0}] /\ b.offset \in [ChunkStreams -> Nat]
    <2>1. CASE b.to = m.length
      <3>1. /\ b.next = [a.next EXCEPT ![c] = @ + 1]
            /\ b.offset = [a.offset EXCEPT ![c] = 0]
        BY <2>1 DEF Follows
      <3> QED
        BY <3>1, <1>1, <1>4
    <2>2. CASE b.to # m.length
      <3>1. b.next = a.next /\ b.offset = [a.offset EXCEPT ![c] = b.to]
        BY <2>2 DEF Follows
      <3> QED
        BY <3>1, <1>1, <1>4
    <2> QED
      BY <2>1, <2>2
  <1>9. b.completed \in Seq(ChunkStreams \X Nat \X (0..3))
    <2> DEFINE S == ChunkStreams \X Nat \X (0..3)
               z == <<c, a.next[c], b.began[c]>>
    <2>1. z \in S
      BY <1>1, <1>4, <1>7
    <2>2. a.completed \in Seq(S)
      BY <1>4
    <2> HIDE DEF S
    <2>3. Append(a.completed, z) \in Seq(S)
      BY <2>1, <2>2
    <2>4. b.completed = a.completed \/ b.completed = Append(a.completed, z)
      BY <1>3
    <2> QED
      BY <2>2, <2>3, <2>4 DEF S
  <1>10. ASSUME NEW e \in ChunkStreams
         PROVE  /\ b.next[e] <= Len(Script[e]) + 1
                /\ b.offset[e] # 0 => /\ b.next[e] <= Len(Script[e])
                                      /\ b.offset[e] < Script[e][b.next[e]].length
                /\ Latest(b, e) # 0 => Describes(b.last[e], Script[e][Latest(b, e)])
    <2>1. CASE e = c
      <3>1. m.length \in Nat
        BY <1>1 DEF ScriptMessage
      <3>2. Len(Script[c]) \in Nat
        BY <1>1, ConstantsAssumption DEF ConstantsAssumption, ChunkStreams
      <3>3. Describes(b.last[c], Script[c][Latest(b, c)])
        BY <1>2, <1>3
      <3> HIDE DEF c
      <3>4. CASE b.to = m.length
        BY <2>1, <3>2, <3>3, <3>4, <1>1, <1>3
      <3>5. CASE b.to # m.length
        BY <2>1, <3>1, <3>2, <3>3, <3>5, <1>1, <1>3
      <3> QED
        BY <3>4, <3>5
    <2>2. CASE e # c
      <3>1. /\ b.next[e] = a.next[e]
            /\ b.offset[e] = a.offset[e]
            /\ b.last[e] = a.last[e]
            /\ Latest(b, e) = Latest(a, e)
        BY <2>2, OthersStay
      <3> QED
        BY <3>1 DEF Client
    <2> QED
      BY <2>1, <2>2
  <1>11. b.at \in Nat /\ b.at >= a.at
    <2>1. HeaderLength(b) \in Nat
      BY <1>2, HeaderLengthIs
    <2>2. b.at = a.at + HeaderLength(b) + b.to - a.offset[c]
      BY DEF Follows
    <2> HIDE DEF c, m
    <2> QED
      BY <1>1, <2>1, <2>2
  <1>12. Counts(b)
    BY FollowsCounts
  <1> QED
    BY <1>6, <1>7, <1>8, <1>9, <1>10, <1>11, <1>12 DEF Client

\* The tokens of a chunk.
Tokens(a, b) ==
    SerializeHeader(b.format, b.csid, b.common)
    \o Piece(b.csid, a.next[b.csid], a.offset[b.csid], b.to)

\* The header that is written.
LEMMA HeaderTokens ==
    ASSUME NEW b, b.csid \in ChunkStreams, b.format \in 0..3, b.common \in Commons
    PROVE  LET q == SerializeHeader(b.format, b.csid, b.common)
           IN  /\ q \in Seq(Token)
               /\ Len(q) = HeaderLength(b)
               /\ q[1] = [token |-> "basic", format |-> b.format, csid |-> b.csid]
               /\ b.format # 3 =>
                      q[2] = [token |-> "header",
                              common |-> [f \in Fields(b.format) |-> Short(b.common)[f]]]
               /\ b.common.timestamp >= Mark => q[Fixed(b) + 1].token = "extended"
  <1> DEFINE basic == [token |-> "basic", format |-> b.format, csid |-> b.csid]
             fields == [f \in Fields(b.format) |-> Short(b.common)[f]]
             header == [token |-> "header", common |-> fields]
             extended == [token |-> "extended", timestamp |-> b.common.timestamp]
             x == IF b.format = 3 THEN <<>> ELSE <<header>>
             y == IF b.common.timestamp >= Mark THEN <<extended>> ELSE <<>>
             q == SerializeHeader(b.format, b.csid, b.common)
  <1>1. q = <<basic>> \o x \o y
    BY DEF SerializeHeader, Short
  <1>2. basic \in Token
    BY DEF Token
  <1>3. header \in Token
    <2>1. Short(b.common) \in Commons
      BY ShortOf
    <2>2. \A f \in Fields(0) : Short(b.common)[f] \in Nat
      BY <2>1, FieldsOf DEF Commons
    <2>3. Fields(b.format) \in SUBSET Fields(0)
      BY FieldsOf
    <2>4. fields \in [Fields(b.format) -> Nat]
      BY <2>2, <2>3
    <2> HIDE DEF fields
    <2> DEFINE P == UNION {[F -> Nat] : F \in SUBSET Fields(0)}
    <2>5. fields \in P
      BY <2>3, <2>4
    <2> HIDE DEF P
    <2>6. header \in [token : {"header"}, common : P]
      BY <2>5
    <2>7. [token : {"header"}, common : P] \subseteq Token
      BY DEF Token, P
    <2> QED
      BY <2>6, <2>7
  <1>4. extended \in Token
    <2>1. b.common.timestamp \in Nat
      BY DEF Commons
    <2> QED
      BY <2>1 DEF Token
  <1>5. b.common.timestamp \in Nat /\ Mark \in Nat
    BY CodecAssumption DEF Commons, CodecAssumption
  <1>6. extended.token = "extended"
    OBVIOUS
  <1>7. /\ b.format = 3 => x = <<>>
        /\ b.format # 3 => x = <<header>>
        /\ b.common.timestamp >= Mark => y = <<extended>>
        /\ ~ (b.common.timestamp >= Mark) => y = <<>>
    OBVIOUS
  <1>8. \A z \in Seq(Token) : z \o <<>> = z
    BY ConcatEmptySeq
  <1>9. /\ q[1] = basic => q[1] = [token |-> "basic", format |-> b.format, csid |-> b.csid]
        /\ q[2] = header => q[2] = [token |-> "header",
                                   common |-> [f \in Fields(b.format) |-> Short(b.common)[f]]]
        /\ \A k : q[k] = extended => q[k].token = "extended"
    BY <1>6
  <1> HIDE DEF basic, header, extended, q, x, y
  <1>10. <<basic>> \in Seq(Token) /\ Len(<<basic>>) = 1 /\ <<basic>>[1] = basic
    BY <1>2
  <1>11. CASE b.format = 3
    <2>1. /\ Fixed(b) = 1
          /\ b.common.timestamp >= Mark => HeaderLength(b) = 2
          /\ ~ (b.common.timestamp >= Mark) => HeaderLength(b) = 1
      BY <1>11 DEF HeaderLength, Fixed
    <2>2. q = <<basic>> \o y
      BY <1>1, <1>7, <1>8, <1>10, <1>11
    <2>3. CASE b.common.timestamp >= Mark
      <3>1. q = <<basic>> \o <<extended>>
        BY <1>7, <2>2, <2>3
      <3>2. q \in Seq(Token) /\ Len(q) = 2 /\ q[1] = basic /\ q[2] = extended
        BY <3>1, <1>2, <1>4
      <3>3. q[Fixed(b) + 1].token = "extended"
        BY <1>9, <2>1, <3>2
      <3> QED
        BY <1>9, <1>11, <2>1, <2>3, <3>2, <3>3 DEF q
    <2>4. CASE ~ (b.common.timestamp >= Mark)
      <3>1. q = <<basic>>
        BY <1>7, <1>8, <1>10, <2>2, <2>4
      <3> QED
        BY <1>9, <1>10, <1>11, <2>1, <2>4, <3>1 DEF q
    <2> QED
      BY <2>3, <2>4
  <1>12. CASE b.format # 3
    <2>1. /\ Fixed(b) = 2
          /\ b.common.timestamp >= Mark => HeaderLength(b) = 3
          /\ ~ (b.common.timestamp >= Mark) => HeaderLength(b) = 2
      BY <1>12 DEF HeaderLength, Fixed
    <2> DEFINE l == <<basic>> \o <<header>>
    <2>2. l \in Seq(Token) /\ Len(l) = 2 /\ l[1] = basic /\ l[2] = header
      BY <1>2, <1>3
    <2>3. q = l \o y
      BY <1>1, <1>7, <1>12
    <2> HIDE DEF l
    <2>4. CASE b.common.timestamp >= Mark
      <3>1. q = l \o <<extended>>
        BY <1>7, <2>3, <2>4
      <3> DEFINE z == <<extended>>
      <3>2. z \in Seq(Token) /\ Len(z) = 1 /\ z[1] = extended
        BY <1>4
      <3> HIDE DEF z
      <3>3. q \in Seq(Token) /\ Len(q) = 3 /\ q[1] = basic /\ q[2] = header /\ q[3] = extended
        <4>1. q = l \o z
          BY <3>1 DEF z
        <4>2. /\ q \in Seq(Token)
              /\ Len(q) = Len(l) + Len(z)
              /\ \A k \in 1..(Len(l) + Len(z)) : q[k] = IF k <= Len(l) THEN l[k] ELSE z[k - Len(l)]
          BY <2>2, <3>2, <4>1, ConcatProperties
        <4> QED
          BY <2>2, <3>2, <4>2
      <3>4. q[Fixed(b) + 1].token = "extended"
        BY <1>9, <2>1, <3>3
      <3> QED
        BY <1>9, <1>12, <2>1, <2>4, <3>3, <3>4 DEF q
    <2>5. CASE ~ (b.common.timestamp >= Mark)
      <3>1. q = l
        BY <1>7, <1>8, <2>2, <2>3, <2>5
      <3> QED
        BY <1>9, <1>12, <2>1, <2>2, <2>5, <3>1 DEF q
    <2> QED
      BY <2>4, <2>5
  <1> QED
    BY <1>11, <1>12

\* What is written behind all for a chunk is that chunk.
LEMMA TokensAt ==
    ASSUME NEW a, NEW b, Client(a), Follows(a, b), NEW all, all \in Seq(Token), Len(all) = a.at
    PROVE  /\ Tokens(a, b) \in Seq(Token)
           /\ ChunkAt(all \o Tokens(a, b), a, b)
           /\ Len(all \o Tokens(a, b)) = b.at
  <1> DEFINE q == SerializeHeader(b.format, b.csid, b.common)
             w == Piece(b.csid, a.next[b.csid], a.offset[b.csid], b.to)
             size == b.to - a.offset[b.csid]
             i == a.next[b.csid]
             from == a.offset[b.csid]
             t == Tokens(a, b)
             new == all \o t
  <1>1. b.csid \in ChunkStreams /\ b.format \in 0..3 /\ b.common \in Commons
    BY DEF Follows, Describes
  <1>2. /\ q \in Seq(Token)
        /\ Len(q) = HeaderLength(b)
        /\ q[1] = [token |-> "basic", format |-> b.format, csid |-> b.csid]
        /\ b.format # 3 =>
               q[2] = [token |-> "header",
                       common |-> [f \in Fields(b.format) |-> Short(b.common)[f]]]
        /\ b.common.timestamp >= Mark => q[Fixed(b) + 1].token = "extended"
    BY <1>1, HeaderTokens
  <1>3. from \in Nat /\ b.to \in Nat /\ from < b.to /\ i \in Nat
    <2>1. \A k \in 1..Len(Script[b.csid]) : k \in Nat
      OBVIOUS
    <2> QED
      BY <2>1, ChunkNumbers
  <1>4. /\ w \in Seq(Token) /\ Len(w) = size
        /\ \A k \in 1..size : w[k] = Unit(b.csid, i, from + k)
    <2> DEFINE c == b.csid
               to == b.to
    <2>1. c \in ChunkStreams /\ i \in Nat /\ from \in Nat /\ to \in Nat /\ from <= to
      BY <1>1, <1>3
    <2> HIDE DEF from, i, c, to
    <2>2. /\ Piece(c, i, from, to) \in Seq(Token)
          /\ Len(Piece(c, i, from, to)) = to - from
          /\ \A k \in 1..(to - from) : Piece(c, i, from, to)[k] = Unit(c, i, from + k)
      BY <2>1, Pieces
    <2> QED
      BY <2>2 DEF from, i, c, to
  <1>5. size \in Nat /\ size >= 1
    BY <1>3
  <1>6. HeaderLength(b) \in Nat /\ HeaderLength(b) >= Fixed(b) /\ Fixed(b) \in {1, 2}
    BY <1>1, HeaderLengthIs
  <1>7. t = q \o w
    BY DEF Tokens
  <1>8. b.at = a.at + HeaderLength(b) + b.to - from
    BY DEF Follows
  <1>9. Len(all) \in Nat /\ a.at \in Nat
    OBVIOUS
  <1> HIDE DEF q, w, size, t, from, i
  <1>10. /\ t \in Seq(Token)
         /\ Len(t) = HeaderLength(b) + size
         /\ \A k \in 1..HeaderLength(b) : t[k] = q[k]
         /\ \A k \in 1..size : t[HeaderLength(b) + k] = w[k]
    <2>1. q \in Seq(Token) /\ w \in Seq(Token) /\ Len(q) = HeaderLength(b) /\ Len(w) = size
      BY <1>2, <1>4
    <2>2. /\ t \in Seq(Token)
          /\ Len(t) = Len(q) + Len(w)
          /\ \A k \in 1..(Len(q) + Len(w)) : t[k] = IF k <= Len(q) THEN q[k] ELSE w[k - Len(q)]
      BY <2>1, <1>7, ConcatProperties
    <2>3. \A k \in 1..HeaderLength(b) : t[k] = q[k]
      BY <2>1, <2>2, <1>5, <1>6
    <2>4. ASSUME NEW k \in 1..size
          PROVE  t[HeaderLength(b) + k] = w[k]
      <3>1. /\ HeaderLength(b) + k \in 1..(HeaderLength(b) + size)
            /\ ~ (HeaderLength(b) + k <= HeaderLength(b))
            /\ (HeaderLength(b) + k) - HeaderLength(b) = k
        BY <1>5, <1>6
      <3> QED
        BY <2>1, <2>2, <3>1
    <2> QED
      BY <2>1, <2>2, <2>3, <2>4
  <1>11. Len(t) \in Nat
    BY <1>10
  <1>12. /\ new \in Seq(Token)
         /\ Len(new) = a.at + Len(t)
         /\ \A k \in 1..Len(t) : new[a.at + k] = t[k]
    BY <1>9, <1>10, <1>11
  <1> HIDE DEF new
  <1>13. \A k \in 1..HeaderLength(b) : new[a.at + k] = q[k]
    BY <1>5, <1>6, <1>10, <1>12
  <1>14. new[a.at + 1] = [token |-> "basic", format |-> b.format, csid |-> b.csid]
    BY <1>2, <1>6, <1>13
  <1>15. ASSUME b.format # 3
         PROVE  new[a.at + 2] = [token |-> "header",
                                 common |-> [f \in Fields(b.format) |-> Short(b.common)[f]]]
    <2>1. 2 \in 1..HeaderLength(b)
      BY <1>6, <1>15 DEF Fixed
    <2>2. new[a.at + 2] = q[2]
      BY <1>13, <2>1
    <2> QED
      BY <1>2, <1>15, <2>2
  <1>16. ASSUME b.common.timestamp >= Mark
         PROVE  new[a.at + Fixed(b) + 1].token = "extended"
    <2>1. HeaderLength(b) = Fixed(b) + 1
      BY <1>16 DEF HeaderLength
    <2>2. Fixed(b) + 1 \in 1..HeaderLength(b) /\ a.at + Fixed(b) + 1 = a.at + (Fixed(b) + 1)
      BY <1>6, <1>9, <2>1
    <2>3. new[a.at + Fixed(b) + 1] = q[Fixed(b) + 1]
      BY <1>13, <2>2
    <2> QED
      BY <1>2, <1>16, <2>3
  <1>17. ASSUME NEW k \in 1..size
         PROVE  new[a.at + HeaderLength(b) + k] = Unit(b.csid, i, from + k)
    <2>1. HeaderLength(b) + k \in 1..Len(t) /\ a.at + (HeaderLength(b) + k) = a.at + HeaderLength(b) + k
      BY <1>5, <1>6, <1>9, <1>10
    <2>2. new[a.at + HeaderLength(b) + k] = t[HeaderLength(b) + k]
      BY <1>12, <2>1
    <2> QED
      BY <1>4, <1>10, <2>2
  <1>18. ChunkAt(new, a, b)
    BY <1>14, <1>15, <1>16, <1>17 DEF ChunkAt, size, from, i
  <1>19. Len(new) = b.at
    <2>1. Len(new) = a.at + (HeaderLength(b) + (b.to - from))
      BY <1>10, <1>12 DEF size, from
    <2>2. b.to \in Nat /\ from \in Nat /\ HeaderLength(b) \in Nat /\ a.at \in Nat
      BY <1>3, <1>6, <1>9
    <2> QED
      BY <1>8, <2>1, <2>2
  <1> QED
    BY <1>10, <1>18, <1>19 DEF new, t

\* More is written, nothing of it changed.
Extends(new, all) ==
    /\ new \in Seq(Token)
    /\ Len(all) <= Len(new)
    /\ \A i \in 1..Len(all) : new[i] = all[i]

\* What two sequences joined hold.
LEMMA Joined ==
    ASSUME NEW S, NEW q \in Seq(S), NEW p \in Seq(S)
    PROVE  /\ q \o p \in Seq(S)
           /\ Len(q \o p) = Len(q) + Len(p)
           /\ \A i \in 1..(Len(q) + Len(p)) : (q \o p)[i] = IF i <= Len(q) THEN q[i] ELSE p[i - Len(q)]
  BY ConcatProperties

LEMMA ConcatExtends ==
    ASSUME NEW all \in Seq(Token), NEW t \in Seq(Token)
    PROVE  /\ Extends(all \o t, all)
           /\ Len(all \o t) = Len(all) + Len(t)
           /\ \A i \in 1..Len(t) : (all \o t)[Len(all) + i] = t[i]
  <1> DEFINE new == all \o t
  <1>1. /\ new \in Seq(Token)
        /\ Len(new) = Len(all) + Len(t)
        /\ \A i \in 1..(Len(all) + Len(t)) : new[i] = IF i <= Len(all) THEN all[i] ELSE t[i - Len(all)]
    BY ConcatProperties
  <1>2. Len(all) \in Nat /\ Len(t) \in Nat
    OBVIOUS
  <1> HIDE DEF new
  <1>3. \A i \in 1..Len(all) : new[i] = all[i]
    BY <1>1, <1>2
  <1>4. ASSUME NEW i \in 1..Len(t)
        PROVE  new[Len(all) + i] = t[i]
    <2>1. /\ Len(all) + i \in 1..(Len(all) + Len(t))
          /\ ~ (Len(all) + i <= Len(all))
          /\ (Len(all) + i) - Len(all) = i
      BY <1>2
    <2> QED
      BY <1>1, <2>1
  <1>5. Len(all) <= Len(new)
    BY <1>1, <1>2
  <1> QED
    BY <1>1, <1>3, <1>4, <1>5 DEF Extends, new

\* What the client writes later is nothing to what the server has read.
LEMMA ReadingStays ==
    ASSUME NEW s, NEW d, NEW all, NEW e, NEW h, NEW n, NEW p, NEW r,
           Reading(s, d, all, e, h, n, p, r), all \in Seq(Token), n \in Nat,
           NEW new, Extends(new, all), NEW g, NEW o \in Nat, n <= o,
           \A k \in 0..n : g[k] = h[k]
    PROVE  Reading(s, d, new, e, g, o, p, r)
  <1>1. /\ p + Len(s.buffer) = e /\ e <= Len(all) /\ p \in Nat /\ Len(s.buffer) \in Nat /\ Len(all) \in Nat
        /\ \A i \in 1..Len(s.buffer) : s.buffer[i] = all[p + i]
        /\ Len(all) <= Len(new) /\ Len(new) \in Nat
        /\ \A i \in 1..Len(all) : new[i] = all[i]
    BY DEF Reading, Extends
  <1>2. p + Len(s.buffer) = e /\ e <= Len(new)
    BY <1>1
  <1>3. \A i \in 1..Len(s.buffer) : s.buffer[i] = new[p + i]
    <2> SUFFICES ASSUME NEW i \in 1..Len(s.buffer)
                 PROVE  s.buffer[i] = new[p + i]
      OBVIOUS
    <2>1. p + i \in 1..Len(all)
      BY <1>1
    <2> QED
      BY <1>1, <2>1
  <1>4. r \in 0..n
    BY DEF Reading, Place
  <1>5. g[r] = h[r] /\ r \in 0..o
    BY <1>4
  <1>6. Place(s.state, g, o, p, r)
    BY <1>5 DEF Reading, Place
  <1> QED
    BY <1>2, <1>3, <1>5, <1>6 DEF Reading

\* One chunk more.
LEMMA WrittenMore ==
    ASSUME NEW all, NEW h, NEW n, Written(all, h, n), Len(all) = h[n].at,
           NEW b, Follows(h[n], b), NEW g, g[n + 1] = b, \A k \in 0..n : g[k] = h[k]
    PROVE  Written(all \o Tokens(h[n], b), g, n + 1)
  <1> DEFINE a == h[n]
             t == Tokens(a, b)
             new == all \o t
             o == n + 1
  <1>1. /\ n \in Nat /\ all \in Seq(Token) /\ Client(a) /\ a.at \in Nat
        /\ \A k \in 0..n : Client(h[k]) /\ h[k].at \in Nat /\ h[k].at >= Greeting
        /\ a.at >= Greeting
        /\ \A k \in 1..n : Follows(h[k - 1], h[k]) /\ ChunkAt(all, h[k - 1], h[k]) /\ h[k].at <= Len(all)
        /\ \A i \in 1..Len(all) : i <= Greeting => all[i].token # "data"
        /\ \A k \in 0..n : \A j \in 1..Len(h[k].completed) :
               j <= Len(a.completed) /\ a.completed[j] = h[k].completed[j]
        /\ h[0].at = Greeting
        /\ h[0].next = [c \in ChunkStreams |-> 1]
        /\ h[0].offset = [c \in ChunkStreams |-> 0]
        /\ h[0].completed = <<>>
    BY DEF Written
  <1>f. Follows(a, b)
    OBVIOUS
  <1>2. /\ t \in Seq(Token)
        /\ ChunkAt(new, a, b)
        /\ Len(new) = b.at
    BY <1>1, TokensAt
  <1>3. Client(b) /\ b.at \in Nat /\ b.at >= a.at
    BY <1>1, FollowsClient
  <1>4. Extends(new, all) /\ Len(new) = Len(all) + Len(t)
    BY <1>1, <1>2, ConcatExtends
  <1> HIDE DEF a, t, new
  <1>5. o \in Nat /\ \A k \in 0..o : k \in 0..n \/ k = o
    BY <1>1
  <1>6. g[0] = h[0] /\ g[n] = a /\ g[o] = b
    BY <1>1 DEF a
  <1>7. \A k \in 0..o : Client(g[k]) /\ g[k].at \in Nat /\ g[k].at >= Greeting
    <2>1. Greeting \in Nat
      BY CodecAssumption DEF CodecAssumption, Greeting
    <2>2. b.at >= Greeting
      BY <1>1, <1>3, <2>1
    <2> QED
      BY <1>1, <1>3, <1>5, <1>6, <2>2
  <1>8. ASSUME NEW k \in 1..o
        PROVE  Follows(g[k - 1], g[k]) /\ ChunkAt(new, g[k - 1], g[k]) /\ g[k].at <= Len(new)
    <2>1. CASE k = o
      <3>1. k - 1 = n
        BY <2>1, <1>1
      <3> QED
        BY <2>1, <3>1, <1>2, <1>3, <1>6 DEF a
    <2>2. CASE k # o
      <3>1. k \in 1..n /\ k - 1 \in 0..n /\ k \in 0..n
        BY <2>2, <1>1
      <3>2. /\ Follows(h[k - 1], h[k]) /\ ChunkAt(all, h[k - 1], h[k]) /\ h[k].at <= Len(all)
            /\ g[k] = h[k] /\ g[k - 1] = h[k - 1]
        BY <3>1, <1>1
      <3>3. Client(h[k - 1]) /\ h[k - 1].at \in Nat /\ h[k].at \in Nat
        BY <3>1, <1>1
      <3>4. ChunkAt(new, h[k - 1], h[k])
        <4> DEFINE x == h[k - 1]
                   y == h[k]
                   size == y.to - x.offset[y.csid]
        <4>1. y.format \in 0..3 /\ y.at = x.at + HeaderLength(y) + y.to - x.offset[y.csid]
          BY <3>2 DEF Follows
        <4>2. x.offset[y.csid] \in Nat /\ y.to \in Nat /\ x.offset[y.csid] < y.to
          BY <3>2, <3>3, ChunkNumbers
        <4>3. HeaderLength(y) \in Nat /\ HeaderLength(y) >= Fixed(y) /\ Fixed(y) \in {1, 2}
          BY <4>1, HeaderLengthIs
        <4>4. \A i \in 1..Len(all) : new[i] = all[i]
          BY <1>4 DEF Extends
        <4>5. ChunkAt(all, x, y) /\ y.at <= Len(all) /\ x.at \in Nat /\ y.at \in Nat /\ Len(all) \in Nat
          BY <1>1, <3>2, <3>3
        <4> HIDE DEF x, y
        <4>6. size \in Nat /\ size >= 1 /\ y.at = x.at + HeaderLength(y) + size
          BY <4>1, <4>2, <4>3, <4>5
        <4> HIDE DEF size
        <4>7. \A i \in 1..(HeaderLength(y) + size) : new[x.at + i] = all[x.at + i]
          <5> SUFFICES ASSUME NEW i \in 1..(HeaderLength(y) + size)
                       PROVE  new[x.at + i] = all[x.at + i]
            OBVIOUS
          <5>1. x.at + i \in 1..Len(all)
            BY SMTT(40), <4>3, <4>5, <4>6
          <5> QED
            BY <4>4, <5>1
        <4>8. 1 \in 1..(HeaderLength(y) + size)
          BY <4>3, <4>6
        <4>9. y.format # 3 => 2 \in 1..(HeaderLength(y) + size)
          BY <4>3, <4>6 DEF Fixed
        <4>10. y.common.timestamp >= Mark => new[x.at + Fixed(y) + 1] = all[x.at + Fixed(y) + 1]
          <5> SUFFICES ASSUME y.common.timestamp >= Mark
                       PROVE  new[x.at + Fixed(y) + 1] = all[x.at + Fixed(y) + 1]
            OBVIOUS
          <5>1. HeaderLength(y) = Fixed(y) + 1
            BY DEF HeaderLength
          <5> DEFINE f == Fixed(y)
                     l == HeaderLength(y)
                     at == x.at
          <5>2. f \in Nat /\ l = f + 1 /\ at \in Nat /\ size \in Nat
            BY <4>3, <4>5, <4>6, <5>1
          <5> HIDE DEF f, l, at
          <5>3. f + 1 \in 1..(l + size) /\ at + (f + 1) = at + f + 1
            BY <5>2
          <5>4. new[at + (f + 1)] = all[at + (f + 1)]
            BY <4>7, <5>3 DEF l, at
          <5> QED
            BY <5>3, <5>4 DEF f, at
        <4>11. \A i \in 1..size : new[x.at + HeaderLength(y) + i] = all[x.at + HeaderLength(y) + i]
          <5> SUFFICES ASSUME NEW i \in 1..size
                       PROVE  new[x.at + HeaderLength(y) + i] = all[x.at + HeaderLength(y) + i]
            OBVIOUS
          <5> DEFINE l == HeaderLength(y)
                     at == x.at
                     room == Len(all)
                     till == y.at
          <5>1. l \in Nat /\ at \in Nat /\ room \in Nat /\ till = at + l + size /\ till <= room /\ size \in Nat
            BY <4>3, <4>5, <4>6
          <5> HIDE DEF l, at, room, till
          <5>2. at + l + i \in 1..room
            BY <5>1
          <5> QED
            BY <4>4, <5>2 DEF l, at, room
        <4>12. ChunkAt(new, x, y)
          BY <4>5, <4>7, <4>8, <4>9, <4>10, <4>11 DEF ChunkAt, size
        <4> QED
          BY <4>12 DEF x, y
      <3>5. h[k].at <= Len(new)
        <4>1. Len(all) \in Nat /\ Len(new) \in Nat /\ Len(all) <= Len(new)
          BY <1>1, <1>4 DEF Extends
        <4> QED
          BY <3>2, <3>3, <4>1
      <3> QED
        BY <3>2, <3>4, <3>5
    <2> QED
      BY <2>1, <2>2
  <1>9. \A i \in 1..Len(new) : i <= Greeting => new[i].token # "data"
    <2> SUFFICES ASSUME NEW i \in 1..Len(new), i <= Greeting
                 PROVE  new[i].token # "data"
      OBVIOUS
    <2>1. a.at >= Greeting /\ Greeting \in Nat /\ a.at = Len(all)
      BY <1>1, CodecAssumption DEF CodecAssumption, Greeting, a
    <2>2. i \in 1..Len(all)
      BY <1>1, <1>2, <1>3, <2>1
    <2> QED
      BY <1>1, <1>4, <2>2 DEF Extends
  <1>10. ASSUME NEW k \in 0..o, NEW j \in 1..Len(g[k].completed)
         PROVE  j <= Len(b.completed) /\ b.completed[j] = g[k].completed[j]
    <2>1. CASE k = o
      BY <2>1, <1>3, <1>6 DEF Client
    <2>2. CASE k # o
      <3>1. k \in 0..n /\ g[k] = h[k]
        BY <2>2, <1>5
      <3>2. j <= Len(a.completed) /\ a.completed[j] = g[k].completed[j]
        BY <3>1, <1>1
      <3>3. j \in 1..Len(a.completed)
        BY <3>2, <1>1 DEF Client
      <3> DEFINE S == ChunkStreams \X Nat \X (0..3)
                 z == <<b.csid, a.next[b.csid], b.began[b.csid]>>
      <3>4. b.completed = a.completed \/ b.completed = Append(a.completed, z)
        BY OwnMoves, <1>1, <1>f
      <3>5. a.completed \in Seq(S)
        BY <1>1 DEF Client
      <3> HIDE DEF S, z
      <3>6. j <= Len(b.completed) /\ b.completed[j] = a.completed[j]
        <4>1. CASE b.completed = a.completed
          BY <3>2, <4>1
        <4>2. CASE b.completed = Append(a.completed, z)
          BY <3>3, <3>5, <4>2
        <4> QED
          BY <3>4, <4>1, <4>2
      <3> QED
        BY <3>2, <3>6
    <2> QED
      BY <2>1, <2>2
  <1>11. \A k \in 0..o : \A j \in 1..Len(g[k].completed) :
             j <= Len(g[o].completed) /\ g[o].completed[j] = g[k].completed[j]
    BY <1>6, <1>10
  <1>12. Len(new) <= g[o].at /\ new \in Seq(Token)
    BY <1>2, <1>3, <1>4, <1>6 DEF Extends
  <1>13. /\ g[0].at = Greeting
         /\ g[0].next = [c \in ChunkStreams |-> 1]
         /\ g[0].offset = [c \in ChunkStreams |-> 0]
         /\ g[0].completed = <<>>
    BY <1>1, <1>6
  <1> HIDE DEF o
  <1>14. Written(new, g, o)
    BY <1>5, <1>7, <1>8, <1>9, <1>11, <1>12, <1>13 DEF Written
  <1> QED
    BY <1>14 DEF new, t, a, o

-----------------------------------------------------------------------------
(* The invariant *)

SameClient(a) ==
    /\ a.next = next
    /\ a.offset = offset
    /\ a.last = last
    /\ a.began = began
    /\ a.completed = completed

\* How much of the handshake is sent before all of it is.
HandshakeSent == IF greeted = 0 THEN 0 ELSE IF greeted = 1 THEN 1 ELSE 1 + C1Size

\* The client has written all, in the chunks h[1] .. h[n]; p tokens and r chunks of
\* it have been read, the others are in the buffer and on the wire.
Tells(all, e, h, n, p, r) ==
    /\ Written(all, h, n)
    /\ Reading(session, delivered, all, e, h, n, p, r)
    /\ SameClient(h[n])
    /\ e + Len(wire) = Len(all)
    /\ \A i \in 1..Len(wire) : wire[i] = all[e + i]
    /\ greeted = 3 => Len(all) = h[n].at
    /\ greeted # 3 => n = 0 /\ Len(all) = HandshakeSent

\* The loop of ReadCallback is over, or about to be since nothing was consumed.
Stopped == looping = FALSE \/ (pre # 0 /\ pre = Len(session.buffer))

Invariant ==
    /\ greeted \in 0..3
    /\ looping \in BOOLEAN
    /\ pre \in Nat
    /\ wire \in Seq(Token)
    /\ Stopped => NoneComplete(session.buffer)
    /\ \E all, e, h, n, p, r : Tells(all, e, h, n, p, r)

LEMMA InitInvariant == Init => Invariant
  <1> SUFFICES ASSUME Init
               PROVE  Invariant
    OBVIOUS
  <1> DEFINE a == [next |-> next, offset |-> offset, last |-> last, began |-> began,
                   completed |-> completed, at |-> Greeting]
             h == [k \in {0} |-> a]
             all == <<>>
  <1>1. Greeting \in Nat
    BY CodecAssumption DEF CodecAssumption, Greeting
  <1>2. /\ next = [c \in ChunkStreams |-> 1]
        /\ offset = [c \in ChunkStreams |-> 0]
        /\ last = [c \in ChunkStreams |-> <<>>]
        /\ began = [c \in ChunkStreams |-> 0]
        /\ completed = <<>>
    BY DEF Init
  <1>3. \A c \in ChunkStreams : Len(Script[c]) \in Nat
    BY ConstantsAssumption DEF ConstantsAssumption, ChunkStreams
  <1>4. SameClient(a) /\ a.at = Greeting
    BY DEF SameClient
  <1> HIDE DEF a
  <1>5. Client(a)
    <2>1. \A c \in ChunkStreams : a.next[c] = 1 /\ a.offset[c] = 0
      BY <1>2, <1>4 DEF SameClient
    <2>2. \A c \in ChunkStreams : Latest(a, c) = 0
      BY <2>1 DEF Latest
    <2>3. \A c \in ChunkStreams : a.next[c] <= Len(Script[c]) + 1
      BY <1>3, <2>1
    <2>4. /\ a.next \in [ChunkStreams -> Nat \ {0}]
          /\ a.offset \in [ChunkStreams -> Nat]
          /\ a.last \in [ChunkStreams -> Commons \cup {<<>>}]
          /\ a.began \in [ChunkStreams -> 0..3]
          /\ a.completed \in Seq(ChunkStreams \X Nat \X (0..3))
      BY <1>2, <1>4 DEF SameClient
    <2>5. Counts(a)
      <3>1. Len(a.completed) = 0
        BY <1>2, <1>4 DEF SameClient
      <3>2. \A j \in 1..Len(a.completed) : FALSE
        BY <3>1
      <3> QED
        BY <2>1, <3>2 DEF Counts
    <2> QED
      BY <2>1, <2>2, <2>3, <2>4, <2>5 DEF Client
  <1>6. h[0] = a /\ \A k \in 0..0 : k = 0
    OBVIOUS
  <1>7. all \in Seq(Token) /\ Len(all) = 0
    OBVIOUS
  <1>8. /\ h[0].at = Greeting
        /\ h[0].next = [c \in ChunkStreams |-> 1]
        /\ h[0].offset = [c \in ChunkStreams |-> 0]
        /\ h[0].completed = <<>>
    BY <1>2, <1>4, <1>6 DEF SameClient
  <1> HIDE DEF h, all
  <1>9. Written(all, h, 0)
    <2>1. \A k \in 0..0 : Client(h[k]) /\ h[k].at \in Nat /\ h[k].at >= Greeting
      BY <1>1, <1>5, <1>6, <1>8
    <2>2. \A k \in 1..0 : FALSE
      OBVIOUS
    <2>3. \A i \in 1..Len(all) : FALSE
      BY <1>7
    <2>4. \A k \in 0..0 : \A j \in 1..Len(h[k].completed) : FALSE
      BY <1>6, <1>8
    <2>5. Len(all) <= h[0].at
      BY <1>1, <1>7, <1>8
    <2> QED
      BY <1>7, <1>8, <2>1, <2>2, <2>3, <2>4, <2>5 DEF Written
  <1>10. /\ session = NewSession /\ delivered = <<>> /\ wire = <<>> /\ greeted = 0
         /\ looping = FALSE /\ pre = 0
    BY DEF Init
  <1>11. Reading(session, delivered, all, 0, h, 0, 0, 0)
    <2>1. /\ DOMAIN session = SessionFields
          /\ session.open = TRUE /\ session.handled = <<>> /\ session.buffer = <<>>
          /\ session.state = "UNINTIALIZED"
          /\ session.commons = <<>> /\ session.previous = <<>> /\ session.reading = <<>>
      BY <1>10 DEF NewSession, SessionFields
    <2>2. \A c \in ChunkStreams : Latest(h[0], c) = 0 /\ h[0].offset[c] = 0
      BY <1>8 DEF Latest
    <2>3. DOMAIN session.previous = {} /\ DOMAIN session.reading = {}
      BY <2>1
    <2>4. delivered \in Seq(Messages) /\ Len(delivered) = 0 /\ Len(h[0].completed) = 0
      BY <1>8, <1>10
    <2>t. Clock(session.previous, session.reading, delivered, h[0])
      <3>1. \A j \in 1..Len(delivered) : FALSE
        BY <2>4
      <3>2. \A c \in ChunkStreams : h[0].next[c] = 1
        BY <1>8
      <3> QED
        BY <2>2, <3>1, <3>2 DEF Clock
    <2>5. Knows(session, delivered, h[0])
      BY <2>2, <2>3, <2>4, <2>t DEF Knows
    <2>6. session.buffer \in Seq(Token) /\ Len(session.buffer) = 0
      BY <2>1
    <2> QED
      BY <1>7, <2>1, <2>5, <2>6 DEF Reading, Place
  <1>12. Tells(all, 0, h, 0, 0, 0)
    <2>1. Len(session.buffer) = 0 /\ Len(wire) = 0
      BY <1>10 DEF NewSession
    <2> QED
      BY <1>4, <1>6, <1>7, <1>9, <1>10, <1>11, <2>1 DEF Tells, HandshakeSent, SameClient
  <1>13. NoneComplete(session.buffer)
    BY <1>10 DEF NewSession, NoneComplete
  <1>14. /\ greeted \in 0..3 /\ looping \in BOOLEAN /\ pre \in Nat /\ wire \in Seq(Token)
    <2>1. greeted \in 0..3 /\ pre \in Nat
      BY <1>10
    <2>2. <<>> \in Seq(Token)
      OBVIOUS
    <2> QED
      BY <1>10, <2>1, <2>2, Zenon
  <1>15. \E u, v, w, x, y, z : Tells(u, v, w, x, y, z)
    BY <1>12
  <1> QED
    BY <1>13, <1>14, <1>15 DEF Invariant

\* Nothing the server reads or has read changes when the client writes more.
LEMMA TellsMore ==
    ASSUME Invariant, NEW all, NEW e, NEW h, NEW n, NEW p, NEW r, Tells(all, e, h, n, p, r),
           NEW t, t \in Seq(Token), wire' = wire \o t, NEW g, NEW o,
           Written(all \o t, g, o), \A k \in 0..n : g[k] = h[k], n <= o,
           SameClient(g[o])', UNCHANGED <<session, delivered, looping, pre>>,
           greeted' \in 0..3,
           greeted' = 3 => Len(all \o t) = g[o].at,
           greeted' # 3 => o = 0 /\ Len(all \o t) = HandshakeSent'
    PROVE  Invariant'
  <1> DEFINE new == all \o t
  <1>1. /\ Reading(session, delivered, all, e, h, n, p, r) /\ all \in Seq(Token) /\ n \in Nat
        /\ wire \in Seq(Token) /\ o \in Nat
    BY DEF Invariant, Tells, Written
  <1>2. /\ Extends(new, all)
        /\ Len(new) = Len(all) + Len(t)
        /\ \A i \in 1..Len(t) : new[Len(all) + i] = t[i]
    BY <1>1, ConcatExtends
  <1> HIDE DEF new
  <1>3. Reading(session, delivered, new, e, g, o, p, r)
    BY <1>1, <1>2, ReadingStays
  <1>4. /\ wire' \in Seq(Token)
        /\ Len(wire') = Len(wire) + Len(t)
        /\ \A i \in 1..(Len(wire) + Len(t)) :
               wire'[i] = IF i <= Len(wire) THEN wire[i] ELSE t[i - Len(wire)]
    BY <1>1, ConcatProperties
  <1>5. /\ e \in Nat /\ Len(wire) \in Nat /\ Len(t) \in Nat /\ Len(all) \in Nat
        /\ e + Len(wire) = Len(all)
        /\ \A i \in 1..Len(wire) : wire[i] = all[e + i]
    BY <1>1 DEF Tells, Reading
  <1> DEFINE w == Len(wire)
             u == Len(wire')
             l == Len(all)
             m == Len(t)
  <1>n. e \in Nat /\ w \in Nat /\ m \in Nat /\ l \in Nat /\ e + w = l /\ u = w + m
    BY <1>4, <1>5
  <1>6. e + Len(wire') = Len(new)
    <2>1. Len(new) = l + m
      BY <1>2
    <2> HIDE DEF w, u, l, m
    <2>2. e + u = l + m
      BY <1>n
    <2> QED
      BY <2>1, <2>2 DEF u
  <1>7. ASSUME NEW i \in 1..Len(wire')
        PROVE  wire'[i] = new[e + i]
    <2>1. CASE i <= Len(wire)
      <3>1. i \in 1..Len(wire) /\ e + i \in 1..Len(all)
        BY <2>1, <1>4, <1>5
      <3>2. wire'[i] = wire[i]
        BY <2>1, <1>4
      <3> QED
        BY <3>1, <3>2, <1>2, <1>5 DEF Extends
    <2>2. CASE ~ (i <= Len(wire))
      <3>1. i - Len(wire) \in 1..Len(t) /\ Len(all) + (i - Len(wire)) = e + i
        <4>1. i \in 1..u /\ ~ (i <= w)
          BY <2>2
        <4> HIDE DEF w, u, l, m
        <4>2. i - w \in 1..m /\ l + (i - w) = e + i
          BY <1>n, <4>1
        <4> QED
          BY <4>2 DEF w, l, m
      <3>2. wire'[i] = t[i - Len(wire)]
        BY <2>2, <1>4
      <3> QED
        BY <3>1, <3>2, <1>2
    <2> QED
      BY <2>1, <2>2
  <1>8. Tells(new, e, g, o, p, r)'
    BY <1>3, <1>6, <1>7 DEF Tells, new
  <1>9. Stopped' => NoneComplete(session.buffer)'
    BY DEF Invariant, Stopped
  <1> QED
    BY <1>4, <1>8, <1>9 DEF Invariant

\* A message of the handshake.
LEMMA HandshakeTokens ==
    ASSUME NEW name \in {"c0", "c1", "c2"}, NEW size \in Nat
    PROVE  /\ Handshake(name, size) \in Seq(Token)
           /\ Len(Handshake(name, size)) = size
           /\ \A i \in 1..size : Handshake(name, size)[i].token # "data"
  <1>1. [token |-> name] \in Token
    BY DEF Token
  <1>2. Handshake(name, size) \in [1..size -> Token]
    BY <1>1 DEF Handshake
  <1>3. Handshake(name, size) \in Seq(Token) /\ Len(Handshake(name, size)) = size
    BY <1>2
  <1>4. \A i \in 1..size : Handshake(name, size)[i].token # "data"
    BY DEF Handshake
  <1> QED
    BY <1>3, <1>4

\* Greet: the next message of the handshake is sent.
LEMMA GreetKeeps == Invariant /\ Greet => Invariant'
  <1> SUFFICES ASSUME Invariant, Greet
               PROVE  Invariant'
    OBVIOUS
  <1>1. PICK all, e, h, n, p, r : Tells(all, e, h, n, p, r)
    BY DEF Invariant
  <1>2. greeted \in 0..2
    BY DEF Invariant, Greet
  <1>3. C1Size \in Nat /\ C2Size \in Nat
    BY CodecAssumption DEF CodecAssumption
  <1> DEFINE Opens(t) == /\ t \in Seq(Token)
                         /\ wire' = wire \o t
                         /\ \A i \in 1..Len(t) : t[i].token # "data"
                         /\ greeted = 0 => Len(t) = 1
                         /\ greeted = 1 => Len(t) = C1Size
                         /\ greeted = 2 => Len(t) = C2Size
  <1>4. \E t : Opens(t)
    <2>1. CASE greeted = 0
      <3> DEFINE t == Handshake("c0", 1)
      <3>1. wire' = wire \o t
        BY <2>1 DEF Greet
      <3>2. t \in Seq(Token) /\ Len(t) = 1 /\ \A i \in 1..1 : t[i].token # "data"
        BY HandshakeTokens
      <3> HIDE DEF t
      <3>3. Opens(t)
        BY <2>1, <3>1, <3>2
      <3> QED
        BY <3>3
    <2>2. CASE greeted = 1
      <3> DEFINE t == Handshake("c1", C1Size)
      <3>1. wire' = wire \o t
        BY <2>2 DEF Greet
      <3>2. t \in Seq(Token) /\ Len(t) = C1Size /\ \A i \in 1..C1Size : t[i].token # "data"
        BY <1>3, HandshakeTokens
      <3> HIDE DEF t
      <3>3. Opens(t)
        BY <2>2, <3>1, <3>2
      <3> QED
        BY <3>3
    <2>3. CASE greeted = 2
      <3> DEFINE t == Handshake("c2", C2Size)
      <3>1. wire' = wire \o t
        BY <2>3 DEF Greet
      <3>2. t \in Seq(Token) /\ Len(t) = C2Size /\ \A i \in 1..C2Size : t[i].token # "data"
        BY <1>3, HandshakeTokens
      <3> HIDE DEF t
      <3>3. Opens(t)
        BY <2>3, <3>1, <3>2
      <3> QED
        BY <3>3
    <2> HIDE DEF Opens
    <2> QED
      BY <1>2, <2>1, <2>2, <2>3
  <1>5. PICK t : Opens(t)
    BY <1>4
  <1> DEFINE new == all \o t
  <1>6. /\ Written(all, h, n) /\ n = 0 /\ Len(all) = HandshakeSent /\ all \in Seq(Token)
        /\ SameClient(h[n])
    BY <1>1, <1>2 DEF Tells, Written
  <1>7. /\ Extends(new, all)
        /\ Len(new) = Len(all) + Len(t)
        /\ \A i \in 1..Len(t) : new[Len(all) + i] = t[i]
    BY <1>5, <1>6, ConcatExtends
  <1> HIDE DEF new
  <1>8. greeted' = greeted + 1
    BY DEF Greet
  <1>n. Len(all) \in Nat /\ Len(t) \in Nat
    BY <1>5, <1>6
  <1>9. /\ greeted' = 3 => Len(new) = Greeting
        /\ greeted' # 3 => Len(new) = HandshakeSent'
        /\ Len(new) <= Greeting
    <2>1. CASE greeted = 0
      <3>1. Len(all) = 0 /\ Len(t) = 1 /\ greeted' = 1
        BY <2>1, <1>3, <1>5, <1>6, <1>8 DEF HandshakeSent
      <3> QED
        BY <3>1, <1>3, <1>7, <1>n DEF HandshakeSent, Greeting
    <2>2. CASE greeted = 1
      <3>1. Len(all) = 1 /\ Len(t) = C1Size /\ greeted' = 2
        BY <2>2, <1>3, <1>5, <1>6, <1>8 DEF HandshakeSent
      <3> QED
        BY <3>1, <1>3, <1>7, <1>n DEF HandshakeSent, Greeting
    <2>3. CASE greeted = 2
      <3>1. Len(all) = 1 + C1Size /\ Len(t) = C2Size /\ greeted' = 3
        BY <2>3, <1>3, <1>5, <1>6, <1>8 DEF HandshakeSent
      <3> QED
        BY <3>1, <1>3, <1>7, <1>n DEF HandshakeSent, Greeting
    <2> QED
      BY <1>2, <2>1, <2>2, <2>3
  <1>10. Written(new, h, n)
    <2>1. \A i \in 1..Len(new) : new[i].token # "data"
      <3> SUFFICES ASSUME NEW i \in 1..Len(new)
                   PROVE  new[i].token # "data"
        OBVIOUS
      <3>1. Len(all) \in Nat /\ Len(t) \in Nat
        BY <1>5, <1>6
      <3>2. CASE i <= Len(all)
        <4>1. i \in 1..Len(all)
          BY <3>1, <3>2, <1>7
        <4>2. i <= Greeting
          <5>1. Greeting \in Nat /\ Len(new) \in Nat
            BY <1>3, <1>7 DEF Greeting, Extends
          <5> QED
            BY <1>9, <5>1
        <4> QED
          BY <4>1, <4>2, <1>6, <1>7 DEF Written, Extends
      <3>3. CASE ~ (i <= Len(all))
        <4>1. i - Len(all) \in 1..Len(t) /\ Len(all) + (i - Len(all)) = i
          BY <3>1, <3>3, <1>7
        <4> QED
          BY <4>1, <1>5, <1>7
      <3> QED
        BY <3>2, <3>3
    <2>2. \A k \in 1..n : FALSE
      BY <1>6
    <2>3. new \in Seq(Token)
      BY <1>7 DEF Extends
    <2>4. Len(new) <= h[n].at
      BY <1>6, <1>9 DEF Written
    <2> QED
      BY <1>6, <2>1, <2>2, <2>3, <2>4 DEF Written
  <1>11. h[n].at = Greeting
    BY <1>6 DEF Written
  <1>12. SameClient(h[n])' /\ UNCHANGED <<session, delivered, looping, pre>>
    BY <1>6 DEF Greet, SameClient
  <1>13. greeted' \in 0..3
    BY <1>2, <1>8
  <1> QED
    BY SMTT(40), <1>1, <1>5, <1>6, <1>9, <1>10, <1>11, <1>12, <1>13, TellsMore DEF new

\* A chunk sent is a chunk that follows on what the client has sent.
LEMMA SendFollows ==
    ASSUME NEW a, Client(a), SameClient(a), a.at \in Nat,
           NEW c \in ChunkStreams, NEW format \in 0..3, SendChunk(c, format)
    PROVE  \E b : Follows(a, b) /\ SameClient(b)' /\ wire' = wire \o SerializeHeader(b.format, b.csid, b.common)
                                                           \o Piece(b.csid, a.next[b.csid], a.offset[b.csid], b.to)
  <1> DEFINE m == Script[c][next[c]]
             common == IF offset[c] # 0 THEN last[c]
                       ELSE [timestamp |-> IF format = 0 THEN m.timestamp ELSE Delta(c),
                             length |-> m.length, type |-> m.type, stream_id |-> m.stream_id]
             to == Min({offset[c] + ChunkSize, m.length})
             length == HeaderLength([format |-> format, common |-> common])
             chunk == [csid |-> c, format |-> format, common |-> common, to |-> to,
                       next |-> next', offset |-> offset', last |-> last', began |-> began',
                       completed |-> completed', at |-> a.at + length + to - offset[c]]
  <1>1. a.next = next /\ a.offset = offset /\ a.last = last /\ a.began = began /\ a.completed = completed
    BY DEF SameClient
  <1>2. /\ next \in [ChunkStreams -> Nat \ {0}] /\ offset \in [ChunkStreams -> Nat]
        /\ last \in [ChunkStreams -> Commons \cup {<<>>}]
        /\ next[c] <= Len(Script[c])
        /\ format \in (IF offset[c] = 0 THEN Formats(c) ELSE {3})
    BY <1>1 DEF Client, SendChunk
  <1>3. /\ wire' = wire \o SerializeHeader(format, c, common) \o Units(c, offset[c], to)
        /\ last' = [last EXCEPT ![c] = common]
        /\ began' = IF offset[c] = 0 THEN [began EXCEPT ![c] = format] ELSE began
        /\ next' = IF to = m.length THEN [next EXCEPT ![c] = @ + 1] ELSE next
        /\ offset' = [offset EXCEPT ![c] = IF to = m.length THEN 0 ELSE to]
        /\ completed' = IF to = m.length THEN Append(completed, <<c, next[c], began'[c]>>) ELSE completed
    BY DEF SendChunk, Current
  <1>4. Script[c] \in Seq(ScriptMessage)
    BY ConstantsAssumption DEF ConstantsAssumption, ChunkStreams
  <1>5. next[c] \in Nat /\ next[c] # 0 /\ next[c] \in 1..Len(Script[c]) /\ offset[c] \in Nat
    BY <1>2, <1>4
  <1>6. m \in ScriptMessage
    BY <1>4, <1>5
  <1>7. /\ m.type \in Nat /\ m.length \in Nat \ {0} /\ m.stream_id \in Nat /\ m.timestamp \in Nat
    BY <1>6 DEF ScriptMessage
  <1>8. to \in Nat
    <2>1. ChunkSize \in Nat
      BY CodecAssumption DEF CodecAssumption
    <2> HIDE DEF m
    <2>2. Min({offset[c] + ChunkSize, m.length}) \in {offset[c] + ChunkSize, m.length}
      BY SMTT(40), <1>5, <1>7, <2>1, MinOfTwo
    <2> QED
      BY <1>5, <1>7, <2>1, <2>2
  <1>9. offset[c] # 0 => format = 3 /\ Describes(last[c], m)
    BY <1>1, <1>2, <1>5 DEF Client, Latest
  <1>10. ASSUME offset[c] = 0, format # 0
         PROVE  /\ next[c] > 1
                /\ m.stream_id = Before(c).stream_id
                /\ m.timestamp >= Before(c).timestamp
                /\ format >= 2 => m.type = Before(c).type /\ m.length = Before(c).length
                /\ format = 3 => Delta(c) = last[c].timestamp
                /\ Describes(last[c], Before(c))
                /\ Delta(c) \in Nat
    <2>1. /\ next[c] > 1
          /\ m.stream_id = Before(c).stream_id
          /\ m.timestamp >= Before(c).timestamp
          /\ format >= 2 => m.type = Before(c).type /\ m.length = Before(c).length
          /\ format = 3 => Delta(c) = last[c].timestamp
      BY <1>2, <1>10 DEF Formats, Current
    <2>2. Latest(a, c) = next[c] - 1 /\ next[c] - 1 # 0 /\ next[c] - 1 \in 1..Len(Script[c])
      BY <1>1, <1>5, <1>10, <2>1 DEF Latest
    <2>3. Describes(last[c], Before(c))
      BY <1>1, <2>2 DEF Client, Before
    <2>4. Before(c) \in ScriptMessage
      BY <1>4, <2>2 DEF Before
    <2>5. Delta(c) \in Nat
      <3>1. Before(c).timestamp \in Nat
        BY <2>4 DEF ScriptMessage
      <3> QED
        BY <1>7, <2>1, <3>1 DEF Delta, Current
    <2> QED
      BY <2>1, <2>3, <2>5
  <1>11. Describes(common, m)
    <2>1. CASE offset[c] # 0
      BY <2>1, <1>9
    <2>2. CASE offset[c] = 0
      <3> DEFINE clock == IF format = 0 THEN m.timestamp ELSE Delta(c)
      <3>1. clock \in Nat
        BY <2>2, <1>7, <1>10
      <3> HIDE DEF clock
      <3>2. common = [timestamp |-> clock, length |-> m.length, type |-> m.type, stream_id |-> m.stream_id]
        BY <2>2 DEF clock
      <3> HIDE DEF common, m
      <3> QED
        BY <3>1, <3>2, <1>7 DEF Describes, Commons
    <2> QED
      BY <2>1, <2>2
  <1>12. ASSUME format # 0
         PROVE  /\ Latest(a, c) # 0
                /\ \A f \in Fields(0) \ Fields(format) : common[f] = last[c][f]
    <2>1. CASE offset[c] # 0
      BY <2>1, <1>1, <1>5 DEF Latest
    <2>2. CASE offset[c] = 0
      <3>1. /\ next[c] > 1
            /\ m.stream_id = Before(c).stream_id
            /\ format >= 2 => m.type = Before(c).type /\ m.length = Before(c).length
            /\ format = 3 => Delta(c) = last[c].timestamp
            /\ Describes(last[c], Before(c))
        BY <2>2, <1>10, <1>12
      <3>2. Latest(a, c) # 0
        BY <2>2, <1>1, <1>5, <3>1 DEF Latest
      <3>3. /\ common.stream_id = last[c].stream_id
            /\ format >= 2 => common.type = last[c].type /\ common.length = last[c].length
            /\ format = 3 => common.timestamp = last[c].timestamp
        <4>1. common = [timestamp |-> Delta(c), length |-> m.length, type |-> m.type, stream_id |-> m.stream_id]
          BY <2>2, <1>12
        <4> HIDE DEF common, m
        <4> QED
          BY <3>1, <4>1 DEF Describes
      <3>4. /\ format = 1 => Fields(0) \ Fields(format) = {"stream_id"}
            /\ format = 2 => Fields(0) \ Fields(format) = {"stream_id", "type", "length"}
            /\ format = 3 => Fields(0) \ Fields(format) = {"stream_id", "type", "length", "timestamp"}
        BY DEF Fields
      <3>5. format = 1 \/ format = 2 \/ format = 3
        BY <1>12
      <3> HIDE DEF common, m
      <3> QED
        BY <3>2, <3>3, <3>4, <3>5
    <2> QED
      BY <2>1, <2>2
  <1>t. ASSUME offset[c] = 0
        PROVE  /\ format = 0 => common.timestamp = Stamp(c, next[c])
               /\ format # 0 => Stamp(c, next[c]) = Stamp(c, next[c] - 1) + common.timestamp
    <2>1. common.timestamp = IF format = 0 THEN m.timestamp ELSE Delta(c)
      BY <1>t
    <2>2. m.timestamp = Stamp(c, next[c]) /\ Before(c).timestamp = Stamp(c, next[c] - 1)
      BY DEF Stamp, Before
    <2>3. Delta(c) = m.timestamp - Before(c).timestamp
      BY DEF Delta, Current
    <2>4. ASSUME format # 0
          PROVE  m.timestamp = Before(c).timestamp + Delta(c)
      <3>1. next[c] > 1
        BY <1>t, <1>10, <2>4
      <3>2. next[c] - 1 \in 1..Len(Script[c])
        BY <3>1, <1>5
      <3>3. Before(c) \in ScriptMessage
        BY <3>2, <1>4 DEF Before
      <3>4. Before(c).timestamp \in Nat
        BY <3>3 DEF ScriptMessage
      <3> HIDE DEF m
      <3> QED
        BY <3>4, <1>7, <2>3
    <2> HIDE DEF m, common
    <2> QED
      BY <2>1, <2>2, <2>4
  <1> HIDE DEF common, to, length
  <1>b. PICK b : b = chunk
    OBVIOUS
  <1>13. /\ b.csid = c /\ b.format = format /\ b.common = common /\ b.to = to
         /\ b.next = next' /\ b.offset = offset' /\ b.last = last' /\ b.began = began'
         /\ b.completed = completed'
         /\ b.at = a.at + length + to - offset[c]
    BY <1>b
  <1>14. HeaderLength(b) = length
    BY <1>13 DEF HeaderLength, Fixed, length
  <1>15. SameClient(b)'
    BY <1>13 DEF SameClient
  <1> HIDE DEF chunk
  <1>16. Follows(a, b)
    <2>1. /\ b.csid \in ChunkStreams
          /\ b.format \in 0..3
          /\ a.next[b.csid] <= Len(Script[b.csid])
          /\ Describes(b.common, Script[b.csid][a.next[b.csid]])
          /\ b.to \in Nat
          /\ a.offset[b.csid] # 0 => b.format = 3
      BY <1>1, <1>2, <1>8, <1>9, <1>11, <1>13
    <2>2. b.to = Min({a.offset[b.csid] + ChunkSize, Script[b.csid][a.next[b.csid]].length})
      BY <1>1, <1>13 DEF to
    <2>3. b.format # 0 =>
           /\ Latest(a, b.csid) # 0
           /\ \A f \in Fields(0) \ Fields(b.format) : b.common[f] = a.last[b.csid][f]
      BY <1>1, <1>12, <1>13
    <2>4. /\ b.last = [a.last EXCEPT ![b.csid] = b.common]
          /\ b.began = IF a.offset[b.csid] = 0 THEN [a.began EXCEPT ![b.csid] = b.format] ELSE a.began
      BY <1>1, <1>3, <1>13
    <2>5. IF b.to = Script[b.csid][a.next[b.csid]].length
          THEN /\ b.next = [a.next EXCEPT ![b.csid] = @ + 1]
               /\ b.offset = [a.offset EXCEPT ![b.csid] = 0]
               /\ b.completed = Append(a.completed, <<b.csid, a.next[b.csid], b.began[b.csid]>>)
          ELSE /\ b.next = a.next
               /\ b.offset = [a.offset EXCEPT ![b.csid] = b.to]
               /\ b.completed = a.completed
      <3>1. CASE to = m.length
        BY <3>1, <1>1, <1>3, <1>13
      <3>2. CASE to # m.length
        BY <3>2, <1>1, <1>3, <1>13
      <3> QED
        BY <3>1, <3>2
    <2>6. b.at = a.at + HeaderLength(b) + b.to - a.offset[b.csid]
      BY <1>1, <1>13, <1>14
    <2>7. /\ (a.offset[b.csid] = 0 /\ b.format = 0) => b.common.timestamp = Stamp(b.csid, a.next[b.csid])
          /\ (a.offset[b.csid] = 0 /\ b.format # 0) =>
                 Stamp(b.csid, a.next[b.csid]) = Stamp(b.csid, a.next[b.csid] - 1) + b.common.timestamp
      BY <1>1, <1>t, <1>13
    <2> QED
      BY <2>1, <2>2, <2>3, <2>4, <2>5, <2>6, <2>7 DEF Follows
  <1>17. Units(c, offset[c], to) = Piece(c, next[c], offset[c], to)
    BY DEF Units, Piece, Unit
  <1>18. wire' = wire \o SerializeHeader(b.format, b.csid, b.common)
                      \o Piece(b.csid, a.next[b.csid], a.offset[b.csid], b.to)
    BY <1>1, <1>3, <1>13, <1>17
  <1> QED
    BY <1>15, <1>16, <1>18

LEMMA SendChunkKeeps ==
    ASSUME Invariant, NEW c \in ChunkStreams, NEW format \in 0..3, SendChunk(c, format)
    PROVE  Invariant'
  <1>1. PICK all, e, h, n, p, r : Tells(all, e, h, n, p, r)
    BY DEF Invariant
  <1> DEFINE a == h[n]
  <1>2. /\ Written(all, h, n) /\ SameClient(a) /\ Client(a) /\ a.at \in Nat /\ n \in Nat
        /\ greeted = 3 /\ greeted' = 3 /\ Len(all) = a.at
        /\ all \in Seq(Token) /\ wire \in Seq(Token)
        /\ UNCHANGED <<session, delivered, looping, pre>>
    BY <1>1 DEF Tells, Written, SendChunk, Invariant
  <1> HIDE DEF a
  <1>3. PICK b : /\ Follows(a, b)
                 /\ SameClient(b)'
                 /\ wire' = wire \o SerializeHeader(b.format, b.csid, b.common)
                                 \o Piece(b.csid, a.next[b.csid], a.offset[b.csid], b.to)
    BY <1>2, SendFollows
  <1> DEFINE g == [k \in 0..(n + 1) |-> IF k = n + 1 THEN b ELSE h[k]]
             o == n + 1
             t == Tokens(a, b)
             head == SerializeHeader(b.format, b.csid, b.common)
             body == Piece(b.csid, a.next[b.csid], a.offset[b.csid], b.to)
  <1>4. t \in Seq(Token) /\ Len(all \o t) = b.at
    BY <1>2, <1>3, TokensAt
  <1>5. head \in Seq(Token) /\ body \in Seq(Token)
    <2>1. b.csid \in ChunkStreams /\ b.format \in 0..3 /\ b.common \in Commons
      BY <1>3 DEF Follows, Describes
    <2>2. head \in Seq(Token)
      BY <2>1, HeaderTokens
    <2> DEFINE i == a.next[b.csid]
               from == a.offset[b.csid]
               to == b.to
               w == b.csid
    <2>3. w \in ChunkStreams /\ i \in Nat /\ from \in Nat /\ to \in Nat /\ from <= to
      <3>1. \A k \in 1..Len(Script[w]) : k \in Nat
        OBVIOUS
      <3>2. /\ w \in ChunkStreams /\ i \in 1..Len(Script[w])
            /\ from \in Nat /\ to \in Nat /\ from < to
        BY <1>2, <1>3, ChunkNumbers
      <3> HIDE DEF from, to
      <3> QED
        BY <3>1, <3>2
    <2> HIDE DEF i, from, to, w
    <2>4. Piece(w, i, from, to) \in Seq(Token)
      BY <2>3, Pieces
    <2> QED
      BY <2>2, <2>4 DEF i, from, to, w
  <1>6. wire' = wire \o t
    <2> HIDE DEF head, body
    <2>1. wire' = (wire \o head) \o body
      BY <1>3 DEF head, body
    <2>2. t = head \o body
      BY DEF Tokens, head, body
    <2>3. wire \in Seq(Token)
      BY <1>2
    <2> HIDE DEF t, g, o, a
    <2>4. (wire \o head) \o body = wire \o (head \o body)
      BY <2>3, <1>5, ConcatAssociative
    <2> QED
      BY <2>1, <2>2, <2>4, Zenon
  <1>7. g[o] = b /\ \A k \in 0..n : g[k] = h[k]
    BY <1>2
  <1> HIDE DEF g, t
  <1>8. Written(all \o t, g, o)
    BY <1>2, <1>3, <1>7, WrittenMore DEF t, a
  <1>9. n <= o /\ greeted' \in 0..3
    BY <1>2
  <1>10. SameClient(g[o])'
    BY <1>3, <1>7 DEF SameClient
  <1> HIDE DEF o
  <1>11. Len(all \o t) = g[o].at
    BY <1>4, <1>7
  <1> QED
    BY <1>1, <1>2, <1>4, <1>6, <1>7, <1>8, <1>9, <1>10, <1>11, TellsMore

\* Receive: some of what is on the wire moves to the buffer.
LEMMA ReceiveKeeps ==
    ASSUME Invariant, NEW k \in 1..Len(wire), Receive(k)
    PROVE  Invariant'
  <1>1. PICK all, e, h, n, p, r : Tells(all, e, h, n, p, r)
    BY DEF Invariant
  <1> DEFINE taken == SubSeq(wire, 1, k)
             left == SubSeq(wire, k + 1, Len(wire))
             old == session.buffer
             new == session.buffer \o taken
  <1>2. /\ session' = [session EXCEPT !.buffer = new]
        /\ wire' = left /\ looping' = TRUE /\ pre' = 0
        /\ UNCHANGED <<greeted, next, offset, last, began, completed, delivered>>
    BY DEF Receive
  <1>3. /\ Reading(session, delivered, all, e, h, n, p, r) /\ Written(all, h, n)
        /\ wire \in Seq(Token) /\ Len(wire) \in Nat /\ k \in Nat /\ k <= Len(wire)
    BY <1>1 DEF Invariant, Tells
  <1>4. /\ DOMAIN session = SessionFields
        /\ old \in Seq(Token) /\ Len(old) \in Nat
        /\ p \in Nat /\ e \in Nat /\ p + Len(old) = e
        /\ \A i \in 1..Len(old) : old[i] = all[p + i]
    BY <1>3 DEF Reading
  <1>5. /\ taken \in Seq(Token) /\ Len(taken) = k
        /\ \A i \in 1..k : taken[i] = wire[i]
    BY <1>3
  <1>6. /\ left \in Seq(Token) /\ Len(left) = Len(wire) - k
        /\ \A i \in 1..(Len(wire) - k) : left[i] = wire[k + i]
    BY <1>3, Rest
  <1> HIDE DEF taken, left
  <1>7. /\ new \in Seq(Token) /\ Len(new) = Len(old) + k
        /\ \A i \in 1..(Len(old) + k) : new[i] = IF i <= Len(old) THEN old[i] ELSE taken[i - Len(old)]
    <2>1. old \in Seq(Token) /\ taken \in Seq(Token) /\ Len(taken) = k
      BY <1>4, <1>5
    <2>2. /\ new \in Seq(Token) /\ Len(new) = Len(old) + Len(taken)
          /\ \A i \in 1..(Len(old) + Len(taken)) :
                 new[i] = IF i <= Len(old) THEN old[i] ELSE taken[i - Len(old)]
      BY <2>1, Joined
    <2> HIDE DEF new, old
    <2> QED
      BY <2>1, <2>2
  <1> HIDE DEF new
  <1>8. /\ DOMAIN session' = SessionFields /\ session'.buffer = new
        /\ session'.state = session.state /\ session'.open = session.open
        /\ session'.handled = session.handled /\ session'.commons = session.commons
        /\ session'.previous = session.previous /\ session'.reading = session.reading
    BY <1>2, <1>4 DEF SessionFields
  <1> HIDE DEF old
  <1>9. /\ e + Len(wire) = Len(all)
        /\ \A i \in 1..Len(wire) : wire[i] = all[e + i]
        /\ Len(all) \in Nat
    BY <1>1, <1>3 DEF Tells, Written
  <1>10. /\ e + k \in Nat /\ e + k <= Len(all) /\ p + Len(new) = e + k
         /\ (e + k) + Len(left) = Len(all)
    <2>1. /\ k \in Nat /\ e \in Nat /\ p \in Nat /\ Len(old) \in Nat /\ Len(wire) \in Nat /\ Len(all) \in Nat
          /\ k <= Len(wire) /\ p + Len(old) = e /\ e + Len(wire) = Len(all)
      BY <1>3, <1>4, <1>9
    <2>2. Len(new) = Len(old) + k /\ Len(left) = Len(wire) - k
      BY <1>6, <1>7
    <2> DEFINE had == Len(old)
               has == Len(new)
               lay == Len(wire)
               lies == Len(left)
               whole == Len(all)
    <2>3. /\ k \in Nat /\ e \in Nat /\ p \in Nat /\ had \in Nat /\ lay \in Nat /\ whole \in Nat
          /\ k <= lay /\ p + had = e /\ e + lay = whole
          /\ has = had + k /\ lies = lay - k
      BY <2>1, <2>2
    <2> HIDE DEF had, has, lay, lies, whole
    <2>4. e + k \in Nat /\ e + k <= whole /\ p + has = e + k /\ (e + k) + lies = whole
      BY <2>3
    <2> QED
      BY <2>4 DEF has, lies, whole
  <1>11. ASSUME NEW i \in 1..Len(new)
         PROVE  new[i] = all[p + i]
    <2>1. CASE i <= Len(old)
      <3>1. i \in 1..Len(old) /\ new[i] = old[i]
        BY <2>1, <1>4, <1>7
      <3> QED
        BY <3>1, <1>4
    <2>2. CASE ~ (i <= Len(old))
      <3>1. i - Len(old) \in 1..k /\ e + (i - Len(old)) = p + i
        <4> DEFINE w == Len(old)
                   m == Len(new)
        <4>1. w \in Nat /\ p \in Nat /\ k \in Nat /\ p + w = e /\ m = w + k /\ i \in 1..m /\ ~ (i <= w)
          BY <2>2, <1>3, <1>4, <1>7
        <4> HIDE DEF w, m
        <4>2. i \in Nat /\ i <= w + k /\ w + 1 <= i
          BY <4>1
        <4>3. i - w \in 1..k /\ e + (i - w) = p + i
          BY <4>1, <4>2
        <4> QED
          BY <4>3 DEF w
      <3>2. new[i] = taken[i - Len(old)]
        BY <2>2, <1>7
      <3>3. taken[i - Len(old)] = wire[i - Len(old)] /\ i - Len(old) \in 1..Len(wire)
        BY <3>1, <1>3, <1>5
      <3> QED
        BY <3>1, <3>2, <3>3, <1>9
    <2> QED
      BY <2>1, <2>2
  <1>12. ASSUME NEW i \in 1..Len(left)
         PROVE  left[i] = all[(e + k) + i]
    <2>1. k + i \in 1..Len(wire) /\ e + (k + i) = (e + k) + i
      BY <1>3, <1>4, <1>6
    <2>2. left[i] = wire[k + i]
      BY <1>6
    <2> QED
      BY <2>1, <2>2, <1>9
  <1>13. Knows(session', delivered', h[r])
    BY <1>2, <1>3, <1>8 DEF Reading, Knows
  <1>14. Reading(session', delivered', all, e + k, h, n, p, r)
    BY <1>3, <1>7, <1>8, <1>10, <1>11, <1>13 DEF Reading
  <1>15. SameClient(h[n])'
    BY <1>1, <1>2 DEF Tells, SameClient
  <1>16. /\ greeted' = 3 => Len(all) = h[n].at
         /\ greeted' # 3 => n = 0 /\ Len(all) = HandshakeSent'
    BY <1>1, <1>2 DEF Tells, HandshakeSent
  <1> DEFINE f == e + k
  <1>17. Reading(session', delivered', all, f, h, n, p, r) /\ f + Len(wire') = Len(all)
         /\ \A i \in 1..Len(wire') : wire'[i] = all[f + i]
    BY <1>2, <1>10, <1>12, <1>14
  <1>f. PICK g : g = f
    OBVIOUS
  <1> HIDE DEF f
  <1>18. Tells(all, g, h, n, p, r)'
    BY <1>f, <1>3, <1>15, <1>16, <1>17 DEF Tells
  <1>19. ~ Stopped'
    BY <1>2, Zenon DEF Stopped
  <1>20. wire' \in Seq(Token) /\ pre' \in Nat /\ greeted' \in 0..3
    BY <1>2, <1>6 DEF Invariant
  <1>21. looping' \in BOOLEAN
    BY <1>2, Zenon
  <1> QED
    BY <1>18, <1>19, <1>20, <1>21 DEF Invariant

\* LoopBody: OnRead takes a chunk or stops the loop.
LEMMA LoopBodyKeeps == Invariant /\ LoopBody => Invariant'
  <1> SUFFICES ASSUME Invariant, LoopBody
               PROVE  Invariant'
    OBVIOUS
  <1>1. PICK all, e, h, n, p, r : Tells(all, e, h, n, p, r)
    BY DEF Invariant
  <1>2. PICK s \in {OnRead(session)} :
            /\ session' = [s EXCEPT !.handled = <<>>]
            /\ delivered' = delivered \o s.handled
            /\ pre' = IF s.open THEN Len(session.buffer) ELSE 0
            /\ looping' = s.open
    BY DEF LoopBody
  <1>3. Written(all, h, n) /\ Reading(session, delivered, all, e, h, n, p, r)
    BY <1>1 DEF Tells
  <1>4. Read(session, s, delivered, all, e, h, n)
    BY <1>2, <1>3, OnReadReads
  <1>5. /\ UNCHANGED <<greeted, next, offset, last, began, completed, wire>>
        /\ session.buffer # <<>> /\ session.buffer \in Seq(Token)
    BY <1>3 DEF LoopBody, LoopGoesOn, Reading
  <1>6. s.open = TRUE /\ DOMAIN s = SessionFields
    BY <1>4 DEF Read
  <1>7. pre' = Len(session.buffer) /\ pre' \in Nat /\ looping' = TRUE
    BY <1>2, <1>5, <1>6
  <1>8. PICK x, y : Reading(session', delivered', all, e, h, n, x, y)
    BY <1>2, <1>4, Zenon DEF Read, Somewhere
  <1>9. Tells(all, e, h, n, x, y)'
    BY <1>1, <1>3, <1>5, <1>8 DEF Tells, SameClient, HandshakeSent
  <1>10. session'.buffer = s.buffer
    BY <1>2, <1>6 DEF SessionFields
  <1>11. ASSUME Stopped'
         PROVE  NoneComplete(session.buffer)'
    <2>1. pre' = Len(session'.buffer)
      BY <1>7, <1>11 DEF Stopped
    <2>2. ~ (Len(s.buffer) < Len(session.buffer))
      BY <1>5, <1>7, <1>10, <2>1
    <2>3. s.buffer = session.buffer /\ NoneComplete(session.buffer)
      BY <1>4, <2>2 DEF Read
    <2>4. session'.buffer = session.buffer
      BY <1>10, <2>3
    <2> QED
      BY <2>3, <2>4
  <1>12. greeted' \in 0..3 /\ wire' \in Seq(Token)
    BY <1>5 DEF Invariant
  <1>13. looping' \in BOOLEAN
    BY <1>7, Zenon
  <1> QED
    BY <1>7, <1>9, <1>11, <1>12, <1>13 DEF Invariant

\* LoopEnd: there is nothing in the buffer, or nothing was consumed.
LEMMA LoopEndKeeps == Invariant /\ LoopEnd => Invariant'
  <1> SUFFICES ASSUME Invariant, LoopEnd
               PROVE  Invariant'
    OBVIOUS
  <1>1. PICK all, e, h, n, p, r : Tells(all, e, h, n, p, r)
    BY DEF Invariant
  <1>2. /\ UNCHANGED <<greeted, next, offset, last, began, completed, wire, session, delivered>>
        /\ looping' = FALSE /\ pre' = 0
    BY DEF LoopEnd
  <1>3. Tells(all, e, h, n, p, r)'
    BY <1>1, <1>2 DEF Tells, SameClient, HandshakeSent
  <1>4. pre = Len(session.buffer) \/ session.buffer = <<>>
    BY DEF LoopEnd, LoopGoesOn
  <1>5. session.buffer \in Seq(Token)
    BY <1>1 DEF Tells, Reading
  <1>6. NoneComplete(session.buffer)
    <2>1. CASE session.buffer = <<>>
      BY <2>1 DEF NoneComplete
    <2>2. CASE session.buffer # <<>>
      <3>1. pre = Len(session.buffer) /\ pre # 0
        BY <1>4, <1>5, <2>2
      <3> QED
        BY <3>1 DEF Invariant, Stopped
    <2> QED
      BY <2>1, <2>2
  <1>7. NoneComplete(session.buffer)'
    BY <1>2, <1>6
  <1>8. greeted' \in 0..3 /\ wire' \in Seq(Token) /\ pre' \in Nat
    BY <1>2 DEF Invariant
  <1>9. looping' \in BOOLEAN
    BY <1>2, Zenon
  <1> QED
    BY <1>3, <1>7, <1>8, <1>9 DEF Invariant

LEMMA NextInvariant == Invariant /\ [Next]_vars => Invariant'
  <1> SUFFICES ASSUME Invariant, [Next]_vars
               PROVE  Invariant'
    OBVIOUS
  <1>1. CASE Greet
    BY <1>1, GreetKeeps
  <1>2. ASSUME NEW c \in ChunkStreams, NEW format \in 0..3, SendChunk(c, format)
        PROVE  Invariant'
    BY <1>2, SendChunkKeeps
  <1>3. ASSUME NEW k \in 1..Len(wire), Receive(k)
        PROVE  Invariant'
    BY <1>3, ReceiveKeeps
  <1>4. CASE LoopBody
    BY <1>4, LoopBodyKeeps
  <1>5. CASE LoopEnd
    BY <1>5, LoopEndKeeps
  <1>6. CASE UNCHANGED vars
    <2>1. PICK all, e, h, n, p, r : Tells(all, e, h, n, p, r)
      BY DEF Invariant
    <2>2. Tells(all, e, h, n, p, r)'
      BY <1>6, <2>1 DEF vars, Tells, SameClient, HandshakeSent
    <2> QED
      BY <1>6, <2>2 DEF vars, Invariant, Stopped
  <1> QED
    BY <1>1, <1>2, <1>3, <1>4, <1>5, <1>6 DEF Next, Quiet

-----------------------------------------------------------------------------
(* The theorems *)

LEMMA InvariantHolds == Spec => []Invariant
  <1> QED
    BY InitInvariant, NextInvariant, PTL DEF Spec

(***************************************************************************)
(* However the byte stream is cut and the chunk streams are interleaved,   *)
(* for every script of messages, chunk size and sizes of the handshake,    *)
(* the handler gets the messages the client sent, whole, in the order of   *)
(* their last chunks, and the session is never closed.                     *)
(***************************************************************************)
THEOREM MessagesAlwaysIntact == Spec => []MessagesIntact
  <1>1. Invariant => MessagesIntact
    <2> SUFFICES ASSUME Invariant
                 PROVE  MessagesIntact
      OBVIOUS
    <2>1. PICK all, e, h, n, p, r : Tells(all, e, h, n, p, r)
      BY DEF Invariant
    <2>2. /\ Written(all, h, n) /\ Reading(session, delivered, all, e, h, n, p, r)
          /\ h[n].completed = completed /\ n \in Nat
      BY <2>1 DEF Tells, SameClient, Written
    <2> DEFINE done == h[r].completed
    <2>3. r \in 0..n
      BY <2>2 DEF Reading, Place
    <2>4. /\ Client(h[r])
          /\ \A j \in 1..Len(done) : j <= Len(completed) /\ completed[j] = done[j]
      BY <2>2, <2>3 DEF Written
    <2>5. /\ delivered \in Seq(Messages)
          /\ Len(delivered) = Len(done)
          /\ \A j \in 1..Len(delivered) :
                ReadUpTo(delivered[j], done[j][1], done[j][2], Script[done[j][1]][done[j][2]].length)
      BY <2>2 DEF Reading, Knows
    <2>6. completed \in Seq(ChunkStreams \X Nat \X (0..3))
      BY <2>2 DEF Written, Client
    <2> HIDE DEF done
    <2>7. Len(delivered) <= Len(completed)
      <3>1. Len(delivered) \in Nat /\ Len(completed) \in Nat
        BY <2>5, <2>6
      <3>2. CASE Len(delivered) = 0
        BY <3>1, <3>2
      <3>3. CASE Len(delivered) # 0
        <4>1. Len(delivered) \in 1..Len(done)
          BY <2>5, <3>1, <3>3
        <4> QED
          BY <2>4, <4>1
      <3> QED
        BY <3>2, <3>3
    <2>8. ASSUME NEW j \in DOMAIN delivered
          PROVE  LET m == SentMessage(j)
                 IN  /\ delivered[j].type = m.type
                     /\ delivered[j].stream_id = m.stream_id
                     /\ delivered[j].length = m.length
                     /\ delivered[j].payload =
                            [k \in 1..m.length |-> [token |-> "data", csid |-> completed[j][1],
                                                    message |-> completed[j][2], unit |-> k]]
      <3> DEFINE c == completed[j][1]
                 i == completed[j][2]
                 m == SentMessage(j)
      <3>1. j \in 1..Len(delivered) /\ j \in 1..Len(done)
        BY <2>5
      <3>2. completed[j] = done[j]
        BY <2>4, <3>1
      <3>3. ReadUpTo(delivered[j], c, i, Script[c][i].length)
        BY <2>5, <3>1, <3>2
      <3>4. m = Script[c][i]
        BY DEF SentMessage
      <3>5. /\ delivered[j] \in Messages /\ delivered[j].type = m.type
            /\ delivered[j].stream_id = m.stream_id /\ delivered[j].length = m.length
            /\ delivered[j].payload = Piece(c, i, 0, m.length)
        BY <3>3, <3>4 DEF ReadUpTo
      <3>6. m.length \in Nat
        BY <3>5 DEF Messages
      <3> HIDE DEF m, c, i
      <3>7. Piece(c, i, 0, m.length) = [k \in 1..m.length |-> Unit(c, i, k)]
        <4>1. m.length - 0 = m.length /\ \A k \in 1..m.length : 0 + k = k
          BY <3>6
        <4> QED
          BY <4>1 DEF Piece
      <3> QED
        BY <3>5, <3>7 DEF Unit, m, c, i
    <2>9. session.open
      BY <2>2, Zenon DEF Reading
    <2> QED
      BY <2>7, <2>8, <2>9 DEF MessagesIntact
  <1> QED
    BY <1>1, InvariantHolds, PTL

LEMMA MaxIs ==
    ASSUME NEW S, S \subseteq Nat, NEW k \in S, \A y \in S : k >= y
    PROVE  Max(S) = k
  <1>1. \A x \in S : (\A y \in S : x >= y) => x = k
    BY SMT
  <1>2. \E x \in S : \A y \in S : x >= y
    OBVIOUS
  <1> QED
    BY <1>1, <1>2 DEF Max

(***************************************************************************)
(* For every script, chunk size and mark, timestamps below the mark reach  *)
(* the handler as the client meant them, as long as the absolute timestamp *)
(* they count from is zero or came in a one-chunk message.                 *)
(***************************************************************************)
THEOREM TimestampsAlwaysIntact == Spec => []TimestampsIntact
  <1>1. Invariant => TimestampsIntact
    <2> SUFFICES ASSUME Invariant
                 PROVE  TimestampsIntact
      OBVIOUS
    <2>1. PICK all, e, h, n, p, r : Tells(all, e, h, n, p, r)
      BY DEF Invariant
    <2>2. /\ Written(all, h, n) /\ Reading(session, delivered, all, e, h, n, p, r)
          /\ h[n].completed = completed /\ n \in Nat
      BY <2>1 DEF Tells, SameClient, Written
    <2> DEFINE a == h[r]
               q == a.completed
    <2>3. r \in 0..n
      BY <2>2 DEF Reading, Place
    <2>4. /\ Counts(a)
          /\ \A j \in 1..Len(q) : j <= Len(completed) /\ completed[j] = q[j]
      BY <2>2, <2>3 DEF Written, Client
    <2>5. /\ delivered \in Seq(Messages)
          /\ Len(delivered) = Len(q)
          /\ Clock(session.previous, session.reading, delivered, a)
      BY <2>2 DEF Reading, Knows
    <2> HIDE DEF a
    <2>6. ASSUME NEW j \in DOMAIN delivered,
                 SentMessage(j).timestamp < Mark,
                 \/ AbsoluteBefore(j) = j
                 \/ SentMessage(AbsoluteBefore(j)).timestamp = 0
                 \/ ~ Long(AbsoluteBefore(j))
          PROVE  delivered[j].timestamp = SentMessage(j).timestamp
      <3>1. j \in 1..Len(delivered) /\ j \in 1..Len(q) /\ j \in Nat
        BY <2>5
      <3>2. PICK k : AnchorOf(q, j, k) /\ Stream(q[j][1], q[k][2]) = Stream(q[j][1], q[j][2])
        BY <3>1, <2>4 DEF Counts
      <3>3. \A i \in 1..j : i \in 1..Len(q) /\ i \in Nat
        BY <3>1, <2>5
      <3>4. \A i \in 1..j : completed[i] = q[i]
        BY <3>3, <2>4
      <3>5. /\ k \in 1..j
            /\ q[k][1] = q[j][1] /\ q[k][3] = 0
            /\ \A i \in 1..j : (i > k /\ q[i][1] = q[j][1]) => q[i][3] # 0
        BY <3>2 DEF AnchorOf
      <3>6. /\ completed[j] = q[j] /\ completed[k] = q[k]
        BY <3>1, <3>4, <3>5
      <3> DEFINE S == {i \in 1..j : completed[i][3] = 0 /\ IdOf(i) = IdOf(j)}
      <3>7. IdOf(k) = IdOf(j)
        BY <3>2, <3>5, <3>6 DEF IdOf, SentMessage, Stream
      <3>8. k \in S /\ S \subseteq Nat
        BY <3>3, <3>5, <3>6, <3>7
      <3>9. ASSUME NEW y \in S
            PROVE  k >= y
        <4>1. completed[y][1] = completed[j][1]
          BY DEF IdOf, MessageId
        <4>2. ~ (y > k)
          BY <4>1, <3>4, <3>5, <3>6
        <4> QED
          BY <4>2, <3>3, <3>5
      <3> HIDE DEF S
      <3>10. AbsoluteBefore(j) = k
        <4>1. Max(S) = k
          BY <3>8, <3>9, MaxIs
        <4> QED
          BY <4>1 DEF AbsoluteBefore, S
      <3>11. k = j \/ Plain(q, k)
        BY <2>6, <3>6, <3>10 DEF Plain, Long, SentMessage, Stamp
      <3>12. Stamp(q[j][1], q[j][2]) < Mark
        BY <2>6, <3>6 DEF SentMessage, Stamp
      <3>13. delivered[j].timestamp = Stamp(q[j][1], q[j][2])
        BY <2>5, <3>1, <3>2, <3>11, <3>12 DEF Clock
      <3> QED
        BY <3>6, <3>13 DEF SentMessage, Stamp
    <2> QED
      BY <2>6 DEF TimestampsIntact
  <1> QED
    BY <1>1, InvariantHolds, PTL

(***************************************************************************)
(* ReadCallback never returns with a complete message in the buffer.       *)
(***************************************************************************)
THEOREM NothingEverHeldBack == Spec => []NothingHeldBack
  <1>1. Invariant => NothingHeldBack
    <2> SUFFICES ASSUME Invariant, ~ looping
                 PROVE  NoneComplete(session.buffer)
      BY DEF NothingHeldBack, NoneComplete
    <2>1. looping = FALSE
      BY Zenon DEF Invariant
    <2> QED
      BY <2>1 DEF Invariant, Stopped
  <1> QED
    BY <1>1, InvariantHolds, PTL
=============================================================================
