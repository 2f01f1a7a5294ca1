--------------------------- MODULE OutboundProofs ---------------------------
(***************************************************************************)
(* For any lengths of messages, chunks and handshake messages, any number  *)
(* of messages and any pattern of failing writes: the client hears what    *)
(* the server sent.                                                        *)
(*                                                                         *)
(* The argument is about one sequence of tokens, what is in the client's   *)
(* buffer, then on the wire, then unwritten.  It is always what the client *)
(* has still to read (Client): the rest of the handshake, the chunks left  *)
(* of a message it has read in part (Within), and the messages behind      *)
(* those it has handled (Between).  A Write moves tokens along it and adds *)
(* to its end whichever call fails (WriteIs), so do several bursts in a    *)
(* row (PiecesIs), and an arrival moves them along it (Arrives).           *)
(*                                                                         *)
(* RTMPSession::OnRead takes from its front.  At a chunk it waits for the  *)
(* rest or takes exactly that chunk (At, AtMoves): its header says how     *)
(* many tokens it has, for format 3 through what is known of the chunk     *)
(* stream, and its payload continues that of the message (Knows).  With    *)
(* the last chunk of a message the whole message is handled (HearsMoves).  *)
(* The handshake states fall through to that (OnReadTurns).                *)
(*                                                                         *)
(* Nothing is read that does not shorten the buffer, so a client that      *)
(* cannot read on and to which nothing comes has handled all (Turns).      *)
(***************************************************************************)
EXTENDS Outbound, ListsProofs

-----------------------------------------------------------------------------
(* What may be sent *)

Kinds == {5, 6, MetaType, CommandType} \cup MediaTypes

Message == [type : Kinds, stream_id : Nat, timestamp : Nat, length : Nat \ {0}]

Csids == {2, 3, 4}

\* What stands in a message header.
Header == [timestamp : {0}, length : Nat \ {0}, type : Kinds, stream_id : {0}]

Token ==
    [token : {"s0", "s1", "s2"}]
    \cup [token : {"basic"}, format : {0, 3}, csid : Csids]
    \cup [token : {"header"}, common : Header]
    \cup [token : {"data"}, message : Nat, unit : Nat]

Unit(n, k) == [token |-> "data", message |-> n, unit |-> k]

\* The units from + 1 to to of message number n.
Piece(n, from, to) == [k \in 1..(to - from) |-> Unit(n, from + k)]

\* The chunks of a message.
Count(m) == (m.length + ChunkSize - 1) \div ChunkSize

\* Where the i-th chunk ends.
End(m, i) == IF i = Count(m) THEN m.length ELSE i * ChunkSize

Csid(m) == ChunkStreamIdForSending(m.type)

\* What stands before the payload of the i-th chunk.
Heading(m, i) ==
    IF i = 1 THEN <<[token |-> "basic", format |-> 0, csid |-> Csid(m)],
                    [token |-> "header", common |-> ChunkCommon(m)]>>
    ELSE <<[token |-> "basic", format |-> 3, csid |-> Csid(m)]>>

Chunk(m, n, i) == Heading(m, i) \o Piece(n, (i - 1) * ChunkSize, End(m, i))

Chunks(m, n) == [i \in 1..Count(m) |-> Chunk(m, n, i)]

\* Each of the messages ms, serialized, the first as the one behind number b.
Serialized(ms, b) == [i \in 1..Len(ms) |-> Serialize(ms[i], b + i)]

\* What is put together behind the first i.
Later(ss, i) == FlattenSeq(SubSeq(ss, i + 1, Len(ss)))

-----------------------------------------------------------------------------
(* Numbers *)

LEMMA MinOfTwo ==
    ASSUME NEW x \in Int, NEW y \in Int
    PROVE  /\ x <= y => Min({x, y}) = x
           /\ y <= x => Min({x, y}) = y
<1>1. ASSUME x <= y PROVE Min({x, y}) = x
  <2>1. \A z \in {x, y} : x <= z
    BY <1>1
  <2>2. \A w \in {x, y} : (\A z \in {x, y} : w <= z) => w = x
    BY <1>1
  <2> QED BY <2>1, <2>2 DEF Min
<1>2. ASSUME y <= x PROVE Min({x, y}) = y
  <2>1. \A z \in {x, y} : y <= z
    BY <1>2
  <2>2. \A w \in {x, y} : (\A z \in {x, y} : w <= z) => w = y
    BY <1>2
  <2> QED BY <2>1, <2>2 DEF Min
<1> QED BY <1>1, <1>2

\* A length is cut into that many chunks, all but the last of the same size.
LEMMA Cut ==
    ASSUME NEW l \in Nat \ {0}, NEW s \in Nat \ {0}
    PROVE  LET c == (l + s - 1) \div s
           IN  /\ c \in Nat \ {0}
               /\ c * s >= l
               /\ \A i \in Nat : i < c => i * s \in Nat /\ i * s < l /\ (i + 1) * s = i * s + s
<1> DEFINE a == l + s - 1
           c == a \div s
<1>1. a \in Nat /\ a >= s
  OBVIOUS
<1>2. c \in Nat /\ s * c <= a /\ a < s * c + s
  <2> HIDE DEF a
  <2> QED BY <1>1, SMTT(30)
<1> HIDE DEF c
<1>3. c # 0
  <2> SUFFICES ASSUME c = 0 PROVE FALSE
    OBVIOUS
  <2>1. s * c = 0
    OBVIOUS
  <2> QED BY <1>1, <1>2, <2>1
<1>4. c * s >= l
  <2> DEFINE p == s * c
  <2>1. p \in Nat /\ c * s = p
    BY <1>2
  <2> HIDE DEF p
  <2> QED BY <1>2, <2>1 DEF p
<1>5. ASSUME NEW i \in Nat, i < c PROVE i * s \in Nat /\ i * s < l /\ (i + 1) * s = i * s + s
  <2>1. i * s \in Nat /\ (i + 1) * s = i * s + s
    OBVIOUS
  <2>2. (i + 1) * s <= s * c
    <3>1. \A x, y, z \in Nat : x <= y => x * z <= z * y
      BY SMTT(30)
    <3>2. i + 1 \in Nat /\ i + 1 <= c
      BY <1>2, <1>5
    <3> QED BY <1>2, <3>1, <3>2
  <2> DEFINE q == i * s
             p == s * c
  <2>3. q \in Nat /\ p \in Nat /\ q + s <= p /\ p <= l + s - 1
    BY <1>2, <2>1, <2>2
  <2> HIDE DEF q, p
  <2>4. q < l
    BY <2>3
  <2> QED BY <2>1, <2>4 DEF q
<1> QED BY <1>2, <1>3, <1>4, <1>5 DEF c

\* Where the chunks of a message begin and end.
LEMMA ChunkEnds ==
    ASSUME NEW m \in Message
    PROVE  /\ m.length \in Nat \ {0} /\ ChunkSize \in Nat \ {0} /\ Count(m) \in Nat \ {0}
           /\ \A i \in Nat : i < Count(m) =>
                /\ i * ChunkSize \in Nat
                /\ i * ChunkSize < m.length
                /\ i + 1 <= Count(m)
                /\ End(m, i + 1) \in Nat
                /\ i * ChunkSize < End(m, i + 1)
                /\ End(m, i + 1) <= m.length
                /\ End(m, i + 1) = m.length <=> i + 1 = Count(m)
                /\ End(m, i + 1) = Min({i * ChunkSize + ChunkSize, m.length})
                /\ End(m, i + 1) - i * ChunkSize = Min({ChunkSize, m.length - i * ChunkSize})
<1>1. m.length \in Nat \ {0} /\ ChunkSize \in Nat \ {0}
  BY CodecAssumption DEF Message, CodecAssumption
<1> DEFINE l == m.length
           s == ChunkSize
           c == Count(m)
<1>2. /\ c \in Nat \ {0}
      /\ c * s >= l
      /\ \A i \in Nat : i < c => i * s \in Nat /\ i * s < l /\ (i + 1) * s = i * s + s
  <2> HIDE DEF l, s
  <2>1. c = (l + s - 1) \div s
    BY DEF Count, l, s
  <2>2. l \in Nat \ {0} /\ s \in Nat \ {0}
    BY <1>1 DEF l, s
  <2> HIDE DEF c
  <2> QED BY <2>1, <2>2, Cut
<1>3. ASSUME NEW i \in Nat, i < c
      PROVE  LET p == i * s
                 e == End(m, i + 1)
             IN  /\ p \in Nat /\ p < l /\ i + 1 <= c /\ e \in Nat /\ p < e /\ e <= l
                 /\ e = l <=> i + 1 = c
                 /\ e = Min({p + s, l})
                 /\ e - p = Min({s, l - p})
  <2> DEFINE p == i * s
             e == End(m, i + 1)
  <2>1. p \in Nat /\ p < l /\ (i + 1) * s = p + s /\ i + 1 <= c
    BY <1>2, <1>3
  <2>2. e = IF i + 1 = c THEN l ELSE p + s
    BY <2>1 DEF End
  <2>3. l \in Nat /\ s \in Nat /\ l > 0 /\ s > 0
    BY <1>1
  <2>4. i + 1 = c => l <= p + s
    BY <1>2, <2>1
  <2>5. i + 1 # c => p + s < l
    <3>1. i + 1 \in Nat /\ (i + 1 # c => i + 1 < c)
      BY <1>2, <1>3
    <3> QED BY <1>2, <2>1, <3>1
  <2> HIDE DEF p, e, l, s, c
  <2>6. CASE i + 1 = c
    <3>1. e = l /\ l <= p + s /\ l - p <= s /\ l - p \in Int /\ p + s \in Int /\ p < e /\ e <= l
      BY <2>1, <2>2, <2>3, <2>4, <2>6
    <3>2. Min({p + s, l}) = l /\ Min({s, l - p}) = l - p
      BY <2>3, <3>1, MinOfTwo
    <3> QED BY <2>1, <2>3, <2>6, <3>1, <3>2 DEF p, e
  <2>7. CASE i + 1 # c
    <3>1. e = p + s /\ p + s < l /\ p + s <= l /\ s <= l - p /\ l - p \in Int /\ p + s \in Nat /\ p < e /\ e <= l
          /\ e - p = s /\ e # l
      BY <2>1, <2>2, <2>3, <2>5, <2>7
    <3>2. Min({p + s, l}) = p + s /\ Min({s, l - p}) = s
      BY <2>3, <3>1, MinOfTwo
    <3> QED BY <2>1, <2>3, <2>7, <3>1, <3>2 DEF p, e
  <2> QED BY <2>6, <2>7
<1> QED BY <1>1, <1>2, <1>3

-----------------------------------------------------------------------------
(* Tokens *)

\* The units of a payload.
LEMMA PieceIs ==
    ASSUME NEW n \in Nat, NEW from \in Nat, NEW to \in Nat, from <= to
    PROVE  /\ Piece(n, from, to) \in Seq(Token)
           /\ Len(Piece(n, from, to)) = to - from
           /\ \A k \in 1..(to - from) : Piece(n, from, to)[k] = Unit(n, from + k)
<1> DEFINE l == to - from
<1>1. l \in Nat /\ \A k \in 1..l : from + k \in Nat
  OBVIOUS
<1>2. \A k \in Nat : Unit(n, k) \in Token
  BY DEF Unit, Token
<1>3. Piece(n, from, to) = [k \in 1..l |-> Unit(n, from + k)]
  BY DEF Piece
<1> HIDE DEF l
<1>4. Piece(n, from, to) \in [1..l -> Token]
  BY <1>1, <1>2, <1>3
<1>5. Piece(n, from, to) \in Seq(Token) /\ Len(Piece(n, from, to)) = l
  BY <1>1, <1>4
<1> QED BY <1>3, <1>5 DEF l

\* They go on where others end.
LEMMA PieceJoin ==
    ASSUME NEW n \in Nat, NEW from \in Nat, NEW to \in Nat, from <= to
    PROVE  Piece(n, 0, from) \o Piece(n, from, to) = Piece(n, 0, to)
<1> DEFINE a == Piece(n, 0, from)
           b == Piece(n, from, to)
           c == Piece(n, 0, to)
<1>1. 0 \in Nat /\ 0 <= from /\ 0 <= to /\ from - 0 = from /\ to - 0 = to /\ \A k \in Nat : 0 + k = k
  OBVIOUS
<1>2. /\ a \in Seq(Token) /\ Len(a) = from - 0
      /\ \A k \in 1..(from - 0) : a[k] = Unit(n, 0 + k)
  BY <1>1, PieceIs
<1>3. /\ b \in Seq(Token) /\ Len(b) = to - from
      /\ \A k \in 1..(to - from) : b[k] = Unit(n, from + k)
  BY PieceIs
<1>4. /\ c \in Seq(Token) /\ Len(c) = to - 0
      /\ \A k \in 1..(to - 0) : c[k] = Unit(n, 0 + k)
  BY <1>1, PieceIs
<1> HIDE DEF a, b, c
<1>5. Len(a) = from /\ Len(c) = to /\ \A k \in 1..from : a[k] = Unit(n, k)
  BY <1>1, <1>2, <1>4
<1>6. \A k \in 1..to : c[k] = Unit(n, k)
  BY <1>1, <1>4
<1>7. Joins(c, a, b)
  <2>1. \A k \in 1..(to - from) : from + k \in 1..to
    OBVIOUS
  <2>2. \A k \in 1..from : k \in 1..to
    OBVIOUS
  <2>3. to = from + (to - from)
    OBVIOUS
  <2> QED BY <1>3, <1>5, <1>6, <2>1, <2>2, <2>3 DEF Joins
<1>8. c = a \o b
  BY <1>2, <1>3, <1>4, <1>7, JoinedAre
<1> QED BY <1>8 DEF a, b, c

\* The fields of a message header.
LEMMA CommonIs ==
    ASSUME NEW m \in Message
    PROVE  /\ ChunkCommon(m) \in Header
           /\ [ChunkCommon(m) EXCEPT !.timestamp = Min({@, Mark})] = ChunkCommon(m)
           /\ [f \in Fields(0) |-> ChunkCommon(m)[f]] = ChunkCommon(m)
           /\ ~ (ChunkCommon(m).timestamp >= Mark)
<1> DEFINE c == ChunkCommon(m)
<1>1. c \in Header /\ c.timestamp = 0
  BY DEF ChunkCommon, Header, Message
<1>2. Mark \in Nat /\ Mark > 0 /\ 0 \in Int /\ 0 <= Mark /\ ~ (0 >= Mark) /\ Mark \in Int
  BY CodecAssumption DEF CodecAssumption
<1>3. Min({0, Mark}) = 0
  BY <1>2, MinOfTwo
<1>4. [c EXCEPT !.timestamp = Min({@, Mark})] = [c EXCEPT !.timestamp = 0]
  BY <1>1, <1>3
<1>5. [c EXCEPT !.timestamp = 0] = c /\ c = [f \in {"timestamp", "length", "type", "stream_id"} |-> c[f]]
  BY DEF ChunkCommon
<1> HIDE DEF c
<1>6. Fields(0) = {"timestamp", "length", "type", "stream_id"}
  BY DEF Fields
<1> QED BY <1>1, <1>2, <1>4, <1>5, <1>6 DEF c

LEMMA CsidIs ==
    ASSUME NEW m \in Message
    PROVE  Csid(m) \in Csids
<1>1. m.type \in {5, 6, 18, 20, 8, 9}
  BY DEF Message, Kinds, MetaType, CommandType, MediaTypes
<1> QED BY <1>1 DEF Csid, Csids, ChunkStreamIdForSending, MediaTypes, MetaType, CommandType

\* What stands before a payload, and how much that is.
LEMMA FrontIs ==
    ASSUME NEW m \in Message, NEW i \in Nat \ {0}
    PROVE  /\ Heading(m, i) \in Seq(Token)
           /\ Len(Heading(m, i)) = IF i = 1 THEN 2 ELSE 1
<1>1. Csid(m) \in Csids /\ ChunkCommon(m) \in Header
  BY CsidIs, CommonIs
<1> DEFINE a == [token |-> "basic", format |-> 0, csid |-> Csid(m)]
           b == [token |-> "header", common |-> ChunkCommon(m)]
           c == [token |-> "basic", format |-> 3, csid |-> Csid(m)]
<1>2. a \in Token /\ b \in Token /\ c \in Token
  BY <1>1 DEF Token
<1>3. Heading(m, i) = IF i = 1 THEN <<a, b>> ELSE <<c>>
  BY DEF Heading
<1> HIDE DEF a, b, c
<1>4. <<a, b>> \in Seq(Token) /\ Len(<<a, b>>) = 2 /\ <<c>> \in Seq(Token) /\ Len(<<c>>) = 1
  BY <1>2
<1> QED BY <1>3, <1>4

\* Two tokens.
LEMMA PairIs ==
    ASSUME NEW S, NEW v \in S, NEW w \in S
    PROVE  <<v>> \o <<w>> = <<v, w>> /\ <<v, w>> \o <<>> = <<v, w>>
<1> DEFINE a == <<v>>
           b == <<w>>
           c == <<v, w>>
<1>1. a \in Seq(S) /\ Len(a) = 1 /\ a[1] = v
  OBVIOUS
<1>2. b \in Seq(S) /\ Len(b) = 1 /\ b[1] = w
  OBVIOUS
<1>3. c \in Seq(S) /\ Len(c) = 2 /\ c[1] = v /\ c[2] = w
  OBVIOUS
<1> HIDE DEF a, b, c
<1>4. Joins(c, a, b)
  BY <1>1, <1>2, <1>3 DEF Joins
<1>5. c = a \o b /\ c \o <<>> = c
  BY <1>1, <1>2, <1>3, <1>4, JoinedAre, ConcatEmptySeq
<1> QED BY <1>5 DEF a, b, c

\* ChunkHeader::Serialize writes that.
LEMMA HeaderIs ==
    ASSUME NEW m \in Message, NEW i \in Nat \ {0}
    PROVE  SerializeHeader(Format(i), ChunkStreamIdForSending(m.type), ChunkCommon(m)) = Heading(m, i)
<1> DEFINE common == ChunkCommon(m)
           short == [common EXCEPT !.timestamp = Min({@, Mark})]
           f == Format(i)
           c == Csid(m)
           a == <<[token |-> "basic", format |-> f, csid |-> c]>>
           b == IF f = 3 THEN <<>>
                ELSE <<[token |-> "header", common |-> [x \in Fields(f) |-> short[x]]]>>
           e == IF common.timestamp >= Mark
                THEN <<[token |-> "extended", timestamp |-> common.timestamp]>> ELSE <<>>
<1>1. SerializeHeader(f, c, common) = a \o b \o e
  BY DEF SerializeHeader
<1>2. short = common /\ [x \in Fields(0) |-> common[x]] = common /\ e = <<>>
  BY CommonIs
<1> HIDE DEF common, short, e
<1>3. CASE i = 1
  <2>1. f = 0 /\ b = <<[token |-> "header", common |-> common]>>
    BY <1>2, <1>3 DEF Format
  <2> DEFINE x == [token |-> "basic", format |-> 0, csid |-> c]
             y == [token |-> "header", common |-> common]
  <2>2. a = <<x>> /\ b = <<y>>
    BY <2>1
  <2>3. Heading(m, i) = <<x, y>>
    BY <1>3 DEF Heading, common, c
  <2> HIDE DEF x, y, a, b
  <2>4. a \o b = <<x, y>> /\ <<x, y>> \o <<>> = <<x, y>>
    <3>1. x \in {x, y} /\ y \in {x, y}
      OBVIOUS
    <3>2. <<x>> \o <<y>> = <<x, y>> /\ <<x, y>> \o <<>> = <<x, y>>
      BY <3>1, PairIs
    <3> QED BY <2>2, <3>2
  <2> QED BY <1>1, <1>2, <2>3, <2>4 DEF c, common, Csid
<1>4. CASE i # 1
  <2>1. f = 3 /\ b = <<>>
    BY <1>4 DEF Format
  <2>2. a \o b \o e = <<[token |-> "basic", format |-> 3, csid |-> c]>>
    BY <1>2, <2>1
  <2> QED BY <1>1, <1>4, <2>2 DEF Heading, Csid, common
<1> QED BY <1>3, <1>4

\* A chunk.
LEMMA ChunkIs ==
    ASSUME NEW m \in Message, NEW n \in Nat, NEW i \in Nat, i < Count(m)
    PROVE  LET p == Piece(n, i * ChunkSize, End(m, i + 1))
               f == Heading(m, i + 1)
           IN  /\ Chunk(m, n, i + 1) = f \o p
               /\ f \in Seq(Token) /\ Len(f) = IF i = 0 THEN 2 ELSE 1
               /\ p \in Seq(Token) /\ Len(p) = End(m, i + 1) - i * ChunkSize
               /\ Chunk(m, n, i + 1) \in Seq(Token)
<1>1. i * ChunkSize \in Nat /\ End(m, i + 1) \in Nat /\ i * ChunkSize <= End(m, i + 1)
  <2> DEFINE q == i * ChunkSize
             e == End(m, i + 1)
  <2>1. q \in Nat /\ e \in Nat /\ q < e
    BY ChunkEnds
  <2> HIDE DEF q, e
  <2>2. q <= e
    BY <2>1
  <2> QED BY <2>1, <2>2 DEF q, e
<1>2. i + 1 \in Nat \ {0} /\ (i + 1) - 1 = i /\ (i + 1 = 1 <=> i = 0)
  OBVIOUS
<1> DEFINE p == Piece(n, i * ChunkSize, End(m, i + 1))
           f == Heading(m, i + 1)
<1>3. p \in Seq(Token) /\ Len(p) = End(m, i + 1) - i * ChunkSize
  BY <1>1, PieceIs
<1>4. f \in Seq(Token) /\ Len(f) = IF i + 1 = 1 THEN 2 ELSE 1
  BY <1>2, FrontIs
<1>5. Chunk(m, n, i + 1) = f \o p
  BY <1>2 DEF Chunk
<1> HIDE DEF p, f
<1>6. Chunk(m, n, i + 1) \in Seq(Token)
  <2>1. f \o p \in Seq(Token)
    BY <1>3, <1>4, ConcatProperties
  <2> QED BY <1>5, <2>1
<1> QED BY <1>2, <1>3, <1>4, <1>5, <1>6 DEF p, f

\* A message is serialized to its chunks.
LEMMA SerializeIs ==
    ASSUME NEW m \in Message, NEW n \in Nat
    PROVE  /\ Chunks(m, n) \in Seq(Seq(Token)) /\ Len(Chunks(m, n)) = Count(m)
           /\ \A i \in Nat : i < Count(m) => Chunks(m, n)[i + 1] = Chunk(m, n, i + 1)
           /\ Serialize(m, n) = FlattenSeq(Chunks(m, n))
           /\ Serialize(m, n) \in Seq(Token)
<1> DEFINE c == Count(m)
           piece(i) ==
               LET from == (i - 1) * ChunkSize
                   to == Min({from + ChunkSize, m.length})
               IN  SerializeHeader(Format(i), ChunkStreamIdForSending(m.type), ChunkCommon(m))
                   \o [k \in 1..(to - from) |-> [token |-> "data", message |-> n, unit |-> from + k]]
<1>1. Serialize(m, n) = FlattenSeq([i \in 1..c |-> piece(i)])
  BY DEF Serialize, Count
<1>2. c \in Nat \ {0}
  BY ChunkEnds
<1>3. ASSUME NEW i \in 1..c PROVE piece(i) = Chunk(m, n, i) /\ Chunk(m, n, i) \in Seq(Token)
  <2>1. i - 1 \in Nat /\ i - 1 < c /\ (i - 1) + 1 = i /\ i \in Nat \ {0}
    BY <1>2
  <2>2. End(m, (i - 1) + 1) = Min({(i - 1) * ChunkSize + ChunkSize, m.length})
    BY <2>1, ChunkEnds
  <2>3. SerializeHeader(Format(i), ChunkStreamIdForSending(m.type), ChunkCommon(m)) = Heading(m, i)
    BY <2>1, HeaderIs
  <2>4. piece(i) = Chunk(m, n, i)
    BY <2>1, <2>2, <2>3 DEF Chunk, Piece, Unit
  <2>5. Chunk(m, n, (i - 1) + 1) \in Seq(Token)
    BY <2>1, ChunkIs
  <2> QED BY <2>1, <2>4, <2>5
<1> HIDE DEF c, piece
<1>4. [i \in 1..c |-> piece(i)] = Chunks(m, n)
  BY <1>3 DEF Chunks, c
<1>5. Chunks(m, n) = [i \in 1..c |-> Chunk(m, n, i)]
  BY DEF Chunks, c
<1>6. Chunks(m, n) \in [1..c -> Seq(Token)]
  BY <1>3, <1>5
<1>7. Chunks(m, n) \in Seq(Seq(Token)) /\ Len(Chunks(m, n)) = c
  BY <1>2, <1>6
<1>8. ASSUME NEW i \in Nat, i < c PROVE Chunks(m, n)[i + 1] = Chunk(m, n, i + 1)
  <2>1. i + 1 \in 1..c
    BY <1>2, <1>8
  <2> QED BY <1>5, <2>1
<1>9. Serialize(m, n) \in Seq(Token)
  BY <1>1, <1>4, <1>7, FlattenType
<1> QED BY <1>1, <1>4, <1>7, <1>8, <1>9 DEF c

-----------------------------------------------------------------------------
(* What is left of a sequence *)

\* What is left of a sequence behind its first k elements.
LEMMA RestIs ==
    ASSUME NEW S, NEW q \in Seq(S), NEW k \in Nat, k <= Len(q)
    PROVE  /\ SubSeq(q, k + 1, Len(q)) \in Seq(S)
           /\ Len(SubSeq(q, k + 1, Len(q))) = Len(q) - k
           /\ \A i \in 1..(Len(q) - k) : SubSeq(q, k + 1, Len(q))[i] = q[k + i]
<1>1. Len(q) \in Nat /\ k + 1 \in Int /\ Len(q) \in Int
  OBVIOUS
<1>2. \A i \in (k + 1)..Len(q) : q[i] \in S
  OBVIOUS
<1>3. /\ SubSeq(q, k + 1, Len(q)) \in Seq(S)
      /\ Len(SubSeq(q, k + 1, Len(q))) = IF k + 1 <= Len(q) THEN Len(q) - (k + 1) + 1 ELSE 0
      /\ \A i \in 1..(Len(q) - (k + 1) + 1) : SubSeq(q, k + 1, Len(q))[i] = q[(k + 1) + i - 1]
  BY <1>1, <1>2, SubSeqProperties
<1> DEFINE w == SubSeq(q, k + 1, Len(q))
<1> HIDE DEF w
<1>4. Len(q) - (k + 1) + 1 = Len(q) - k /\ \A i \in Nat : (k + 1) + i - 1 = k + i
  BY <1>1
<1>5. Len(w) = Len(q) - k
  BY <1>1, <1>3 DEF w
<1>6. \A i \in 1..(Len(q) - k) : w[i] = q[k + i]
  BY <1>3, <1>4 DEF w
<1> QED BY <1>3, <1>5, <1>6 DEF w

\* It begins with the next element.
LEMMA RestFirst ==
    ASSUME NEW S, NEW q \in Seq(S), NEW k \in Nat, k < Len(q)
    PROVE  SubSeq(q, k + 1, Len(q)) = <<q[k + 1]>> \o SubSeq(q, (k + 1) + 1, Len(q))
<1> DEFINE n == Len(q)
           j == k + 1
           a == SubSeq(q, k + 1, n)
           b == SubSeq(q, j + 1, n)
           x == q[j]
           c == <<x>>
<1>1. n \in Nat /\ j \in Nat /\ k <= n /\ j <= n /\ j = k + 1 /\ j \in 1..n
  OBVIOUS
<1>2. a \in Seq(S) /\ Len(a) = n - k /\ \A i \in 1..(n - k) : a[i] = q[k + i]
  BY <1>1, RestIs
<1>3. b \in Seq(S) /\ Len(b) = n - j /\ \A i \in 1..(n - j) : b[i] = q[j + i]
  BY <1>1, RestIs
<1>4. x \in S
  BY <1>1
<1> HIDE DEF x
<1>5. c \in Seq(S) /\ Len(c) = 1 /\ c[1] = x
  BY <1>4
<1> HIDE DEF n, j, a, b, c
<1>6. Joins(a, c, b)
  <2>1. n - k = 1 + (n - j) /\ 1 \in 1..(n - k)
    BY <1>1
  <2>2. a[1] = x
    BY <1>1, <1>2, <2>1 DEF x
  <2>3. \A i \in 1..(n - j) : 1 + i \in 1..(n - k) /\ k + (1 + i) = j + i
    BY <1>1
  <2>4. \A i \in 1..(n - j) : a[1 + i] = b[i]
    BY <1>2, <1>3, <2>3
  <2>5. \A i \in 1..1 : i = 1
    OBVIOUS
  <2> QED BY <1>2, <1>3, <1>5, <2>1, <2>2, <2>4, <2>5 DEF Joins
<1>7. a = c \o b
  BY <1>2, <1>3, <1>5, <1>6, JoinedAre
<1> QED BY <1>7 DEF a, b, c, n, j, x

\* What is put on the end stays there.
LEMMA RestMore ==
    ASSUME NEW S, NEW q \in Seq(S), NEW r \in Seq(S), NEW k \in Nat, k <= Len(q)
    PROVE  SubSeq(q \o r, k + 1, Len(q \o r)) = SubSeq(q, k + 1, Len(q)) \o r
<1> DEFINE n == Len(q)
           m == Len(r)
           u == q \o r
           l == Len(u)
           a == SubSeq(u, k + 1, l)
           b == SubSeq(q, k + 1, n)
<1>1. n \in Nat /\ m \in Nat /\ k <= n
  OBVIOUS
<1>2. u \in Seq(S) /\ l = n + m /\ \A i \in 1..n + m : u[i] = IF i <= n THEN q[i] ELSE r[i - n]
  BY ConcatProperties
<1>3. b \in Seq(S) /\ Len(b) = n - k /\ \A i \in 1..(n - k) : b[i] = q[k + i]
  BY <1>1, RestIs
<1> HIDE DEF u, n, m
<1>4. a \in Seq(S) /\ Len(a) = l - k /\ \A i \in 1..(l - k) : a[i] = u[k + i]
  <2>1. k <= l
    BY <1>1, <1>2
  <2> QED BY <1>2, <2>1, RestIs
<1> HIDE DEF l, a, b
<1>5. Joins(a, b, r)
  <2>1. Len(r) = m
    BY DEF m
  <2>2. l - k = (n - k) + m
    BY <1>1, <1>2
  <2>3. ASSUME NEW i \in 1..(n - k) PROVE a[i] = b[i]
    <3>1. i \in 1..(l - k) /\ k + i \in 1..n + m /\ k + i <= n
      BY <1>1, <1>2
    <3> QED BY <1>2, <1>3, <1>4, <3>1
  <2>4. ASSUME NEW i \in 1..m PROVE a[(n - k) + i] = r[i]
    <3>1. (n - k) + i \in 1..(l - k) /\ k + ((n - k) + i) = n + i
      BY <1>1, <1>2
    <3>2. n + i \in 1..n + m /\ ~ (n + i <= n) /\ (n + i) - n = i
      BY <1>1
    <3> QED BY <1>2, <1>4, <3>1, <3>2
  <2> QED BY <1>3, <1>4, <2>1, <2>2, <2>3, <2>4 DEF Joins
<1>6. a = b \o r
  BY <1>3, <1>4, <1>5, JoinedAre
<1> QED BY <1>6 DEF a, b, l, u, n

\* What is put together behind the first i begins with the next.
LEMMA LaterFirst ==
    ASSUME NEW S, NEW ss \in Seq(Seq(S)), NEW i \in Nat, i < Len(ss)
    PROVE  /\ Later(ss, i) \in Seq(S)
           /\ Later(ss, i + 1) \in Seq(S)
           /\ ss[i + 1] \in Seq(S)
           /\ Later(ss, i) = ss[i + 1] \o Later(ss, i + 1)
<1> DEFINE a == SubSeq(ss, i + 1, Len(ss))
           b == SubSeq(ss, (i + 1) + 1, Len(ss))
           x == ss[i + 1]
           c == <<x>>
           T == Seq(S)
<1>1. ss \in Seq(T)
  OBVIOUS
<1> HIDE DEF T
<1>2. i <= Len(ss) /\ i + 1 <= Len(ss) /\ i + 1 \in Nat /\ x \in T
  BY <1>1
<1>3. a \in Seq(T) /\ b \in Seq(T) /\ a = c \o b
  BY <1>1, <1>2, RestIs, RestFirst
<1> HIDE DEF a, b, x
<1>4. c \in Seq(T)
  BY <1>2
<1>5. FlattenSeq(c \o b) = FlattenSeq(c) \o FlattenSeq(b)
  <2> HIDE DEF c
  <2> QED BY <1>3, <1>4, FlattenConcat DEF T
<1>6. FlattenSeq(c) = x
  BY <1>2, FlattenOne DEF T
<1>7. FlattenSeq(a) \in Seq(S) /\ FlattenSeq(b) \in Seq(S)
  <2> HIDE DEF c
  <2> QED BY <1>3, FlattenType DEF T
<1> QED BY <1>2, <1>3, <1>5, <1>6, <1>7 DEF Later, a, b, x, T

\* Behind the last there is nothing.
LEMMA LaterNone ==
    ASSUME NEW ss, NEW S, ss \in Seq(S)
    PROVE  Later(ss, Len(ss)) = <<>>
<1>1. SubSeq(ss, Len(ss) + 1, Len(ss)) = <<>>
  BY RestIs
<1> QED BY <1>1, FlattenNone DEF Later

\* What is put together of more.
LEMMA LaterMore ==
    ASSUME NEW S, NEW ss \in Seq(Seq(S)), NEW tt \in Seq(Seq(S)), NEW i \in Nat, i <= Len(ss)
    PROVE  Later(ss \o tt, i) = Later(ss, i) \o FlattenSeq(tt)
<1> DEFINE T == Seq(S)
           a == SubSeq(ss, i + 1, Len(ss))
<1>1. ss \in Seq(T) /\ tt \in Seq(T)
  OBVIOUS
<1> HIDE DEF T
<1>2. a \in Seq(T) /\ SubSeq(ss \o tt, i + 1, Len(ss \o tt)) = a \o tt
  BY <1>1, RestIs, RestMore
<1> HIDE DEF a
<1>3. FlattenSeq(a \o tt) = FlattenSeq(a) \o FlattenSeq(tt)
  BY <1>1, <1>2, FlattenConcat DEF T
<1> QED BY <1>2, <1>3 DEF Later, a

\* Behind none there is all.
LEMMA LaterAll ==
    ASSUME NEW ss, NEW S, ss \in Seq(S)
    PROVE  Later(ss, 0) = FlattenSeq(ss)
<1> DEFINE w == SubSeq(ss, 0 + 1, Len(ss))
           n == Len(ss)
<1>1. 0 \in Nat /\ 0 <= n /\ n - 0 = n /\ \A i \in 1..n : 0 + i = i
  OBVIOUS
<1>2. w \in Seq(S) /\ Len(w) = n - 0 /\ \A i \in 1..(n - 0) : w[i] = ss[0 + i]
  BY <1>1, RestIs
<1>3. w = ss
  <2> HIDE DEF w
  <2>1. Len(w) = n /\ \A i \in 1..n : w[i] = ss[i]
    BY <1>1, <1>2
  <2>2. SameUpTo(ss, w, n)
    BY <2>1 DEF SameUpTo
  <2> QED BY <1>2, <2>1, <2>2, SequencesSame
<1> QED BY <1>3 DEF Later

-----------------------------------------------------------------------------
(* A chunk at the front of the client's buffer *)

SessionFields == {"state", "open", "buffer", "commons", "previous", "reading", "handled"}

Id(m) == <<Csid(m), 0>>

\* What is kept of message number n when the first to units have been read.
Begun(m, n, to) ==
    [type |-> m.type, timestamp |-> 0, stream_id |-> 0, length |-> m.length, payload |-> Piece(n, 0, to)]

\* A session has read the first i chunks of a message and no other in part.
Knows(s, m, n, i) ==
    IF i = 0 THEN DOMAIN s.reading = {}
    ELSE /\ DOMAIN s.reading = {Id(m)}
         /\ s.reading[Id(m)] = Begun(m, n, i * ChunkSize)
         /\ Id(m) \in DOMAIN s.previous
         /\ Csid(m) \in DOMAIN s.commons
         /\ s.commons[Csid(m)] = ChunkCommon(m)

Ready(s) ==
    /\ DOMAIN s = SessionFields
    /\ s.open = TRUE
    /\ s.handled = <<>>
    /\ s.buffer \in Seq(Token)

\* The session s, to which x comes, is at that chunk, behind which comes y.
At(s, m, n, i, x, y) ==
    /\ Ready(s)
    /\ m \in Message /\ n \in Nat /\ i \in Nat /\ i < Count(m)
    /\ Knows(s, m, n, i)
    /\ x \in Seq(Token) /\ y \in Seq(Token)
    /\ s.buffer \o x = Chunk(m, n, i + 1) \o y

\* Two equal sequences begin with the same.
LEMMA FrontSame ==
    ASSUME NEW S, NEW d \in Seq(S), NEW t \in Seq(S), NEW m \in Seq(S), NEW u \in Seq(S), d \o t = m \o u
    PROVE  \A k \in 1..Len(d) : k <= Len(m) => d[k] = m[k]
<1> DEFINE a == Len(d)
           b == Len(t)
           c == Len(m)
           e == Len(u)
           w == d \o t
<1>1. a \in Nat /\ b \in Nat /\ c \in Nat /\ e \in Nat
  OBVIOUS
<1>2. \A i \in 1..(a + b) : w[i] = IF i <= a THEN d[i] ELSE t[i - a]
  BY ConcatProperties
<1>3. \A i \in 1..(c + e) : w[i] = IF i <= c THEN m[i] ELSE u[i - c]
  BY ConcatProperties
<1> HIDE DEF a, b, c, e, w
<1>4. ASSUME NEW k \in 1..a, k <= c PROVE d[k] = m[k]
  <2>1. k \in 1..(a + b) /\ k <= a /\ k \in 1..(c + e)
    BY <1>1, <1>4
  <2> QED BY <1>2, <1>3, <1>4, <2>1
<1> QED BY <1>4 DEF a, c

\* How many tokens a chunk has.
FrontSize(i) == IF i = 0 THEN 2 ELSE 1
Size(m, i) == End(m, i + 1) - i * ChunkSize

\* What of the chunk is in the buffer.
LEMMA AtHolds ==
    ASSUME NEW s, NEW m, NEW n, NEW i, NEW x, NEW y, At(s, m, n, i, x, y)
    PROVE  LET f == FrontSize(i)
           IN  /\ f \in Nat /\ f >= 1 /\ Size(m, i) \in Nat /\ Size(m, i) >= 1
               /\ Chunk(m, n, i + 1) \in Seq(Token) /\ Len(Chunk(m, n, i + 1)) = f + Size(m, i)
               /\ \A k \in 1..Len(s.buffer) :
                      /\ k <= f => s.buffer[k] = Heading(m, i + 1)[k]
                      /\ k > f /\ k <= f + Size(m, i) => s.buffer[k] = Unit(n, i * ChunkSize + (k - f))
<1> DEFINE q == i * ChunkSize
           e == End(m, i + 1)
           p == Piece(n, q, e)
           w == Heading(m, i + 1)
           c == Chunk(m, n, i + 1)
           f == FrontSize(i)
           z == e - q
           b == s.buffer
<1>0. m \in Message /\ n \in Nat /\ i \in Nat /\ i < Count(m) /\ b \in Seq(Token) /\ x \in Seq(Token) /\ y \in Seq(Token)
      /\ b \o x = c \o y
  BY DEF At, Ready
<1>1. q \in Nat /\ e \in Nat /\ q < e
  BY <1>0, ChunkEnds
<1>2. /\ c = w \o p /\ w \in Seq(Token) /\ Len(w) = f
      /\ p \in Seq(Token) /\ Len(p) = z
      /\ c \in Seq(Token)
  BY <1>0, ChunkIs DEF FrontSize
<1>3. f \in Nat /\ f >= 1
  BY DEF FrontSize
<1> HIDE DEF w, c, f, b, q, e
<1>4. q <= e /\ z \in Nat /\ z >= 1
  BY <1>1
<1>5. \A k \in 1..z : p[k] = Unit(n, q + k)
  BY <1>0, <1>1, <1>4, PieceIs
<1> HIDE DEF p, z
<1>6. Len(c) = f + z /\ \A k \in 1..(f + z) : c[k] = IF k <= f THEN w[k] ELSE p[k - f]
  <2>1. Len(w \o p) = Len(w) + Len(p) /\ \A k \in 1..(Len(w) + Len(p)) : (w \o p)[k] = IF k <= Len(w) THEN w[k] ELSE p[k - Len(w)]
    BY <1>2, ConcatProperties
  <2> QED BY <1>2, <2>1
<1>7. ASSUME NEW k \in 1..Len(b), k <= f + z PROVE b[k] = c[k] /\ k \in 1..(f + z)
  <2>1. b[k] = c[k]
    BY <1>0, <1>2, <1>6, <1>7, FrontSame
  <2> QED BY <2>1, <1>3, <1>4, <1>7
<1>8. ASSUME NEW k \in 1..Len(b), k <= f PROVE b[k] = w[k]
  <2>1. k \in Nat /\ k <= f + z
    BY <1>3, <1>4, <1>8
  <2> QED BY <1>6, <1>7, <1>8, <2>1
<1>9. ASSUME NEW k \in 1..Len(b), k > f, k <= f + z PROVE b[k] = Unit(n, q + (k - f))
  <2>1. k \in Nat /\ ~ (k <= f) /\ k - f \in 1..z
    BY <1>3, <1>4, <1>9
  <2> QED BY <1>5, <1>6, <1>7, <1>9, <2>1
<1> QED BY <1>2, <1>3, <1>4, <1>6, <1>8, <1>9 DEF Size, w, c, f, b, q, e, z

\* The format of a chunk is that of a first or of a later one.
FormatAt(i) == IF i = 0 THEN 0 ELSE 3

\* ParseHeader, as far as there is a header.
LEMMA AtHeader ==
    ASSUME NEW s, NEW m, NEW n, NEW i, NEW x, NEW y, At(s, m, n, i, x, y), s.buffer # <<>>
    PROVE  /\ Head(s.buffer).format = FormatAt(i)
           /\ Head(s.buffer).csid = Csid(m)
           /\ HeaderSize(s) = IF Len(s.buffer) < FrontSize(i) THEN 0 ELSE FrontSize(i)
           /\ Len(s.buffer) >= FrontSize(i) => Common(s, FormatAt(i), Csid(m)) = ChunkCommon(m)
<1> DEFINE b == s.buffer
           c == ChunkCommon(m)
<1>1. b \in Seq(Token) /\ m \in Message /\ i \in Nat
  BY DEF At, Ready
<1>2. Len(b) \in Nat /\ Len(b) >= 1 /\ Head(b) = b[1] /\ 1 \in 1..Len(b) /\ (Len(b) >= 2 => 2 \in 1..Len(b))
  BY <1>1
<1>3. /\ c \in Header /\ ~ (c.timestamp >= Mark) /\ [f \in Fields(0) |-> c[f]] = c
      /\ Csid(m) \in Csids
  BY <1>1, CommonIs, CsidIs
<1>4. c.timestamp < Mark /\ 3 # 0
  BY <1>3, CodecAssumption DEF CodecAssumption, Header
<1> DEFINE field == IF Head(b).format = 3 THEN s.commons[Head(b).csid].timestamp
                    ELSE b[2].common.timestamp
           fixed == IF Head(b).format = 3 THEN 1 ELSE 2
<1>5. HeaderSize(s) = IF Len(b) < fixed THEN 0
                      ELSE IF field < Mark THEN fixed
                      ELSE IF Len(b) > fixed THEN fixed + 1
                      ELSE 0
  BY DEF HeaderSize
<1>6. \A k \in 1..Len(b) : k <= FrontSize(i) => b[k] = Heading(m, i + 1)[k]
  BY AtHolds
<1>7. CASE i = 0
  <2>1. Heading(m, i + 1) = <<[token |-> "basic", format |-> 0, csid |-> Csid(m)],
                            [token |-> "header", common |-> c]>>
    BY <1>7 DEF Heading
  <2> HIDE DEF c
  <2>2. Head(b).format = 0 /\ Head(b).csid = Csid(m)
    <3>1. b[1] = [token |-> "basic", format |-> 0, csid |-> Csid(m)]
      BY <1>2, <1>6, <1>7, <2>1 DEF FrontSize
    <3> QED BY <1>2, <3>1
  <2>3. Len(b) >= 2 => b[2].common = c
    <3> SUFFICES ASSUME Len(b) >= 2 PROVE b[2].common = c
      OBVIOUS
    <3>1. b[2] = [token |-> "header", common |-> c]
      BY <1>2, <1>6, <1>7, <2>1 DEF FrontSize
    <3> QED BY <3>1
  <2>4. fixed = 2 /\ (Len(b) >= 2 => field < Mark)
    BY <1>4, <2>2, <2>3
  <2> HIDE DEF field, fixed, b
  <2>5. HeaderSize(s) = IF Len(b) < 2 THEN 0 ELSE 2
    BY <1>2, <1>5, <2>4
  <2>6. Len(b) >= 2 => Common(s, 0, Csid(m)) = c
    <3> SUFFICES ASSUME Len(b) >= 2 PROVE Common(s, 0, Csid(m)) = c
      OBVIOUS
    <3>1. Common(s, 0, Csid(m)) = [f \in Fields(0) |-> b[2].common[f]]
      BY DEF Common, b
    <3> QED BY <1>3, <2>3, <3>1
  <2> QED BY <1>7, <2>2, <2>5, <2>6 DEF FormatAt, FrontSize, b, c
<1>8. CASE i # 0
  <2>1. Heading(m, i + 1) = <<[token |-> "basic", format |-> 3, csid |-> Csid(m)]>>
    BY <1>1, <1>8 DEF Heading
  <2>2. Head(b).format = 3 /\ Head(b).csid = Csid(m)
    <3>1. b[1] = [token |-> "basic", format |-> 3, csid |-> Csid(m)]
      BY <1>2, <1>6, <1>8, <2>1 DEF FrontSize
    <3> QED BY <1>2, <3>1
  <2>3. s.commons[Csid(m)] = c
    BY <1>8 DEF At, Knows
  <2>4. fixed = 1 /\ field < Mark
    BY <1>4, <2>2, <2>3
  <2> HIDE DEF field, fixed, b, c
  <2>5. HeaderSize(s) = IF Len(b) < 1 THEN 0 ELSE 1
    BY <1>2, <1>5, <2>4
  <2>6. Common(s, 3, Csid(m)) = c
    <3>1. Fields(3) = {}
      BY DEF Fields
    <3>2. Common(s, 3, Csid(m)) = [f \in Fields(0) |-> s.commons[Csid(m)][f]]
      BY <3>1 DEF Common
    <3> QED BY <1>3, <2>3, <3>2
  <2> QED BY <1>8, <2>2, <2>5, <2>6 DEF FormatAt, FrontSize, b, c
<1> QED BY <1>7, <1>8

\* expect_data_len is the rest of the chunk.
LEMMA AtSize ==
    ASSUME NEW s, NEW m, NEW n, NEW i, NEW x, NEW y, At(s, m, n, i, x, y)
    PROVE  PayloadSize(s, Id(m), ChunkCommon(m)) = Size(m, i)
<1>1. m \in Message /\ n \in Nat /\ i \in Nat /\ i < Count(m) /\ Knows(s, m, n, i)
  BY DEF At
<1> DEFINE q == i * ChunkSize
<1>2. q \in Nat /\ Size(m, i) = Min({ChunkSize, m.length - q}) /\ m.length \in Nat /\ ChunkSize \in Nat
  BY <1>1, ChunkEnds DEF Size
<1>3. CASE i = 0
  <2>1. q = 0 /\ m.length - q = m.length
    <3>1. \A k \in Nat : 0 * k = 0 /\ k - 0 = k
      OBVIOUS
    <3> QED BY <1>2, <1>3, <3>1
  <2>2. Id(m) \notin DOMAIN s.reading /\ ChunkCommon(m).length = m.length
    BY <1>1, <1>3 DEF Knows, ChunkCommon
  <2> QED BY <1>2, <2>1, <2>2 DEF PayloadSize
<1>4. CASE i # 0
  <2>1. Id(m) \in DOMAIN s.reading /\ s.reading[Id(m)] = Begun(m, n, q)
    BY <1>1, <1>4 DEF Knows
  <2> HIDE DEF q
  <2>2. s.reading[Id(m)].length = m.length /\ s.reading[Id(m)].payload = Piece(n, 0, q)
    BY <2>1 DEF Begun
  <2>3. Len(Piece(n, 0, q)) = q
    <3>1. 0 \in Nat /\ 0 <= q /\ q - 0 = q
      BY <1>2
    <3> QED BY <1>1, <1>2, <3>1, PieceIs
  <2> QED BY <1>2, <2>1, <2>2, <2>3 DEF PayloadSize
<1> QED BY <1>3, <1>4

\* OnReadInHandeShakeDoneState takes the chunk or waits for the rest of it.
LEMMA AtReads ==
    ASSUME NEW s, NEW m, NEW n, NEW i, NEW x, NEW y, At(s, m, n, i, x, y)
    PROVE  OnReadInHandeShakeDoneState(s)
               = IF Len(s.buffer) < FrontSize(i) + Size(m, i) THEN s
                 ELSE StoreChunk(s, FormatAt(i), Csid(m), ChunkCommon(m), FrontSize(i))
<1> DEFINE t == OnReadInHandeShakeDoneState(s)
           b == s.buffer
           c == ChunkCommon(m)
           f == FrontSize(i)
           z == Size(m, i)
           o == FormatAt(i)
           id == MessageId(Csid(m), c.stream_id)
<1>1. m \in Message /\ n \in Nat /\ i \in Nat /\ i < Count(m) /\ b \in Seq(Token) /\ Knows(s, m, n, i)
  BY DEF At, Ready
<1>2. f \in Nat /\ f >= 1 /\ z \in Nat /\ z >= 1 /\ Len(b) \in Nat
  BY <1>1, AtHolds
<1>3. id = Id(m) /\ PayloadSize(s, id, c) = z
  BY AtSize DEF ChunkCommon, MessageId, Id
<1>4. o # 0 => Csid(m) \in DOMAIN s.commons /\ id \in DOMAIN s.previous
  BY <1>1, <1>3 DEF FormatAt, Knows
<1>5. CASE b = <<>>
  <2>1. t = s
    BY <1>5 DEF OnReadInHandeShakeDoneState
  <2>2. Len(b) < f + z
    <3>1. Len(b) = 0
      BY <1>5
    <3> HIDE DEF f, z, b
    <3> QED BY <1>2, <3>1
  <2> QED BY <2>1, <2>2
<1>6. CASE b # <<>>
  <2>1. /\ Head(b).format = o /\ Head(b).csid = Csid(m)
        /\ HeaderSize(s) = IF Len(b) < f THEN 0 ELSE f
        /\ Len(b) >= f => Common(s, o, Csid(m)) = c
    BY <1>6, AtHeader
  <2>2. t = IF o # 3 /\ HeaderSize(s) = 0 THEN s
            ELSE IF o # 0 /\ Csid(m) \notin DOMAIN s.commons THEN Fail(s)
            ELSE IF HeaderSize(s) = 0 THEN s
            ELSE ReadChunk(s, o, Csid(m), HeaderSize(s))
    BY <1>6, <2>1 DEF OnReadInHandeShakeDoneState
  <2> HIDE DEF t, b, c, f, z, o
  <2>3. CASE Len(b) < f
    <3>1. t = s
      BY <1>4, <2>1, <2>2, <2>3
    <3>2. Len(b) < f + z
      BY <1>2, <2>3
    <3> QED BY <3>1, <3>2 DEF t, b, f, z
  <2>4. CASE ~ (Len(b) < f)
    <3>1. Len(b) >= f /\ f # 0
      BY <1>2, <2>4
    <3>2. t = ReadChunk(s, o, Csid(m), f) /\ Common(s, o, Csid(m)) = c
      BY <1>4, <2>1, <2>2, <2>4, <3>1
    <3>3. t = IF Len(b) < f + z THEN s ELSE StoreChunk(s, o, Csid(m), c, f)
      BY <1>3, <1>4, <3>2 DEF ReadChunk, b
    <3> QED BY <3>3 DEF t, b, c, f, z, o
  <2> QED BY <2>3, <2>4
<1> QED BY <1>5, <1>6

\* The session t took the chunk from s.
Took(s, t, m, n, i, x, y) ==
    /\ DOMAIN t = SessionFields
    /\ t.open = TRUE
    /\ t.state = s.state
    /\ t.buffer \in Seq(Token)
    /\ Len(t.buffer) < Len(s.buffer)
    /\ t.buffer \o x = y
    /\ IF i + 1 = Count(m) THEN DOMAIN t.reading = {} /\ t.handled = <<Begun(m, n, m.length)>>
       ELSE Knows(t, m, n, i + 1) /\ t.handled = <<>>

\* The payload of the chunk in the buffer.
LEMMA AtPayload ==
    ASSUME NEW s, NEW m, NEW n, NEW i, NEW x, NEW y, At(s, m, n, i, x, y),
           Len(s.buffer) >= FrontSize(i) + Size(m, i)
    PROVE  SubSeq(s.buffer, FrontSize(i) + 1, FrontSize(i) + Size(m, i))
               = Piece(n, i * ChunkSize, End(m, i + 1))
<1> DEFINE b == s.buffer
           f == FrontSize(i)
           z == Size(m, i)
           q == i * ChunkSize
           e == End(m, i + 1)
           p == Piece(n, q, e)
           w == SubSeq(b, f + 1, f + z)
<1>1. m \in Message /\ n \in Nat /\ i \in Nat /\ i < Count(m) /\ b \in Seq(Token)
  BY DEF At, Ready
<1>2. f \in Nat /\ f >= 1 /\ z \in Nat /\ z >= 1 /\ Len(b) \in Nat /\ Len(b) >= f + z
      /\ \A k \in 1..Len(b) : k > f /\ k <= f + z => b[k] = Unit(n, q + (k - f))
  BY <1>1, AtHolds
<1>3. q \in Nat /\ e \in Nat /\ q < e /\ z = e - q
  BY <1>1, ChunkEnds DEF Size
<1> HIDE DEF b, f, z, q, e, p
<1>4. p \in Seq(Token) /\ Len(p) = z /\ \A k \in 1..z : p[k] = Unit(n, q + k)
  <2>1. q <= e
    BY <1>3
  <2> QED BY <1>1, <1>3, <2>1, PieceIs DEF p
<1>5. w \in Seq(Token) /\ Len(w) = z /\ \A k \in 1..z : w[k] = b[f + k]
  <2>1. f + 1 \in Int /\ f + z \in Int /\ f + 1 <= f + z /\ (f + z) - (f + 1) + 1 = z
        /\ \A k \in 1..z : (f + 1) + k - 1 = f + k
    BY <1>2
  <2>2. \A k \in (f + 1)..(f + z) : b[k] \in Token
    <3>1. \A k \in (f + 1)..(f + z) : k \in 1..Len(b)
      BY <1>2
    <3> QED BY <1>1, <3>1
  <2>3. /\ w \in Seq(Token)
        /\ Len(w) = IF f + 1 <= f + z THEN (f + z) - (f + 1) + 1 ELSE 0
        /\ \A k \in 1..((f + z) - (f + 1) + 1) : w[k] = b[(f + 1) + k - 1]
    BY <2>1, <2>2, SubSeqProperties
  <2> HIDE DEF w
  <2> QED BY <2>1, <2>3
<1> HIDE DEF w
<1>6. ASSUME NEW k \in 1..z PROVE p[k] = w[k]
  <2>1. f + k \in 1..Len(b) /\ f + k > f /\ f + k <= f + z /\ (f + k) - f = k
    BY <1>2
  <2>2. b[f + k] = Unit(n, q + ((f + k) - f))
    BY <1>2, <2>1
  <2> QED BY <1>4, <1>5, <2>1, <2>2
<1>7. w = p
  BY <1>4, <1>5, <1>6, SequencesSame DEF SameUpTo
<1> QED BY <1>7 DEF w, p, b, f, z, q, e

\* The message under the key id once size more tokens have joined it.
Joining(s, m, i, id, size) ==
    LET c == ChunkCommon(m)
        start == IF id \in DOMAIN s.reading THEN s.reading[id]
                 ELSE [type |-> c.type, timestamp |-> MessageTimestamp(s, FormatAt(i), id, c),
                       stream_id |-> c.stream_id, length |-> c.length, payload |-> <<>>]
        part == SubSeq(s.buffer, FrontSize(i) + 1, FrontSize(i) + size)
    IN  [start EXCEPT !.payload = @ \o part]

\* With the chunk, the first units of the message are whole up to where it ends.
LEMMA AtMessage ==
    ASSUME NEW s, NEW m, NEW n, NEW i, NEW x, NEW y, At(s, m, n, i, x, y),
           Len(s.buffer) >= FrontSize(i) + Size(m, i)
    PROVE  /\ Joining(s, m, i, Id(m), Size(m, i)) = Begun(m, n, End(m, i + 1))
           /\ Len(Begun(m, n, End(m, i + 1)).payload) = End(m, i + 1)
<1> DEFINE c == ChunkCommon(m)
           start == IF Id(m) \in DOMAIN s.reading THEN s.reading[Id(m)]
                    ELSE [type |-> c.type, timestamp |-> MessageTimestamp(s, FormatAt(i), Id(m), c),
                          stream_id |-> c.stream_id, length |-> c.length, payload |-> <<>>]
           part == SubSeq(s.buffer, FrontSize(i) + 1, FrontSize(i) + Size(m, i))
           q == i * ChunkSize
           e == End(m, i + 1)
<1>1. m \in Message /\ n \in Nat /\ i \in Nat /\ i < Count(m) /\ Knows(s, m, n, i)
  BY DEF At
<1>2. q \in Nat /\ e \in Nat /\ q < e
  BY <1>1, ChunkEnds
<1>3. part = Piece(n, q, e)
  BY AtPayload
<1>4. q <= e /\ 0 \in Nat /\ 0 <= e /\ e - 0 = e
  <2> HIDE DEF q, e
  <2> QED BY <1>2
<1>5. start = Begun(m, n, q)
  <2>1. CASE i = 0
    <3>1. Id(m) \notin DOMAIN s.reading /\ FormatAt(i) = 0
      BY <1>1, <2>1 DEF Knows, FormatAt
    <3>2. q = 0
      <4>1. \A k \in Nat : 0 * k = 0
        OBVIOUS
      <4>2. ChunkSize \in Nat
        BY <1>1, ChunkEnds
      <4> QED BY <2>1, <4>1, <4>2
    <3>3. Piece(n, 0, 0) = <<>>
      <4>1. 0 \in Nat /\ 0 <= 0 /\ 0 - 0 = 0
        OBVIOUS
      <4>2. Piece(n, 0, 0) \in Seq(Token) /\ Len(Piece(n, 0, 0)) = 0
        BY <1>1, <4>1, PieceIs
      <4> QED BY <4>2
    <3>4. MessageTimestamp(s, 0, Id(m), c) = 0
      BY DEF MessageTimestamp, ChunkCommon
    <3> QED BY <3>1, <3>2, <3>3, <3>4 DEF Begun, ChunkCommon
  <2>2. CASE i # 0
    BY <1>1, <2>2 DEF Knows
  <2> QED BY <2>1, <2>2
<1>6. Piece(n, 0, q) \o Piece(n, q, e) = Piece(n, 0, e)
  <2> HIDE DEF q, e
  <2> QED BY <1>1, <1>2, <1>4, PieceJoin
<1> HIDE DEF start, part, q, e
<1>7. [start EXCEPT !.payload = @ \o part] = Begun(m, n, e)
  <2> DEFINE w == Piece(n, 0, e)
             v == Piece(n, 0, q)
  <2>1. start.payload = v
    BY <1>5 DEF Begun
  <2>2. start.payload \o part = w
    BY <1>3, <1>6, <2>1
  <2>3. Begun(m, n, q) = [type |-> m.type, timestamp |-> 0, stream_id |-> 0, length |-> m.length, payload |-> v]
        /\ Begun(m, n, e) = [type |-> m.type, timestamp |-> 0, stream_id |-> 0, length |-> m.length, payload |-> w]
    BY DEF Begun
  <2> HIDE DEF v, w
  <2>4. [start EXCEPT !.payload = w] = Begun(m, n, e)
    BY <1>5, <2>3
  <2>5. [start EXCEPT !.payload = @ \o part] = [start EXCEPT !.payload = w]
    BY <2>2
  <2> QED BY <2>4, <2>5
<1>8. Len(Begun(m, n, e).payload) = e
  BY <1>1, <1>2, <1>4, PieceIs DEF Begun
<1> QED BY <1>7, <1>8 DEF start, part, e, Joining

\* StoreChunk.
LEMMA AtTakes ==
    ASSUME NEW s, NEW m, NEW n, NEW i, NEW x, NEW y, At(s, m, n, i, x, y),
           Len(s.buffer) >= FrontSize(i) + Size(m, i)
    PROVE  Took(s, StoreChunk(s, FormatAt(i), Csid(m), ChunkCommon(m), FrontSize(i)), m, n, i, x, y)
<1> DEFINE c == ChunkCommon(m)
           o == FormatAt(i)
           id == MessageId(Csid(m), c.stream_id)
           f == FrontSize(i)
           z == PayloadSize(s, id, c)
           e == End(m, i + 1)
           b == s.buffer
           stamp == MessageTimestamp(s, o, id, c)
           start == IF id \in DOMAIN s.reading THEN s.reading[id]
                    ELSE [type |-> c.type, timestamp |-> stamp,
                          stream_id |-> c.stream_id, length |-> c.length, payload |-> <<>>]
           msg == [start EXCEPT !.payload = @ \o SubSeq(s.buffer, f + 1, f + z)]
           done == Len(msg.payload) = msg.length
           t == StoreChunk(s, o, Csid(m), c, f)
           cut == Consume(s, f + z)
<1>1. /\ m \in Message /\ n \in Nat /\ i \in Nat /\ i < Count(m) /\ b \in Seq(Token) /\ Knows(s, m, n, i)
      /\ x \in Seq(Token) /\ y \in Seq(Token) /\ b \o x = Chunk(m, n, i + 1) \o y
      /\ DOMAIN s = SessionFields /\ s.open = TRUE /\ s.handled = <<>>
  BY DEF At, Ready
<1>2. id = Id(m) /\ z = Size(m, i)
  BY AtSize DEF ChunkCommon, MessageId, Id
<1>3. msg = Begun(m, n, e) /\ Len(Begun(m, n, e).payload) = e
  <2>1. Joining(s, m, i, Id(m), Size(m, i)) = Begun(m, n, e) /\ Len(Begun(m, n, e).payload) = e
    BY AtMessage
  <2>2. msg = Joining(s, m, i, id, z)
    BY DEF Joining
  <2> HIDE DEF id, z, msg, e
  <2>3. Joining(s, m, i, id, z) = Joining(s, m, i, Id(m), Size(m, i))
    BY <1>2
  <2> QED BY <2>1, <2>2, <2>3
<1>4. done = (e = m.length)
  BY <1>3 DEF Begun
<1> HIDE DEF z, id
<1>5. t = [cut EXCEPT
             !.commons = Put(@, Csid(m), c),
             !.previous = PreviousAfter(s, id, o, done, stamp),
             !.reading = ReadingAfter(s, id, done, msg),
             !.handled = IF done THEN Append(@, msg) ELSE @]
  BY DEF StoreChunk, z, id
<1> HIDE DEF stamp, start, msg, done, t, c, e
<1>6. /\ DOMAIN cut = SessionFields /\ cut.open = TRUE /\ cut.state = s.state /\ cut.handled = <<>>
      /\ cut.buffer = SubSeq(b, (f + z) + 1, Len(b))
      /\ cut.commons = s.commons
  BY <1>1 DEF Consume, SessionFields
<1> HIDE DEF cut, f, b, o
<1>7. /\ DOMAIN t = SessionFields /\ t.open = TRUE /\ t.state = s.state
      /\ t.buffer = SubSeq(b, (f + z) + 1, Len(b))
      /\ t.commons = Put(s.commons, Csid(m), c)
      /\ t.previous = PreviousAfter(s, id, o, done, stamp)
      /\ t.reading = ReadingAfter(s, id, done, msg)
      /\ t.handled = IF done THEN Append(<<>>, msg) ELSE <<>>
  BY <1>5, <1>6 DEF SessionFields
<1> DEFINE h == Chunk(m, n, i + 1)
<1>8. /\ f \in Nat /\ f >= 1 /\ z \in Nat /\ z >= 1 /\ h \in Seq(Token) /\ Len(h) = f + z
      /\ Len(b) \in Nat /\ Len(b) >= f + z
  BY <1>1, <1>2, AtHolds DEF f, b
<1> HIDE DEF h
<1>9. t.buffer \in Seq(Token) /\ Len(t.buffer) < Len(b)
  <2>1. f + z \in Nat /\ f + z <= Len(b)
    BY <1>8
  <2>2. SubSeq(b, (f + z) + 1, Len(b)) \in Seq(Token) /\ Len(SubSeq(b, (f + z) + 1, Len(b))) = Len(b) - (f + z)
    BY <1>1, <2>1, RestIs
  <2> QED BY <1>7, <1>8, <2>2
<1>10. t.buffer \o x = y
  <2>1. b \o x = h \o y /\ Len(h) <= Len(b)
    BY <1>1, <1>8 DEF h
  <2>2. SubSeq(b, Len(h) + 1, Len(b)) \o x = y
    BY <1>1, <1>8, <2>1, FrontTaken
  <2> QED BY <1>7, <1>8, <2>2
<1>11. DOMAIN s.reading \subseteq {id}
  BY <1>1, <1>2 DEF Knows
<1>12. done = (i + 1 = Count(m))
  <2>1. e = m.length <=> i + 1 = Count(m)
    BY <1>1, ChunkEnds DEF e
  <2> QED BY <1>4, <2>1
<1>13. CASE i + 1 = Count(m)
  <2>1. done /\ e = m.length
    BY <1>4, <1>12, <1>13
  <2>2. t.reading = Erase(s.reading, id)
    BY <1>7, <2>1 DEF ReadingAfter
  <2>3. DOMAIN t.reading = {}
    BY <1>11, <2>2 DEF Erase
  <2>4. t.handled = <<Begun(m, n, m.length)>>
    BY <1>3, <1>7, <2>1
  <2> QED BY <1>7, <1>9, <1>10, <1>13, <2>3, <2>4 DEF Took, t, c, o, f, b
<1>14. CASE i + 1 # Count(m)
  <2>1. ~ done /\ t.handled = <<>>
    BY <1>7, <1>12, <1>14
  <2>2. t.reading = Put(s.reading, id, msg)
    BY <1>7, <2>1 DEF ReadingAfter
  <2>3. DOMAIN t.reading = {id} /\ t.reading[id] = msg
    BY <1>11, <2>2 DEF Put
  <2>4. id \in DOMAIN t.previous
    <3>1. CASE i = 0
      <4>1. o = 0
        BY <3>1 DEF FormatAt, o
      <4>2. t.previous = Put(s.previous, id, stamp)
        BY <1>7, <4>1 DEF PreviousAfter
      <4> QED BY <4>2 DEF Put
    <3>2. CASE i # 0
      <4>1. o = 3
        BY <3>2 DEF FormatAt, o
      <4>2. t.previous = s.previous
        BY <1>7, <2>1, <4>1 DEF PreviousAfter
      <4> QED BY <1>1, <1>2, <3>2, <4>2 DEF Knows
    <3> QED BY <3>1, <3>2
  <2>5. Csid(m) \in DOMAIN t.commons /\ t.commons[Csid(m)] = c
    BY <1>7 DEF Put
  <2>6. e = (i + 1) * ChunkSize
    BY <1>14 DEF End, e
  <2>7. i + 1 # 0
    BY <1>1
  <2>8. Knows(t, m, n, i + 1)
    BY <1>2, <1>3, <2>3, <2>4, <2>5, <2>6, <2>7 DEF Knows, c
  <2> QED BY <1>7, <1>9, <1>10, <1>14, <2>1, <2>8 DEF Took, t, c, o, f, b
<1> QED BY <1>13, <1>14

\* OnReadInHandeShakeDoneState at a chunk.
LEMMA AtMoves ==
    ASSUME NEW s, NEW m, NEW n, NEW i, NEW x, NEW y, At(s, m, n, i, x, y)
    PROVE  LET t == OnReadInHandeShakeDoneState(s)
               h == Len(Chunk(m, n, i + 1))
           IN  \/ Len(s.buffer) < h /\ t = s
               \/ Len(s.buffer) >= h /\ Took(s, t, m, n, i, x, y)
<1> DEFINE t == OnReadInHandeShakeDoneState(s)
           h == Len(Chunk(m, n, i + 1))
           f == FrontSize(i)
           z == Size(m, i)
<1>1. h = f + z /\ f \in Nat /\ z \in Nat
  BY AtHolds
<1>2. Len(s.buffer) \in Nat
  BY DEF At, Ready
<1>3. t = IF Len(s.buffer) < f + z THEN s
          ELSE StoreChunk(s, FormatAt(i), Csid(m), ChunkCommon(m), f)
  BY AtReads
<1>4. CASE Len(s.buffer) < h
  <2> HIDE DEF t, h
  <2> QED BY <1>1, <1>3, <1>4 DEF t, h
<1>5. CASE ~ (Len(s.buffer) < h)
  <2>1. Len(s.buffer) >= f + z
    <3> HIDE DEF f, z, h
    <3> QED BY <1>1, <1>2, <1>5
  <2>2. Took(s, StoreChunk(s, FormatAt(i), Csid(m), ChunkCommon(m), f), m, n, i, x, y)
    BY <2>1, AtTakes
  <2>3. Len(s.buffer) >= h
    BY <1>1, <2>1
  <2> QED BY <1>1, <1>3, <1>5, <2>2, <2>3
<1> QED BY <1>4, <1>5

-----------------------------------------------------------------------------
(* Messages at the front of the client's buffer *)

All(ms) == Serialized(ms, 0)

\* Of messages in their order.
LEMMA SerializedIs ==
    ASSUME NEW ms \in Seq(Message), NEW b \in Nat
    PROVE  /\ Serialized(ms, b) \in Seq(Seq(Token)) /\ Len(Serialized(ms, b)) = Len(ms)
           /\ \A i \in 1..Len(ms) : Serialized(ms, b)[i] = Serialize(ms[i], b + i)
<1> DEFINE n == Len(ms)
           ss == Serialized(ms, b)
<1>1. n \in Nat /\ \A i \in 1..n : ms[i] \in Message /\ b + i \in Nat
  OBVIOUS
<1>2. \A i \in 1..n : Serialize(ms[i], b + i) \in Seq(Token)
  BY <1>1, SerializeIs
<1>3. ss = [i \in 1..n |-> Serialize(ms[i], b + i)]
  BY DEF Serialized
<1> HIDE DEF n, ss
<1>4. ss \in [1..n -> Seq(Token)]
  BY <1>2, <1>3
<1>5. ss \in Seq(Seq(Token)) /\ Len(ss) = n
  BY <1>1, <1>4
<1> QED BY <1>3, <1>5 DEF n, ss

\* No message is read in part, and what comes are those behind the j-th.
Between(s, ms, j, x) ==
    /\ DOMAIN s.reading = {}
    /\ s.buffer \o x = Later(All(ms), j)

\* The first i chunks of the message behind the j-th have been read.
Within(s, ms, j, x, i) ==
    /\ j < Len(ms) /\ i \in Nat /\ i # 0 /\ i < Count(ms[j + 1])
    /\ Knows(s, ms[j + 1], j + 1, i)
    /\ s.buffer \o x = Later(Chunks(ms[j + 1], j + 1), i) \o Later(All(ms), j + 1)

\* A session in whose buffer chunks begin, to which x comes, has handled the
\* first j of the messages ms.
Hears(s, ms, j, x) ==
    /\ Ready(s)
    /\ ms \in Seq(Message) /\ j \in Nat /\ j <= Len(ms) /\ x \in Seq(Token)
    /\ Between(s, ms, j, x) \/ \E i : Within(s, ms, j, x, i)

\* There is a chunk at the front, whether a first or a later one.
LEMMA HearsAt ==
    ASSUME NEW s, NEW ms, NEW j, NEW x, Hears(s, ms, j, x), j < Len(ms)
    PROVE  \E i \in Nat :
               At(s, ms[j + 1], j + 1, i, x, Later(Chunks(ms[j + 1], j + 1), i + 1) \o Later(All(ms), j + 1))
<1> DEFINE m == ms[j + 1]
           n == j + 1
           cs == Chunks(m, n)
           all == All(ms)
<1>1. ms \in Seq(Message) /\ j \in Nat /\ Ready(s) /\ x \in Seq(Token) /\ s.buffer \in Seq(Token)
  BY DEF Hears, Ready
<1>2. m \in Message /\ n \in Nat /\ n \in 1..Len(ms) /\ 0 + n = n
  BY <1>1
<1>3. all \in Seq(Seq(Token)) /\ Len(all) = Len(ms) /\ all[n] = Serialize(m, n)
  <2>1. all[n] = Serialize(m, 0 + n) /\ all \in Seq(Seq(Token)) /\ Len(all) = Len(ms)
    BY <1>1, <1>2, SerializedIs DEF All
  <2> QED BY <1>2, <2>1
<1>4. /\ cs \in Seq(Seq(Token)) /\ Len(cs) = Count(m)
      /\ \A i \in Nat : i < Count(m) => cs[i + 1] = Chunk(m, n, i + 1)
      /\ Serialize(m, n) = FlattenSeq(cs)
      /\ Count(m) \in Nat \ {0}
  BY <1>2, SerializeIs, ChunkEnds
<1>5. /\ Later(all, j) \in Seq(Token) /\ Later(all, n) \in Seq(Token)
      /\ Later(all, j) = Serialize(m, n) \o Later(all, n)
  <2> HIDE DEF all, m
  <2>1. j < Len(all)
    BY <1>3
  <2> QED BY <1>1, <1>3, <2>1, LaterFirst
<1> HIDE DEF m, n, cs, all
<1>6. ASSUME NEW i \in Nat, i < Count(m), Knows(s, m, n, i), s.buffer \o x = Later(cs, i) \o Later(all, n)
      PROVE  At(s, m, n, i, x, Later(cs, i + 1) \o Later(all, n))
  <2>1. /\ Later(cs, i) \in Seq(Token) /\ Later(cs, i + 1) \in Seq(Token) /\ cs[i + 1] \in Seq(Token)
        /\ Later(cs, i) = cs[i + 1] \o Later(cs, i + 1)
    BY <1>4, <1>6, LaterFirst
  <2> DEFINE a == cs[i + 1]
             b == Later(cs, i + 1)
             c == Later(all, n)
             d == Later(cs, i)
  <2>2. a \in Seq(Token) /\ b \in Seq(Token) /\ c \in Seq(Token) /\ d = a \o b /\ a = Chunk(m, n, i + 1)
        /\ s.buffer \o x = d \o c
    BY <1>4, <1>5, <1>6, <2>1
  <2> HIDE DEF a, b, c, d
  <2>3. Regroups(a, b, c)
    BY <2>2, AnyRegroups
  <2>4. s.buffer \o x = a \o (b \o c)
    BY ONLY <2>2, <2>3 DEF Regroups
  <2>5. b \o c \in Seq(Token)
    BY <2>2, ConcatProperties
  <2>6. At(s, m, n, i, x, b \o c)
    BY <1>1, <1>2, <1>6, <2>2, <2>4, <2>5 DEF At
  <2> QED BY <2>6 DEF b, c
<1>7. \E i \in Nat : i < Count(m) /\ Knows(s, m, n, i) /\ s.buffer \o x = Later(cs, i) \o Later(all, n)
  <2>1. CASE Between(s, ms, j, x)
    <3>1. 0 \in Nat /\ 0 < Count(m)
      BY <1>4
    <3>2. Knows(s, m, n, 0)
      BY <2>1 DEF Between, Knows
    <3>3. s.buffer \o x = Serialize(m, n) \o Later(all, n)
      BY <1>5, <2>1 DEF Between, all
    <3>4. Later(cs, 0) = Serialize(m, n)
      BY <1>4, LaterAll
    <3>5. s.buffer \o x = Later(cs, 0) \o Later(all, n)
      BY <3>3, <3>4
    <3> QED BY <3>1, <3>2, <3>5
  <2>2. CASE \E i : Within(s, ms, j, x, i)
    BY <2>2 DEF Within, m, n, cs, all
  <2> QED BY <2>1, <2>2 DEF Hears
<1> QED BY <1>6, <1>7 DEF m, n, cs, all

Cleared(t) == [t EXCEPT !.handled = <<>>]

\* The whole message number n.
Entire(m, n) == Begun(m, n, m.length)

\* Reading made t of the session s: it waits, or took some more.
Moves(s, t, ms, j, x) ==
    \/ t = s /\ (x = <<>> => j = Len(ms))
    \/ /\ DOMAIN t = SessionFields /\ t.state = s.state /\ Len(t.buffer) < Len(s.buffer)
       /\ \/ t.handled = <<>> /\ Hears(Cleared(t), ms, j, x)
          \/ j < Len(ms) /\ t.handled = <<Entire(ms[j + 1], j + 1)>> /\ Hears(Cleared(t), ms, j + 1, x)

LEMMA HearsMoves ==
    ASSUME NEW s, NEW ms, NEW j, NEW x, Hears(s, ms, j, x)
    PROVE  Moves(s, OnReadInHandeShakeDoneState(s), ms, j, x)
<1> DEFINE t == OnReadInHandeShakeDoneState(s)
           b == s.buffer
           u == Cleared(t)
<1>1. ms \in Seq(Message) /\ j \in Nat /\ j <= Len(ms) /\ Ready(s) /\ x \in Seq(Token) /\ b \in Seq(Token) /\ Len(ms) \in Nat
  BY DEF Hears, Ready
<1>2. All(ms) \in Seq(Seq(Token)) /\ Len(All(ms)) = Len(ms)
  <2>1. 0 \in Nat
    OBVIOUS
  <2> QED BY <1>1, <2>1, SerializedIs DEF All
<1>3. CASE ~ (j < Len(ms))
  <2>1. j = Len(ms)
    BY <1>1, <1>3
  <2>2. Between(s, ms, j, x)
    <3>1. ASSUME NEW i PROVE ~ Within(s, ms, j, x, i)
      BY <1>3 DEF Within
    <3> QED BY <3>1 DEF Hears
  <2>3. b \o x = <<>>
    <3>1. Later(All(ms), Len(All(ms))) = <<>>
      BY <1>2, LaterNone
    <3> QED BY <1>2, <2>1, <2>2, <3>1 DEF Between
  <2>4. b = <<>>
    <3>1. Len(b \o x) = Len(b) + Len(x) /\ Len(b) \in Nat /\ Len(x) \in Nat
      BY <1>1, ConcatProperties
    <3>2. Len(b) = 0
      BY <2>3, <3>1
    <3> QED BY <1>1, <3>2
  <2>5. t = s
    BY <2>4 DEF OnReadInHandeShakeDoneState
  <2> QED BY <2>1, <2>5 DEF Moves
<1>4. CASE j < Len(ms)
  <2> DEFINE m == ms[j + 1]
             n == j + 1
             later == Later(All(ms), n)
             y(i) == Later(Chunks(m, n), i + 1) \o later
  <2>1. PICK i \in Nat : At(s, m, n, i, x, y(i))
    BY <1>4, HearsAt
  <2> DEFINE h == Chunk(m, n, i + 1)
  <2>2. /\ m \in Message /\ n \in Nat /\ i < Count(m) /\ y(i) \in Seq(Token) /\ b \o x = h \o y(i)
        /\ n <= Len(ms) /\ Count(m) \in Nat /\ i + 1 \in Nat
    BY <1>1, <1>4, <2>1, ChunkEnds DEF At
  <2>3. h \in Seq(Token)
    BY <2>1, AtHolds
  <2>4. Chunks(m, n) \in Seq(Seq(Token)) /\ Len(Chunks(m, n)) = Count(m)
    BY <2>2, SerializeIs
  <2>5. \/ Len(b) < Len(h) /\ t = s
        \/ Len(b) >= Len(h) /\ Took(s, t, m, n, i, x, y(i))
    BY <2>1, AtMoves
  <2>6. CASE Len(b) < Len(h) /\ t = s
    <3> SUFFICES ASSUME x = <<>> PROVE FALSE
      BY <2>6 DEF Moves
    <3> HIDE DEF h, b, y
    <3>1. Len(b \o x) = Len(b) + Len(x) /\ Len(x) = 0 /\ Len(b) \in Nat
      BY <1>1, ConcatProperties
    <3>2. Len(h \o y(i)) = Len(h) + Len(y(i)) /\ Len(h) \in Nat /\ Len(y(i)) \in Nat
      BY <2>2, <2>3, ConcatProperties
    <3> QED BY <2>2, <2>6, <3>1, <3>2
  <2>7. CASE Took(s, t, m, n, i, x, y(i))
    <3> HIDE DEF t, h, b
    <3>1. /\ DOMAIN t = SessionFields /\ t.open = TRUE /\ t.state = s.state
          /\ t.buffer \in Seq(Token) /\ Len(t.buffer) < Len(s.buffer) /\ t.buffer \o x = y(i)
      BY <2>7 DEF Took
    <3>2. /\ DOMAIN u = SessionFields /\ u.open = TRUE /\ u.handled = <<>> /\ u.buffer = t.buffer
          /\ u.reading = t.reading /\ u.commons = t.commons /\ u.previous = t.previous
      BY <3>1 DEF Cleared, SessionFields
    <3> HIDE DEF u
    <3>3. Ready(u) /\ u.buffer \o x = y(i)
      BY <3>1, <3>2 DEF Ready
    <3>4. CASE i + 1 = Count(m)
      <4>1. DOMAIN u.reading = {} /\ t.handled = <<Entire(m, n)>>
        BY <2>7, <3>2, <3>4 DEF Took, Entire
      <4>2. later \in Seq(Token)
        <5>1. FlattenSeq(SubSeq(All(ms), n + 1, Len(All(ms)))) \in Seq(Token)
          <6> DEFINE T == Seq(Token)
          <6>1. All(ms) \in Seq(T) /\ n <= Len(All(ms))
            BY <1>2, <2>2
          <6> HIDE DEF T
          <6>2. SubSeq(All(ms), n + 1, Len(All(ms))) \in Seq(T)
            BY <2>2, <6>1, RestIs
          <6> QED BY <6>2, FlattenType DEF T
        <5> QED BY <5>1 DEF Later
      <4>3. y(i) = later
        <5>1. Later(Chunks(m, n), Len(Chunks(m, n))) = <<>>
          BY <2>4, LaterNone
        <5>2. Later(Chunks(m, n), i + 1) = <<>>
          BY <2>4, <3>4, <5>1
        <5> HIDE DEF later
        <5>3. <<>> \o later = later
          BY <4>2, ConcatEmptySeq
        <5> QED BY <5>2, <5>3
      <4>4. Between(u, ms, n, x)
        BY <3>3, <4>1, <4>3 DEF Between
      <4>5. Hears(u, ms, n, x)
        BY <1>1, <2>2, <3>3, <4>4 DEF Hears
      <4> QED BY <1>4, <3>1, <4>1, <4>5 DEF Moves, u, t
    <3>5. CASE i + 1 # Count(m)
      <4>1. Knows(t, m, n, i + 1) /\ t.handled = <<>>
        BY <2>7, <3>5 DEF Took
      <4>2. Knows(u, m, n, i + 1)
        BY <3>2, <4>1 DEF Knows
      <4>3. i + 1 # 0 /\ i + 1 < Count(m)
        BY <2>2, <3>5
      <4>4. Within(u, ms, j, x, i + 1)
        BY <1>4, <2>2, <3>3, <4>2, <4>3 DEF Within
      <4>5. Hears(u, ms, j, x)
        BY <1>1, <3>3, <4>4 DEF Hears
      <4> QED BY <3>1, <4>1, <4>5 DEF Moves, u, t
    <3> QED BY <3>4, <3>5
  <2> QED BY <2>5, <2>6, <2>7
<1> QED BY <1>3, <1>4

-----------------------------------------------------------------------------
(* The client reads on from wherever it is *)

States == {"UNINTIALIZED", "VERSION_SENT", "ACK_SENT", "HANDESHAKE_DONE"}

\* The tokens of the handshake a client still reads.
Awaited(state) ==
    IF state = "UNINTIALIZED" THEN 1 + (C1Size + C2Size)
    ELSE IF state = "VERSION_SENT" THEN C1Size + C2Size
    ELSE IF state = "ACK_SENT" THEN C2Size
    ELSE 0

\* What the server still owes of them it has not written, and before it has
\* written them all it sends no message.
Greets(s, ms, x, o) ==
    /\ Ready(s) /\ s.state \in States /\ DOMAIN s.reading = {}
    /\ ms \in Seq(Message) /\ x \in Seq(Token) /\ o \in Nat
    /\ ms # <<>> => o = 0
    /\ \E g \in Seq(Token) : /\ Len(g) + o = Awaited(s.state)
                             /\ s.buffer \o x = g \o Later(All(ms), 0)

\* A client that has handled the first j of the messages ms.
Client(s, ms, j, x, o) ==
    \/ s.state # "HANDESHAKE_DONE" /\ j = 0 /\ Greets(s, ms, x, o)
    \/ s.state = "HANDESHAKE_DONE" /\ o = 0 /\ Hears(s, ms, j, x)

\* OnRead made t of the client s: it waits, or took some more.
Turns(s, t, ms, j, x, o) ==
    \/ t = s /\ (x = <<>> => j = Len(ms))
    \/ /\ DOMAIN t = SessionFields /\ Len(t.buffer) < Len(s.buffer)
       /\ \/ t.handled = <<>> /\ Client(Cleared(t), ms, j, x, o)
          \/ j < Len(ms) /\ t.handled = <<Entire(ms[j + 1], j + 1)>> /\ Client(Cleared(t), ms, j + 1, x, o)

LEMMA Sizes == C1Size \in Nat \ {0} /\ C2Size \in Nat \ {0} /\ \A st : Awaited(st) \in Nat
  BY CodecAssumption DEF CodecAssumption, Awaited

\* All that is sent, behind the handshake.
LEMMA AllIs ==
    ASSUME NEW ms \in Seq(Message)
    PROVE  /\ All(ms) \in Seq(Seq(Token)) /\ Len(All(ms)) = Len(ms)
           /\ Later(All(ms), 0) = FlattenSeq(All(ms))
           /\ Later(All(ms), 0) \in Seq(Token)
           /\ ms = <<>> => Later(All(ms), 0) = <<>>
<1>1. 0 \in Nat
  OBVIOUS
<1>2. All(ms) \in Seq(Seq(Token)) /\ Len(All(ms)) = Len(ms)
  BY <1>1, SerializedIs DEF All
<1>3. Later(All(ms), 0) = FlattenSeq(All(ms))
  BY <1>2, LaterAll
<1>4. FlattenSeq(All(ms)) \in Seq(Token)
  BY <1>2, FlattenType
<1>5. ms = <<>> => All(ms) = <<>>
  BY <1>2
<1> QED BY <1>2, <1>3, <1>4, <1>5, FlattenNone

\* Behind the handshake the messages begin.
LEMMA GreetsDone ==
    ASSUME NEW s, NEW ms, NEW x, NEW o, Greets(s, ms, x, o), s.state = "HANDESHAKE_DONE"
    PROVE  o = 0 /\ Hears(s, ms, 0, x)
<1>1. PICK g \in Seq(Token) : Len(g) + o = Awaited(s.state) /\ s.buffer \o x = g \o Later(All(ms), 0)
  BY DEF Greets
<1>2. Awaited(s.state) = 0
  BY DEF Awaited
<1>3. Len(g) \in Nat /\ o \in Nat
  BY DEF Greets
<1>4. Len(g) = 0 /\ o = 0
  BY <1>1, <1>2, <1>3
<1>5. ms \in Seq(Message) /\ Later(All(ms), 0) \in Seq(Token)
  BY AllIs DEF Greets
<1>6. <<>> \o Later(All(ms), 0) = Later(All(ms), 0)
  BY <1>5, ConcatEmptySeq
<1>7. g = <<>>
  BY <1>4
<1>8. Between(s, ms, 0, x)
  BY <1>1, <1>6, <1>7 DEF Between, Greets
<1>9. 0 \in Nat /\ 0 <= Len(ms)
  BY <1>5
<1> QED BY <1>4, <1>8, <1>9 DEF Hears, Greets

\* A piece of the handshake is taken.
LEMMA GreetsTakes ==
    ASSUME NEW s, NEW ms, NEW x, NEW o, Greets(s, ms, x, o), NEW c \in Nat \ {0}, NEW st \in States,
           Len(s.buffer) >= c, Awaited(s.state) = c + Awaited(st)
    PROVE  LET t == [Consume(s, c) EXCEPT !.state = st]
           IN  Greets(t, ms, x, o) /\ t.state = st /\ Len(t.buffer) < Len(s.buffer)
<1> DEFINE b == s.buffer
           l == Later(All(ms), 0)
           t == [Consume(s, c) EXCEPT !.state = st]
<1>1. PICK g \in Seq(Token) : Len(g) + o = Awaited(s.state) /\ b \o x = g \o l
  BY DEF Greets
<1>2. b \in Seq(Token) /\ x \in Seq(Token) /\ ms \in Seq(Message) /\ o \in Nat /\ Len(b) \in Nat
  BY DEF Greets, Ready
<1>3. l \in Seq(Token) /\ (ms = <<>> => l = <<>>)
  BY <1>2, AllIs
<1>4. Awaited(st) \in Nat
  BY Sizes
<1>5. /\ DOMAIN t = SessionFields /\ t.open = TRUE /\ t.handled = <<>> /\ t.state = st
      /\ t.buffer = SubSeq(b, c + 1, Len(b)) /\ t.reading = s.reading
  BY DEF Greets, Ready, Consume, SessionFields
<1> HIDE DEF b, l, t
<1>6. Len(b \o x) = Len(b) + Len(x) /\ Len(g \o l) = Len(g) + Len(l) /\ Len(x) \in Nat /\ Len(l) \in Nat /\ Len(g) \in Nat
  BY <1>2, <1>3, ConcatProperties
<1>7. c <= Len(g)
  <2>1. CASE o = 0
    <3> DEFINE a == Awaited(st)
    <3>1. Len(g) + 0 = c + a /\ a \in Nat
      BY <1>1, <1>4, <2>1
    <3> HIDE DEF a
    <3> QED BY <1>6, <3>1
  <2>2. CASE o # 0
    <3>1. Len(l) = 0
      BY <1>3, <2>2 DEF Greets
    <3>2. Len(g) = Len(b) + Len(x)
      BY <1>1, <1>6, <3>1
    <3> QED BY <1>2, <1>6, <3>2 DEF b
  <2> QED BY <2>1, <2>2
<1> DEFINE h == SubSeq(g, c + 1, Len(g))
<1>8. c \in Nat /\ c <= Len(b)
  BY <1>2 DEF b
<1>9. h \in Seq(Token) /\ Len(h) = Len(g) - c
  BY <1>7, <1>8, RestIs
<1>10. t.buffer \in Seq(Token) /\ Len(t.buffer) = Len(b) - c
  BY <1>2, <1>5, <1>8, RestIs
<1>11. t.buffer \o x = h \o l
  <2>1. SubSeq(b \o x, c + 1, Len(b \o x)) = SubSeq(b, c + 1, Len(b)) \o x
    BY <1>2, <1>8, RestMore
  <2>2. SubSeq(g \o l, c + 1, Len(g \o l)) = h \o l
    BY <1>3, <1>7, <1>8, RestMore
  <2> QED BY <1>1, <1>5, <2>1, <2>2
<1> HIDE DEF h
<1>12. Len(h) + o = Awaited(t.state)
  <2> DEFINE a == Awaited(st)
             k == Len(g)
             n == Len(h)
  <2>1. k + o = c + a /\ n = k - c /\ a \in Nat /\ k \in Nat /\ o \in Nat
    BY <1>1, <1>2, <1>4, <1>6, <1>9
  <2> HIDE DEF a, k, n
  <2>2. n + o = a
    BY <2>1
  <2> QED BY <1>5, <2>2 DEF a, n
<1>13. Len(t.buffer) < Len(b)
  BY <1>2, <1>10
<1>14. Greets(t, ms, x, o)
  <2>1. Ready(t)
    BY <1>5, <1>10 DEF Ready
  <2>2. DOMAIN t.reading = {} /\ t.state \in States /\ (ms # <<>> => o = 0)
    BY <1>5 DEF Greets
  <2>3. \E k \in Seq(Token) : Len(k) + o = Awaited(t.state) /\ t.buffer \o x = k \o Later(All(ms), 0)
    BY <1>9, <1>11, <1>12 DEF l
  <2> QED BY <1>2, <2>1, <2>2, <2>3 DEF Greets
<1> QED BY <1>5, <1>13, <1>14 DEF t, b

\* When a piece of the handshake has not come, the client waits for it.
LEMMA GreetsWaits ==
    ASSUME NEW s, NEW ms, NEW x, NEW o, Greets(s, ms, x, o), NEW c \in Nat, c <= Awaited(s.state), Len(s.buffer) < c
    PROVE  Turns(s, s, ms, 0, x, o)
<1> DEFINE b == s.buffer
           l == Later(All(ms), 0)
           a == Awaited(s.state)
<1>1. PICK g \in Seq(Token) : Len(g) + o = a /\ b \o x = g \o l
  BY DEF Greets
<1>2. b \in Seq(Token) /\ x \in Seq(Token) /\ ms \in Seq(Message) /\ Len(b) \in Nat /\ a \in Nat
  BY Sizes DEF Greets, Ready
<1>3. l \in Seq(Token)
  BY <1>2, AllIs
<1> SUFFICES ASSUME x = <<>> PROVE ms = <<>>
  BY DEF Turns
<1> SUFFICES ASSUME ms # <<>> PROVE FALSE
  OBVIOUS
<1>4. o = 0
  BY DEF Greets
<1>5. c <= a /\ Len(b) < c
  OBVIOUS
<1> HIDE DEF b, l, a
<1>6. Len(b \o x) = Len(b) + Len(x) /\ Len(g \o l) = Len(g) + Len(l) /\ Len(x) = 0 /\ Len(l) \in Nat /\ Len(g) \in Nat
  BY <1>2, <1>3, ConcatProperties
<1> QED BY <1>1, <1>2, <1>4, <1>5, <1>6

\* What is said of a client is said of its fields; more may have come to it.
LEMMA ClientSame ==
    ASSUME NEW u, NEW v, NEW ms, NEW j, NEW x, NEW y, NEW o, Client(u, ms, j, x, o), DOMAIN v = SessionFields,
           v.state = u.state, v.open = u.open, v.handled = u.handled,
           v.reading = u.reading, v.commons = u.commons, v.previous = u.previous,
           v.buffer \in Seq(Token), y \in Seq(Token), v.buffer \o y = u.buffer \o x
    PROVE  Client(v, ms, j, y, o)
<1>1. Ready(u) => Ready(v)
  BY DEF Ready
<1>2. Greets(u, ms, x, o) => Greets(v, ms, y, o)
  BY <1>1 DEF Greets
<1>3. Between(u, ms, j, x) => Between(v, ms, j, y)
  BY DEF Between
<1>4. ASSUME NEW i, Within(u, ms, j, x, i) PROVE Within(v, ms, j, y, i)
  <2>1. Knows(u, ms[j + 1], j + 1, i) => Knows(v, ms[j + 1], j + 1, i)
    BY DEF Knows
  <2> QED BY <1>4, <2>1 DEF Within
<1>5. Hears(u, ms, j, x) => Hears(v, ms, j, y)
  BY <1>1, <1>3, <1>4 DEF Hears
<1> QED BY <1>2, <1>5 DEF Client

\* What comes to a client is of tokens.
LEMMA ClientIs ==
    ASSUME NEW s, NEW ms, NEW j, NEW x, NEW o, Client(s, ms, j, x, o)
    PROVE  Ready(s) /\ ms \in Seq(Message) /\ j \in Nat /\ j <= Len(ms) /\ x \in Seq(Token) /\ o \in Nat
           /\ (ms # <<>> => o = 0) /\ s.buffer \in Seq(Token)
<1>1. CASE Greets(s, ms, x, o) /\ j = 0
  <2>1. Len(ms) \in Nat /\ 0 <= Len(ms) /\ 0 \in Nat
    BY <1>1 DEF Greets
  <2> QED BY <1>1, <2>1 DEF Greets, Ready
<1>2. CASE Hears(s, ms, j, x) /\ o = 0
  BY <1>2 DEF Hears, Ready
<1> QED BY <1>1, <1>2 DEF Client

\* What was taken in part is taken.
LEMMA GoesOn ==
    ASSUME NEW s, NEW u, NEW t, NEW ms, NEW j, NEW x, NEW o, Ready(s), Ready(u), Client(u, ms, j, x, o),
           Len(u.buffer) < Len(s.buffer), Turns(u, t, ms, j, x, o)
    PROVE  Turns(s, t, ms, j, x, o)
<1>1. Len(u.buffer) \in Nat /\ Len(s.buffer) \in Nat
  BY DEF Ready
<1>2. CASE t = u
  <2>1. /\ DOMAIN Cleared(u) = SessionFields /\ Cleared(u).state = u.state /\ Cleared(u).open = u.open
        /\ Cleared(u).handled = u.handled /\ Cleared(u).buffer = u.buffer /\ Cleared(u).reading = u.reading
        /\ Cleared(u).commons = u.commons /\ Cleared(u).previous = u.previous
    BY DEF Cleared, Ready, SessionFields
  <2>2. u.buffer \in Seq(Token) /\ x \in Seq(Token)
    BY ClientIs
  <2>3. Client(Cleared(u), ms, j, x, o)
    BY <2>1, <2>2, ClientSame
  <2> QED BY <1>2, <2>3 DEF Turns, Ready
<1>3. CASE t # u
  <2>1. /\ DOMAIN t = SessionFields /\ Len(t.buffer) < Len(u.buffer)
        /\ \/ t.handled = <<>> /\ Client(Cleared(t), ms, j, x, o)
           \/ j < Len(ms) /\ t.handled = <<Entire(ms[j + 1], j + 1)>> /\ Client(Cleared(t), ms, j + 1, x, o)
    BY <1>3 DEF Turns
  <2>2. t.buffer \in Seq(Token)
    <3>1. \A k : Client(Cleared(t), ms, k, x, o) => Ready(Cleared(t))
      BY DEF Client, Greets, Hears
    <3>2. Cleared(t).buffer = t.buffer
      BY <2>1 DEF Cleared, SessionFields
    <3> QED BY <2>1, <3>1, <3>2 DEF Ready
  <2>3. Len(t.buffer) \in Nat
    BY <2>2
  <2>4. Len(t.buffer) < Len(s.buffer)
    BY <1>1, <2>1, <2>3
  <2> QED BY <2>1, <2>4 DEF Turns
<1> QED BY <1>2, <1>3

\* RTMPSession::OnRead.
LEMMA OnReadTurns ==
    ASSUME NEW s, NEW ms, NEW j, NEW x, NEW o, Client(s, ms, j, x, o)
    PROVE  Turns(s, OnRead(s), ms, j, x, o)
<1>0. C1Size \in Nat \ {0} /\ C2Size \in Nat \ {0}
  BY Sizes
<1>1. ASSUME NEW v, Hears(v, ms, j, x), v.state = "HANDESHAKE_DONE", o = 0
      PROVE  Turns(v, OnReadInHandeShakeDoneState(v), ms, j, x, o)
  <2> DEFINE t == OnReadInHandeShakeDoneState(v)
  <2>1. Moves(v, t, ms, j, x)
    BY <1>1, HearsMoves
  <2> HIDE DEF t
  <2>2. CASE t = v /\ (x = <<>> => j = Len(ms))
    BY <2>2 DEF Turns, t
  <2>3. CASE ~ (t = v /\ (x = <<>> => j = Len(ms)))
    <3>1. /\ DOMAIN t = SessionFields /\ t.state = v.state /\ Len(t.buffer) < Len(v.buffer)
          /\ \/ t.handled = <<>> /\ Hears(Cleared(t), ms, j, x)
             \/ j < Len(ms) /\ t.handled = <<Entire(ms[j + 1], j + 1)>> /\ Hears(Cleared(t), ms, j + 1, x)
      BY <2>1, <2>3 DEF Moves
    <3>2. Cleared(t).state = "HANDESHAKE_DONE"
      BY <1>1, <3>1 DEF Cleared, SessionFields
    <3>3. \A k : Hears(Cleared(t), ms, k, x) => Client(Cleared(t), ms, k, x, o)
      BY <1>1, <3>2 DEF Client
    <3> QED BY <3>1, <3>3 DEF Turns, t
  <2> QED BY <2>2, <2>3
<1>2. CASE s.state = "HANDESHAKE_DONE"
  <2>1. Hears(s, ms, j, x) /\ o = 0
    BY <1>2 DEF Client
  <2>2. OnRead(s) = OnReadInHandeShakeDoneState(s)
    BY <1>2 DEF OnRead
  <2> QED BY <1>1, <1>2, <2>1, <2>2
<1>3. CASE s.state # "HANDESHAKE_DONE"
  <2>0. j = 0 /\ Greets(s, ms, x, o)
    BY <1>3 DEF Client
  <2>1. ASSUME NEW v, Greets(v, ms, x, o), v.state = "ACK_SENT"
        PROVE  Turns(v, OnReadInAckSentState(v), ms, j, x, o)
    <3> DEFINE u == [Consume(v, C2Size) EXCEPT !.state = "HANDESHAKE_DONE"]
    <3>1. Awaited(v.state) = C2Size + 0 /\ Awaited("HANDESHAKE_DONE") = 0 /\ C2Size + 0 = C2Size
      BY <1>0, <2>1 DEF Awaited
    <3>2. Ready(v) /\ Len(v.buffer) \in Nat
      BY <2>1 DEF Greets, Ready
    <3>3. CASE Len(v.buffer) < C2Size
      <4>1. OnReadInAckSentState(v) = v
        BY <3>3 DEF OnReadInAckSentState
      <4>2. C2Size \in Nat /\ C2Size <= Awaited(v.state)
        BY <1>0, <3>1
      <4> QED BY <2>0, <2>1, <3>3, <4>1, <4>2, GreetsWaits
    <3>4. CASE ~ (Len(v.buffer) < C2Size)
      <4>1. Len(v.buffer) >= C2Size /\ "HANDESHAKE_DONE" \in States
        BY <1>0, <3>2, <3>4 DEF States
      <4>2. Greets(u, ms, x, o) /\ u.state = "HANDESHAKE_DONE" /\ Len(u.buffer) < Len(v.buffer)
        BY <1>0, <2>1, <3>1, <4>1, GreetsTakes
      <4>3. OnReadInAckSentState(v) = OnReadInHandeShakeDoneState(u)
        BY <3>4 DEF OnReadInAckSentState
      <4> HIDE DEF u
      <4>4. o = 0 /\ Hears(u, ms, j, x) /\ Client(u, ms, j, x, o) /\ Ready(u)
        <5>1. o = 0 /\ Hears(u, ms, 0, x)
          BY <4>2, GreetsDone
        <5>2. Ready(u)
          BY <5>1 DEF Hears
        <5> QED BY <2>0, <4>2, <5>1, <5>2 DEF Client
      <4>5. Turns(u, OnReadInHandeShakeDoneState(u), ms, j, x, o)
        BY <1>1, <4>2, <4>4
      <4> QED BY <3>2, <4>2, <4>3, <4>4, <4>5, GoesOn
    <3> QED BY <3>3, <3>4
  <2>2. ASSUME NEW v, Greets(v, ms, x, o), v.state = "VERSION_SENT"
        PROVE  Turns(v, OnReadInVersionSentState(v), ms, j, x, o)
    <3> DEFINE u == [Consume(v, C1Size) EXCEPT !.state = "ACK_SENT"]
    <3>1. Awaited(v.state) = C1Size + C2Size /\ Awaited("ACK_SENT") = C2Size
      BY <2>2 DEF Awaited
    <3>2. Ready(v) /\ Len(v.buffer) \in Nat
      BY <2>2 DEF Greets, Ready
    <3>3. CASE Len(v.buffer) < C1Size
      <4>1. OnReadInVersionSentState(v) = v
        BY <3>3 DEF OnReadInVersionSentState
      <4>2. C1Size \in Nat /\ C1Size <= Awaited(v.state)
        BY <1>0, <3>1
      <4> QED BY <2>0, <2>2, <3>3, <4>1, <4>2, GreetsWaits
    <3>4. CASE ~ (Len(v.buffer) < C1Size)
      <4>1. Len(v.buffer) >= C1Size /\ "ACK_SENT" \in States
        BY <1>0, <3>2, <3>4 DEF States
      <4>2. Greets(u, ms, x, o) /\ u.state = "ACK_SENT" /\ Len(u.buffer) < Len(v.buffer)
        BY <1>0, <2>2, <3>1, <4>1, GreetsTakes
      <4>3. OnReadInVersionSentState(v) = OnReadInAckSentState(u)
        BY <3>4 DEF OnReadInVersionSentState
      <4> HIDE DEF u
      <4>4. Client(u, ms, j, x, o) /\ Ready(u)
        BY <2>0, <4>2 DEF Client, Greets
      <4>5. Turns(u, OnReadInAckSentState(u), ms, j, x, o)
        BY <2>1, <4>2
      <4> QED BY <3>2, <4>2, <4>3, <4>4, <4>5, GoesOn
    <3> QED BY <3>3, <3>4
  <2>3. ASSUME NEW v, Greets(v, ms, x, o), v.state = "UNINTIALIZED"
        PROVE  Turns(v, OnReadInUninitializedState(v), ms, j, x, o)
    <3> DEFINE u == [Consume(v, 1) EXCEPT !.state = "VERSION_SENT"]
    <3>1. Awaited(v.state) = 1 + (C1Size + C2Size) /\ Awaited("VERSION_SENT") = C1Size + C2Size
      BY <2>3 DEF Awaited
    <3>2. Ready(v) /\ v.buffer \in Seq(Token) /\ Len(v.buffer) \in Nat
      BY <2>3 DEF Greets, Ready
    <3>3. CASE v.buffer = <<>>
      <4>1. OnReadInUninitializedState(v) = v
        BY <3>3 DEF OnReadInUninitializedState
      <4>2. 1 \in Nat /\ 1 <= Awaited(v.state) /\ Len(v.buffer) < 1
        BY <1>0, <3>1, <3>3
      <4> QED BY <2>0, <2>3, <4>1, <4>2, GreetsWaits
    <3>4. CASE v.buffer # <<>>
      <4>1. Len(v.buffer) >= 1 /\ "VERSION_SENT" \in States /\ 1 \in Nat \ {0}
        BY <3>2, <3>4 DEF States
      <4>2. Greets(u, ms, x, o) /\ u.state = "VERSION_SENT" /\ Len(u.buffer) < Len(v.buffer)
        BY <2>3, <3>1, <4>1, GreetsTakes
      <4>3. OnReadInUninitializedState(v) = OnReadInVersionSentState(u)
        BY <3>4 DEF OnReadInUninitializedState
      <4> HIDE DEF u
      <4>4. Client(u, ms, j, x, o) /\ Ready(u)
        BY <2>0, <4>2 DEF Client, Greets
      <4>5. Turns(u, OnReadInVersionSentState(u), ms, j, x, o)
        BY <2>2, <4>2
      <4> QED BY <3>2, <4>2, <4>3, <4>4, <4>5, GoesOn
    <3> QED BY <3>3, <3>4
  <2>4. \/ s.state = "UNINTIALIZED" /\ OnRead(s) = OnReadInUninitializedState(s)
        \/ s.state = "VERSION_SENT" /\ OnRead(s) = OnReadInVersionSentState(s)
        \/ s.state = "ACK_SENT" /\ OnRead(s) = OnReadInAckSentState(s)
    BY <1>3, <2>0 DEF Greets, States, OnRead
  <2> QED BY <2>0, <2>1, <2>2, <2>3, <2>4
<1> QED BY <1>2, <1>3

-----------------------------------------------------------------------------
(* What the server writes *)

\* The first k elements of a sequence.
LEMMA FirstIs ==
    ASSUME NEW S, NEW q \in Seq(S), NEW k \in Nat, k <= Len(q)
    PROVE  /\ SubSeq(q, 1, k) \in Seq(S)
           /\ Len(SubSeq(q, 1, k)) = k
           /\ \A i \in 1..k : SubSeq(q, 1, k)[i] = q[i]
<1>1. Len(q) \in Nat /\ 1 \in Int /\ k \in Int /\ k - 1 + 1 = k /\ (1 <= k \/ k = 0) /\ \A i \in 1..k : 1 + i - 1 = i
  OBVIOUS
<1>2. \A i \in 1..k : q[i] \in S
  OBVIOUS
<1>3. /\ SubSeq(q, 1, k) \in Seq(S)
      /\ Len(SubSeq(q, 1, k)) = IF 1 <= k THEN k - 1 + 1 ELSE 0
      /\ \A i \in 1..(k - 1 + 1) : SubSeq(q, 1, k)[i] = q[1 + i - 1]
  BY <1>1, <1>2, SubSeqProperties
<1> QED BY <1>1, <1>3

\* One more of them.
LEMMA FirstNext ==
    ASSUME NEW S, NEW q \in Seq(S), NEW k \in Nat, k < Len(q)
    PROVE  SubSeq(q, 1, k + 1) = Append(SubSeq(q, 1, k), q[k + 1])
<1> DEFINE a == SubSeq(q, 1, k)
           b == SubSeq(q, 1, k + 1)
           x == q[k + 1]
           c == Append(a, x)
<1>1. k + 1 \in Nat /\ k <= Len(q) /\ k + 1 <= Len(q) /\ x \in S
  OBVIOUS
<1>2. a \in Seq(S) /\ Len(a) = k /\ \A i \in 1..k : a[i] = q[i]
  BY <1>1, FirstIs
<1>3. b \in Seq(S) /\ Len(b) = k + 1 /\ \A i \in 1..(k + 1) : b[i] = q[i]
  BY <1>1, FirstIs
<1> HIDE DEF a, b
<1>4. c \in Seq(S) /\ Len(c) = k + 1 /\ (\A i \in 1..k : c[i] = a[i]) /\ c[k + 1] = x
  BY <1>1, <1>2, AppendProperties
<1> HIDE DEF c, x
<1>5. ASSUME NEW i \in 1..(k + 1) PROVE b[i] = c[i]
  <2>1. i \in 1..k \/ i = k + 1
    OBVIOUS
  <2> QED BY <1>2, <1>3, <1>4, <2>1 DEF x
<1>6. SameUpTo(b, c, k + 1)
  BY <1>5 DEF SameUpTo
<1>7. b = c
  BY <1>3, <1>4, <1>6, SequencesSame
<1> QED BY <1>7 DEF a, b, c, x

\* The first and the rest.
LEMMA FirstRest ==
    ASSUME NEW S, NEW q \in Seq(S), NEW k \in Nat, k <= Len(q)
    PROVE  q = SubSeq(q, 1, k) \o SubSeq(q, k + 1, Len(q))
<1> DEFINE a == SubSeq(q, 1, k)
           n == Len(q)
           b == SubSeq(q, k + 1, n)
<1>1. n \in Nat /\ k <= n
  OBVIOUS
<1>2. a \in Seq(S) /\ Len(a) = k /\ \A i \in 1..k : a[i] = q[i]
  BY FirstIs
<1>3. b \in Seq(S) /\ Len(b) = n - k /\ \A i \in 1..(n - k) : b[i] = q[k + i]
  BY RestIs
<1> HIDE DEF a, b
<1>4. Joins(q, a, b)
  <2>1. n = k + (n - k)
    BY <1>1
  <2> QED BY <1>2, <1>3, <2>1 DEF Joins
<1>5. q = a \o b
  BY <1>2, <1>3, <1>4, JoinedAre
<1> QED BY <1>5 DEF a, b, n

\* Whichever call of Write is the last to succeed, nothing is lost.
LEMMA WriteIs ==
    ASSUME NEW pieces \in Seq(Seq(Token)), NEW k \in 0..Len(pieces), Write(pieces, k),
           wire \in Seq(Token), unwritten \in Seq(Token)
    PROVE  /\ wire' \in Seq(Token) /\ unwritten' \in Seq(Token)
           /\ wire' \o unwritten' = (wire \o unwritten) \o FlattenSeq(pieces)
<1> DEFINE T == Seq(Token)
           a == SubSeq(pieces, 1, k)
           b == SubSeq(pieces, k + 1, Len(pieces))
           f == FlattenSeq(a)
           r == FlattenSeq(b)
           p == FlattenSeq(pieces)
<1>1. pieces \in Seq(T) /\ k \in Nat /\ k <= Len(pieces)
  OBVIOUS
<1> HIDE DEF T
<1>2. a \in Seq(T) /\ b \in Seq(T) /\ pieces = a \o b
  BY <1>1, FirstIs, RestIs, FirstRest
<1>3. wire' = wire \o (IF k = 0 THEN <<>> ELSE unwritten \o f)
      /\ unwritten' = (IF k = 0 THEN unwritten ELSE <<>>) \o r
  BY DEF Write
<1> HIDE DEF a, b
<1>4. f \in Seq(Token) /\ r \in Seq(Token) /\ p = f \o r
  <2>1. f \in Seq(Token) /\ r \in Seq(Token)
    BY <1>2, FlattenType DEF T
  <2>2. FlattenSeq(a \o b) = f \o r
    BY <1>2, FlattenConcat DEF T
  <2> QED BY <1>2, <2>1, <2>2
<1>5. k = 0 => p = r
  <2> SUFFICES ASSUME k = 0 PROVE p = r
    OBVIOUS
  <2>1. b = SubSeq(pieces, 0 + 1, Len(pieces))
    BY DEF b
  <2> QED BY <1>1, <2>1, LaterAll DEF Later
<1> HIDE DEF f, r, p
<1>6. CASE k = 0
  <2>1. wire' = wire /\ unwritten' = unwritten \o p
    BY <1>3, <1>5, <1>6, ConcatEmptySeq
  <2>2. p \in Seq(Token)
    BY <1>4, <1>5, <1>6
  <2>3. Regroups(wire, unwritten, p)
    BY <2>2, AnyRegroups
  <2>4. wire' \o unwritten' = (wire \o unwritten) \o p
    BY ONLY <2>1, <2>3 DEF Regroups
  <2>5. unwritten' \in Seq(Token)
    BY <2>1, <2>2, ConcatProperties
  <2> QED BY <2>1, <2>4, <2>5 DEF p
<1>7. CASE k # 0
  <2>1. wire' = wire \o (unwritten \o f) /\ unwritten' = r
    BY <1>3, <1>4, <1>7, ConcatEmptySeq
  <2>2. unwritten \o f \in Seq(Token) /\ wire \o unwritten \in Seq(Token)
    BY <1>4, ConcatProperties
  <2>3. Regroups(wire, unwritten, f) /\ Regroups(wire \o unwritten, f, r)
    BY <1>4, <2>2, AnyRegroups
  <2>4. wire' \o unwritten' = (wire \o unwritten) \o p
    BY ONLY <1>4, <2>1, <2>3 DEF Regroups
  <2>5. wire' \in Seq(Token)
    BY <2>1, <2>2, ConcatProperties
  <2> QED BY <1>4, <2>1, <2>4, <2>5 DEF p
<1> QED BY <1>6, <1>7

\* Messages behind others are serialized with the numbers behind theirs.
LEMMA SerializedMore ==
    ASSUME NEW ms \in Seq(Message), NEW ns \in Seq(Message), NEW b \in Nat
    PROVE  /\ Serialized(ms \o ns, b) = Serialized(ms, b) \o Serialized(ns, b + Len(ms))
           /\ FlattenSeq(Serialized(ms \o ns, b))
                  = FlattenSeq(Serialized(ms, b)) \o FlattenSeq(Serialized(ns, b + Len(ms)))
<1> DEFINE T == Seq(Token)
           n == Len(ms)
           m == Len(ns)
           w == ms \o ns
           a == Serialized(ms, b)
           c == Serialized(ns, b + n)
           d == Serialized(w, b)
<1>1. n \in Nat /\ m \in Nat /\ b + n \in Nat
  OBVIOUS
<1>2. w \in Seq(Message) /\ Len(w) = n + m /\ \A i \in 1..n + m : w[i] = IF i <= n THEN ms[i] ELSE ns[i - n]
  BY ConcatProperties
<1>3. a \in Seq(T) /\ Len(a) = n /\ \A i \in 1..n : a[i] = Serialize(ms[i], b + i)
  BY SerializedIs
<1>4. c \in Seq(T) /\ Len(c) = m /\ \A i \in 1..m : c[i] = Serialize(ns[i], (b + n) + i)
  BY <1>1, SerializedIs
<1> HIDE DEF w, n, m
<1>5. d \in Seq(T) /\ Len(d) = n + m /\ \A i \in 1..n + m : d[i] = Serialize(w[i], b + i)
  <2>1. d \in Seq(T) /\ Len(d) = Len(w) /\ \A i \in 1..Len(w) : d[i] = Serialize(w[i], b + i)
    BY <1>2, SerializedIs
  <2> HIDE DEF d, T
  <2> QED BY <1>2, <2>1
<1> HIDE DEF a, c, d, T
<1>6. Joins(d, a, c)
  <2>1. ASSUME NEW i \in 1..n PROVE d[i] = a[i]
    <3>1. i \in 1..n + m /\ i <= n
      BY <1>1
    <3> QED BY <1>2, <1>3, <1>5, <3>1
  <2>2. ASSUME NEW i \in 1..m PROVE d[n + i] = c[i]
    <3>1. n + i \in 1..n + m /\ ~ (n + i <= n) /\ (n + i) - n = i /\ b + (n + i) = (b + n) + i
      BY <1>1
    <3>2. d[n + i] = Serialize(w[n + i], b + (n + i)) /\ w[n + i] = ns[(n + i) - n]
      BY <1>2, <1>5, <3>1
    <3>3. c[i] = Serialize(ns[i], (b + n) + i)
      BY <1>4
    <3> QED BY <3>1, <3>2, <3>3
  <2> QED BY <1>3, <1>4, <1>5, <2>1, <2>2 DEF Joins
<1>7. d = a \o c
  BY <1>3, <1>4, <1>5, <1>6, JoinedAre
<1>8. FlattenSeq(a \o c) = FlattenSeq(a) \o FlattenSeq(c)
  BY <1>3, <1>4, FlattenConcat DEF T
<1> QED BY <1>7, <1>8 DEF a, c, d, w, n

\* The messages of the first k bursts.
Earlier(bursts, k) == FlattenSeq(SubSeq(bursts, 1, k))

\* What is handed to Write for each burst.
Pieces(bursts, b) ==
    [i \in 1..Len(bursts) |-> SerializeAll(bursts[i], b + Len(FlattenSeq(SubSeq(bursts, 1, i - 1))))]

LEMMA EarlierIs ==
    ASSUME NEW bursts \in Seq(Seq(Message)), NEW k \in Nat, k <= Len(bursts)
    PROVE  Earlier(bursts, k) \in Seq(Message) /\ Len(Earlier(bursts, k)) \in Nat
<1> DEFINE M == Seq(Message)
<1>1. bursts \in Seq(M)
  OBVIOUS
<1> HIDE DEF M
<1>2. SubSeq(bursts, 1, k) \in Seq(M)
  BY <1>1, FirstIs
<1>3. Earlier(bursts, k) \in Seq(Message)
  BY <1>2, FlattenType DEF Earlier, M
<1> QED BY <1>3

\* A whole sequence is its first elements.
LEMMA FirstAll ==
    ASSUME NEW S, NEW q \in Seq(S)
    PROVE  SubSeq(q, 1, Len(q)) = q /\ SubSeq(q, 1, 0) = <<>>
<1> DEFINE n == Len(q)
           w == SubSeq(q, 1, n)
<1>1. n \in Nat /\ n <= n
  OBVIOUS
<1>2. w \in Seq(S) /\ Len(w) = n /\ \A i \in 1..n : w[i] = q[i]
  BY <1>1, FirstIs
<1>3. SubSeq(q, 1, 0) = <<>>
  BY SubSeqEmpty
<1> HIDE DEF w
<1>4. q = w
  BY <1>1, <1>2, SequencesSame DEF SameUpTo
<1> QED BY <1>3, <1>4 DEF w

\* The pieces of bursts are the chunks of all their messages.
LEMMA PiecesIs ==
    ASSUME NEW bursts \in Seq(Seq(Message)), NEW b \in Nat
    PROVE  /\ FlattenSeq(bursts) \in Seq(Message)
           /\ Pieces(bursts, b) \in Seq(Seq(Token)) /\ Len(Pieces(bursts, b)) = Len(bursts)
           /\ FlattenSeq(Pieces(bursts, b)) = FlattenSeq(Serialized(FlattenSeq(bursts), b))
<1> DEFINE M == Seq(Message)
           T == Seq(Token)
           n == Len(bursts)
           p == Pieces(bursts, b)
<1>1. bursts \in Seq(M) /\ n \in Nat /\ n <= n
  OBVIOUS
<1>2. ASSUME NEW k \in Nat, k < n
      PROVE  /\ k + 1 \in 1..n /\ bursts[k + 1] \in M /\ k <= n /\ k + 1 <= n
             /\ p[k + 1] = FlattenSeq(Serialized(bursts[k + 1], b + Len(Earlier(bursts, k))))
             /\ p[k + 1] \in T
  <2>1. k + 1 \in 1..n /\ k <= n /\ k + 1 <= n /\ (k + 1) - 1 = k
    BY <1>1, <1>2
  <2> DEFINE m == bursts[k + 1]
             e == Len(Earlier(bursts, k))
  <2>2. m \in M
    BY <1>1, <2>1
  <2>3. p[k + 1] = SerializeAll(m, b + e)
    BY <2>1 DEF Pieces, Earlier
  <2>4. e \in Nat /\ b + e \in Nat
    BY <2>1, EarlierIs
  <2> HIDE DEF m, e, p
  <2>5. SerializeAll(m, b + e) = FlattenSeq(Serialized(m, b + e))
    BY DEF SerializeAll, Serialized
  <2>6. Serialized(m, b + e) \in Seq(T)
    BY <2>2, <2>4, SerializedIs
  <2>7. FlattenSeq(Serialized(m, b + e)) \in T
    BY <2>6, FlattenType
  <2> QED BY <2>1, <2>2, <2>3, <2>5, <2>7 DEF m, e
<1>3. p \in Seq(T) /\ Len(p) = n
  <2>1. DOMAIN p = 1..n /\ p = [i \in 1..n |-> p[i]]
    BY DEF Pieces
  <2> HIDE DEF p
  <2>2. ASSUME NEW i \in 1..n PROVE p[i] \in T
    <3>1. i - 1 \in Nat /\ i - 1 < n /\ (i - 1) + 1 = i
      BY <1>1
    <3> QED BY <1>2, <3>1
  <2> HIDE DEF T, n
  <2>3. p \in [1..n -> T]
    BY <2>1, <2>2
  <2> QED BY <1>1, <2>3
<1> HIDE DEF M, T, n, p
<1> DEFINE S == {k \in Nat : k <= n => FlattenSeq(SubSeq(p, 1, k)) = FlattenSeq(Serialized(Earlier(bursts, k), b))}
<1>4. 0 \in S
  <2>1. SubSeq(p, 1, 0) = <<>> /\ SubSeq(bursts, 1, 0) = <<>>
    BY <1>1, <1>3, FirstAll
  <2>2. Earlier(bursts, 0) = <<>>
    BY <2>1, FlattenNone DEF Earlier
  <2>3. Serialized(<<>>, b) = <<>>
    BY DEF Serialized
  <2> QED BY <2>1, <2>2, <2>3
<1>5. ASSUME NEW k \in Nat, k \in S PROVE k + 1 \in S
  <2> SUFFICES ASSUME k + 1 <= n
               PROVE  FlattenSeq(SubSeq(p, 1, k + 1)) = FlattenSeq(Serialized(Earlier(bursts, k + 1), b))
    OBVIOUS
  <2>1. k < n /\ k <= n
    BY <1>1
  <2> DEFINE a == SubSeq(p, 1, k)
             c == p[k + 1]
             e == Earlier(bursts, k)
             m == bursts[k + 1]
  <2>2. FlattenSeq(a) = FlattenSeq(Serialized(e, b))
    BY <1>5, <2>1
  <2>3. SubSeq(p, 1, k + 1) = Append(a, c) /\ a \in Seq(T)
    BY <1>3, <2>1, FirstIs, FirstNext
  <2>4. c \in T /\ m \in M /\ c = FlattenSeq(Serialized(m, b + Len(e)))
    BY <1>2, <2>1
  <2>5. FlattenSeq(SubSeq(p, 1, k + 1)) = FlattenSeq(a) \o c
    <3> HIDE DEF a, c
    <3> QED BY <2>3, <2>4, FlattenAppend DEF T
  <2>6. Earlier(bursts, k + 1) = e \o m
    <3> DEFINE w == SubSeq(bursts, 1, k)
    <3>1. SubSeq(bursts, 1, k + 1) = Append(w, m) /\ w \in Seq(M)
      BY <1>1, <2>1, FirstIs, FirstNext DEF n
    <3>2. e = FlattenSeq(w)
      BY DEF Earlier
    <3> HIDE DEF w, m, e
    <3>3. FlattenSeq(Append(w, m)) = FlattenSeq(w) \o m
      BY <2>4, <3>1, FlattenAppend DEF M
    <3> QED BY <3>1, <3>2, <3>3 DEF Earlier
  <2>7. e \in Seq(Message) /\ Len(e) \in Nat
    BY <2>1, EarlierIs DEF n
  <2> HIDE DEF a, c, e, m
  <2>8. FlattenSeq(Serialized(e \o m, b)) = FlattenSeq(Serialized(e, b)) \o FlattenSeq(Serialized(m, b + Len(e)))
    BY <2>4, <2>7, SerializedMore DEF M
  <2> QED BY <2>2, <2>4, <2>5, <2>6, <2>8
<1>6. n \in S
  <2> HIDE DEF S
  <2> QED BY <1>1, <1>4, <1>5, Inductive
<1>7. SubSeq(p, 1, n) = p /\ SubSeq(bursts, 1, n) = bursts
  BY <1>1, <1>3, FirstAll DEF n
<1>8. FlattenSeq(bursts) \in Seq(Message)
  BY FlattenType
<1>9. FlattenSeq(p) = FlattenSeq(Serialized(FlattenSeq(bursts), b))
  BY <1>1, <1>6, <1>7 DEF Earlier
<1> QED BY <1>3, <1>8, <1>9 DEF p, n, T

\* A client goes on as it was when more is sent behind what it waits for.
LEMMA ClientMore ==
    ASSUME NEW s, NEW ms, NEW j, NEW x, Client(s, ms, j, x, 0), NEW ns \in Seq(Message)
    PROVE  /\ ms \o ns \in Seq(Message) /\ Len(ms \o ns) = Len(ms) + Len(ns)
           /\ Client(s, ms \o ns, j, x \o FlattenSeq(Serialized(ns, Len(ms))), 0)
<1> DEFINE w == ms \o ns
           a == Serialized(ns, Len(ms))
           y == FlattenSeq(a)
           d == s.buffer
           T == Seq(Token)
<1>1. /\ Ready(s) /\ ms \in Seq(Message) /\ j \in Nat /\ j <= Len(ms) /\ x \in Seq(Token)
      /\ d \in Seq(Token) /\ Len(ms) \in Nat /\ 0 \in Nat
  BY ClientIs
<1>2. /\ w \in Seq(Message) /\ Len(w) = Len(ms) + Len(ns) /\ Len(ns) \in Nat
      /\ \A i \in 1..Len(ms) : w[i] = ms[i]
  BY <1>1, ConcatProperties
<1>3. a \in Seq(T)
  BY <1>1, SerializedIs
<1>4. y \in Seq(Token) /\ x \o y \in Seq(Token)
  <2> HIDE DEF a, d
  <2>1. y \in Seq(Token)
    BY <1>3, FlattenType
  <2> HIDE DEF y
  <2> QED BY <1>1, <2>1, ConcatProperties
<1>5. All(ms) \in Seq(T) /\ Len(All(ms)) = Len(ms) /\ All(w) = All(ms) \o a
  <2>1. All(ms) \in Seq(T) /\ Len(All(ms)) = Len(ms)
    BY <1>1, AllIs
  <2>2. Serialized(ms \o ns, 0) = Serialized(ms, 0) \o Serialized(ns, 0 + Len(ms))
    BY <1>1, SerializedMore
  <2>3. 0 + Len(ms) = Len(ms)
    BY <1>1
  <2> QED BY <2>1, <2>2, <2>3 DEF All
<1> HIDE DEF w, d, a
<1>6. ASSUME NEW i \in Nat, i <= Len(ms) PROVE Later(All(w), i) = Later(All(ms), i) \o y
  BY <1>3, <1>5, <1>6, LaterMore DEF T
<1>7. ASSUME NEW i \in Nat, i <= Len(ms) PROVE Later(All(ms), i) \in Seq(Token)
  <2>1. SubSeq(All(ms), i + 1, Len(All(ms))) \in Seq(T)
    BY <1>5, <1>7, RestIs
  <2> QED BY <2>1, FlattenType DEF Later, T
<1> HIDE DEF y, T
<1>8. Regroups(d, x, y)
  BY <1>1, <1>4, AnyRegroups
<1>9. CASE s.state # "HANDESHAKE_DONE" /\ j = 0 /\ Greets(s, ms, x, 0)
  <2>1. PICK g \in Seq(Token) : Len(g) + 0 = Awaited(s.state) /\ d \o x = g \o Later(All(ms), 0)
    BY <1>9 DEF Greets, d
  <2>2. Later(All(ms), 0) \in Seq(Token) /\ Later(All(w), 0) = Later(All(ms), 0) \o y
    BY <1>1, <1>6, <1>7
  <2> DEFINE l == Later(All(ms), 0)
             r == Later(All(w), 0)
  <2> HIDE DEF l, r
  <2>3. Regroups(g, l, y)
    BY <1>4, <2>1, <2>2, AnyRegroups DEF l
  <2>4. d \o (x \o y) = g \o r
    <3>1. d \o x = g \o l /\ r = l \o y
      BY <2>1, <2>2 DEF l, r
    <3> QED BY ONLY <1>8, <2>3, <3>1 DEF Regroups
  <2>5. \E h \in Seq(Token) : Len(h) + 0 = Awaited(s.state) /\ s.buffer \o (x \o y) = h \o Later(All(w), 0)
    BY <2>1, <2>4 DEF r, d
  <2>6. Greets(s, w, x \o y, 0)
    BY <1>1, <1>2, <1>4, <1>9, <2>5 DEF Greets
  <2>7. Client(s, w, j, x \o y, 0)
    BY <1>9, <2>6 DEF Client
  <2> QED BY <1>2, <2>7 DEF w, y, a
<1>10. CASE s.state = "HANDESHAKE_DONE" /\ Hears(s, ms, j, x)
  <2>1. j <= Len(w)
    BY <1>1, <1>2
  <2>2. ASSUME Between(s, ms, j, x) PROVE Between(s, w, j, x \o y)
    <3>1. d \o x = Later(All(ms), j) /\ Later(All(w), j) = Later(All(ms), j) \o y
      BY <1>1, <1>6, <2>2 DEF Between, d
    <3>2. d \o (x \o y) = Later(All(w), j)
      BY ONLY <1>8, <3>1 DEF Regroups
    <3> QED BY <2>2, <3>2 DEF Between, d
  <2>3. ASSUME NEW i, Within(s, ms, j, x, i) PROVE Within(s, w, j, x \o y, i)
    <3>1. j < Len(ms) /\ i \in Nat /\ i # 0 /\ i < Count(ms[j + 1]) /\ Knows(s, ms[j + 1], j + 1, i)
          /\ d \o x = Later(Chunks(ms[j + 1], j + 1), i) \o Later(All(ms), j + 1)
      BY <2>3 DEF Within, d
    <3>2. j + 1 \in 1..Len(ms) /\ j + 1 \in Nat /\ j + 1 <= Len(ms) /\ j < Len(w)
      BY <1>1, <1>2, <3>1
    <3>3. w[j + 1] = ms[j + 1] /\ ms[j + 1] \in Message
      BY <1>1, <1>2, <3>2
    <3> DEFINE m == ms[j + 1]
               c == Chunks(m, j + 1)
               p == Later(c, i)
               l == Later(All(ms), j + 1)
               r == Later(All(w), j + 1)
    <3>4. l \in Seq(Token) /\ r = l \o y
      BY <1>6, <1>7, <3>2
    <3>5. p \in Seq(Token)
      <4>1. c \in Seq(Seq(Token)) /\ Len(c) = Count(m) /\ i < Count(m)
        BY <3>1, <3>2, <3>3, SerializeIs
      <4> HIDE DEF c, m
      <4> QED BY <3>1, <4>1, LaterFirst
    <3>6. d \o x = p \o l
      BY <3>1
    <3> HIDE DEF p, l, r
    <3>7. Regroups(p, l, y)
      BY <1>4, <3>4, <3>5, AnyRegroups
    <3>8. d \o (x \o y) = p \o r
      BY ONLY <1>8, <3>4, <3>6, <3>7 DEF Regroups
    <3>9. s.buffer \o (x \o y) = Later(Chunks(w[j + 1], j + 1), i) \o Later(All(w), j + 1)
      BY <3>3, <3>8 DEF p, r, d
    <3> QED BY <3>1, <3>2, <3>3, <3>9 DEF Within
  <2>4. Between(s, ms, j, x) \/ \E i : Within(s, ms, j, x, i)
    BY <1>10 DEF Hears
  <2>5. Between(s, w, j, x \o y) \/ \E i : Within(s, w, j, x \o y, i)
    BY <2>2, <2>3, <2>4
  <2>6. Hears(s, w, j, x \o y)
    BY <1>1, <1>2, <1>4, <2>1, <2>5 DEF Hears
  <2>7. Client(s, w, j, x \o y, 0)
    BY <1>10, <2>6 DEF Client
  <2> QED BY <1>2, <2>7 DEF w, y, a
<1> QED BY <1>9, <1>10 DEF Client

\* A client that is greeted awaits less.
LEMMA ClientGreeted ==
    ASSUME NEW s, NEW x, NEW o, NEW p, Client(s, <<>>, 0, x, o), o # 0,
           NEW h \in Seq(Token), p \in Nat, Len(h) + p = o
    PROVE  Client(s, <<>>, 0, x \o h, p)
<1> DEFINE d == s.buffer
           z == Later(All(<<>>), 0)
<1>1. s.state # "HANDESHAKE_DONE" /\ Greets(s, <<>>, x, o)
  BY DEF Client
<1>2. z = <<>>
  <2>1. <<>> \in Seq(Message)
    OBVIOUS
  <2> QED BY <2>1, AllIs
<1>3. PICK g \in Seq(Token) : Len(g) + o = Awaited(s.state) /\ d \o x = g \o z
  BY <1>1 DEF Greets
<1>4. d \in Seq(Token) /\ x \in Seq(Token)
  BY <1>1 DEF Greets, Ready
<1> HIDE DEF d, z
<1>5. Regroups(d, x, h)
  BY <1>4, AnyRegroups
<1>6. g \o h \in Seq(Token) /\ Len(g \o h) = Len(g) + Len(h) /\ x \o h \in Seq(Token)
  BY <1>4, ConcatProperties
<1>7. g \o z = g /\ (g \o h) \o z = g \o h
  BY <1>2, <1>6, ConcatEmptySeq
<1>8. d \o (x \o h) = (g \o h) \o z
  BY ONLY <1>3, <1>5, <1>7 DEF Regroups
<1>9. Len(g \o h) + p = Awaited(s.state)
  <2>1. Len(g) \in Nat /\ Len(h) \in Nat
    OBVIOUS
  <2> QED BY <1>3, <1>6, <2>1
<1>10. \E k \in Seq(Token) : Len(k) + p = Awaited(s.state) /\ s.buffer \o (x \o h) = k \o Later(All(<<>>), 0)
  BY <1>6, <1>8, <1>9 DEF d, z
<1>11. Greets(s, <<>>, x \o h, p)
  BY <1>1, <1>6, <1>10 DEF Greets
<1> QED BY <1>1, <1>11 DEF Client

-----------------------------------------------------------------------------
(* The inductive invariant *)

\* Tokens of the handshake the server has not written.
Owes(st, o) ==
    /\ st = "UNINTIALIZED" => o = 1 + (C1Size + C2Size)
    /\ st = "VERSION_SENT" => o = C2Size
    /\ st \in {"ACK_SENT", "connected", "playing"} => o = 0

\* Whole messages.
Got == {Entire(p[1], p[2]) : p \in Message \X Nat}

\* What was heard is what was sent, as far as it goes.
Told(hs, ms) ==
    /\ hs \in Seq(Got) /\ ms \in Seq(Message)
    /\ Len(hs) <= Len(ms)
    /\ \A k \in 1..Len(hs) : hs[k] = Entire(ms[k], k)

InTransit == wire \in Seq(Token) /\ unwritten \in Seq(Token)

\* What is in the client's buffer, on the wire and unwritten is what the
\* client has still to read, the rest of the message it has begun first.
Follows == \E o \in Nat : Owes(stage, o) /\ Client(client, sent, Len(heard), wire \o unwritten, o)

OutboundInv == Told(heard, sent) /\ InTransit /\ Follows

\* Of the messages that are sent at once, in bursts, nothing is lost.
LEMMA SendIs ==
    ASSUME NEW bursts \in Seq(Seq(Message)), Send(bursts), InTransit, sent \in Seq(Message)
    PROVE  /\ FlattenSeq(bursts) \in Seq(Message) /\ sent' = sent \o FlattenSeq(bursts)
           /\ wire' \in Seq(Token) /\ unwritten' \in Seq(Token)
           /\ wire' \o unwritten'
                  = (wire \o unwritten) \o FlattenSeq(Serialized(FlattenSeq(bursts), Len(sent)))
<1> DEFINE b == Len(sent)
           p == Pieces(bursts, b)
<1>1. b \in Nat
  OBVIOUS
<1>2. sent' = sent \o FlattenSeq(bursts) /\ \E k \in 0..Len(bursts) : Write(p, k)
  BY DEF Send, Pieces
<1> HIDE DEF b
<1>3. /\ FlattenSeq(bursts) \in Seq(Message)
      /\ p \in Seq(Seq(Token)) /\ Len(p) = Len(bursts)
      /\ FlattenSeq(p) = FlattenSeq(Serialized(FlattenSeq(bursts), b))
  BY <1>1, PiecesIs
<1> HIDE DEF p
<1>4. PICK k \in 0..Len(bursts) : Write(p, k)
  BY <1>2
<1>5. k \in 0..Len(p)
  BY <1>3
<1>6. wire \in Seq(Token) /\ unwritten \in Seq(Token)
  BY DEF InTransit
<1>7. /\ wire' \in Seq(Token) /\ unwritten' \in Seq(Token)
      /\ wire' \o unwritten' = (wire \o unwritten) \o FlattenSeq(p)
  BY ONLY <1>3, <1>4, <1>5, <1>6, WriteIs
<1> QED BY <1>2, <1>3, <1>7 DEF b

\* Behind the handshake messages may be sent.
LEMMA Sends ==
    ASSUME OutboundInv, NEW bursts \in Seq(Seq(Message)), Send(bursts),
           stage \in {"ACK_SENT", "connected", "playing"}, stage' \in {"ACK_SENT", "connected", "playing"},
           client' = client, heard' = heard
    PROVE  OutboundInv'
<1> DEFINE all == FlattenSeq(bursts)
           x == wire \o unwritten
           y == FlattenSeq(Serialized(all, Len(sent)))
<1>1. Told(heard, sent) /\ InTransit /\ sent \in Seq(Message)
  BY DEF OutboundInv, Told
<1>2. /\ all \in Seq(Message) /\ sent' = sent \o all
      /\ wire' \in Seq(Token) /\ unwritten' \in Seq(Token)
      /\ wire' \o unwritten' = x \o y
  BY <1>1, SendIs
<1>3. Client(client, sent, Len(heard), x, 0)
  BY DEF OutboundInv, Follows, Owes
<1> HIDE DEF all, x
<1>4. /\ sent \o all \in Seq(Message) /\ Len(sent \o all) = Len(sent) + Len(all)
      /\ Client(client, sent \o all, Len(heard), x \o y, 0)
  BY <1>2, <1>3, ClientMore
<1> HIDE DEF y
<1>5. Told(heard, sent \o all)
  <2>1. /\ heard \in Seq(Got) /\ Len(heard) <= Len(sent) /\ Len(heard) \in Nat /\ Len(sent) \in Nat
        /\ Len(all) \in Nat
        /\ \A k \in 1..Len(heard) : heard[k] = Entire(sent[k], k)
    BY <1>1, <1>2 DEF Told
  <2>2. \A k \in 1..Len(sent) : (sent \o all)[k] = sent[k]
    BY <1>1, <1>2, ConcatProperties
  <2>3. Len(heard) <= Len(sent) + Len(all) /\ \A k \in 1..Len(heard) : k \in 1..Len(sent)
    BY <2>1
  <2> QED BY <1>4, <2>1, <2>2, <2>3 DEF Told
<1>6. Told(heard, sent)'
  BY <1>2, <1>5
<1>7. Owes(stage', 0) /\ 0 \in Nat
  BY DEF Owes
<1>8. Client(client', sent', Len(heard'), wire' \o unwritten', 0)
  BY <1>2, <1>4
<1>9. Follows'
  BY <1>7, <1>8 DEF Follows
<1>10. InTransit'
  BY <1>2 DEF InTransit
<1> QED BY <1>6, <1>9, <1>10 DEF OutboundInv

\* A piece of the handshake is written.
LEMMA Greeting ==
    ASSUME OutboundInv, NEW h \in Seq(Token), Write(<<h>>, 1), NEW o \in Nat, NEW p \in Nat, Len(h) + p = o,
           o # 0, \A q \in Nat : Owes(stage, q) => q = o, Owes(stage', p),
           UNCHANGED <<client, sent, heard>>
    PROVE  OutboundInv'
<1> DEFINE x == wire \o unwritten
<1>1. Told(heard, sent) /\ wire \in Seq(Token) /\ unwritten \in Seq(Token)
  BY DEF OutboundInv, InTransit
<1>2. Client(client, sent, Len(heard), x, o)
  BY DEF OutboundInv, Follows
<1>3. sent = <<>>
  BY <1>2, ClientIs
<1>4. Len(heard) = 0
  <2>1. Len(heard) \in Nat /\ Len(heard) <= Len(sent) /\ Len(sent) = 0
    BY <1>1, <1>3 DEF Told
  <2> QED BY <2>1
<1>5. <<h>> \in Seq(Seq(Token)) /\ Len(<<h>>) = 1 /\ 1 \in 0..Len(<<h>>)
  OBVIOUS
<1>6. FlattenSeq(<<h>>) = h
  BY FlattenOne
<1> DEFINE q == <<h>>
<1> HIDE DEF x, q
<1>7. /\ wire' \in Seq(Token) /\ unwritten' \in Seq(Token)
      /\ wire' \o unwritten' = x \o FlattenSeq(q)
  BY <1>1, <1>5, WriteIs DEF q, x
<1>8. Client(client, <<>>, 0, x \o h, p)
  BY <1>2, <1>3, <1>4, ClientGreeted
<1>9. Client(client', sent', Len(heard'), wire' \o unwritten', p)
  BY <1>3, <1>4, <1>6, <1>7, <1>8 DEF q
<1>10. Follows'
  BY <1>9 DEF Follows
<1>11. Told(heard, sent)'
  BY <1>1
<1>12. InTransit'
  BY <1>7 DEF InTransit
<1> QED BY <1>10, <1>11, <1>12 DEF OutboundInv

-----------------------------------------------------------------------------
(* The server's steps *)

\* A handshake message.
LEMMA HandshakeIs ==
    ASSUME NEW name \in {"s0", "s1", "s2"}, NEW size \in Nat
    PROVE  Handshake(name, size) \in Seq(Token) /\ Len(Handshake(name, size)) = size
<1>1. [token |-> name] \in Token
  BY DEF Token
<1>2. Handshake(name, size) \in [1..size -> Token]
  BY <1>1 DEF Handshake
<1> QED BY <1>2

LEMMA InitOutbound == Init => OutboundInv
<1> SUFFICES ASSUME Init PROVE OutboundInv
  OBVIOUS
<1> DEFINE o == 1 + (C1Size + C2Size)
           N == <<>>
<1>1. o \in Nat /\ o = Awaited("UNINTIALIZED") /\ Owes("UNINTIALIZED", o)
  BY Sizes DEF Awaited, Owes
<1>2. N \in Seq(Token) /\ N \in Seq(Message) /\ N \in Seq(Got) /\ Len(N) = 0 /\ N \o N = N
  OBVIOUS
<1>3. Later(All(N), 0) = N
  BY <1>2, AllIs
<1> HIDE DEF o
<1>4. /\ stage = "UNINTIALIZED" /\ unwritten = N /\ wire = N /\ client = NewSession /\ sent = N /\ heard = N
  BY DEF Init
<1>5. /\ DOMAIN NewSession = SessionFields /\ NewSession.state = "UNINTIALIZED" /\ NewSession.open = TRUE
      /\ NewSession.buffer = N /\ NewSession.handled = N /\ NewSession.reading = N
  BY DEF NewSession, SessionFields
<1>6. DOMAIN N = {}
  OBVIOUS
<1> HIDE DEF N
<1>7. Ready(NewSession)
  BY <1>2, <1>5 DEF Ready, N
<1>8. \E g \in Seq(Token) : /\ Len(g) + o = Awaited(NewSession.state)
                            /\ NewSession.buffer \o N = g \o Later(All(N), 0)
  <2>1. 0 + o = o
    BY <1>1
  <2>2. Len(N) + o = Awaited(NewSession.state) /\ NewSession.buffer \o N = N \o Later(All(N), 0)
    BY <1>1, <1>2, <1>3, <1>5, <2>1
  <2> QED BY <1>2, <2>2
<1>9. Greets(NewSession, N, N, o)
  <2>1. NewSession.state \in States
    BY <1>5 DEF States
  <2>2. N # <<>> => o = 0
    BY DEF N
  <2> QED BY <1>1, <1>2, <1>5, <1>6, <1>7, <1>8, <2>1, <2>2 DEF Greets
<1>10. Client(NewSession, N, 0, N, o)
  BY <1>5, <1>9 DEF Client
<1>11. Follows
  BY <1>1, <1>2, <1>4, <1>10 DEF Follows
<1>12. Told(heard, sent)
  BY <1>2, <1>4 DEF Told
<1>13. InTransit
  BY <1>2, <1>4 DEF InTransit
<1> QED BY <1>11, <1>12, <1>13 DEF OutboundInv

LEMMA GreetsFirst == OutboundInv /\ SendS0AndS1 => OutboundInv'
<1> SUFFICES ASSUME OutboundInv, SendS0AndS1 PROVE OutboundInv'
  OBVIOUS
<1> DEFINE a == Handshake("s0", 1)
           b == Handshake("s1", C1Size)
           h == a \o b
           o == 1 + (C1Size + C2Size)
<1>1. C1Size \in Nat /\ C2Size \in Nat /\ o \in Nat /\ o # 0
  BY Sizes
<1>2. stage = "UNINTIALIZED" /\ stage' = "VERSION_SENT" /\ Write(<<h>>, 1) /\ UNCHANGED <<client, sent, heard>>
  BY DEF SendS0AndS1
<1>3. a \in Seq(Token) /\ Len(a) = 1 /\ b \in Seq(Token) /\ Len(b) = C1Size
  BY <1>1, HandshakeIs
<1> HIDE DEF a, b
<1>4. h \in Seq(Token) /\ Len(h) = 1 + C1Size
  BY <1>3, ConcatProperties
<1>5. Len(h) + C2Size = o
  BY <1>1, <1>4
<1>6. Owes(stage', C2Size) /\ \A q \in Nat : Owes(stage, q) => q = o
  BY <1>2 DEF Owes
<1> HIDE DEF h, o
<1> QED BY <1>1, <1>2, <1>4, <1>5, <1>6, Greeting

LEMMA GreetsSecond == OutboundInv /\ SendS2 => OutboundInv'
<1> SUFFICES ASSUME OutboundInv, SendS2 PROVE OutboundInv'
  OBVIOUS
<1> DEFINE h == Handshake("s2", C2Size)
<1>1. C2Size \in Nat /\ C2Size # 0 /\ C2Size + 0 = C2Size /\ 0 \in Nat
  BY Sizes
<1>2. stage = "VERSION_SENT" /\ stage' = "ACK_SENT" /\ Write(<<h>>, 1) /\ UNCHANGED <<client, sent, heard>>
  BY DEF SendS2
<1>3. h \in Seq(Token) /\ Len(h) = C2Size
  BY <1>1, HandshakeIs
<1>4. Owes(stage', 0) /\ \A q \in Nat : Owes(stage, q) => q = C2Size
  BY <1>2 DEF Owes
<1> HIDE DEF h
<1> QED BY <1>1, <1>2, <1>3, <1>4, Greeting

LEMMA GreetsNot == OutboundInv /\ HandshakeFails => OutboundInv'
<1> SUFFICES ASSUME OutboundInv, HandshakeFails PROVE OutboundInv'
  OBVIOUS
<1>1. stage' = "closed" /\ UNCHANGED <<unwritten, wire, client, sent, heard>>
  BY DEF HandshakeFails
<1>2. PICK o \in Nat : Client(client, sent, Len(heard), wire \o unwritten, o)
  BY DEF OutboundInv, Follows
<1>3. Owes("closed", o)
  BY DEF Owes
<1>4. Follows'
  BY <1>1, <1>2, <1>3 DEF Follows
<1>5. Told(heard, sent)' /\ InTransit'
  BY <1>1 DEF OutboundInv, InTransit
<1> QED BY <1>4, <1>5 DEF OutboundInv

\* The messages there are.
LEMMA MessagesAre ==
    /\ Control(5) \in Message /\ Control(6) \in Message
    /\ \A l \in ReplyLengths : Command(l) \in Message
    /\ \A l \in MediaLengths : MetaData(l) \in Message
    /\ \A type \in MediaTypes, t \in Timestamps \cup {0}, l \in MediaLengths : MediaData(type, t, l) \in Message
<1>1. ReplyLengths \subseteq Nat \ {0} /\ MediaLengths \subseteq Nat \ {0} /\ Timestamps \subseteq Nat
  BY OutboundAssumption DEF OutboundAssumption
<1>2. Control(5) \in Message /\ Control(6) \in Message
  BY DEF Control, Message, Kinds
<1>3. ASSUME NEW l \in ReplyLengths PROVE Command(l) \in Message
  BY <1>1 DEF Command, Message, Kinds
<1>4. ASSUME NEW l \in MediaLengths PROVE MetaData(l) \in Message
  BY <1>1 DEF MetaData, Message, Kinds, StreamId
<1>5. ASSUME NEW type \in MediaTypes, NEW t \in Timestamps \cup {0}, NEW l \in MediaLengths
      PROVE  MediaData(type, t, l) \in Message
  BY <1>1 DEF MediaData, Message, Kinds, StreamId
<1> QED BY <1>2, <1>3, <1>4, <1>5

LEMMA Connects == OutboundInv /\ Connect => OutboundInv'
<1> SUFFICES ASSUME OutboundInv, Connect PROVE OutboundInv'
  OBVIOUS
<1>1. PICK l \in ReplyLengths : Send(<<<<Control(5), Control(6), Command(l)>>>>)
  BY DEF Connect
<1> DEFINE b == <<<<Control(5), Control(6), Command(l)>>>>
<1>2. b \in Seq(Seq(Message))
  BY MessagesAre
<1> HIDE DEF b
<1>3. Send(b)
  BY <1>1 DEF b
<1>4. stage = "ACK_SENT" /\ stage' = "connected" /\ client' = client /\ heard' = heard
  BY DEF Connect
<1> QED BY <1>2, <1>3, <1>4, Sends

LEMMA Answers == OutboundInv /\ Answer => OutboundInv'
<1> SUFFICES ASSUME OutboundInv, Answer PROVE OutboundInv'
  OBVIOUS
<1>1. PICK l \in ReplyLengths : Send(<<<<Command(l)>>>>)
  BY DEF Answer
<1> DEFINE b == <<<<Command(l)>>>>
<1>2. b \in Seq(Seq(Message))
  BY MessagesAre
<1> HIDE DEF b
<1>3. Send(b)
  BY <1>1 DEF b
<1>4. stage = "connected" /\ stage' = stage /\ client' = client /\ heard' = heard
  BY DEF Answer
<1> QED BY <1>2, <1>3, <1>4, Sends

LEMMA Broadcasts == OutboundInv /\ Broadcast => OutboundInv'
<1> SUFFICES ASSUME OutboundInv, Broadcast PROVE OutboundInv'
  OBVIOUS
<1>1. \E m \in Message : Send(<<<<m>>>>)
  BY MessagesAre DEF Broadcast
<1>2. PICK m \in Message : Send(<<<<m>>>>)
  BY <1>1
<1> DEFINE b == <<<<m>>>>
<1>3. b \in Seq(Seq(Message))
  OBVIOUS
<1> HIDE DEF b
<1>4. Send(b)
  BY <1>2 DEF b
<1>5. stage = "playing" /\ stage' = stage /\ client' = client /\ heard' = heard
  BY DEF Broadcast
<1> QED BY <1>3, <1>4, <1>5, Sends

\* Metadata and an AAC header that a room has or has not.
Metas == {<<>>} \cup {<<MetaData(l)>> : l \in MediaLengths}
Aacs == {<<>>} \cup {<<MediaData(8, 0, l)>> : l \in MediaLengths}

LEMMA ReplayedAre ==
    /\ \A meta \in Metas : meta \in Seq(Message)
    /\ \A aac \in Aacs : aac \in Seq(Message)
    /\ Frames \subseteq Message
<1>1. ASSUME NEW m \in Message PROVE <<m>> \in Seq(Message)
  OBVIOUS
<1>2. <<>> \in Seq(Message)
  OBVIOUS
<1>3. 8 \in MediaTypes /\ 9 \in MediaTypes /\ 0 \in Timestamps \cup {0} /\ Timestamps \subseteq Timestamps \cup {0}
  BY DEF MediaTypes
<1>4. ASSUME NEW meta \in Metas PROVE meta \in Seq(Message)
  BY <1>1, <1>2, MessagesAre DEF Metas
<1>5. ASSUME NEW aac \in Aacs PROVE aac \in Seq(Message)
  BY <1>1, <1>2, <1>3, MessagesAre DEF Aacs
<1>6. Frames \subseteq Message
  BY <1>3, MessagesAre DEF Frames
<1> QED BY <1>4, <1>5, <1>6

\* A burst for each message.
EachAlone(ms) == [i \in 1..Len(ms) |-> <<ms[i]>>]

LEMMA Plays == OutboundInv /\ Play => OutboundInv'
<1> SUFFICES ASSUME OutboundInv, Play PROVE OutboundInv'
  OBVIOUS
<1>1. \E meta \in Metas, aac \in Aacs, cache \in SeqOf(Frames, MaxReplay), status \in ReplyLengths :
         Send(EachAlone(Append(meta \o aac \o cache, Command(status))))
  BY DEF Play, EachAlone, Metas, Aacs
<1>2. PICK meta \in Metas, aac \in Aacs, cache \in SeqOf(Frames, MaxReplay), status \in ReplyLengths :
         Send(EachAlone(Append(meta \o aac \o cache, Command(status))))
  BY <1>1
<1>3. meta \in Seq(Message) /\ aac \in Seq(Message)
  BY ReplayedAre
<1>4. cache \in Seq(Message)
  <2>1. MaxReplay \in Nat
    BY OutboundAssumption DEF OutboundAssumption
  <2>2. PICK n \in 0..MaxReplay : cache \in [1..n -> Frames]
    BY DEF SeqOf
  <2>3. n \in Nat /\ cache \in [1..n -> Message]
    BY <2>1, <2>2, ReplayedAre
  <2> QED BY <2>3
<1>5. Command(status) \in Message
  BY MessagesAre
<1> DEFINE ms == Append(meta \o aac \o cache, Command(status))
           b == EachAlone(ms)
<1>6. meta \o aac \o cache \in Seq(Message)
  <2>1. meta \o aac \in Seq(Message)
    BY <1>3, ConcatProperties
  <2> DEFINE u == meta \o aac
  <2> HIDE DEF u
  <2>2. u \o cache \in Seq(Message)
    BY <1>4, <2>1, ConcatProperties DEF u
  <2> QED BY <2>2 DEF u
<1>7. ms \in Seq(Message)
  <2> DEFINE u == meta \o aac \o cache
  <2> HIDE DEF u
  <2>1. Append(u, Command(status)) \in Seq(Message)
    BY <1>5, <1>6 DEF u
  <2> QED BY <2>1 DEF u
<1>8. Send(b)
  BY <1>2
<1> HIDE DEF ms
<1>9. b \in Seq(Seq(Message))
  <2>1. \A i \in 1..Len(ms) : <<ms[i]>> \in Seq(Message)
    BY <1>7
  <2>2. b \in [1..Len(ms) -> Seq(Message)] /\ Len(ms) \in Nat
    BY <1>7, <2>1 DEF EachAlone
  <2> DEFINE M == Seq(Message)
             n == Len(ms)
  <2>3. b \in [1..n -> M] /\ n \in Nat
    BY <2>2
  <2> HIDE DEF M, n, b
  <2>4. b \in Seq(M)
    BY <2>3
  <2> QED BY <2>4 DEF M
<1> HIDE DEF b
<1>10. stage = "connected" /\ stage' = "playing" /\ client' = client /\ heard' = heard
  BY DEF Play
<1> QED BY <1>8, <1>9, <1>10, Sends

-----------------------------------------------------------------------------
(* The client's steps *)

\* What moves from the wire into the buffer of the client stays in order.
LEMMA Arrives == \A n : OutboundInv /\ ClientReceives(n) => OutboundInv'
<1> SUFFICES ASSUME NEW n, OutboundInv, ClientReceives(n) PROVE OutboundInv'
  OBVIOUS
<1> DEFINE d == client.buffer
           f == SubSeq(wire, 1, n)
           r == SubSeq(wire, n + 1, Len(wire))
           u == unwritten
           w == wire
           c == [client EXCEPT !.buffer = d \o f]
<1>1. /\ n \in 1..Len(wire) /\ wire' = r /\ client' = c
      /\ stage' = stage /\ unwritten' = u /\ sent' = sent /\ heard' = heard
  BY DEF ClientReceives
<1>2. w \in Seq(Token) /\ u \in Seq(Token) /\ Told(heard, sent)
  BY DEF OutboundInv, InTransit
<1>3. PICK o \in Nat : Owes(stage, o) /\ Client(client, sent, Len(heard), w \o u, o)
  BY DEF OutboundInv, Follows
<1>4. Ready(client) /\ d \in Seq(Token)
  BY <1>3, ClientIs
<1>5. n \in Nat /\ n <= Len(w)
  BY <1>1, <1>2
<1>6. f \in Seq(Token) /\ r \in Seq(Token) /\ w = f \o r
  <2> HIDE DEF w
  <2>1. SubSeq(w, 1, n) \in Seq(Token) /\ SubSeq(w, n + 1, Len(w)) \in Seq(Token)
    BY <1>2, <1>5, FirstIs, RestIs
  <2>2. w = SubSeq(w, 1, n) \o SubSeq(w, n + 1, Len(w))
    BY <1>2, <1>5, FirstRest
  <2> QED BY <2>1, <2>2 DEF w
<1>7. /\ DOMAIN c = SessionFields /\ c.state = client.state /\ c.open = client.open
      /\ c.handled = client.handled /\ c.reading = client.reading
      /\ c.commons = client.commons /\ c.previous = client.previous
      /\ c.buffer = d \o f
  BY <1>4 DEF Ready, SessionFields
<1> HIDE DEF d, f, r, u, w, c
<1>8. d \o f \in Seq(Token) /\ r \o u \in Seq(Token) /\ f \o r \in Seq(Token)
  BY <1>2, <1>4, <1>6, ConcatProperties
<1>9. Regroups(d, f, r \o u) /\ Regroups(f, r, u)
  BY <1>2, <1>4, <1>6, <1>8, AnyRegroups
<1>10. (d \o f) \o (r \o u) = d \o (w \o u)
  BY ONLY <1>6, <1>9 DEF Regroups
<1>11. c.buffer \in Seq(Token) /\ c.buffer \o (r \o u) = client.buffer \o (w \o u)
  BY <1>7, <1>8, <1>10 DEF d
<1>12. Client(c, sent, Len(heard), r \o u, o)
  BY ONLY <1>3, <1>7, <1>8, <1>11, ClientSame
<1>13. Follows'
  BY <1>1, <1>3, <1>12 DEF Follows
<1>14. InTransit'
  BY <1>1, <1>2, <1>6 DEF InTransit, u
<1>15. Told(heard, sent)'
  BY <1>1, <1>2
<1> QED BY <1>13, <1>14, <1>15 DEF OutboundInv

\* The next message is heard as it was sent.
LEMMA ToldMore ==
    ASSUME NEW hs, NEW ms, Told(hs, ms), Len(hs) < Len(ms)
    PROVE  LET j == Len(hs)
               gs == hs \o <<Entire(ms[j + 1], j + 1)>>
           IN  Told(gs, ms) /\ Len(gs) = j + 1
<1> DEFINE j == Len(hs)
           e == Entire(ms[j + 1], j + 1)
           gs == hs \o <<e>>
<1>1. /\ hs \in Seq(Got) /\ ms \in Seq(Message)
      /\ \A k \in 1..Len(hs) : hs[k] = Entire(ms[k], k)
  BY DEF Told
<1>2. j \in Nat /\ j + 1 \in Nat /\ j + 1 \in 1..Len(ms) /\ j + 1 <= Len(ms)
  BY <1>1
<1>3. e \in Got
  <2>1. <<ms[j + 1], j + 1>> \in Message \X Nat
    BY <1>1, <1>2
  <2> QED BY <2>1 DEF Got
<1> HIDE DEF e
<1>4. <<e>> \in Seq(Got) /\ Len(<<e>>) = 1 /\ <<e>>[1] = e
  BY <1>3
<1> DEFINE q == <<e>>
<1>5. q \in Seq(Got) /\ Len(q) = 1 /\ q[1] = e
  BY <1>4
<1> HIDE DEF q
<1>6. /\ hs \o q \in Seq(Got) /\ Len(hs \o q) = j + 1
      /\ \A k \in 1..j : (hs \o q)[k] = hs[k]
      /\ (hs \o q)[j + 1] = q[1]
  <2>1. /\ hs \o q \in Seq(Got) /\ Len(hs \o q) = Len(hs) + Len(q)
        /\ \A k \in 1..(Len(hs) + Len(q)) : (hs \o q)[k] = IF k <= Len(hs) THEN hs[k] ELSE q[k - Len(hs)]
    BY <1>1, <1>5, ConcatProperties
  <2>2. /\ \A k \in 1..j : k \in 1..(j + 1) /\ k <= j
        /\ j + 1 \in 1..(j + 1) /\ ~ (j + 1 <= j) /\ (j + 1) - j = 1
    BY <1>2
  <2> QED BY <1>5, <2>1, <2>2
<1> DEFINE v == hs \o q
<1> HIDE DEF v
<1>7. \A k \in 1..(j + 1) : v[k] = Entire(ms[k], k)
  <2>1. ASSUME NEW k \in 1..j PROVE v[k] = Entire(ms[k], k)
    BY <1>1, <1>6, <2>1 DEF v
  <2>2. v[j + 1] = Entire(ms[j + 1], j + 1)
    BY <1>5, <1>6 DEF v, e
  <2>3. \A k \in 1..(j + 1) : k \in 1..j \/ k = j + 1
    BY <1>2
  <2> HIDE DEF j
  <2> QED BY <2>1, <2>2, <2>3
<1>8. Told(v, ms) /\ Len(v) = j + 1
  BY <1>1, <1>2, <1>6, <1>7 DEF Told, v
<1> QED BY <1>8 DEF v, q, e

LEMMA Read == OutboundInv /\ ClientReads => OutboundInv'
<1> SUFFICES ASSUME OutboundInv, ClientReads PROVE OutboundInv'
  OBVIOUS
<1> DEFINE t == OnRead(client)
           j == Len(heard)
           x == wire \o unwritten
<1>1. t # client /\ client' = Cleared(t) /\ heard' = heard \o t.handled
      /\ stage' = stage /\ unwritten' = unwritten /\ wire' = wire /\ sent' = sent
  BY DEF ClientReads, Reads, Cleared
<1>2. InTransit /\ Told(heard, sent)
  BY DEF OutboundInv
<1>3. PICK o \in Nat : Owes(stage, o) /\ Client(client, sent, j, x, o)
  BY DEF OutboundInv, Follows
<1>4. Turns(client, t, sent, j, x, o)
  BY <1>3, OnReadTurns
<1> HIDE DEF t
<1>5. \/ t.handled = <<>> /\ Client(Cleared(t), sent, j, x, o)
      \/ j < Len(sent) /\ t.handled = <<Entire(sent[j + 1], j + 1)>> /\ Client(Cleared(t), sent, j + 1, x, o)
  BY <1>1, <1>4 DEF Turns
<1>6. heard \in Seq(Got)
  BY <1>2 DEF Told
<1>7. CASE t.handled = <<>> /\ Client(Cleared(t), sent, j, x, o)
  <2>1. heard' = heard
    <3>1. heard \o <<>> = heard
      BY <1>6, ConcatEmptySeq
    <3> QED BY <1>1, <1>7, <3>1
  <2>2. Follows'
    BY <1>1, <1>3, <1>7, <2>1 DEF Follows
  <2>3. Told(heard, sent)' /\ InTransit'
    BY <1>1, <1>2, <2>1 DEF InTransit
  <2> QED BY <2>2, <2>3 DEF OutboundInv
<1>8. CASE j < Len(sent) /\ t.handled = <<Entire(sent[j + 1], j + 1)>> /\ Client(Cleared(t), sent, j + 1, x, o)
  <2>1. heard' = heard \o <<Entire(sent[j + 1], j + 1)>>
    BY <1>1, <1>8
  <2>2. Told(heard', sent) /\ Len(heard') = j + 1
    BY <1>2, <1>8, <2>1, ToldMore
  <2>3. Follows'
    BY <1>1, <1>3, <1>8, <2>2 DEF Follows
  <2>4. Told(heard, sent)' /\ InTransit'
    BY <1>1, <1>2, <2>2 DEF InTransit
  <2> QED BY <2>3, <2>4 DEF OutboundInv
<1> QED BY <1>5, <1>7, <1>8

-----------------------------------------------------------------------------
(* The theorem *)

LEMMA OutboundNext == OutboundInv /\ [Next]_vars => OutboundInv'
<1> SUFFICES ASSUME OutboundInv, [Next]_vars PROVE OutboundInv'
  OBVIOUS
<1>1. CASE SendS0AndS1
  BY <1>1, GreetsFirst
<1>2. CASE SendS2
  BY <1>2, GreetsSecond
<1>3. CASE HandshakeFails
  BY <1>3, GreetsNot
<1>4. CASE Connect
  BY <1>4, Connects
<1>5. CASE Answer
  BY <1>5, Answers
<1>6. CASE Play
  BY <1>6, Plays
<1>7. CASE Broadcast
  BY <1>7, Broadcasts
<1>8. CASE \E n \in 1..Len(wire) : ClientReceives(n)
  BY <1>8, Arrives
<1>9. CASE ClientReads
  BY <1>9, Read
<1>10. CASE UNCHANGED vars
  <2>1. UNCHANGED <<stage, unwritten, wire, client, sent, heard>>
    BY <1>10 DEF vars
  <2>2. Told(heard, sent)' /\ InTransit'
    BY <2>1 DEF OutboundInv, InTransit
  <2>3. Follows'
    BY <2>1 DEF OutboundInv, Follows
  <2> QED BY <2>2, <2>3 DEF OutboundInv
<1> QED BY <1>1, <1>2, <1>3, <1>4, <1>5, <1>6, <1>7, <1>8, <1>9, <1>10 DEF Next

\* What the invariant says of the client is that it hears what was sent.
LEMMA OutboundHeard == OutboundInv => HeardAsSent
<1> SUFFICES ASSUME OutboundInv PROVE HeardAsSent
  OBVIOUS
<1> DEFINE x == wire \o unwritten
<1>1. PICK o \in Nat : Client(client, sent, Len(heard), x, o)
  BY DEF OutboundInv, Follows
<1>2. Told(heard, sent)
  BY DEF OutboundInv
<1>3. client.open /\ client.buffer \in Seq(Token)
  BY <1>1, ClientIs DEF Ready
<1>4. Len(heard) <= Len(sent) /\ DOMAIN heard = 1..Len(heard) /\ Len(heard) \in Nat /\ Len(sent) \in Nat
  BY <1>2 DEF Told
<1>5. ASSUME NEW j \in DOMAIN heard
      PROVE  /\ heard[j].type = sent[j].type
             /\ heard[j].payload =
                 [k \in 1..sent[j].length |-> [token |-> "data", message |-> j, unit |-> k]]
  <2>1. j \in 1..Len(heard) /\ heard[j] = Entire(sent[j], j)
    BY <1>2, <1>4 DEF Told
  <2>2. sent[j] \in Message
    <3>1. j \in 1..Len(sent)
      BY <1>4, <2>1
    <3> QED BY <1>2, <3>1 DEF Told
  <2> DEFINE l == sent[j].length
  <2>3. l \in Nat
    BY <2>2 DEF Message
  <2>4. heard[j].type = sent[j].type /\ heard[j].payload = Piece(j, 0, l)
    BY <2>1 DEF Entire, Begun
  <2> HIDE DEF l
  <2>5. Piece(j, 0, l) = [k \in 1..l |-> Unit(j, k)]
    <3>1. l - 0 = l /\ \A k \in 1..l : 0 + k = k
      BY <2>3
    <3> QED BY <3>1 DEF Piece
  <2> QED BY <2>4, <2>5 DEF Unit, l
<1>6. ASSUME unwritten = <<>>, wire = <<>>, ~ Reads PROVE Len(heard) = Len(sent)
  <2>1. x = <<>>
    BY <1>6
  <2>2. OnRead(client) = client
    BY <1>6 DEF Reads
  <2>3. Turns(client, client, sent, Len(heard), x, o)
    BY <1>1, <2>2, OnReadTurns
  <2>4. ~ (Len(client.buffer) < Len(client.buffer))
    BY <1>3
  <2> QED BY <2>1, <2>3, <2>4 DEF Turns
<1> QED BY <1>3, <1>4, <1>5, <1>6 DEF HeardAsSent

\* The client hears every message the server sent, in order, with its type
\* and its payload, and misses none once all has arrived and been read.
THEOREM AlwaysHeardAsSent == Spec => []HeardAsSent
<1>1. Init => OutboundInv
  BY InitOutbound
<1>2. OutboundInv /\ [Next]_vars => OutboundInv'
  BY OutboundNext
<1>3. OutboundInv => HeardAsSent
  BY OutboundHeard
<1> QED BY <1>1, <1>2, <1>3, PTL DEF Spec
=============================================================================
