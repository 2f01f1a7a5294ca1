--------------------------- MODULE LiveRoomsProofs ---------------------------
(***************************************************************************)
(* The room table of LiveRooms, what a viewer receives and the directory   *)
(* the rooms implement, for any number of sessions, rooms and payloads.    *)
(***************************************************************************)
EXTENDS LiveRooms, TLAPS

-----------------------------------------------------------------------------
(* The operators on Room objects *)

\* A map from some sessions to their flags is a visitors_ map.
LEMMA VisitorsIntro ==
    ASSUME NEW V \in SUBSET Sessions, NEW f \in [V -> Flags]
    PROVE  f \in Visitors
BY DEF Visitors

\* What a visitors_ map is.
LEMMA VisitorsElim ==
    ASSUME NEW f \in Visitors
    PROVE  DOMAIN f \subseteq Sessions /\ f \in [DOMAIN f -> Flags]
BY DEF Visitors

\* A new Room is a Room without visitors.
LEMMA NewRoomType ==
    ASSUME NEW n \in Nat
    PROVE  NewRoom(n) \in Room /\ DOMAIN NewRoom(n).visitors = {}
<1>1. [v \in {} |-> [has_sent_audio |-> FALSE, has_sent_video |-> FALSE]] \in Visitors
  <2>1. [v \in {} |-> [has_sent_audio |-> FALSE, has_sent_video |-> FALSE]] \in [{} -> Flags]
    OBVIOUS
  <2> QED BY <2>1, VisitorsIntro
<1> QED BY <1>1 DEF NewRoom, Room

\* Enter adds the session to the visitors.
LEMMA EnterType ==
    ASSUME NEW room \in Room, NEW s \in Sessions
    PROVE  /\ Enter(room, s) \in Room
           /\ Enter(room, s).stream = room.stream
           /\ DOMAIN Enter(room, s).visitors = DOMAIN room.visitors \cup {s}
<1> DEFINE f == [v \in DOMAIN room.visitors \cup {s} |->
                    IF v \in DOMAIN room.visitors THEN room.visitors[v]
                    ELSE [has_sent_audio |-> room.aacHeader # 0,
                          has_sent_video |-> room.cache # <<>>]]
<1>1. DOMAIN room.visitors \subseteq Sessions /\ room.visitors \in [DOMAIN room.visitors -> Flags]
  BY VisitorsElim DEF Room
<1>2. f \in [DOMAIN room.visitors \cup {s} -> Flags]
  BY <1>1 DEF Flags
<1>3. f \in Visitors
  BY <1>1, <1>2, VisitorsIntro
<1>4. Enter(room, s) = [room EXCEPT !.visitors = f]
  BY DEF Enter
<1> HIDE DEF f
<1>5. DOMAIN f = DOMAIN room.visitors \cup {s}
  BY DEF f
<1> QED BY <1>3, <1>4, <1>5 DEF Room

\* Leave removes the session from the visitors and touches nothing else.
LEMMA LeaveType ==
    ASSUME NEW room \in Room, NEW s
    PROVE  /\ Leave(room, s) \in Room
           /\ Leave(room, s).stream = room.stream
           /\ DOMAIN Leave(room, s).visitors = DOMAIN room.visitors \ {s}
<1> DEFINE f == [v \in DOMAIN room.visitors \ {s} |-> room.visitors[v]]
<1>1. DOMAIN room.visitors \subseteq Sessions /\ room.visitors \in [DOMAIN room.visitors -> Flags]
  BY VisitorsElim DEF Room
<1>2. f \in [DOMAIN room.visitors \ {s} -> Flags]
  BY <1>1
<1>3. f \in Visitors
  BY <1>1, <1>2, VisitorsIntro
<1>4. Leave(room, s) = [room EXCEPT !.visitors = f]
  BY DEF Leave
<1> HIDE DEF f
<1>5. DOMAIN f = DOMAIN room.visitors \ {s}
  BY DEF f
<1> QED BY <1>3, <1>4, <1>5 DEF Room

\* AddData keeps the set of visitors.
LEMMA AddDataType ==
    ASSUME NEW room \in Room, NEW kind \in Kinds, NEW n \in Nat
    PROVE  /\ AddData(room, kind, n) \in Room
           /\ AddData(room, kind, n).stream = room.stream
           /\ DOMAIN AddData(room, kind, n).visitors = DOMAIN room.visitors
<1> DEFINE f == [v \in DOMAIN room.visitors |->
                  [has_sent_audio |-> \/ room.visitors[v].has_sent_audio
                                      \/ kind \in Audio /\ v \in Receivers(room, kind),
                   has_sent_video |-> \/ room.visitors[v].has_sent_video
                                      \/ kind \in Video /\ v \in Receivers(room, kind)]]
           c == CacheAfter(room, kind, n)
<1>1. DOMAIN room.visitors \subseteq Sessions /\ room.visitors \in [DOMAIN room.visitors -> Flags]
  BY VisitorsElim DEF Room
<1>2. f \in [DOMAIN room.visitors -> Flags]
  BY <1>1 DEF Flags
<1>3. f \in Visitors
  BY <1>1, <1>2, VisitorsIntro
<1>4. c \in Seq(Nat)
  BY DEF CacheAfter, Room
<1>5. AddData(room, kind, n) =
        [room EXCEPT !.meta = IF kind = "meta" THEN n ELSE room.meta,
                     !.aacHeader = IF kind = "aacHeader" THEN n ELSE room.aacHeader,
                     !.cache = c, !.visitors = f]
  BY DEF AddData
<1> HIDE DEF f, c
<1>6. DOMAIN f = DOMAIN room.visitors
  BY DEF f
<1> QED BY <1>3, <1>4, <1>5, <1>6 DEF Room

\* What is replayed is a sequence of positions.
LEMMA ReplayType ==
    ASSUME NEW room \in Room
    PROVE  Replay(room) \in Seq(Nat)
BY DEF Replay, Room

-----------------------------------------------------------------------------
(* The inductive invariant *)

\* An address without a session has the fields of a new object.
Unused == \A s \in Sessions \ sessions : type[s] = "UNDEFINED"

\* A session that plays names a room slot.
PullersNameSlots == \A s \in sessions : type[s] = "PULL" => roomId[s] \in RoomIds

\* A publisher's room exists.
PublisherHasRoom ==
    \A s \in sessions : type[s] = "PUSH" =>
        roomId[s] \in RoomIds /\ rooms[roomId[s]] # Null

\* A room has a publisher.
RoomHasPublisher ==
    \A r \in RoomIds : rooms[r] # Null =>
        \E s \in sessions : type[s] = "PUSH" /\ roomId[s] = r

\* Two publishers never share a room.
PublishersApart ==
    \A s, q \in sessions :
        type[s] = "PUSH" /\ type[q] = "PUSH" /\ roomId[s] = roomId[q] => s = q

(***************************************************************************)
(* RoomsMatchPublishers in the form a step preserves, with what the close  *)
(* of a session and the reuse of its address need.                         *)
(***************************************************************************)
IInv ==
    /\ TypeOK
    /\ PoolMatchesRooms
    /\ Unused
    /\ PullersNameSlots
    /\ PublisherHasRoom
    /\ RoomHasPublisher
    /\ PublishersApart
    /\ NoDanglingVisitors

\* The initial state satisfies the invariant: no sessions, no rooms.
LEMMA InitIInv == Init => IInv
BY ConstantsAssumption
   DEF Init, IInv, TypeOK, PoolMatchesRooms, Unused, PullersNameSlots,
       PublisherHasRoom, RoomHasPublisher, PublishersApart, NoDanglingVisitors

(***************************************************************************)
(* Closing a session preserves the invariant: a session as it is, one that *)
(* a refused publish made PUSH with room_id_ -1, one that a refused play   *)
(* made PULL of an empty slot.                                             *)
(***************************************************************************)
LEMMA CloseStep ==
    ASSUME IInv, NEW s \in sessions, NEW t, NEW r, CloseSession(s, t, r),
           \/ t = type[s] /\ r = roomId[s]
           \/ t = "PUSH" /\ r = NoRoom /\ type[s] = "UNDEFINED"
           \/ t = "PULL" /\ r \in RoomIds /\ rooms[r] = Null /\ type[s] = "UNDEFINED"
    PROVE  IInv'
<1>0. /\ TypeOK
      /\ s \in Sessions
      /\ t \in {"UNDEFINED", "PULL", "PUSH"}
      /\ r \in RoomIds \cup {NoRoom}
      /\ t = "PULL" => r \in RoomIds
      /\ sessions' = sessions \ {s}
      /\ type' = [type EXCEPT ![s] = "UNDEFINED"]
      /\ roomId' = [roomId EXCEPT ![s] = NoRoom]
  BY DEF IInv, TypeOK, PullersNameSlots, CloseSession
<1>1. CASE t = "PULL" /\ rooms[r] # Null
  <2>1. /\ rooms' = [rooms EXCEPT ![r] = Leave(rooms[r], s)]
        /\ idPool' = idPool
        /\ t = type[s] /\ r = roomId[s] /\ r \in RoomIds
    BY <1>0, <1>1 DEF CloseSession, RoomsAfterClose, PoolAfterClose
  <2>2. rooms[r] \in Room
    BY <1>0, <1>1 DEF TypeOK
  <2>3. /\ Leave(rooms[r], s) \in Room
        /\ DOMAIN Leave(rooms[r], s).visitors = DOMAIN rooms[r].visitors \ {s}
    BY <2>2, LeaveType
  <2>4. Leave(rooms[r], s) # Null
    BY <2>3, ConstantsAssumption
  <2>5. TypeOK'
    BY <1>0, <2>1, <2>3 DEF TypeOK, CloseSession
  <2>6. PoolMatchesRooms'
    BY <1>0, <1>1, <2>1, <2>4 DEF IInv, PoolMatchesRooms, TypeOK
  <2>7. Unused' /\ PullersNameSlots' /\ PublisherHasRoom' /\ RoomHasPublisher' /\ PublishersApart'
    BY <1>0, <1>1, <2>1, <2>4
       DEF IInv, TypeOK, Unused, PullersNameSlots, PublisherHasRoom, RoomHasPublisher, PublishersApart
  <2>8. NoDanglingVisitors'
    BY <1>0, <1>1, <2>1, <2>3, <2>4 DEF IInv, TypeOK, NoDanglingVisitors
  <2> QED BY <2>5, <2>6, <2>7, <2>8 DEF IInv
<1>2. CASE t = "PUSH" /\ r \in RoomIds \ idPool
  <2>1. /\ rooms' = [rooms EXCEPT ![r] = Null]
        /\ idPool' = idPool \cup {r}
        /\ type[s] = "PUSH" /\ roomId[s] = r
    BY <1>0, <1>2, ConstantsAssumption DEF CloseSession, RoomsAfterClose, PoolAfterClose
  <2>2. TypeOK'
    BY <1>0, <2>1, <1>2 DEF TypeOK, CloseSession
  <2>3. PoolMatchesRooms'
    BY <1>0, <1>2, <2>1 DEF IInv, PoolMatchesRooms, TypeOK
  <2>4. Unused' /\ PullersNameSlots' /\ PublishersApart'
    BY <1>0, <2>1 DEF IInv, TypeOK, Unused, PullersNameSlots, PublishersApart
  <2>5. PublisherHasRoom' /\ RoomHasPublisher'
    BY <1>0, <1>2, <2>1 DEF IInv, TypeOK, PublisherHasRoom, RoomHasPublisher, PublishersApart
  <2>6. NoDanglingVisitors'
    BY <1>0, <1>2, <2>1 DEF IInv, TypeOK, NoDanglingVisitors
  <2> QED BY <2>2, <2>3, <2>4, <2>5, <2>6 DEF IInv
<1>3. CASE /\ ~ (t = "PULL" /\ rooms[r] # Null)
           /\ ~ (t = "PUSH" /\ r \in RoomIds \ idPool)
  <2>1. rooms' = rooms
    BY <1>0, <1>3 DEF CloseSession, RoomsAfterClose
  <2>2. type[s] # "PUSH"
    BY <1>0, <1>3, ConstantsAssumption DEF IInv, TypeOK, PublisherHasRoom, PoolMatchesRooms
  <2>3. idPool' = idPool
    BY <1>0, <1>3, <2>2, ConstantsAssumption DEF CloseSession, PoolAfterClose
  <2>4. TypeOK'
    BY <1>0, <2>1, <2>3 DEF TypeOK, CloseSession
  <2>5. PoolMatchesRooms'
    BY <2>1, <2>3 DEF IInv, PoolMatchesRooms
  <2>6. Unused' /\ PullersNameSlots' /\ PublisherHasRoom' /\ RoomHasPublisher' /\ PublishersApart'
    BY <1>0, <2>1, <2>2
       DEF IInv, TypeOK, Unused, PullersNameSlots, PublisherHasRoom, RoomHasPublisher, PublishersApart
  <2>7. NoDanglingVisitors'
    BY <1>0, <1>3, <2>1, <2>2 DEF IInv, TypeOK, NoDanglingVisitors
  <2> QED BY <2>4, <2>5, <2>6, <2>7 DEF IInv
<1> QED BY <1>1, <1>2, <1>3

\* Every step preserves the invariant.
LEMMA NextIInv == IInv /\ [Next]_vars => IInv'
<1> SUFFICES ASSUME IInv, [Next]_vars PROVE IInv'
  OBVIOUS
<1>0. TypeOK /\ NoRoom \notin RoomIds /\ Null \notin Room
  BY ConstantsAssumption DEF IInv
<1>1. ASSUME NEW s \in Sessions, Accept(s) PROVE IInv'
  <2>1. TypeOK'
    BY <1>0, <1>1 DEF TypeOK, Accept
  <2>2. PoolMatchesRooms'
    BY <1>1 DEF IInv, PoolMatchesRooms, Accept
  <2>3. Unused' /\ PullersNameSlots' /\ PublisherHasRoom' /\ RoomHasPublisher' /\ PublishersApart'
    BY <1>0, <1>1 DEF IInv, TypeOK, Accept, Unused, PullersNameSlots, PublisherHasRoom,
                      RoomHasPublisher, PublishersApart
  <2>4. NoDanglingVisitors'
    BY <1>0, <1>1 DEF IInv, TypeOK, Accept, NoDanglingVisitors
  <2> QED BY <2>1, <2>2, <2>3, <2>4 DEF IInv
<1>2. ASSUME NEW s \in Sessions, Disconnect(s) PROVE IInv'
  BY <1>2, CloseStep DEF Disconnect
<1>3. ASSUME NEW s \in Sessions, NEW r \in RoomIds, Connect(s, r) PROVE IInv'
  <2>1. TypeOK'
    BY <1>0, <1>3 DEF TypeOK, Connect
  <2>2. PoolMatchesRooms'
    BY <1>3 DEF IInv, PoolMatchesRooms, Connect
  <2>3. Unused' /\ PullersNameSlots' /\ PublisherHasRoom' /\ RoomHasPublisher' /\ PublishersApart'
    BY <1>0, <1>3 DEF IInv, TypeOK, Connect, Unused, PullersNameSlots, PublisherHasRoom,
                      RoomHasPublisher, PublishersApart
  <2>4. NoDanglingVisitors'
    BY <1>0, <1>3 DEF IInv, TypeOK, Connect, NoDanglingVisitors
  <2> QED BY <2>1, <2>2, <2>3, <2>4 DEF IInv
<1>4. ASSUME NEW s \in Sessions, NEW r \in RoomIds, Publish(s, r) PROVE IInv'
  <2>1. /\ NewRoom(created + 1) \in Room
        /\ NewRoom(created + 1) # Null
        /\ DOMAIN NewRoom(created + 1).visitors = {}
    BY <1>0, NewRoomType DEF TypeOK
  <2>2. rooms[r] = Null /\ \A q \in sessions : type[q] = "PUSH" => roomId[q] # r
    BY <1>4 DEF Publish, IInv, PoolMatchesRooms, PublisherHasRoom
  <2>3. TypeOK'
    BY <1>0, <1>4, <2>1 DEF TypeOK, Publish
  <2>4. PoolMatchesRooms'
    BY <1>0, <1>4, <2>1 DEF IInv, TypeOK, PoolMatchesRooms, Publish
  <2>5. Unused' /\ PullersNameSlots' /\ PublishersApart'
    BY <1>0, <1>4, <2>2 DEF IInv, TypeOK, Publish, Unused, PullersNameSlots, PublishersApart
  <2>6. PublisherHasRoom' /\ RoomHasPublisher'
    BY <1>0, <1>4, <2>1, <2>2 DEF IInv, TypeOK, Publish, PublisherHasRoom, RoomHasPublisher
  <2>7. NoDanglingVisitors'
    BY <1>0, <1>4, <2>1, <2>2 DEF IInv, TypeOK, Publish, NoDanglingVisitors
  <2> QED BY <2>3, <2>4, <2>5, <2>6, <2>7 DEF IInv
<1>5. ASSUME NEW s \in Sessions, PublishRefused(s) PROVE IInv'
  BY <1>5, CloseStep DEF PublishRefused
<1>6. ASSUME NEW s \in Sessions, Play(s) PROVE IInv'
  <2> DEFINE r == roomId[s]
             new == Enter(rooms[r], s)
  <2>1. r \in RoomIds /\ rooms[r] \in Room
    BY <1>0, <1>6 DEF Play, TypeOK
  <2>2. /\ new \in Room
        /\ new # Null
        /\ DOMAIN new.visitors = DOMAIN rooms[r].visitors \cup {s}
    BY <1>0, <2>1, EnterType
  <2>3. Replay(rooms[r]) \in Seq(Nat)
    BY <2>1, ReplayType
  <2>4. rooms' = [rooms EXCEPT ![r] = new] /\ rooms[r] # Null
    BY <1>6 DEF Play
  <2> HIDE DEF new
  <2>5. TypeOK'
    BY <1>0, <1>6, <2>1, <2>2, <2>3, <2>4 DEF TypeOK, Play
  <2>6. PoolMatchesRooms'
    BY <1>0, <1>6, <2>1, <2>2, <2>4 DEF IInv, TypeOK, PoolMatchesRooms, Play
  <2>7. Unused' /\ PullersNameSlots' /\ PublishersApart'
    BY <1>0, <1>6, <2>1 DEF IInv, TypeOK, Play, Unused, PullersNameSlots, PublishersApart
  <2>8. PublisherHasRoom' /\ RoomHasPublisher'
    BY <1>0, <1>6, <2>1, <2>2, <2>4 DEF IInv, TypeOK, Play, PublisherHasRoom, RoomHasPublisher
  <2>9. NoDanglingVisitors'
    BY <1>0, <1>6, <2>1, <2>2, <2>4 DEF IInv, TypeOK, Play, NoDanglingVisitors
  <2> QED BY <2>5, <2>6, <2>7, <2>8, <2>9 DEF IInv
<1>7. ASSUME NEW s \in Sessions, PlayRefused(s) PROVE IInv'
  <2>1. roomId[s] \in RoomIds
    BY <1>0, <1>7 DEF PlayRefused, TypeOK
  <2> QED BY <1>7, <2>1, CloseStep DEF PlayRefused
<1>8. ASSUME NEW s \in Sessions, StartAgain(s) PROVE IInv'
  BY <1>8, CloseStep DEF StartAgain
<1>9. ASSUME NEW s \in Sessions, NEW kind \in Kinds, Media(s, kind) PROVE IInv'
  <2> DEFINE r == roomId[s]
             n == Len(history) + 1
             new == AddData(rooms[r], kind, n)
  <2>1. r \in RoomIds /\ rooms[r] # Null /\ rooms[r] \in Room /\ n \in Nat
    BY <1>0, <1>9 DEF Media, IInv, TypeOK, PublisherHasRoom
  <2>2. /\ new \in Room
        /\ new # Null
        /\ DOMAIN new.visitors = DOMAIN rooms[r].visitors
    BY <1>0, <2>1, AddDataType
  <2>3. rooms' = [rooms EXCEPT ![r] = new]
    BY <1>9 DEF Media
  <2>4. history' \in Seq([stream: Nat, kind: Kinds])
    BY <1>0, <1>9, <2>1 DEF Media, TypeOK, Room
  <2>5. sent' \in [Sessions -> Seq(Nat)]
    BY <1>0, <1>9, <2>1 DEF Media, TypeOK
  <2> HIDE DEF new, n
  <2>6. TypeOK'
    BY <1>0, <1>9, <2>1, <2>2, <2>3, <2>4, <2>5 DEF TypeOK, Media
  <2>7. PoolMatchesRooms'
    BY <1>0, <1>9, <2>1, <2>2, <2>3 DEF IInv, TypeOK, PoolMatchesRooms, Media
  <2>8. Unused' /\ PullersNameSlots' /\ PublishersApart'
    BY <1>9 DEF IInv, Media, Unused, PullersNameSlots, PublishersApart
  <2>9. PublisherHasRoom' /\ RoomHasPublisher'
    BY <1>0, <1>9, <2>1, <2>2, <2>3 DEF IInv, TypeOK, Media, PublisherHasRoom, RoomHasPublisher
  <2>10. NoDanglingVisitors'
    BY <1>0, <1>9, <2>1, <2>2, <2>3 DEF IInv, TypeOK, Media, NoDanglingVisitors
  <2> QED BY <2>6, <2>7, <2>8, <2>9, <2>10 DEF IInv
<1>10. CASE UNCHANGED vars
  BY <1>10 DEF vars, IInv, TypeOK, PoolMatchesRooms, Unused, PullersNameSlots, PublisherHasRoom,
               RoomHasPublisher, PublishersApart, NoDanglingVisitors
<1> QED
  BY <1>1, <1>2, <1>3, <1>4, <1>5, <1>6, <1>7, <1>8, <1>9, <1>10 DEF Next

\* The invariant holds in every reachable state.
LEMMA SpecIInv == Spec => []IInv
BY InitIInv, NextIInv, PTL DEF Spec

-----------------------------------------------------------------------------
(* One stream for each viewer *)

\* Position n of the history belongs to a stream,
OfStream(h, n, stream) == n \in 1..Len(h) /\ h[n].stream = stream

\* as do all positions of a sequence,
AllOf(h, q, stream) == \A i \in DOMAIN q : OfStream(h, q[i], stream)

\* and all a room keeps for those who join.
Keeps(h, room) ==
    /\ room.meta # 0 => OfStream(h, room.meta, room.stream)
    /\ room.aacHeader # 0 => OfStream(h, room.aacHeader, room.stream)
    /\ AllOf(h, room.cache, room.stream)

(***************************************************************************)
(* NoCrossTalk with what is replayed, and with the silence before play: a  *)
(* session joins a room with nothing of another one.                       *)
(***************************************************************************)
Apart ==
    /\ \A s \in Sessions : \E stream : AllOf(history, sent[s], stream)
    /\ \A s \in Sessions : type[s] # "PULL" => sent[s] = <<>>
    /\ \A r \in RoomIds : rooms[r] # Null =>
        /\ Keeps(history, rooms[r])
        /\ \A v \in DOMAIN rooms[r].visitors : AllOf(history, sent[v], rooms[r].stream)

\* Two sequences of one stream make one.
LEMMA AllOfConcat ==
    ASSUME NEW h, NEW q \in Seq(Nat), NEW p \in Seq(Nat), NEW stream,
           AllOf(h, q, stream), AllOf(h, p, stream)
    PROVE  AllOf(h, q \o p, stream)
<1> SUFFICES ASSUME NEW i \in DOMAIN (q \o p) PROVE OfStream(h, (q \o p)[i], stream)
  BY DEF AllOf
<1>1. CASE i \in DOMAIN q
  <2>1. (q \o p)[i] = q[i]
    BY <1>1
  <2> QED BY <1>1, <2>1 DEF AllOf
<1>2. CASE i \notin DOMAIN q
  <2>1. (q \o p)[i] = p[i - Len(q)] /\ i - Len(q) \in DOMAIN p
    BY <1>2
  <2> QED BY <2>1 DEF AllOf
<1> QED BY <1>1, <1>2

\* What is replayed is of the room's stream.
LEMMA ReplayOfStream ==
    ASSUME NEW h, NEW room \in Room, Keeps(h, room)
    PROVE  AllOf(h, Replay(room), room.stream)
<1> DEFINE m == IF room.meta # 0 THEN <<room.meta>> ELSE <<>>
           a == IF room.aacHeader # 0 THEN <<room.aacHeader>> ELSE <<>>
<1>1. m \in Seq(Nat) /\ a \in Seq(Nat) /\ room.cache \in Seq(Nat)
  BY DEF Room
<1>2. AllOf(h, m, room.stream) /\ AllOf(h, a, room.stream) /\ AllOf(h, room.cache, room.stream)
  BY DEF Keeps, AllOf
<1>3. Replay(room) = (m \o a) \o room.cache
  BY DEF Replay
<1> HIDE DEF m, a
<1>4. m \o a \in Seq(Nat) /\ AllOf(h, m \o a, room.stream)
  BY <1>1, <1>2, AllOfConcat
<1> QED BY <1>1, <1>2, <1>3, <1>4, AllOfConcat

\* What was published stays what it was.
LEMMA HistoryGrows ==
    ASSUME NEW h \in Seq([stream: Nat, kind: Kinds]), NEW e \in [stream: Nat, kind: Kinds]
    PROVE  /\ \A n, stream : OfStream(h, n, stream) => OfStream(Append(h, e), n, stream)
           /\ \A q, stream : AllOf(h, q, stream) => AllOf(Append(h, e), q, stream)
           /\ \A room : Keeps(h, room) => Keeps(Append(h, e), room)
           /\ OfStream(Append(h, e), Len(h) + 1, e.stream)
<1>1. /\ Len(Append(h, e)) = Len(h) + 1 /\ Len(h) \in Nat
      /\ \A n \in 1..Len(h) : Append(h, e)[n] = h[n]
      /\ Append(h, e)[Len(h) + 1] = e
  OBVIOUS
<1>2. \A n, stream : OfStream(h, n, stream) => OfStream(Append(h, e), n, stream)
  BY <1>1 DEF OfStream
<1>3. \A q, stream : AllOf(h, q, stream) => AllOf(Append(h, e), q, stream)
  BY <1>2 DEF AllOf
<1>4. OfStream(Append(h, e), Len(h) + 1, e.stream)
  BY <1>1 DEF OfStream
<1>5. \A room : Keeps(h, room) => Keeps(Append(h, e), room)
  BY <1>2, <1>3 DEF Keeps
<1> QED BY <1>2, <1>3, <1>4, <1>5

\* Closing a session makes no room talk.
LEMMA CloseApart ==
    ASSUME IInv, Apart, NEW s \in sessions, NEW t, NEW r, CloseSession(s, t, r),
           t = "PULL" => r \in RoomIds
    PROVE  Apart'
<1>1. /\ TypeOK /\ s \in Sessions /\ history' = history
      /\ type' = [type EXCEPT ![s] = "UNDEFINED"]
      /\ sent' = [sent EXCEPT ![s] = <<>>]
  BY DEF IInv, TypeOK, CloseSession
<1>2. \A stream : AllOf(history, <<>>, stream)
  BY DEF AllOf
<1>3. \A q \in RoomIds : rooms'[q] # Null =>
        /\ rooms[q] # Null
        /\ rooms'[q].stream = rooms[q].stream /\ rooms'[q].meta = rooms[q].meta
        /\ rooms'[q].aacHeader = rooms[q].aacHeader /\ rooms'[q].cache = rooms[q].cache
        /\ DOMAIN rooms'[q].visitors \subseteq DOMAIN rooms[q].visitors
  <2>1. CASE t = "PULL" /\ rooms[r] # Null
    <3>1. r \in RoomIds /\ rooms[r] \in Room /\ rooms' = [rooms EXCEPT ![r] = Leave(rooms[r], s)]
      BY <1>1, <2>1 DEF TypeOK, CloseSession, RoomsAfterClose
    <3>2. /\ Leave(rooms[r], s).stream = rooms[r].stream /\ Leave(rooms[r], s).meta = rooms[r].meta
          /\ Leave(rooms[r], s).aacHeader = rooms[r].aacHeader /\ Leave(rooms[r], s).cache = rooms[r].cache
      BY <3>1 DEF Leave, Room
    <3>3. DOMAIN Leave(rooms[r], s).visitors \subseteq DOMAIN rooms[r].visitors
      BY <3>1, LeaveType
    <3> QED BY <1>1, <2>1, <3>1, <3>2, <3>3 DEF TypeOK
  <2>2. CASE ~ (t = "PULL" /\ rooms[r] # Null)
    BY <1>1, <2>2 DEF TypeOK, CloseSession, RoomsAfterClose
  <2> QED BY <2>1, <2>2
<1>4. \A q \in Sessions : sent'[q] = sent[q] \/ sent'[q] = <<>>
  BY <1>1 DEF TypeOK
<1>5. \A q \in RoomIds : rooms[q] # Null => DOMAIN rooms[q].visitors \subseteq Sessions
  BY <1>1 DEF IInv, TypeOK, NoDanglingVisitors
<1>6. \A q \in Sessions : \E stream : AllOf(history', sent'[q], stream)
  BY <1>1, <1>2, <1>4 DEF Apart
<1>7. \A q \in Sessions : type'[q] # "PULL" => sent'[q] = <<>>
  BY <1>1 DEF Apart, TypeOK
<1>8. \A q \in RoomIds : rooms'[q] # Null =>
        /\ Keeps(history', rooms'[q])
        /\ \A v \in DOMAIN rooms'[q].visitors : AllOf(history', sent'[v], rooms'[q].stream)
  BY <1>1, <1>2, <1>3, <1>4, <1>5 DEF Apart, Keeps
<1> QED BY <1>6, <1>7, <1>8 DEF Apart

\* Every step keeps the streams apart.
LEMMA NextApart == IInv /\ Apart /\ [Next]_vars => Apart'
<1> SUFFICES ASSUME IInv, Apart, [Next]_vars PROVE Apart'
  OBVIOUS
<1>0. TypeOK /\ NoRoom \notin RoomIds /\ Null \notin Room
  BY ConstantsAssumption DEF IInv
<1>1. ASSUME NEW s \in Sessions, Accept(s) \/ (\E r \in RoomIds : Connect(s, r)) PROVE Apart'
  BY <1>1 DEF Accept, Connect, Apart
<1>2. ASSUME NEW s \in Sessions, Disconnect(s) \/ PublishRefused(s) \/ PlayRefused(s) \/ StartAgain(s)
      PROVE  Apart'
  <2>1. type[s] = "PULL" => roomId[s] \in RoomIds
    BY <1>2 DEF IInv, PullersNameSlots, Disconnect, PublishRefused, PlayRefused, StartAgain
  <2>2. PlayRefused(s) => roomId[s] \in RoomIds
    BY <1>0 DEF PlayRefused, TypeOK
  <2> QED BY <1>2, <2>1, <2>2, CloseApart DEF Disconnect, PublishRefused, PlayRefused, StartAgain
<1>3. ASSUME NEW s \in Sessions, NEW r \in RoomIds, Publish(s, r) PROVE Apart'
  <2> DEFINE new == NewRoom(created + 1)
  <2>1. DOMAIN new.visitors = {} /\ Keeps(history, new)
    BY DEF NewRoom, Keeps, AllOf
  <2>2. rooms' = [rooms EXCEPT ![r] = new] /\ type' = [type EXCEPT ![s] = "PUSH"]
    BY <1>3 DEF Publish
  <2> HIDE DEF new
  <2>3. sent[s] = <<>>
    BY <1>3 DEF Publish, Apart
  <2> QED BY <1>0, <1>3, <2>1, <2>2, <2>3 DEF Publish, Apart, TypeOK
<1>4. ASSUME NEW s \in Sessions, Play(s) PROVE Apart'
  <2> DEFINE r == roomId[s]
             new == Enter(rooms[r], s)
             got == Replay(rooms[r])
  <2>1. r \in RoomIds /\ rooms[r] # Null /\ rooms[r] \in Room /\ type[s] = "UNDEFINED"
    BY <1>0, <1>4 DEF Play, TypeOK
  <2>2. /\ new.stream = rooms[r].stream /\ DOMAIN new.visitors = DOMAIN rooms[r].visitors \cup {s}
        /\ new.meta = rooms[r].meta /\ new.aacHeader = rooms[r].aacHeader /\ new.cache = rooms[r].cache
    <3>1. new.meta = rooms[r].meta /\ new.aacHeader = rooms[r].aacHeader /\ new.cache = rooms[r].cache
      BY <2>1 DEF Enter, Room
    <3> QED BY <2>1, <3>1, EnterType
  <2>3. got \in Seq(Nat) /\ AllOf(history, got, rooms[r].stream)
    BY <2>1, ReplayType, ReplayOfStream DEF Apart
  <2>4. sent[s] = <<>> /\ sent[s] \o got = got
    <3>1. sent[s] = <<>>
      BY <2>1 DEF Apart
    <3> HIDE DEF got
    <3>2. <<>> \o got = got
      BY <2>3
    <3> QED BY <3>1, <3>2
  <2>5. /\ rooms' = [rooms EXCEPT ![r] = new] /\ sent' = [sent EXCEPT ![s] = sent[s] \o got]
        /\ type' = [type EXCEPT ![s] = "PULL"] /\ history' = history
    BY <1>4 DEF Play
  <2>6. \A q \in RoomIds : rooms[q] # Null =>
          s \notin DOMAIN rooms[q].visitors /\ DOMAIN rooms[q].visitors \subseteq Sessions
    BY <1>0, <2>1 DEF IInv, TypeOK, NoDanglingVisitors
  <2> HIDE DEF r, new, got
  <2>7. sent'[s] = got /\ \A v \in Sessions \ {s} : sent'[v] = sent[v]
    BY <1>0, <2>4, <2>5 DEF TypeOK
  <2>8. \A v \in Sessions : \E stream : AllOf(history', sent'[v], stream)
    BY <2>3, <2>5, <2>7 DEF Apart
  <2>9. \A v \in Sessions : type'[v] # "PULL" => sent'[v] = <<>>
    BY <1>0, <2>5, <2>7 DEF Apart, TypeOK
  <2>10. \A q \in RoomIds : rooms'[q] # Null =>
          /\ Keeps(history', rooms'[q])
          /\ \A v \in DOMAIN rooms'[q].visitors : AllOf(history', sent'[v], rooms'[q].stream)
    <3> SUFFICES ASSUME NEW q \in RoomIds, rooms'[q] # Null
                 PROVE  /\ Keeps(history', rooms'[q])
                        /\ \A v \in DOMAIN rooms'[q].visitors : AllOf(history', sent'[v], rooms'[q].stream)
      OBVIOUS
    <3>1. CASE q = r
      <4>1. rooms'[q] = new
        BY <1>0, <2>5, <3>1 DEF TypeOK
      <4>2. Keeps(history, rooms[r]) /\ \A v \in DOMAIN rooms[r].visitors : AllOf(history, sent[v], rooms[r].stream)
        BY <2>1 DEF Apart
      <4>3. Keeps(history', new)
        BY <2>2, <2>5, <4>2 DEF Keeps
      <4>4. ASSUME NEW v \in DOMAIN new.visitors PROVE AllOf(history', sent'[v], new.stream)
        <5>1. CASE v = s
          BY <2>2, <2>3, <2>5, <2>7, <5>1
        <5>2. CASE v # s
          <6>1. v \in DOMAIN rooms[r].visitors /\ v \in Sessions
            BY <2>1, <2>2, <2>6, <4>4, <5>2
          <6> QED BY <2>2, <2>5, <2>7, <4>2, <5>2, <6>1
        <5> QED BY <5>1, <5>2
      <4> QED BY <4>1, <4>3, <4>4
    <3>2. CASE q # r
      <4>1. rooms'[q] = rooms[q]
        BY <1>0, <2>5, <3>2 DEF TypeOK
      <4> QED BY <2>5, <2>6, <2>7, <4>1 DEF Apart
    <3> QED BY <3>1, <3>2
  <2> QED BY <2>8, <2>9, <2>10 DEF Apart
<1>5. ASSUME NEW s \in Sessions, NEW kind \in Kinds, Media(s, kind) PROVE Apart'
  <2> DEFINE r == roomId[s]
             n == Len(history) + 1
             e == [stream |-> rooms[r].stream, kind |-> kind]
             new == AddData(rooms[r], kind, n)
             to == Receivers(rooms[r], kind)
  <2>1. r \in RoomIds /\ rooms[r] # Null /\ rooms[r] \in Room /\ n \in Nat /\ s \in sessions
    BY <1>0, <1>5 DEF Media, IInv, TypeOK, PublisherHasRoom
  <2>2. /\ history' = Append(history, e) /\ rooms' = [rooms EXCEPT ![r] = new] /\ type' = type
        /\ sent' = [v \in Sessions |-> IF v \in to THEN Append(sent[v], n) ELSE sent[v]]
    BY <1>5 DEF Media
  <2>3. history \in Seq([stream: Nat, kind: Kinds]) /\ e \in [stream: Nat, kind: Kinds]
    BY <1>0, <2>1 DEF TypeOK, Room
  <2>4. /\ \A q, stream : AllOf(history, q, stream) => AllOf(history', q, stream)
        /\ \A room : Keeps(history, room) => Keeps(history', room)
        /\ OfStream(history', n, rooms[r].stream)
    BY <2>2, <2>3, HistoryGrows
  <2>5. /\ new.stream = rooms[r].stream /\ DOMAIN new.visitors = DOMAIN rooms[r].visitors
        /\ new.meta \in {n, rooms[r].meta} /\ new.aacHeader \in {n, rooms[r].aacHeader}
        /\ new.cache \in {<<n>>, Append(rooms[r].cache, n), rooms[r].cache}
    <3>1. new.meta \in {n, rooms[r].meta} /\ new.aacHeader \in {n, rooms[r].aacHeader}
      BY <2>1 DEF AddData, Room
    <3>2. new.cache \in {<<n>>, Append(rooms[r].cache, n), rooms[r].cache}
      BY <2>1 DEF AddData, Room, CacheAfter
    <3> QED BY <2>1, <3>1, <3>2, AddDataType
  <2>6. to \subseteq DOMAIN rooms[r].visitors
    BY DEF Receivers
  <2>7. \A q \in RoomIds : rooms[q] # Null => \A v \in DOMAIN rooms[q].visitors :
          v \in Sessions /\ type[v] = "PULL" /\ (v \in to => q = r)
    BY <1>0, <2>1, <2>6 DEF IInv, TypeOK, NoDanglingVisitors
  <2>8. \A q \in Seq(Nat) : AllOf(history', q, rooms[r].stream) => AllOf(history', Append(q, n), rooms[r].stream)
    BY <2>1, <2>4 DEF AllOf
  <2>9. AllOf(history', <<n>>, rooms[r].stream)
    BY <2>4 DEF AllOf
  <2>10. \A v \in Sessions : sent[v] \in Seq(Nat) /\ sent'[v] = IF v \in to THEN Append(sent[v], n) ELSE sent[v]
    BY <1>0, <2>2 DEF TypeOK
  <2> HIDE DEF r, n, e, new, to
  <2>11. \A v \in DOMAIN rooms[r].visitors : AllOf(history', sent'[v], rooms[r].stream)
    BY <2>1, <2>4, <2>7, <2>8, <2>10 DEF Apart
  <2>12. \A v \in Sessions : \E stream : AllOf(history', sent'[v], stream)
    <3> SUFFICES ASSUME NEW v \in Sessions PROVE \E stream : AllOf(history', sent'[v], stream)
      OBVIOUS
    <3>1. CASE v \in to
      BY <2>6, <2>11, <3>1
    <3>2. CASE v \notin to
      BY <2>4, <2>10, <3>2 DEF Apart
    <3> QED BY <3>1, <3>2
  <2>13. \A v \in Sessions : type'[v] # "PULL" => sent'[v] = <<>>
    BY <2>1, <2>2, <2>6, <2>7, <2>10 DEF Apart
  <2>14. Keeps(history', new)
    <3>1. Keeps(history', rooms[r]) /\ rooms[r].cache \in Seq(Nat)
      BY <2>1, <2>4 DEF Apart, Room
    <3>2. AllOf(history', new.cache, rooms[r].stream)
      BY <2>5, <2>8, <2>9, <3>1 DEF Keeps
    <3>3. \A k \in {n, rooms[r].meta, rooms[r].aacHeader} : k # 0 => OfStream(history', k, rooms[r].stream)
      BY <2>4, <3>1 DEF Keeps
    <3> QED BY <2>5, <3>2, <3>3 DEF Keeps
  <2>15. \A q \in RoomIds : rooms'[q] # Null =>
          /\ Keeps(history', rooms'[q])
          /\ \A v \in DOMAIN rooms'[q].visitors : AllOf(history', sent'[v], rooms'[q].stream)
    <3> SUFFICES ASSUME NEW q \in RoomIds, rooms'[q] # Null
                 PROVE  /\ Keeps(history', rooms'[q])
                        /\ \A v \in DOMAIN rooms'[q].visitors : AllOf(history', sent'[v], rooms'[q].stream)
      OBVIOUS
    <3>1. CASE q = r
      <4>1. rooms'[q] = new
        BY <1>0, <2>2, <3>1 DEF TypeOK
      <4> QED BY <2>5, <2>11, <2>14, <4>1
    <3>2. CASE q # r
      <4>1. rooms'[q] = rooms[q]
        BY <1>0, <2>2, <3>2 DEF TypeOK
      <4> QED BY <2>4, <2>7, <2>10, <3>2, <4>1 DEF Apart
    <3> QED BY <3>1, <3>2
  <2> QED BY <2>12, <2>13, <2>15 DEF Apart
<1>6. CASE UNCHANGED vars
  BY <1>6 DEF vars, Apart
<1> QED BY <1>1, <1>2, <1>3, <1>4, <1>5, <1>6 DEF Next

-----------------------------------------------------------------------------
(* What a viewer receives *)

(***************************************************************************)
(* The operators of LiveRooms with the history and a session's data as     *)
(* parameters: a step changes both.                                        *)
(***************************************************************************)
Frames(h, st, K) == {n \in DOMAIN h : h[n].stream = st /\ h[n].kind \in K}

Got(h, q, K) == {n \in ToSet(q) : h[n].kind \in K}

Ordered(h, q, K) ==
    \A i, j \in DOMAIN q :
        i < j /\ h[q[i]].kind \in K /\ h[q[j]].kind \in K => q[i] < q[j]

FromKey(h, st) ==
    {n \in Frames(h, st, Video) : \A k \in Frames(h, st, Video) : h[k].kind = "key" => k <= n}

\* n is the stream's last payload of a kind, or 0 as there is none.
Newest(h, n, st, kind) ==
    IF n = 0 THEN Frames(h, st, {kind}) = {}
    ELSE n \in Frames(h, st, {kind}) /\ \A m \in Frames(h, st, {kind}) : m <= n

\* What a room keeps is up to date.
RoomCurrent(h, room) ==
    /\ Newest(h, room.meta, room.stream, "meta")
    /\ Newest(h, room.aacHeader, room.stream, "aacHeader")
    /\ Ordered(h, room.cache, Video)
    /\ ToSet(room.cache) = FromKey(h, room.stream)
    /\ room.cache = <<>> => Frames(h, room.stream, Video) = {}

(***************************************************************************)
(* The parts of GapFree and MetaCurrent for what a viewer got, q, with     *)
(* what its flags say of it.                                               *)
(***************************************************************************)
VideoServed(h, st, flag, q) ==
    /\ Ordered(h, q, Video)
    /\ Got(h, q, Video) \subseteq Frames(h, st, Video)
    /\ \A i \in Got(h, q, Video), j \in Frames(h, st, Video) : i < j => j \in Got(h, q, Video)
    /\ flag = TRUE => FromKey(h, st) \subseteq Got(h, q, Video)
    /\ flag = FALSE => /\ Got(h, q, Video) = {}
                       /\ \A k \in Frames(h, st, Video) : h[k].kind # "key"

AudioServed(h, st, flag, q) ==
    /\ Ordered(h, q, Audio)
    /\ Got(h, q, Audio) \subseteq Frames(h, st, Audio)
    /\ flag = TRUE => \E first \in Got(h, q, Audio) :
        /\ h[first].kind = "aacHeader"
        /\ \A i \in Got(h, q, Audio) : first <= i
        /\ \A i \in Got(h, q, Audio) \ {first}, j \in Frames(h, st, Audio) :
              i < j => j \in Got(h, q, Audio)
    /\ flag = FALSE => /\ Got(h, q, Audio) = {}
                       /\ \A k \in Frames(h, st, Audio) : h[k].kind # "aacHeader"

MetaServed(h, st, q) ==
    /\ Ordered(h, q, {"meta"})
    /\ Got(h, q, {"meta"}) \subseteq Frames(h, st, {"meta"})
    /\ \A n \in Frames(h, st, {"meta"}) : \E k \in Got(h, q, {"meta"}) : n <= k

\* q ends with the stream's newest sequence header, audio frames aside.
HeaderAtHand(h, st, q) ==
    \E i \in DOMAIN q :
        /\ Newest(h, q[i], st, "aacHeader")
        /\ q[i] # 0
        /\ \A k \in (i + 1)..Len(q) : h[q[k]].kind # "aacHeader"

\* What AudioDecodable says of the data of one session.
Decodable(h, q) ==
    \A j \in DOMAIN q : h[q[j]].kind = "aac" =>
        \E i \in 1..(j - 1) :
            /\ q[i] \in {m \in Frames(h, h[q[j]].stream, {"aacHeader"}) : m < q[j]}
            /\ \A m \in Frames(h, h[q[j]].stream, {"aacHeader"}) : m < q[j] => m <= q[i]
            /\ \A k \in (i + 1)..(j - 1) : h[q[k]].kind # "aacHeader"

Log == Seq([stream: Nat, kind: Kinds])

\* Streams are numbers.
LEMMA LogStreams ==
    ASSUME NEW h \in Log
    PROVE  \A n \in DOMAIN h : h[n].stream \in Nat
<1> SUFFICES ASSUME NEW n \in DOMAIN h PROVE h[n].stream \in Nat
  OBVIOUS
<1> DEFINE Payload == [stream: Nat, kind: Kinds]
<1>1. h \in Seq(Payload)
  BY DEF Log
<1>2. ASSUME NEW x \in Payload PROVE x.stream \in Nat
  OBVIOUS
<1> HIDE DEF Payload
<1>3. h[n] \in Payload
  BY <1>1
<1> QED BY <1>2, <1>3

\* A payload joins the frames of its stream and kind and no others.
LEMMA FramesGrow ==
    ASSUME NEW h \in Log, NEW e \in [stream: Nat, kind: Kinds], NEW st, NEW K
    PROVE  /\ Frames(Append(h, e), st, K) =
                IF e.stream = st /\ e.kind \in K THEN Frames(h, st, K) \cup {Len(h) + 1}
                ELSE Frames(h, st, K)
           /\ Frames(h, st, K) \subseteq 1..Len(h)
           /\ Len(h) \in Nat
           /\ \A n \in 1..Len(h) : Append(h, e)[n] = h[n]
           /\ Append(h, e)[Len(h) + 1] = e
BY DEF Frames, Log

\* A key frame starts the group of pictures again, an inter frame joins it.
LEMMA FromKeyGrows ==
    ASSUME NEW h \in Log, NEW e \in [stream: Nat, kind: Kinds], NEW st
    PROVE  FromKey(Append(h, e), st) =
             IF e.stream = st /\ e.kind = "key" THEN {Len(h) + 1}
             ELSE IF e.stream = st /\ e.kind = "inter" THEN FromKey(h, st) \cup {Len(h) + 1}
             ELSE FromKey(h, st)
<1> DEFINE g == Append(h, e)
           n == Len(h) + 1
           all == Frames(h, st, Video)
<1>1. /\ Frames(g, st, Video) = IF e.stream = st /\ e.kind \in Video THEN all \cup {n} ELSE all
      /\ all \subseteq 1..Len(h) /\ Len(h) \in Nat
      /\ \A i \in 1..Len(h) : g[i] = h[i]
      /\ g[n] = e
  BY FramesGrow
<1>2. e.kind \in Video <=> e.kind = "key" \/ e.kind = "inter"
  BY DEF Video
<1> SUFFICES FromKey(g, st) = IF e.stream = st /\ e.kind = "key" THEN {n}
                              ELSE IF e.stream = st /\ e.kind = "inter" THEN FromKey(h, st) \cup {n}
                              ELSE FromKey(h, st)
  OBVIOUS
<1> HIDE DEF g, n
<1>3. n \in Nat /\ \A i \in 1..Len(h) : i < n /\ i \in Nat
  BY <1>1 DEF n
<1> QED BY <1>1, <1>2, <1>3 DEF FromKey

\* A session's data is left alone or gets one more position.
LEMMA DataGrows ==
    ASSUME NEW q \in Seq(Nat), NEW n \in Nat, NEW p, p = q \/ p = Append(q, n)
    PROVE  /\ Len(q) \in Nat /\ DOMAIN q = 1..Len(q)
           /\ DOMAIN q \subseteq DOMAIN p /\ \A i \in DOMAIN q : p[i] = q[i]
           /\ p # q => /\ p = Append(q, n) /\ Len(p) = Len(q) + 1 /\ p[Len(q) + 1] = n
                       /\ DOMAIN p = 1..(Len(q) + 1)
<1>1. CASE p = q
  BY <1>1
<1>2. CASE p = Append(q, n)
  BY <1>2
<1> QED BY <1>1, <1>2

\* What a sequence holds after one more position.
LEMMA ToSetAppend ==
    ASSUME NEW q \in Seq(Nat), NEW n \in Nat
    PROVE  ToSet(Append(q, n)) = ToSet(q) \cup {n}
<1> DEFINE p == Append(q, n)
<1>1. /\ DOMAIN p = 1..(Len(q) + 1) /\ DOMAIN q = 1..Len(q) /\ Len(q) \in Nat
      /\ \A i \in DOMAIN q : p[i] = q[i]
      /\ p[Len(q) + 1] = n
  OBVIOUS
<1> HIDE DEF p
<1>2. ToSet(p) = {p[i] : i \in DOMAIN p} /\ ToSet(q) = {q[i] : i \in DOMAIN q}
  BY DEF ToSet
<1>3. ASSUME NEW x \in ToSet(p) PROVE x \in ToSet(q) \cup {n}
  <2>1. PICK i \in DOMAIN p : x = p[i]
    BY <1>2, <1>3
  <2>2. i \in DOMAIN q \/ i = Len(q) + 1
    BY <1>1
  <2> QED BY <1>1, <1>2, <2>1, <2>2
<1>4. ASSUME NEW x \in ToSet(q) PROVE x \in ToSet(p)
  <2>1. PICK i \in DOMAIN q : x = q[i]
    BY <1>2, <1>4
  <2> QED BY <1>1, <1>2, <2>1
<1>5. n \in ToSet(p)
  <2>1. Len(q) + 1 \in DOMAIN p
    BY <1>1
  <2> QED BY <1>1, <1>2, <2>1
<1> QED BY <1>3, <1>4, <1>5 DEF p

\* What it adds to what somebody got, if it is sent at all.
LEMMA GotGrows ==
    ASSUME NEW h \in Log, NEW e \in [stream: Nat, kind: Kinds], NEW K,
           NEW q \in Seq(Nat), \A i \in DOMAIN q : q[i] \in 1..Len(h), NEW p, p = q \/ p = Append(q, Len(h) + 1),
           Ordered(h, q, K)
    PROVE  /\ p # q /\ e.kind \in K => Got(Append(h, e), p, K) = Got(h, q, K) \cup {Len(h) + 1}
           /\ p = q \/ e.kind \notin K => Got(Append(h, e), p, K) = Got(h, q, K)
           /\ Got(h, q, K) \subseteq 1..Len(h)
           /\ Ordered(Append(h, e), p, K)
<1> DEFINE g == Append(h, e)
           n == Len(h) + 1
<1>1. /\ n \in Nat /\ \A i \in 1..Len(h) : g[i] = h[i] /\ i < n
      /\ g[n] = e
  BY DEF Log
<1>2. \A i \in DOMAIN q : q[i] \in 1..Len(h) /\ g[q[i]] = h[q[i]] /\ q[i] < n
  BY <1>1
<1>3. ToSet(q) = {q[i] : i \in DOMAIN q}
  BY DEF ToSet
<1>4. CASE p = q
  BY <1>2, <1>3, <1>4 DEF Got, Ordered
<1>5. CASE p = Append(q, n)
  <2>1. /\ DOMAIN p = 1..(Len(q) + 1) /\ DOMAIN q = 1..Len(q) /\ Len(q) \in Nat
        /\ \A i \in DOMAIN q : p[i] = q[i]
        /\ p[Len(q) + 1] = n /\ p # q
    BY <1>5
  <2>2. ToSet(p) = ToSet(q) \cup {n}
    BY <1>1, <1>5, ToSetAppend
  <2>3. n \notin 1..Len(h) /\ n \notin ToSet(q)
    BY <1>2, <1>3
  <2> HIDE DEF g, n
  <2>4. Got(g, p, K) = IF e.kind \in K THEN Got(h, q, K) \cup {n} ELSE Got(h, q, K)
    BY <1>1, <1>2, <1>3, <2>2, <2>3 DEF Got
  <2>5. Ordered(g, p, K)
    <3> SUFFICES ASSUME NEW i \in DOMAIN p, NEW j \in DOMAIN p, i < j, g[p[i]].kind \in K,
                        g[p[j]].kind \in K
                 PROVE  p[i] < p[j]
      BY DEF Ordered
    <3>1. i \in DOMAIN q /\ p[i] = q[i]
      BY <2>1
    <3>2. CASE j \in DOMAIN q
      BY <1>2, <2>1, <3>1, <3>2 DEF Ordered
    <3>3. CASE j \notin DOMAIN q
      BY <1>2, <2>1, <3>1, <3>3
    <3> QED BY <3>2, <3>3
  <2>6. Got(h, q, K) \subseteq 1..Len(h)
    BY <1>2, <1>3 DEF Got
  <2> QED BY <2>1, <2>4, <2>5, <2>6 DEF g, n
<1> QED BY <1>4, <1>5

\* What AddData does of a payload for one visitor's video: q and flag before, p and flag2 after.
VideoSent(h, e, st, flag, q, flag2, p) ==
    /\ flag \in BOOLEAN /\ flag2 \in BOOLEAN
    /\ p = q \/ p = Append(q, Len(h) + 1)
    /\ p # q => e.stream = st
    /\ e.stream = st /\ e.kind = "key" => p # q
    /\ e.stream = st /\ e.kind = "inter" => (p # q <=> flag = TRUE)
    /\ p # q /\ e.kind \in Video => flag2 = TRUE
    /\ p = q \/ e.kind \notin Video => flag2 = flag

\* A viewer's video after a payload is published.
LEMMA VideoStep ==
    ASSUME NEW h \in Log, NEW e \in [stream: Nat, kind: Kinds], NEW st, NEW flag,
           NEW q \in Seq(Nat), AllOf(h, q, st), NEW p, NEW flag2,
           VideoServed(h, st, flag, q), VideoSent(h, e, st, flag, q, flag2, p)
    PROVE  VideoServed(Append(h, e), st, flag2, p)
<1> DEFINE g == Append(h, e)
           n == Len(h) + 1
           all == Frames(h, st, Video)
           got == Got(h, q, Video)
<1>12. /\ flag \in BOOLEAN /\ flag2 \in BOOLEAN
       /\ p = q \/ p = Append(q, Len(h) + 1)
       /\ p # q => e.stream = st
       /\ e.stream = st /\ e.kind = "key" => p # q
       /\ e.stream = st /\ e.kind = "inter" => (p # q <=> flag = TRUE)
       /\ p # q /\ e.kind \in Video => flag2 = TRUE
       /\ p = q \/ e.kind \notin Video => flag2 = flag
  BY DEF VideoSent
<1>9. \A i \in DOMAIN q : q[i] \in 1..Len(h)
  BY DEF AllOf, OfStream
<1>0. Ordered(h, q, Video)
  BY DEF VideoServed
<1>1. /\ Frames(g, st, Video) = IF e.stream = st /\ e.kind \in Video THEN all \cup {n} ELSE all
      /\ all \subseteq 1..Len(h) /\ Len(h) \in Nat
      /\ \A i \in 1..Len(h) : g[i] = h[i]
      /\ g[n] = e
  BY FramesGrow
<1>2. /\ p # q /\ e.kind \in Video => Got(g, p, Video) = got \cup {n}
      /\ p = q \/ e.kind \notin Video => Got(g, p, Video) = got
      /\ Ordered(g, p, Video)
  BY <1>0, <1>9, <1>12, GotGrows
<1> SUFFICES VideoServed(g, st, flag2, p)
  OBVIOUS
<1>3. e.kind \in Video <=> e.kind = "key" \/ e.kind = "inter"
  BY DEF Video
<1> HIDE DEF g, n
<1>4. n \in Nat /\ \A i \in 1..Len(h) : i < n /\ i \in Nat
  BY <1>1 DEF n
<1>5. FromKey(g, st) = IF e.stream = st /\ e.kind = "key" THEN {n}
                       ELSE IF e.stream = st /\ e.kind = "inter" THEN FromKey(h, st) \cup {n}
                       ELSE FromKey(h, st)
  BY FromKeyGrows DEF g, n
<1>6. \A k \in FromKey(h, st) : k \in all
  BY DEF FromKey
<1> HIDE DEF all, got
<1>7. /\ got \subseteq all
      /\ \A i \in got, j \in all : i < j => j \in got
      /\ flag = TRUE => FromKey(h, st) \subseteq got
      /\ flag = FALSE => got = {} /\ \A k \in all : h[k].kind # "key"
  BY DEF VideoServed, all, got
<1>8. CASE e.stream = st /\ e.kind = "key"
  <2>1. /\ Frames(g, st, Video) = all \cup {n} /\ Got(g, p, Video) = got \cup {n}
        /\ FromKey(g, st) = {n} /\ flag2 = TRUE
    BY <1>1, <1>2, <1>3, <1>5, <1>12, <1>8
  <2>2. \A i \in got \cup {n}, j \in all \cup {n} : i < j => j \in got \cup {n}
    BY <1>1, <1>4, <1>7
  <2> QED BY <1>2, <1>7, <2>1, <2>2 DEF VideoServed
<1>10. CASE e.stream = st /\ e.kind = "inter"
  <2>1. /\ Frames(g, st, Video) = all \cup {n} /\ flag2 = flag
        /\ FromKey(g, st) = FromKey(h, st) \cup {n}
        /\ Got(g, p, Video) = IF flag = TRUE THEN got \cup {n} ELSE got
    BY <1>1, <1>2, <1>3, <1>5, <1>12, <1>10
  <2>2. CASE flag = TRUE
    <3>1. \A i \in got \cup {n}, j \in all \cup {n} : i < j => j \in got \cup {n}
      BY <1>1, <1>4, <1>7
    <3> QED BY <1>2, <1>7, <2>1, <2>2, <3>1 DEF VideoServed
  <2>3. CASE flag = FALSE
    <3>1. Got(g, p, Video) = {} /\ \A k \in all \cup {n} : g[k].kind # "key"
      BY <1>1, <1>7, <1>10, <2>1, <2>3
    <3>2. flag2 = FALSE /\ FALSE # TRUE
      BY <2>1, <2>3
    <3> QED BY <1>2, <2>1, <3>1, <3>2 DEF VideoServed
  <2> QED BY <1>12, <2>2, <2>3
<1>11. CASE ~ (e.stream = st /\ e.kind \in Video)
  <2>1. /\ Frames(g, st, Video) = all /\ flag2 = flag
        /\ FromKey(g, st) = FromKey(h, st) /\ Got(g, p, Video) = got
    BY <1>1, <1>2, <1>3, <1>5, <1>12, <1>11
  <2> QED BY <1>1, <1>2, <1>7, <2>1 DEF VideoServed
<1> QED BY <1>3, <1>12, <1>8, <1>10, <1>11

\* What AddData does of a payload for one visitor's audio: q and flag before, p and flag2 after.
AudioSent(h, e, st, flag, q, flag2, p) ==
    /\ flag \in BOOLEAN /\ flag2 \in BOOLEAN
    /\ p = q \/ p = Append(q, Len(h) + 1)
    /\ p # q => e.stream = st
    /\ e.stream = st /\ e.kind = "aacHeader" => p # q
    /\ e.stream = st /\ e.kind = "aac" => (p # q <=> flag = TRUE)
    /\ p # q /\ e.kind \in Audio => flag2 = TRUE
    /\ p = q \/ e.kind \notin Audio => flag2 = flag

\* A viewer's audio after a payload is published.
LEMMA AudioStep ==
    ASSUME NEW h \in Log, NEW e \in [stream: Nat, kind: Kinds], NEW st, NEW flag,
           NEW q \in Seq(Nat), AllOf(h, q, st), NEW p, NEW flag2,
           AudioServed(h, st, flag, q), AudioSent(h, e, st, flag, q, flag2, p)
    PROVE  AudioServed(Append(h, e), st, flag2, p)
<1> DEFINE g == Append(h, e)
           n == Len(h) + 1
           all == Frames(h, st, Audio)
           got == Got(h, q, Audio)
<1>12. /\ flag \in BOOLEAN /\ flag2 \in BOOLEAN
       /\ p = q \/ p = Append(q, Len(h) + 1)
       /\ p # q => e.stream = st
       /\ e.stream = st /\ e.kind = "aacHeader" => p # q
       /\ e.stream = st /\ e.kind = "aac" => (p # q <=> flag = TRUE)
       /\ p # q /\ e.kind \in Audio => flag2 = TRUE
       /\ p = q \/ e.kind \notin Audio => flag2 = flag
  BY DEF AudioSent
<1>9. \A i \in DOMAIN q : q[i] \in 1..Len(h)
  BY DEF AllOf, OfStream
<1>0. Ordered(h, q, Audio)
  BY DEF AudioServed
<1>1. /\ Frames(g, st, Audio) = IF e.stream = st /\ e.kind \in Audio THEN all \cup {n} ELSE all
      /\ all \subseteq 1..Len(h) /\ Len(h) \in Nat
      /\ \A i \in 1..Len(h) : g[i] = h[i]
      /\ g[n] = e
  BY FramesGrow
<1>2. /\ p # q /\ e.kind \in Audio => Got(g, p, Audio) = got \cup {n}
      /\ p = q \/ e.kind \notin Audio => Got(g, p, Audio) = got
      /\ Ordered(g, p, Audio)
  BY <1>0, <1>9, <1>12, GotGrows
<1> SUFFICES AudioServed(g, st, flag2, p)
  OBVIOUS
<1>3. e.kind \in Audio <=> e.kind = "aacHeader" \/ e.kind = "aac"
  BY DEF Audio
<1> HIDE DEF g, n
<1>4. n \in Nat /\ \A i \in 1..Len(h) : i < n /\ i \in Nat
  BY <1>1 DEF n
<1> HIDE DEF all, got
<1>7. /\ got \subseteq all
      /\ flag = FALSE => got = {} /\ \A k \in all : h[k].kind # "aacHeader"
      /\ flag = TRUE => \E first \in got :
            /\ h[first].kind = "aacHeader"
            /\ \A i \in got : first <= i
            /\ \A i \in got \ {first}, j \in all : i < j => j \in got
  BY DEF AudioServed, all, got
<1>8. CASE e.stream = st /\ e.kind \in Audio /\ p # q
  <2>1. /\ Frames(g, st, Audio) = all \cup {n} /\ Got(g, p, Audio) = got \cup {n}
        /\ flag2 = TRUE
        /\ flag = FALSE => e.kind = "aacHeader"
    BY <1>1, <1>2, <1>3, <1>12, <1>8
  <2>2. Got(g, p, Audio) \subseteq Frames(g, st, Audio)
    BY <1>7, <2>1
  <2>3. \E first \in Got(g, p, Audio) :
            /\ g[first].kind = "aacHeader"
            /\ \A i \in Got(g, p, Audio) : first <= i
            /\ \A i \in Got(g, p, Audio) \ {first}, j \in Frames(g, st, Audio) :
                  i < j => j \in Got(g, p, Audio)
    <3>1. CASE flag = FALSE
      <4>1. Got(g, p, Audio) = {n} /\ g[n].kind = "aacHeader"
        BY <1>1, <1>7, <1>8, <2>1, <3>1
      <4> QED BY <1>4, <4>1
    <3>2. CASE flag = TRUE
      <4>1. PICK first \in got : /\ h[first].kind = "aacHeader"
                                 /\ \A i \in got : first <= i
                                 /\ \A i \in got \ {first}, j \in all : i < j => j \in got
        BY <1>7, <3>2
      <4>2. first \in Got(g, p, Audio) /\ g[first].kind = "aacHeader" /\ first <= n
        BY <1>1, <1>4, <1>7, <2>1, <4>1
      <4>3. \A i \in Got(g, p, Audio) \ {first}, j \in Frames(g, st, Audio) :
                  i < j => j \in Got(g, p, Audio)
        <5> SUFFICES ASSUME NEW i \in got \cup {n}, i # first, NEW j \in all \cup {n}, i < j
                     PROVE  j \in got \cup {n}
          BY <2>1
        <5> QED BY <1>1, <1>4, <1>7, <4>1
      <4>4. \A i \in Got(g, p, Audio) : first <= i
        BY <2>1, <4>1, <4>2
      <4> QED BY <4>2, <4>3, <4>4
    <3> QED BY <1>12, <3>1, <3>2
  <2> QED BY <1>2, <2>1, <2>2, <2>3 DEF AudioServed
<1>10. CASE e.stream = st /\ e.kind \in Audio /\ p = q
  <2>1. /\ Frames(g, st, Audio) = all \cup {n} /\ Got(g, p, Audio) = got
        /\ flag2 = FALSE /\ flag = FALSE /\ e.kind # "aacHeader"
    BY <1>1, <1>2, <1>3, <1>12, <1>10
  <2> QED BY <1>1, <1>2, <1>7, <2>1 DEF AudioServed
<1>11. CASE ~ (e.stream = st /\ e.kind \in Audio)
  <2>1. /\ Frames(g, st, Audio) = all /\ flag2 = flag /\ Got(g, p, Audio) = got
    BY <1>1, <1>2, <1>3, <1>12, <1>11
  <2> QED BY <1>1, <1>2, <1>7, <2>1 DEF AudioServed
<1> QED BY <1>8, <1>10, <1>11

\* A viewer's metadata after a payload is published.
LEMMA MetaStep ==
    ASSUME NEW h \in Log, NEW e \in [stream: Nat, kind: Kinds], NEW st,
           NEW q \in Seq(Nat), AllOf(h, q, st), NEW p, p = q \/ p = Append(q, Len(h) + 1),
           MetaServed(h, st, q),
           p # q => e.stream = st,
           e.stream = st /\ e.kind = "meta" => p # q
    PROVE  MetaServed(Append(h, e), st, p)
<1> DEFINE n == Len(h) + 1
           g == Append(h, e)
           K == {"meta"}
<1>9. \A i \in DOMAIN q : q[i] \in 1..Len(h)
  BY DEF AllOf, OfStream
<1>0. Ordered(h, q, K) /\ \A x : x \in K <=> x = "meta"
  BY DEF MetaServed
<1> HIDE DEF K
<1>1. /\ Frames(g, st, K) = IF e.stream = st /\ e.kind \in K THEN Frames(h, st, K) \cup {n}
                            ELSE Frames(h, st, K)
      /\ Frames(h, st, K) \subseteq 1..Len(h) /\ Len(h) \in Nat
  BY FramesGrow
<1>2. /\ p # q /\ e.kind \in K => Got(g, p, K) = Got(h, q, K) \cup {n}
      /\ p = q \/ e.kind \notin K => Got(g, p, K) = Got(h, q, K)
      /\ Ordered(g, p, K)
  BY <1>0, <1>9, GotGrows
<1> HIDE DEF n, g
<1>4. n \in Nat /\ \A i \in 1..Len(h) : i < n /\ i \in Nat
  BY <1>1 DEF n
<1>5. /\ Got(h, q, K) \subseteq Frames(h, st, K)
      /\ \A i \in Frames(h, st, K) : \E k \in Got(h, q, K) : i <= k
  BY DEF MetaServed, K
<1>6. /\ Got(g, p, K) \subseteq Frames(g, st, K)
      /\ \A i \in Frames(g, st, K) : \E k \in Got(g, p, K) : i <= k
  BY <1>0, <1>1, <1>2, <1>4, <1>5
<1> QED BY <1>2, <1>6 DEF MetaServed, K, g

\* The newest payload of a kind after another one is published.
LEMMA NewestStep ==
    ASSUME NEW h \in Log, NEW e \in [stream: Nat, kind: Kinds], NEW st, NEW kind, NEW m \in Nat,
           Newest(h, m, st, kind), NEW k,
           k = IF e.stream = st /\ e.kind = kind THEN Len(h) + 1 ELSE m
    PROVE  Newest(Append(h, e), k, st, kind)
<1> DEFINE n == Len(h) + 1
           g == Append(h, e)
           K == {kind}
<1> SUFFICES Newest(g, k, st, kind)
  OBVIOUS
<1>1. \A x : x \in K <=> x = kind
  OBVIOUS
<1>2. IF m = 0 THEN Frames(h, st, K) = {}
      ELSE m \in Frames(h, st, K) /\ \A i \in Frames(h, st, K) : i <= m
  BY DEF Newest
<1> HIDE DEF K
<1>3. /\ Frames(g, st, K) = IF e.stream = st /\ e.kind \in K THEN Frames(h, st, K) \cup {n}
                            ELSE Frames(h, st, K)
      /\ Frames(h, st, K) \subseteq 1..Len(h) /\ Len(h) \in Nat
  BY FramesGrow
<1> HIDE DEF g
<1>4. IF k = 0 THEN Frames(g, st, K) = {}
      ELSE k \in Frames(g, st, K) /\ \A i \in Frames(g, st, K) : i <= k
  <2>1. CASE e.stream = st /\ e.kind = kind
    <3>1. k = n /\ k # 0 /\ Frames(g, st, K) = Frames(h, st, K) \cup {n}
      BY <1>1, <1>3, <2>1
    <3> QED BY <1>3, <3>1
  <2>2. CASE ~ (e.stream = st /\ e.kind = kind)
    BY <1>1, <1>2, <1>3, <2>2
  <2> QED BY <2>1, <2>2
<1> QED BY <1>4 DEF Newest, K

\* The header a viewer needs next stays at hand.
LEMMA HeaderStep ==
    ASSUME NEW h \in Log, NEW e \in [stream: Nat, kind: Kinds], NEW st,
           NEW q \in Seq(Nat), AllOf(h, q, st), NEW p, p = q \/ p = Append(q, Len(h) + 1),
           HeaderAtHand(h, st, q) \/ (e.stream = st /\ e.kind = "aacHeader"),
           p # q => e.stream = st,
           e.stream = st /\ e.kind = "aacHeader" => p # q
    PROVE  HeaderAtHand(Append(h, e), st, p)
<1> DEFINE n == Len(h) + 1
           g == Append(h, e)
<1> SUFFICES HeaderAtHand(g, st, p)
  OBVIOUS
<1>1. /\ n \in Nat /\ n # 0 /\ g[n] = e
      /\ \A i \in DOMAIN q : q[i] \in Nat /\ q[i] # n /\ g[q[i]] = h[q[i]]
  BY DEF AllOf, OfStream, Log
<1>2. \A m \in Nat : Newest(h, m, st, "aacHeader") =>
        Newest(g, IF e.stream = st /\ e.kind = "aacHeader" THEN n ELSE m, st, "aacHeader")
  BY NewestStep
<1>3. CASE e.stream = st /\ e.kind = "aacHeader"
  <2>1. Len(q) + 1 \in DOMAIN p /\ p[Len(q) + 1] = n /\ Len(p) = Len(q) + 1 /\ Len(q) \in Nat
    BY <1>3
  <2>2. Newest(g, n, st, "aacHeader")
    <3>1. /\ Frames(g, st, {"aacHeader"}) =
                IF e.stream = st /\ e.kind \in {"aacHeader"} THEN Frames(h, st, {"aacHeader"}) \cup {n}
                ELSE Frames(h, st, {"aacHeader"})
          /\ Frames(h, st, {"aacHeader"}) \subseteq 1..Len(h) /\ Len(h) \in Nat
      <4> DEFINE K == {"aacHeader"}
      <4> HIDE DEF K
      <4>1. /\ Frames(g, st, K) = IF e.stream = st /\ e.kind \in K THEN Frames(h, st, K) \cup {n}
                                  ELSE Frames(h, st, K)
            /\ Frames(h, st, K) \subseteq 1..Len(h) /\ Len(h) \in Nat
        BY FramesGrow
      <4> QED BY <4>1 DEF K
    <3> HIDE DEF g
    <3>2. /\ n \in Frames(g, st, {"aacHeader"})
          /\ \A m \in Frames(g, st, {"aacHeader"}) : m <= n
      BY <1>3, <3>1
    <3> QED BY <1>1, <3>2 DEF Newest
  <2> HIDE DEF g, n
  <2>3. (Len(q) + 1) + 1 > Len(p)
    BY <2>1
  <2> QED BY <1>1, <2>1, <2>2, <2>3 DEF HeaderAtHand
<1>4. CASE ~ (e.stream = st /\ e.kind = "aacHeader")
  <2>1. PICK i \in DOMAIN q : /\ Newest(h, q[i], st, "aacHeader")
                              /\ q[i] # 0
                              /\ \A k \in (i + 1)..Len(q) : h[q[k]].kind # "aacHeader"
    BY <1>4 DEF HeaderAtHand
  <2>2. Newest(g, q[i], st, "aacHeader")
    BY <1>1, <1>2, <1>4, <2>1
  <2>3. i \in DOMAIN p /\ p[i] = q[i]
    OBVIOUS
  <2>4. ASSUME NEW k \in (i + 1)..Len(p) PROVE g[p[k]].kind # "aacHeader"
    <3>1. CASE k \in DOMAIN q
      <4>1. p[k] = q[k]
        BY SMTT(40), <1>1, <3>1, DataGrows
      <4>2. k \in (i + 1)..Len(q)
        BY <3>1
      <4> QED BY <1>1, <2>1, <3>1, <4>1, <4>2
    <3>2. CASE k \notin DOMAIN q
      <4>1. p = Append(q, n) /\ p[k] = n
        BY <3>2
      <4>2. p # q
        BY <4>1
      <4> QED BY <1>1, <1>4, <4>1, <4>2
    <3> QED BY <3>1, <3>2
  <2> HIDE DEF g
  <2> QED BY <2>1, <2>2, <2>3, <2>4 DEF HeaderAtHand
<1> QED BY <1>3, <1>4

\* Who has the header at hand can decode the next frame, too.
LEMMA DecodableStep ==
    ASSUME NEW h \in Log, NEW e \in [stream: Nat, kind: Kinds], NEW st,
           NEW q \in Seq(Nat), AllOf(h, q, st), NEW p, p = q \/ p = Append(q, Len(h) + 1),
           Decodable(h, q),
           p # q /\ e.kind = "aac" => HeaderAtHand(h, e.stream, q)
    PROVE  Decodable(Append(h, e), p)
<1> DEFINE n == Len(h) + 1
           g == Append(h, e)
           K == {"aacHeader"}
<1> SUFFICES ASSUME NEW j \in DOMAIN p, g[p[j]].kind = "aac"
             PROVE  \E i \in 1..(j - 1) :
                      /\ p[i] \in {m \in Frames(g, g[p[j]].stream, K) : m < p[j]}
                      /\ \A m \in Frames(g, g[p[j]].stream, K) : m < p[j] => m <= p[i]
                      /\ \A k \in (i + 1)..(j - 1) : g[p[k]].kind # "aacHeader"
  BY DEF Decodable
<1>1. /\ n \in Nat /\ n # 0 /\ g[n] = e
      /\ \A i \in DOMAIN q : q[i] \in 1..Len(h) /\ q[i] < n /\ g[q[i]] = h[q[i]] /\ p[i] = q[i]
      /\ Len(q) \in Nat /\ DOMAIN q = 1..Len(q) /\ DOMAIN p \subseteq 1..(Len(q) + 1)
  <2>1. n \in Nat /\ n # 0 /\ g[n] = e /\ \A i \in 1..Len(h) : g[i] = h[i] /\ i < n
    BY DEF Log
  <2>2. \A i \in DOMAIN q : q[i] \in 1..Len(h) /\ p[i] = q[i]
    BY <2>1, DataGrows DEF AllOf, OfStream
  <2>3. Len(q) \in Nat /\ DOMAIN q = 1..Len(q) /\ DOMAIN p \subseteq 1..(Len(q) + 1)
    OBVIOUS
  <2> HIDE DEF g, n
  <2> QED BY <2>1, <2>2, <2>3
<1>2. "aac" \notin K /\ K = {"aacHeader"}
  OBVIOUS
<1> HIDE DEF K
<1>3. \A t : /\ Frames(g, t, K) = IF e.stream = t /\ e.kind \in K THEN Frames(h, t, K) \cup {n}
                                  ELSE Frames(h, t, K)
             /\ Frames(h, t, K) \subseteq 1..Len(h) /\ Len(h) \in Nat
  BY FramesGrow
<1>4. CASE j \in DOMAIN q
  <2>1. q[j] = p[j] /\ g[p[j]] = h[q[j]] /\ q[j] < n
    BY <1>1, <1>4
  <2>2. PICK i \in 1..(j - 1) :
          /\ q[i] \in {m \in Frames(h, h[q[j]].stream, K) : m < q[j]}
          /\ \A m \in Frames(h, h[q[j]].stream, K) : m < q[j] => m <= q[i]
          /\ \A k \in (i + 1)..(j - 1) : h[q[k]].kind # "aacHeader"
    BY <1>2, <1>4, <2>1 DEF Decodable
  <2>3. i \in DOMAIN q /\ \A k \in (i + 1)..(j - 1) : k \in DOMAIN q
    BY SMTT(40), <1>1, <1>4
  <2> HIDE DEF g, n
  <2>4. p[i] = q[i] /\ \A k \in (i + 1)..(j - 1) : g[p[k]] = h[q[k]]
    BY <1>1, <2>3
  <2>5. \A m \in Frames(g, g[p[j]].stream, K) : m < p[j] => m \in Frames(h, h[q[j]].stream, K)
    <3> SUFFICES ASSUME NEW m \in Frames(g, h[q[j]].stream, K), m < q[j]
                 PROVE  m \in Frames(h, h[q[j]].stream, K)
      BY <2>1
    <3>1. m \in Frames(h, h[q[j]].stream, K) \/ m = n
      BY <1>3
    <3>2. q[j] \in 1..Len(h) /\ ~ (n < q[j])
      BY <1>1, <1>4
    <3> QED BY <3>1, <3>2
  <2>6. p[i] \in Frames(g, g[p[j]].stream, K) /\ p[i] < p[j]
    BY <1>3, <2>1, <2>2, <2>4
  <2> QED BY <2>1, <2>2, <2>4, <2>5, <2>6
<1>5. CASE j \notin DOMAIN q
  <2>1. p = Append(q, n) /\ p # q /\ j = Len(q) + 1 /\ p[j] = n
    BY <1>5
  <2> HIDE DEF g, n
  <2>2. e.kind = "aac" /\ g[p[j]] = e
    BY <1>1, <2>1
  <2>3. PICK i \in DOMAIN q : /\ Newest(h, q[i], e.stream, "aacHeader")
                              /\ q[i] # 0
                              /\ \A k \in (i + 1)..Len(q) : h[q[k]].kind # "aacHeader"
    BY <2>1, <2>2 DEF HeaderAtHand
  <2>4. i \in 1..(j - 1) /\ \A k \in (i + 1)..(j - 1) : k \in DOMAIN q /\ k \in (i + 1)..Len(q)
    <3>1. Len(q) \in Nat /\ DOMAIN q = 1..Len(q)
      OBVIOUS
    <3>2. j - 1 = Len(q)
      <4>1. j = Len(q) + 1
        BY <2>1
      <4> QED BY <3>1, <4>1
    <3> QED BY <3>1, <3>2
  <2>5. q[i] \in Frames(h, e.stream, K) /\ \A m \in Frames(h, e.stream, K) : m <= q[i]
    BY <1>2, <2>3 DEF Newest
  <2>6. Frames(g, e.stream, K) = Frames(h, e.stream, K)
    BY <1>2, <1>3, <2>2
  <2>7. p[i] = q[i] /\ \A k \in (i + 1)..(j - 1) : g[p[k]] = h[q[k]]
    BY <1>1, <2>3, <2>4
  <2>8. p[i] < p[j]
    <3>1. q[i] < n /\ p[i] = q[i]
      BY <1>1
    <3>2. p[j] = n
      BY <2>1
    <3> QED BY <3>1, <3>2
  <2>9. /\ p[i] \in {m \in Frames(g, g[p[j]].stream, K) : m < p[j]}
        /\ \A m \in Frames(g, g[p[j]].stream, K) : m < p[j] => m <= p[i]
    BY <2>2, <2>5, <2>6, <2>7, <2>8
  <2>10. \A k \in (i + 1)..(j - 1) : g[p[k]].kind # "aacHeader"
    BY <2>3, <2>4, <2>7
  <2> QED BY <2>4, <2>9, <2>10
<1> QED BY <1>4, <1>5

\* The cache after a payload is published.
LEMMA CacheStep ==
    ASSUME NEW h \in Log, NEW e \in [stream: Nat, kind: Kinds], NEW st,
           NEW c \in Seq(Nat), AllOf(h, c, st), Ordered(h, c, Video), ToSet(c) = FromKey(h, st),
           NEW k,
           e.stream # st \/ e.kind \notin Video => k = c,
           e.stream = st /\ e.kind = "key" => k = <<Len(h) + 1>>,
           e.stream = st /\ e.kind = "inter" => k = Append(c, Len(h) + 1)
    PROVE  Ordered(Append(h, e), k, Video) /\ ToSet(k) = FromKey(Append(h, e), st)
<1> DEFINE n == Len(h) + 1
           g == Append(h, e)
<1>1. e.kind \in Video <=> e.kind = "key" \/ e.kind = "inter"
  BY DEF Video
<1>2. FromKey(g, st) = IF e.stream = st /\ e.kind = "key" THEN {n}
                       ELSE IF e.stream = st /\ e.kind = "inter" THEN FromKey(h, st) \cup {n}
                       ELSE FromKey(h, st)
  BY FromKeyGrows
<1>3. n \in Nat /\ \A i \in DOMAIN c : c[i] \in 1..Len(h)
  BY DEF AllOf, OfStream, Log
<1> SUFFICES Ordered(g, k, Video) /\ ToSet(k) = FromKey(g, st)
  OBVIOUS
<1>4. CASE k = <<n>> /\ e.stream = st /\ e.kind = "key"
  <2>1. DOMAIN k = {1} /\ k[1] = n
    BY <1>4
  <2>2. ToSet(k) = {n}
    BY <2>1 DEF ToSet
  <2> HIDE DEF g, n
  <2> QED BY <1>2, <1>4, <2>1, <2>2 DEF Ordered
<1>5. CASE k = c \/ k = Append(c, n)
  <2>1. Ordered(g, k, Video)
    BY <1>3, <1>5, GotGrows
  <2>2. CASE k = c /\ ~ (e.stream = st /\ e.kind \in Video)
    BY <1>1, <1>2, <2>1, <2>2
  <2>3. CASE k = Append(c, n) /\ e.stream = st /\ e.kind = "inter"
    <3>4. ToSet(k) = FromKey(h, st) \cup {n}
      BY <1>3, <2>3, ToSetAppend
    <3> QED BY <1>2, <2>1, <2>3, <3>4
  <2>4. CASE ~ (k = c /\ ~ (e.stream = st /\ e.kind \in Video)) /\ k = c
    <3>1. e.stream = st /\ (e.kind = "key" \/ e.kind = "inter")
      BY <1>1, <2>4
    <3>2. e.kind = "inter" => k = Append(c, n)
      BY <1>1, <3>1
    <3>3. Append(c, n) # c
      BY <1>3, DataGrows
    <3> QED BY <1>1, <1>4, <2>4, <3>1, <3>2, <3>3
  <2> QED BY <1>1, <1>4, <1>5, <2>2, <2>3, <2>4
<1> QED BY <1>1, <1>4, <1>5

\* A room is up to date after a payload of its own or of another stream.
LEMMA RoomStep ==
    ASSUME NEW h \in Log, NEW e \in [stream: Nat, kind: Kinds], NEW room \in Room,
           AllOf(h, room.cache, room.stream), RoomCurrent(h, room)
    PROVE  /\ e.stream # room.stream => RoomCurrent(Append(h, e), room)
           /\ e.stream = room.stream =>
                RoomCurrent(Append(h, e), AddData(room, e.kind, Len(h) + 1))
<1> DEFINE n == Len(h) + 1
           g == Append(h, e)
           st == room.stream
           new == AddData(room, e.kind, n)
<1>1. room.cache \in Seq(Nat) /\ room.meta \in Nat /\ room.aacHeader \in Nat
  BY DEF Room
<1>2. /\ new.stream = st
      /\ new.meta = IF e.kind = "meta" THEN n ELSE room.meta
      /\ new.aacHeader = IF e.kind = "aacHeader" THEN n ELSE room.aacHeader
      /\ new.cache = CacheAfter(room, e.kind, n)
  BY DEF AddData, Room
<1>3. /\ e.kind \notin Video => CacheAfter(room, e.kind, n) = room.cache
      /\ e.kind = "key" => CacheAfter(room, e.kind, n) = <<n>>
      /\ e.kind = "inter" => CacheAfter(room, e.kind, n) = Append(room.cache, n)
  BY DEF CacheAfter, Video
<1>4. \A k : k = (IF e.stream = st /\ e.kind = "meta" THEN n ELSE room.meta)
        => Newest(g, k, st, "meta")
  BY <1>1, NewestStep DEF RoomCurrent
<1>5. \A k : k = (IF e.stream = st /\ e.kind = "aacHeader" THEN n ELSE room.aacHeader)
        => Newest(g, k, st, "aacHeader")
  BY <1>1, NewestStep DEF RoomCurrent
<1>6. \A k : /\ e.stream # st \/ e.kind \notin Video => k = room.cache
             /\ e.stream = st /\ e.kind = "key" => k = <<n>>
             /\ e.stream = st /\ e.kind = "inter" => k = Append(room.cache, n)
        => Ordered(g, k, Video) /\ ToSet(k) = FromKey(g, st)
  <2> DEFINE c == room.cache
  <2>1. c \in Seq(Nat) /\ AllOf(h, c, st) /\ Ordered(h, c, Video) /\ ToSet(c) = FromKey(h, st)
    BY <1>1 DEF RoomCurrent
  <2> HIDE DEF c
  <2>2. \A k : /\ e.stream # st \/ e.kind \notin Video => k = c
               /\ e.stream = st /\ e.kind = "key" => k = <<n>>
               /\ e.stream = st /\ e.kind = "inter" => k = Append(c, n)
          => Ordered(g, k, Video) /\ ToSet(k) = FromKey(g, st)
    BY <2>1, CacheStep
  <2> QED BY <2>2 DEF c
<1>9. /\ room.cache = <<>> => Frames(h, st, Video) = {}
      /\ Frames(g, st, Video) = IF e.stream = st /\ e.kind \in Video THEN Frames(h, st, Video) \cup {n}
                                ELSE Frames(h, st, Video)
      /\ <<n>> # <<>> /\ Append(room.cache, n) # <<>>
      /\ e.kind \in Video => e.kind \in {"key", "inter"}
  <2>1. (room.cache = <<>> => Frames(h, st, Video) = {}) /\ n \in Nat
    BY DEF RoomCurrent, Log
  <2> HIDE DEF st
  <2>2. Frames(g, st, Video) = IF e.stream = st /\ e.kind \in Video THEN Frames(h, st, Video) \cup {n}
                               ELSE Frames(h, st, Video)
    BY FramesGrow
  <2>3. <<n>> # <<>> /\ Append(room.cache, n) # <<>>
    BY <1>1, <2>1
  <2> QED BY <2>1, <2>2, <2>3 DEF Video
<1> HIDE DEF n, g, new
<1>7. e.stream # st => RoomCurrent(g, room)
  BY <1>4, <1>5, <1>6, <1>9 DEF RoomCurrent
<1>8. e.stream = st => RoomCurrent(g, new)
  <2> SUFFICES ASSUME e.stream = st PROVE RoomCurrent(g, new)
    OBVIOUS
  <2>1. new.cache = <<>> => Frames(g, st, Video) = {}
    BY <1>2, <1>3, <1>9
  <2> QED BY <1>2, <1>3, <1>4, <1>5, <1>6, <2>1 DEF RoomCurrent
<1> QED BY <1>7, <1>8 DEF n, g, new

\* What is replayed, position by position.
LEMMA ReplayShape ==
    ASSUME NEW room \in Room, NEW q, q = Replay(room)
    PROVE  \E l \in {0, 1}, k \in {0, 1, 2} :
             /\ k = l \/ k = l + 1
             /\ l = 1 <=> room.meta # 0
             /\ k = l + 1 <=> room.aacHeader # 0
             /\ q \in Seq(Nat) /\ Len(q) = k + Len(room.cache)
             /\ room.meta # 0 => q[1] = room.meta
             /\ room.aacHeader # 0 => q[k] = room.aacHeader
             /\ \A i \in DOMAIN room.cache : q[k + i] = room.cache[i]
<1> DEFINE l == IF room.meta # 0 THEN 1 ELSE 0
           k == IF room.aacHeader # 0 THEN l + 1 ELSE l
           m == IF room.meta # 0 THEN <<room.meta>> ELSE <<>>
           a == IF room.aacHeader # 0 THEN <<room.aacHeader>> ELSE <<>>
           c == room.cache
<1>1. m \in Seq(Nat) /\ a \in Seq(Nat) /\ c \in Seq(Nat) /\ q = (m \o a) \o c
  BY DEF Room, Replay
<1>2. /\ Len(m) = l /\ Len(a) = k - l /\ l \in Nat /\ k \in Nat
      /\ room.meta # 0 => l = 1 /\ m[1] = room.meta
      /\ room.aacHeader # 0 => k = l + 1 /\ a[1] = room.aacHeader
      /\ l \in {0, 1} /\ k \in {0, 1, 2}
      /\ k = l \/ k = l + 1
      /\ l = 1 <=> room.meta # 0
      /\ k = l + 1 <=> room.aacHeader # 0
  OBVIOUS
<1> HIDE DEF m, a, l, k
<1> DEFINE b == m \o a
<1>3. /\ b \in Seq(Nat) /\ Len(b) = k
      /\ room.meta # 0 => b[1] = room.meta
      /\ room.aacHeader # 0 => b[k] = room.aacHeader
  <2>1. /\ b \in Seq(Nat) /\ Len(b) = Len(m) + Len(a)
        /\ \A i \in 1..Len(m) : b[i] = m[i]
        /\ \A i \in 1..Len(a) : b[Len(m) + i] = a[i]
    BY <1>1
  <2>2. room.meta # 0 => 1 \in 1..Len(m)
    BY <1>2
  <2>3. room.aacHeader # 0 => 1 \in 1..Len(a)
    BY <1>2
  <2> HIDE DEF b
  <2> QED BY <1>2, <2>1, <2>2, <2>3
<1>4. /\ room.meta # 0 => 1 \in DOMAIN b
      /\ room.aacHeader # 0 => k \in DOMAIN b
  BY <1>2, <1>3
<1> HIDE DEF b
<1>5. q = b \o c
  BY <1>1 DEF b
<1> HIDE DEF c
<1>6. /\ q \in Seq(Nat) /\ Len(q) = k + Len(c)
      /\ \A i \in DOMAIN b : q[i] = b[i]
      /\ \A i \in DOMAIN c : q[k + i] = c[i]
  <2>1. /\ q \in Seq(Nat) /\ Len(q) = Len(b) + Len(c)
        /\ \A i \in 1..Len(b) : q[i] = b[i]
        /\ \A i \in 1..Len(c) : q[Len(b) + i] = c[i]
    <3>1. b \in Seq(Nat) /\ c \in Seq(Nat)
      BY <1>1, <1>3
    <3> QED BY <1>5, <3>1
  <2>2. DOMAIN b = 1..Len(b) /\ DOMAIN c = 1..Len(c)
    BY <1>1, <1>3
  <2> QED BY <1>3, <2>1, <2>2
<1>7. /\ room.meta # 0 => q[1] = room.meta
      /\ room.aacHeader # 0 => q[k] = room.aacHeader
  BY <1>3, <1>4, <1>6
<1> QED BY <1>2, <1>6, <1>7 DEF c

\* A viewer that joins is served by the replay alone.
LEMMA Joining ==
    ASSUME NEW h \in Log, NEW room \in Room, Keeps(h, room), RoomCurrent(h, room),
           NEW q, q = Replay(room),
           NEW video \in BOOLEAN, video = TRUE <=> room.cache # <<>>,
           NEW audio \in BOOLEAN, audio = TRUE <=> room.aacHeader # 0
    PROVE  /\ VideoServed(h, room.stream, video, q)
           /\ AudioServed(h, room.stream, audio, q)
           /\ MetaServed(h, room.stream, q)
           /\ audio = TRUE => HeaderAtHand(h, room.stream, q)
           /\ Decodable(h, q)
<1> DEFINE c == room.cache
           st == room.stream
<1>0. PICK l \in {0, 1}, k \in {0, 1, 2} :
        /\ k = l \/ k = l + 1
        /\ l = 1 <=> room.meta # 0
        /\ k = l + 1 <=> room.aacHeader # 0
        /\ q \in Seq(Nat) /\ Len(q) = k + Len(c)
        /\ room.meta # 0 => q[1] = room.meta
        /\ room.aacHeader # 0 => q[k] = room.aacHeader
        /\ \A i \in DOMAIN c : q[k + i] = c[i]
  BY ReplayShape
<1>1. /\ q \in Seq(Nat) /\ Len(q) = k + Len(c)
      /\ room.meta # 0 => q[1] = room.meta
      /\ room.aacHeader # 0 => q[k] = room.aacHeader
      /\ \A i \in DOMAIN c : q[k + i] = c[i]
  BY <1>0
<1>2. /\ c \in Seq(Nat) /\ Len(c) \in Nat /\ DOMAIN c = 1..Len(c)
      /\ l \in Nat /\ k \in Nat /\ DOMAIN q = 1..Len(q)
  BY <1>1 DEF Room
<1>3. /\ l \in {0, 1} /\ k \in {l, l + 1}
      /\ l = 1 <=> room.meta # 0
      /\ k = l + 1 <=> room.aacHeader # 0
  BY <1>0
<1>4. /\ room.meta # 0 => room.meta \in Frames(h, st, {"meta"})
      /\ room.meta = 0 => Frames(h, st, {"meta"}) = {}
      /\ \A i \in Frames(h, st, {"meta"}) : i <= room.meta
      /\ room.aacHeader # 0 => room.aacHeader \in Frames(h, st, {"aacHeader"})
      /\ room.aacHeader = 0 => Frames(h, st, {"aacHeader"}) = {}
  BY DEF RoomCurrent, Newest
<1>5. /\ Ordered(h, c, Video) /\ ToSet(c) = FromKey(h, st)
      /\ \A i \in DOMAIN c : c[i] \in ToSet(c)
  BY DEF RoomCurrent, ToSet
<1> HIDE DEF c, st
<1>6. /\ room.meta # 0 => h[room.meta].kind = "meta"
      /\ room.aacHeader # 0 => h[room.aacHeader].kind = "aacHeader"
      /\ \A i \in DOMAIN c : h[c[i]].kind \in Video
  BY <1>4, <1>5 DEF Frames, FromKey
<1>7. ASSUME NEW i \in DOMAIN q
      PROVE  \/ i = 1 /\ l = 1 /\ q[i] = room.meta
             \/ i = k /\ k = l + 1 /\ q[i] = room.aacHeader
             \/ i - k \in DOMAIN c /\ q[i] = c[i - k] /\ i > k
  <2>1. CASE i > k
    <3>1. i - k \in DOMAIN c /\ k + (i - k) = i
      BY <1>1, <1>2, <2>1
    <3> QED BY <1>1, <2>1, <3>1
  <2>2. CASE i <= k /\ i = 1 /\ l = 1
    BY <1>1, <1>3, <2>2
  <2>3. CASE i <= k /\ ~ (i = 1 /\ l = 1)
    <3>1. i = k /\ k = l + 1
      BY <1>1, <1>2, <1>3, <2>3
    <3> QED BY <1>1, <1>3, <3>1
  <2> QED BY <1>2, <2>1, <2>2, <2>3
<1>8. /\ ToSet(q) = {q[i] : i \in DOMAIN q}
      /\ ToSet(c) = {c[i] : i \in DOMAIN c}
  BY DEF ToSet
<1>9. Video \cap Audio = {} /\ "meta" \notin Video /\ "meta" \notin Audio /\ "aacHeader" \in Audio
      /\ "aacHeader" \notin Video
  BY DEF Video, Audio
<1>10. ASSUME NEW i \in DOMAIN q
       PROVE  /\ h[q[i]].kind \in Video => i - k \in DOMAIN c /\ q[i] = c[i - k] /\ i > k
              /\ h[q[i]].kind \in Audio => i = k /\ q[i] = room.aacHeader /\ room.aacHeader # 0
              /\ h[q[i]].kind = "meta" => i = 1 /\ q[i] = room.meta /\ room.meta # 0
              /\ h[q[i]].kind # "aac"
  <2>1. CASE i = 1 /\ l = 1 /\ q[i] = room.meta
    BY <1>3, <1>6, <1>9, <2>1
  <2>2. CASE i = k /\ k = l + 1 /\ q[i] = room.aacHeader
    BY <1>3, <1>6, <1>9, <2>2
  <2>3. CASE i - k \in DOMAIN c /\ q[i] = c[i - k] /\ i > k
    BY <1>6, <1>9, <2>3 DEF Video, Audio
  <2> QED BY <1>7, <2>1, <2>2, <2>3
<1>11. VideoServed(h, st, video, q)
  <2>1. Got(h, q, Video) = FromKey(h, st)
    <3>1. \A x \in Got(h, q, Video) : x \in ToSet(c)
      BY <1>5, <1>8, <1>10 DEF Got
    <3>2. \A x \in ToSet(c) : x \in Got(h, q, Video)
      <4>1. \A i \in DOMAIN c : k + i \in DOMAIN q /\ q[k + i] = c[i]
        <5>1. \A i \in 1..Len(c) : k + i \in 1..(k + Len(c))
          BY <1>2
        <5> QED BY <1>1, <1>2, <5>1
      <4> QED BY <1>6, <1>8, <4>1 DEF Got
    <3> QED BY <1>5, <3>1, <3>2
  <2>2. Ordered(h, q, Video)
    <3> SUFFICES ASSUME NEW i \in DOMAIN q, NEW j \in DOMAIN q, i < j,
                        h[q[i]].kind \in Video, h[q[j]].kind \in Video
                 PROVE  q[i] < q[j]
      BY DEF Ordered
    <3>1. /\ i - k \in DOMAIN c /\ q[i] = c[i - k] /\ j - k \in DOMAIN c /\ q[j] = c[j - k]
          /\ i - k < j - k
      BY <1>2, <1>10
    <3> QED BY <1>5, <3>1 DEF Ordered
  <2>3. FromKey(h, st) \subseteq Frames(h, st, Video) /\ Frames(h, st, Video) \subseteq Nat
    BY DEF FromKey, Frames, Log
  <2>4. \A i \in FromKey(h, st), j \in Frames(h, st, Video) : i < j => j \in FromKey(h, st)
    BY <2>3 DEF FromKey
  <2>5. video = FALSE => FromKey(h, st) = {} /\ \A i \in Frames(h, st, Video) : h[i].kind # "key"
    <3>1. video = FALSE => c = <<>>
      BY DEF c
    <3>2. c = <<>> => Frames(h, st, Video) = {}
      BY DEF RoomCurrent, c, st
    <3> QED BY <2>3, <3>1, <3>2
  <2> QED BY <2>1, <2>2, <2>3, <2>4, <2>5 DEF VideoServed
<1>12. AudioServed(h, st, audio, q)
  <2>1. Got(h, q, Audio) = IF room.aacHeader # 0 THEN {room.aacHeader} ELSE {}
    <3>1. \A x \in Got(h, q, Audio) : x = room.aacHeader /\ room.aacHeader # 0
      BY <1>8, <1>10 DEF Got
    <3>2. room.aacHeader # 0 => k \in DOMAIN q /\ q[k] = room.aacHeader
      BY <1>1, <1>2, <1>3
    <3>3. room.aacHeader # 0 => room.aacHeader \in Got(h, q, Audio)
      BY <1>6, <1>8, <1>9, <3>2 DEF Got
    <3> QED BY <3>1, <3>3
  <2>2. Ordered(h, q, Audio)
    BY <1>2, <1>10 DEF Ordered
  <2>3. room.aacHeader # 0 => room.aacHeader \in Frames(h, st, Audio) /\ room.aacHeader \in Nat
    BY <1>4, <1>9 DEF Frames, Room
  <2>4. audio = FALSE => \A i \in Frames(h, st, Audio) : h[i].kind # "aacHeader"
    BY <1>4 DEF Frames
  <2>5. audio = TRUE => h[room.aacHeader].kind = "aacHeader"
    BY <1>6
  <2> QED BY <2>1, <2>2, <2>3, <2>4, <2>5 DEF AudioServed
<1>13. MetaServed(h, st, q)
  <2>1. Got(h, q, {"meta"}) = IF room.meta # 0 THEN {room.meta} ELSE {}
    <3>1. \A x \in Got(h, q, {"meta"}) : x = room.meta /\ room.meta # 0
      BY <1>8, <1>10 DEF Got
    <3>2. room.meta # 0 => 1 \in DOMAIN q /\ q[1] = room.meta
      BY <1>1, <1>2, <1>3
    <3>3. room.meta # 0 => room.meta \in Got(h, q, {"meta"})
      BY <1>6, <1>8, <3>2 DEF Got
    <3> QED BY <3>1, <3>3
  <2>2. Ordered(h, q, {"meta"})
    BY <1>2, <1>10 DEF Ordered
  <2> QED BY <1>4, <2>1, <2>2 DEF MetaServed
<1>14. audio = TRUE => HeaderAtHand(h, st, q)
  <2> SUFFICES ASSUME room.aacHeader # 0 PROVE HeaderAtHand(h, st, q)
    OBVIOUS
  <2>1. k \in DOMAIN q /\ q[k] = room.aacHeader
    BY <1>1, <1>2, <1>3
  <2>2. Newest(h, q[k], st, "aacHeader")
    BY <2>1 DEF RoomCurrent, st
  <2>3. \A i \in (k + 1)..Len(q) : h[q[i]].kind # "aacHeader"
    <3>1. \A i \in (k + 1)..Len(q) : i \in DOMAIN q /\ i # k
      BY <1>2
    <3> QED BY <1>9, <1>10, <3>1
  <2> QED BY <2>1, <2>2, <2>3 DEF HeaderAtHand
<1>15. Decodable(h, q)
  BY <1>10 DEF Decodable
<1> QED BY <1>11, <1>12, <1>13, <1>14, <1>15 DEF st

(***************************************************************************)
(* What makes CacheIsLatestGop, GapFree, AudioDecodable and MetaCurrent    *)
(* inductive: no stream is published twice, what a room keeps is up to     *)
(* date, and a viewer's flags say whether what it got is.                  *)
(***************************************************************************)
StreamsFresh ==
    /\ \A n \in DOMAIN history : history[n].stream <= created
    /\ \A r \in RoomIds : rooms[r] # Null => rooms[r].stream <= created
    /\ \A r, q \in RoomIds :
        rooms[r] # Null /\ rooms[q] # Null /\ rooms[r].stream = rooms[q].stream => r = q

\* Viewer v of a room is served.
ViewerServed(h, room, v, q) ==
    /\ VideoServed(h, room.stream, room.visitors[v].has_sent_video, q)
    /\ AudioServed(h, room.stream, room.visitors[v].has_sent_audio, q)
    /\ MetaServed(h, room.stream, q)
    /\ room.visitors[v].has_sent_audio = TRUE => HeaderAtHand(h, room.stream, q)

Served ==
    /\ StreamsFresh
    /\ \A s \in Sessions : Decodable(history, sent[s])
    /\ \A r \in RoomIds : rooms[r] # Null =>
        /\ RoomCurrent(history, rooms[r])
        /\ \A v \in DOMAIN rooms[r].visitors : ViewerServed(history, rooms[r], v, sent[v])

\* A viewer's flags are Booleans.
LEMMA FlagsType ==
    ASSUME NEW room \in Room, NEW v \in DOMAIN room.visitors
    PROVE  room.visitors[v].has_sent_video \in BOOLEAN /\ room.visitors[v].has_sent_audio \in BOOLEAN
<1>1. room.visitors \in [DOMAIN room.visitors -> Flags]
  BY VisitorsElim DEF Room
<1> QED BY <1>1 DEF Flags

\* One payload of the viewer's own stream.
LEMMA ViewerStep ==
    ASSUME NEW h \in Log, NEW room \in Room, NEW kind \in Kinds, NEW v \in DOMAIN room.visitors,
           NEW q \in Seq(Nat), AllOf(h, q, room.stream), ViewerServed(h, room, v, q),
           NEW e, e = [stream |-> room.stream, kind |-> kind],
           NEW p, v \in Receivers(room, kind) => p = Append(q, Len(h) + 1),
           v \notin Receivers(room, kind) => p = q
    PROVE  ViewerServed(Append(h, e), AddData(room, kind, Len(h) + 1), v, p)
<1> DEFINE st == room.stream
           n == Len(h) + 1
           new == AddData(room, kind, n)
           video == room.visitors[v].has_sent_video
           audio == room.visitors[v].has_sent_audio
           video2 == new.visitors[v].has_sent_video
           audio2 == new.visitors[v].has_sent_audio
<1>1. e \in [stream: Nat, kind: Kinds] /\ e.stream = st /\ e.kind = kind /\ n \in Nat
  BY DEF Room, Log
<1>2. video \in BOOLEAN /\ audio \in BOOLEAN
  BY FlagsType
<1>3. (p = q \/ p = Append(q, n)) /\ (p # q <=> v \in Receivers(room, kind))
  BY <1>1, DataGrows
<1>4. /\ kind \in {"meta", "aacHeader", "key"} => p # q
      /\ kind = "aac" => (p # q <=> audio = TRUE)
      /\ kind = "inter" => (p # q <=> video = TRUE)
  BY <1>2, <1>3 DEF Receivers
<1>5. new.stream = st /\ new \in Room /\ v \in DOMAIN new.visitors
  BY <1>1, AddDataType
<1>6. video2 \in BOOLEAN /\ audio2 \in BOOLEAN
  BY <1>5, FlagsType
<1>7. /\ video2 = TRUE <=> video = TRUE \/ (kind \in Video /\ p # q)
      /\ audio2 = TRUE <=> audio = TRUE \/ (kind \in Audio /\ p # q)
  <2>1. new.visitors[v] = [has_sent_audio |-> audio \/ (kind \in Audio /\ v \in Receivers(room, kind)),
                           has_sent_video |-> video \/ (kind \in Video /\ v \in Receivers(room, kind))]
    BY DEF AddData, Room
  <2>2. /\ video2 = (video \/ (kind \in Video /\ v \in Receivers(room, kind)))
        /\ audio2 = (audio \/ (kind \in Audio /\ v \in Receivers(room, kind)))
    BY <2>1
  <2> HIDE DEF video, audio, video2, audio2
  <2> QED BY <1>2, <1>3, <2>2
<1>8. /\ VideoServed(h, st, video, q) /\ AudioServed(h, st, audio, q) /\ MetaServed(h, st, q)
      /\ audio = TRUE => HeaderAtHand(h, st, q)
      /\ AllOf(h, q, st)
  BY DEF ViewerServed
<1> HIDE DEF video, audio, video2, audio2, new, st
<1>9. VideoServed(Append(h, e), st, video2, p)
  <2>1. /\ p # q => e.stream = st
        /\ e.stream = st /\ e.kind = "key" => p # q
        /\ e.stream = st /\ e.kind = "inter" => (p # q <=> video = TRUE)
        /\ p # q /\ e.kind \in Video => video2 = TRUE
        /\ p = q \/ e.kind \notin Video => video2 = video
    BY <1>1, <1>2, <1>4, <1>6, <1>7
  <2>2. VideoSent(h, e, st, video, q, video2, p)
    BY <1>1, <1>2, <1>3, <1>6, <2>1 DEF VideoSent
  <2> QED BY <1>1, <1>8, <2>2, VideoStep
<1>10. AudioServed(Append(h, e), st, audio2, p)
  <2>1. /\ p # q => e.stream = st
        /\ e.stream = st /\ e.kind = "aacHeader" => p # q
        /\ e.stream = st /\ e.kind = "aac" => (p # q <=> audio = TRUE)
        /\ p # q /\ e.kind \in Audio => audio2 = TRUE
        /\ p = q \/ e.kind \notin Audio => audio2 = audio
    BY <1>1, <1>2, <1>4, <1>6, <1>7
  <2>2. AudioSent(h, e, st, audio, q, audio2, p)
    BY <1>1, <1>2, <1>3, <1>6, <2>1 DEF AudioSent
  <2> QED BY <1>1, <1>8, <2>2, AudioStep
<1>11. MetaServed(Append(h, e), st, p)
  BY <1>1, <1>3, <1>4, <1>8, MetaStep
<1>12. audio2 = TRUE => HeaderAtHand(Append(h, e), st, p)
  <2> SUFFICES ASSUME audio2 = TRUE PROVE HeaderAtHand(Append(h, e), st, p)
    OBVIOUS
  <2>1. audio = TRUE \/ kind = "aacHeader"
    BY <1>2, <1>4, <1>7 DEF Audio
  <2> QED BY <1>1, <1>3, <1>4, <1>8, <2>1, HeaderStep
<1> QED BY <1>5, <1>9, <1>10, <1>11, <1>12 DEF ViewerServed, video2, audio2, new, n

\* One payload of another stream.
LEMMA ViewerStays ==
    ASSUME NEW h \in Log, NEW room \in Room, NEW v \in DOMAIN room.visitors,
           NEW q \in Seq(Nat), AllOf(h, q, room.stream), ViewerServed(h, room, v, q),
           NEW e \in [stream: Nat, kind: Kinds], e.stream # room.stream
    PROVE  ViewerServed(Append(h, e), room, v, q)
<1> DEFINE st == room.stream
           video == room.visitors[v].has_sent_video
           audio == room.visitors[v].has_sent_audio
<1>1. video \in BOOLEAN /\ audio \in BOOLEAN
  BY FlagsType
<1>2. /\ VideoServed(h, st, video, q) /\ AudioServed(h, st, audio, q) /\ MetaServed(h, st, q)
      /\ audio = TRUE => HeaderAtHand(h, st, q)
      /\ AllOf(h, q, st) /\ e.stream # st
  BY DEF ViewerServed
<1> HIDE DEF video, audio, st
<1>3. VideoServed(Append(h, e), st, video, q)
  <2>1. VideoSent(h, e, st, video, q, video, q)
    BY <1>1, <1>2 DEF VideoSent
  <2> QED BY <1>2, <2>1, VideoStep
<1>4. AudioServed(Append(h, e), st, audio, q)
  <2>1. AudioSent(h, e, st, audio, q, audio, q)
    BY <1>1, <1>2 DEF AudioSent
  <2> QED BY <1>2, <2>1, AudioStep
<1>5. MetaServed(Append(h, e), st, q)
  BY <1>2, MetaStep
<1>6. audio = TRUE => HeaderAtHand(Append(h, e), st, q)
  BY <1>2, HeaderStep
<1> QED BY <1>3, <1>4, <1>5, <1>6 DEF ViewerServed, video, audio, st

\* What a room keeps and who is served depend on these fields of it only.
LEMMA SameRoom ==
    ASSUME NEW h, NEW a, NEW b, a.stream = b.stream, a.meta = b.meta, a.aacHeader = b.aacHeader,
           a.cache = b.cache
    PROVE  /\ RoomCurrent(h, a) => RoomCurrent(h, b)
           /\ \A v, q : a.visitors[v] = b.visitors[v] /\ ViewerServed(h, a, v, q) => ViewerServed(h, b, v, q)
<1>1. RoomCurrent(h, a) => RoomCurrent(h, b)
  BY DEF RoomCurrent
<1>2. ASSUME NEW v, NEW q, a.visitors[v] = b.visitors[v], ViewerServed(h, a, v, q)
      PROVE  ViewerServed(h, b, v, q)
  BY <1>2 DEF ViewerServed
<1> QED BY <1>1, <1>2

\* Closing a session leaves everybody else as well served as before.
LEMMA CloseServed ==
    ASSUME IInv, IInv', Served, NEW s \in sessions, NEW t, NEW r, CloseSession(s, t, r),
           t = "PULL" => r \in RoomIds
    PROVE  Served'
<1>1. /\ TypeOK /\ history' = history /\ created' = created /\ sessions' = sessions \ {s}
      /\ \A v \in Sessions : sent'[v] = IF v = s THEN <<>> ELSE sent[v]
  BY DEF IInv, TypeOK, CloseSession
<1>2. ASSUME NEW q \in RoomIds, rooms'[q] # Null
      PROVE  /\ rooms[q] # Null
             /\ rooms[q].stream = rooms'[q].stream /\ rooms[q].meta = rooms'[q].meta
             /\ rooms[q].aacHeader = rooms'[q].aacHeader /\ rooms[q].cache = rooms'[q].cache
             /\ \A v \in DOMAIN rooms'[q].visitors :
                  v \in DOMAIN rooms[q].visitors /\ rooms[q].visitors[v] = rooms'[q].visitors[v]
  <2>1. CASE t = "PULL" /\ rooms[r] # Null
    <3>1. r \in RoomIds /\ rooms[r] \in Room /\ rooms' = [rooms EXCEPT ![r] = Leave(rooms[r], s)]
      BY <1>1, <2>1 DEF TypeOK, CloseSession, RoomsAfterClose
    <3>2. /\ Leave(rooms[r], s).stream = rooms[r].stream /\ Leave(rooms[r], s).meta = rooms[r].meta
          /\ Leave(rooms[r], s).aacHeader = rooms[r].aacHeader /\ Leave(rooms[r], s).cache = rooms[r].cache
          /\ Leave(rooms[r], s).visitors = [v \in DOMAIN rooms[r].visitors \ {s} |-> rooms[r].visitors[v]]
      BY <3>1 DEF Leave, Room
    <3> QED BY <1>1, <1>2, <2>1, <3>1, <3>2 DEF TypeOK
  <2>2. CASE ~ (t = "PULL" /\ rooms[r] # Null)
    BY <1>1, <1>2, <2>2 DEF TypeOK, CloseSession, RoomsAfterClose
  <2> QED BY <2>1, <2>2
<1>3. StreamsFresh'
  BY <1>1, <1>2 DEF Served, StreamsFresh
<1>4. ASSUME NEW v \in Sessions PROVE Decodable(history', sent'[v])
  <2>1. Decodable(history, <<>>)
    BY DEF Decodable
  <2> QED BY <1>1, <2>1 DEF Served
<1>5. ASSUME NEW q \in RoomIds, rooms'[q] # Null
      PROVE  /\ RoomCurrent(history', rooms'[q])
             /\ \A v \in DOMAIN rooms'[q].visitors : ViewerServed(history', rooms'[q], v, sent'[v])
  <2>1. RoomCurrent(history, rooms'[q])
    BY <1>2, <1>5, SameRoom DEF Served
  <2>2. ASSUME NEW v \in DOMAIN rooms'[q].visitors PROVE ViewerServed(history, rooms'[q], v, sent'[v])
    <3>1. v \in Sessions /\ v # s
      BY <1>1, <1>5 DEF IInv, NoDanglingVisitors, TypeOK
    <3>2. v \in DOMAIN rooms[q].visitors /\ rooms[q].visitors[v] = rooms'[q].visitors[v]
      BY <1>2, <1>5
    <3>3. ViewerServed(history, rooms[q], v, sent[v])
      BY <1>2, <1>5, <3>2 DEF Served
    <3>4. ViewerServed(history, rooms'[q], v, sent[v])
      BY <1>2, <1>5, <3>2, <3>3, SameRoom
    <3> QED BY <1>1, <3>1, <3>4
  <2> QED BY <1>1, <2>1, <2>2
<1> QED BY <1>3, <1>4, <1>5 DEF Served

\* Nothing of a new stream has been published.
LEMMA PublishServed ==
    ASSUME IInv, Served, NEW s \in Sessions, NEW r \in RoomIds, Publish(s, r)
    PROVE  Served'
<1> DEFINE new == NewRoom(created + 1)
           st == created + 1
<1>1. /\ TypeOK /\ Null \notin Room /\ rooms' = [rooms EXCEPT ![r] = new]
      /\ history' = history /\ sent' = sent /\ created' = st /\ created \in Nat
      /\ \A n \in DOMAIN history : history[n].stream \in Nat
  <2>1. history \in Log
    <3>1. TypeOK
      BY DEF IInv
    <3> QED BY <3>1 DEF TypeOK, Log
  <2>2. \A n \in DOMAIN history : history[n].stream \in Nat
    BY <2>1, LogStreams
  <2> QED BY <2>2, ConstantsAssumption DEF IInv, TypeOK, Publish
<1>2. /\ new.stream = st /\ new.meta = 0 /\ new.aacHeader = 0 /\ new.cache = <<>>
      /\ DOMAIN new.visitors = {}
  BY DEF NewRoom
<1>3. \A n \in DOMAIN history : history[n].stream # st
  <2>1. \A n \in DOMAIN history : history[n].stream \in Nat /\ history[n].stream <= created
    BY <1>1 DEF Served, StreamsFresh
  <2> QED BY <1>1, <2>1
<1>4. \A K : Frames(history, st, K) = {}
  BY <1>3 DEF Frames
<1> HIDE DEF new
<1>5. RoomCurrent(history, new)
  <2>1. ToSet(<<>>) = {}
    BY DEF ToSet
  <2>2. FromKey(history, st) = {} /\ Ordered(history, <<>>, Video)
    BY <1>4 DEF FromKey, Ordered
  <2>3. Newest(history, 0, st, "meta") /\ Newest(history, 0, st, "aacHeader")
    BY <1>4 DEF Newest
  <2> QED BY <1>2, <1>4, <2>1, <2>2, <2>3 DEF RoomCurrent
<1>6. \A q \in RoomIds : rooms'[q] = IF q = r THEN new ELSE rooms[q]
  BY <1>1 DEF TypeOK
<1>7. StreamsFresh'
  <2>1. \A q \in RoomIds : rooms[q] # Null => rooms[q].stream \in Nat /\ rooms[q].stream <= created
    BY <1>1 DEF Served, StreamsFresh, TypeOK, Room
  <2>2. \A q \in RoomIds : rooms'[q] # Null =>
          rooms'[q].stream <= st /\ (q # r => rooms'[q].stream # st)
    BY <1>1, <1>2, <1>6, <2>1
  <2>3. \A n \in DOMAIN history : history[n].stream <= st
    <3>1. \A n \in DOMAIN history : history[n].stream \in Nat /\ history[n].stream <= created
      BY <1>1 DEF Served, StreamsFresh
    <3> QED BY <1>1, <3>1
  <2>4. ASSUME NEW a \in RoomIds, NEW b \in RoomIds, rooms'[a] # Null, rooms'[b] # Null,
               rooms'[a].stream = rooms'[b].stream
        PROVE  a = b
    <3>1. a = r <=> b = r
      BY <1>2, <1>6, <2>2, <2>4
    <3> QED BY <1>6, <2>4, <3>1 DEF Served, StreamsFresh
  <2> QED BY <1>1, <2>2, <2>3, <2>4 DEF StreamsFresh
<1>8. ASSUME NEW q \in RoomIds, rooms'[q] # Null
      PROVE  /\ RoomCurrent(history', rooms'[q])
             /\ \A v \in DOMAIN rooms'[q].visitors : ViewerServed(history', rooms'[q], v, sent'[v])
  <2>1. CASE q = r
    BY <1>1, <1>2, <1>5, <1>6, <2>1
  <2>2. CASE q # r
    BY <1>1, <1>6, <1>8, <2>2 DEF Served
  <2> QED BY <2>1, <2>2
<1> QED BY <1>1, <1>7, <1>8 DEF Served

\* A viewer who joins is served what the room keeps.
LEMMA PlayServed ==
    ASSUME IInv, Apart, Served, NEW s \in Sessions, Play(s)
    PROVE  Served'
<1> DEFINE r == roomId[s]
           new == Enter(rooms[r], s)
           got == Replay(rooms[r])
           video == new.visitors[s].has_sent_video
           audio == new.visitors[s].has_sent_audio
<1>1. /\ TypeOK /\ r \in RoomIds /\ rooms[r] # Null /\ rooms[r] \in Room /\ type[s] = "UNDEFINED"
      /\ rooms' = [rooms EXCEPT ![r] = new] /\ sent' = [sent EXCEPT ![s] = sent[s] \o got]
      /\ history' = history /\ created' = created /\ history \in Log
  BY DEF IInv, TypeOK, Play, Log
<1>2. got \in Seq(Nat) /\ Keeps(history, rooms[r])
  BY <1>1, ReplayType DEF Apart
<1>3. sent[s] = <<>> /\ \A v \in Sessions : sent'[v] = IF v = s THEN got ELSE sent[v]
  <2>1. sent[s] = <<>>
    BY <1>1 DEF Apart
  <2> HIDE DEF got
  <2>2. <<>> \o got = got
    BY <1>2
  <2> QED BY <1>1, <2>1, <2>2 DEF TypeOK
<1>4. \A q \in RoomIds : rooms[q] # Null =>
        s \notin DOMAIN rooms[q].visitors /\ DOMAIN rooms[q].visitors \subseteq Sessions
  BY <1>1 DEF IInv, TypeOK, NoDanglingVisitors
<1>5. /\ new.stream = rooms[r].stream /\ new.meta = rooms[r].meta
      /\ new.aacHeader = rooms[r].aacHeader /\ new.cache = rooms[r].cache
      /\ DOMAIN new.visitors = DOMAIN rooms[r].visitors \cup {s}
      /\ \A v \in DOMAIN rooms[r].visitors : new.visitors[v] = rooms[r].visitors[v]
      /\ new.visitors[s] = [has_sent_audio |-> rooms[r].aacHeader # 0,
                            has_sent_video |-> rooms[r].cache # <<>>]
  <2>1. new.visitors = [v \in DOMAIN rooms[r].visitors \cup {s} |->
                          IF v \in DOMAIN rooms[r].visitors THEN rooms[r].visitors[v]
                          ELSE [has_sent_audio |-> rooms[r].aacHeader # 0,
                                has_sent_video |-> rooms[r].cache # <<>>]]
    BY <1>1 DEF Enter, Room
  <2>2. /\ new.stream = rooms[r].stream /\ new.meta = rooms[r].meta
        /\ new.aacHeader = rooms[r].aacHeader /\ new.cache = rooms[r].cache
    BY <1>1 DEF Enter, Room
  <2> HIDE DEF new
  <2> QED BY <1>1, <1>4, <2>1, <2>2
<1>6. /\ video \in BOOLEAN /\ (video = TRUE <=> rooms[r].cache # <<>>)
      /\ audio \in BOOLEAN /\ (audio = TRUE <=> rooms[r].aacHeader # 0)
  <2>1. video = (rooms[r].cache # <<>>) /\ audio = (rooms[r].aacHeader # 0)
    BY <1>5
  <2> HIDE DEF video, audio
  <2> QED BY <2>1
<1> HIDE DEF r, new, got, video, audio
<1>7. /\ VideoServed(history, rooms[r].stream, video, got)
      /\ AudioServed(history, rooms[r].stream, audio, got)
      /\ MetaServed(history, rooms[r].stream, got)
      /\ audio = TRUE => HeaderAtHand(history, rooms[r].stream, got)
      /\ Decodable(history, got)
  <2>1. RoomCurrent(history, rooms[r]) /\ got = Replay(rooms[r])
    BY <1>1 DEF Served, got
  <2> QED BY <1>1, <1>2, <1>6, <2>1, Joining
<1>8. \A q \in RoomIds : rooms'[q] = IF q = r THEN new ELSE rooms[q]
  BY <1>1 DEF TypeOK
<1>9. StreamsFresh'
  BY <1>1, <1>5, <1>8 DEF Served, StreamsFresh
<1>10. \A v \in Sessions : Decodable(history', sent'[v])
  BY <1>1, <1>3, <1>7 DEF Served
<1>11. ASSUME NEW q \in RoomIds, rooms'[q] # Null
       PROVE  /\ RoomCurrent(history', rooms'[q])
              /\ \A v \in DOMAIN rooms'[q].visitors : ViewerServed(history', rooms'[q], v, sent'[v])
  <2>1. CASE q = r
    <3>1. rooms'[q] = new
      BY <1>8, <2>1
    <3>2. RoomCurrent(history, new)
      BY <1>1, <1>5, SameRoom DEF Served
    <3>3. ViewerServed(history, new, s, got)
      BY <1>5, <1>7 DEF ViewerServed, video, audio
    <3>4. ASSUME NEW v \in DOMAIN rooms[r].visitors PROVE ViewerServed(history, new, v, sent[v])
      <4>1. ViewerServed(history, rooms[r], v, sent[v])
        BY <1>1 DEF Served
      <4> QED BY <1>5, <4>1, SameRoom
    <3> QED BY <1>1, <1>3, <1>4, <1>5, <3>1, <3>2, <3>3, <3>4
  <2>2. CASE q # r
    <3>1. rooms'[q] = rooms[q]
      BY <1>8, <2>2
    <3>2. \A v \in DOMAIN rooms[q].visitors : sent'[v] = sent[v]
      BY <1>3, <1>4, <1>11, <3>1
    <3> QED BY <1>1, <1>11, <3>1, <3>2 DEF Served
  <2> QED BY <2>1, <2>2
<1> QED BY <1>9, <1>10, <1>11 DEF Served

\* A payload of a publisher reaches whoever must get it.
LEMMA MediaServed ==
    ASSUME IInv, Apart, Served, NEW s \in Sessions, NEW kind \in Kinds, Media(s, kind)
    PROVE  Served'
<1> DEFINE r == roomId[s]
           n == Len(history) + 1
           e == [stream |-> rooms[r].stream, kind |-> kind]
           new == AddData(rooms[r], kind, n)
           to == Receivers(rooms[r], kind)
<1>1. /\ TypeOK /\ r \in RoomIds /\ rooms[r] # Null /\ rooms[r] \in Room /\ n \in Nat
      /\ s \in sessions /\ history \in Log
  BY DEF Media, IInv, TypeOK, PublisherHasRoom, Log
<1>2. /\ history' = Append(history, e) /\ rooms' = [rooms EXCEPT ![r] = new] /\ created' = created
      /\ sent' = [v \in Sessions |-> IF v \in to THEN Append(sent[v], n) ELSE sent[v]]
  BY DEF Media
<1>3. e \in [stream: Nat, kind: Kinds] /\ e.stream = rooms[r].stream /\ e.kind = kind
  BY <1>1 DEF Room
<1>4. new.stream = rooms[r].stream /\ DOMAIN new.visitors = DOMAIN rooms[r].visitors
  BY <1>1, AddDataType
<1>5. to \subseteq DOMAIN rooms[r].visitors
  BY DEF Receivers
<1>6. \A q \in RoomIds : rooms[q] # Null => \A v \in DOMAIN rooms[q].visitors :
        v \in Sessions /\ (v \in to => q = r)
  BY <1>1, <1>5 DEF IInv, TypeOK, NoDanglingVisitors
<1>7. \A v \in Sessions : sent[v] \in Seq(Nat) /\ sent'[v] = IF v \in to THEN Append(sent[v], n) ELSE sent[v]
  BY <1>1, <1>2 DEF TypeOK
<1>8. \A q \in RoomIds : rooms'[q] = IF q = r THEN new ELSE rooms[q]
  BY <1>1, <1>2 DEF TypeOK
<1> HIDE DEF r, e, new, to
<1>9. StreamsFresh'
  <2>1. rooms[r].stream <= created
    BY <1>1 DEF Served, StreamsFresh
  <2>2. \A k \in DOMAIN history' : \/ k \in DOMAIN history /\ history'[k] = history[k]
                                   \/ history'[k].stream = rooms[r].stream
    BY <1>1, <1>2, <1>3 DEF Log
  <2>3. \A k \in DOMAIN history' : history'[k].stream <= created'
    BY <1>2, <2>1, <2>2 DEF Served, StreamsFresh
  <2>4. \A q \in RoomIds : rooms'[q] # Null => rooms[q] # Null /\ rooms'[q].stream = rooms[q].stream
    BY <1>1, <1>4, <1>8
  <2> QED BY <1>2, <2>3, <2>4 DEF Served, StreamsFresh
<1>10. ASSUME NEW v \in Sessions PROVE Decodable(history', sent'[v])
  <2>1. PICK st : AllOf(history, sent[v], st)
    BY DEF Apart
  <2>2. Decodable(history, sent[v])
    BY DEF Served
  <2>3. sent'[v] = sent[v] \/ sent'[v] = Append(sent[v], Len(history) + 1)
    BY <1>7
  <2>4. ASSUME sent'[v] # sent[v], e.kind = "aac" PROVE HeaderAtHand(history, e.stream, sent[v])
    <3>1. v \in to
      BY <1>7, <2>4
    <3>2. v \in DOMAIN rooms[r].visitors /\ rooms[r].visitors[v].has_sent_audio
      BY <1>3, <1>5, <2>4, <3>1 DEF Receivers, to
    <3>3. rooms[r].visitors[v].has_sent_audio = TRUE
      BY <1>1, <3>2, FlagsType
    <3> QED BY <1>1, <1>3, <3>2, <3>3 DEF Served, ViewerServed
  <2> QED BY <1>1, <1>2, <1>3, <1>7, <2>1, <2>2, <2>3, <2>4, DecodableStep
<1>11. ASSUME NEW q \in RoomIds, rooms'[q] # Null
       PROVE  /\ RoomCurrent(history', rooms'[q])
              /\ \A v \in DOMAIN rooms'[q].visitors : ViewerServed(history', rooms'[q], v, sent'[v])
  <2>1. CASE q = r
    <3>1. rooms'[q] = new
      BY <1>8, <2>1
    <3>2. RoomCurrent(history', new)
      <4>1. AllOf(history, rooms[r].cache, rooms[r].stream) /\ RoomCurrent(history, rooms[r])
        BY <1>1 DEF Apart, Keeps, Served
      <4>2. RoomCurrent(Append(history, e), AddData(rooms[r], e.kind, Len(history) + 1))
        BY <1>1, <1>3, <4>1, RoomStep
      <4> QED BY <1>2, <1>3, <4>2 DEF new
    <3>3. ASSUME NEW v \in DOMAIN rooms[r].visitors PROVE ViewerServed(history', new, v, sent'[v])
      <4>1. v \in Sessions /\ AllOf(history, sent[v], rooms[r].stream)
        BY <1>1, <1>6 DEF Apart
      <4>2. ViewerServed(history, rooms[r], v, sent[v])
        BY <1>1 DEF Served
      <4>3. /\ v \in Receivers(rooms[r], kind) => sent'[v] = Append(sent[v], Len(history) + 1)
            /\ v \notin Receivers(rooms[r], kind) => sent'[v] = sent[v]
            /\ sent[v] \in Seq(Nat)
        BY <1>7, <4>1 DEF to
      <4>4. e = [stream |-> rooms[r].stream, kind |-> kind]
        BY DEF e
      <4>5. ViewerServed(Append(history, e), AddData(rooms[r], kind, Len(history) + 1), v, sent'[v])
        BY <1>1, <4>1, <4>2, <4>3, <4>4, ViewerStep
      <4> QED BY <1>2, <4>5 DEF new
    <3> QED BY <1>4, <3>1, <3>2, <3>3
  <2>2. CASE q # r
    <3>1. rooms'[q] = rooms[q] /\ rooms[q] # Null /\ rooms[q] \in Room
      BY <1>1, <1>8, <1>11, <2>2 DEF TypeOK
    <3>2. e.stream # rooms[q].stream
      BY <1>1, <1>3, <2>2, <3>1 DEF Served, StreamsFresh
    <3>3. RoomCurrent(history', rooms[q])
      <4>1. AllOf(history, rooms[q].cache, rooms[q].stream) /\ RoomCurrent(history, rooms[q])
        BY <3>1 DEF Apart, Keeps, Served
      <4> QED BY <1>1, <1>2, <1>3, <3>1, <3>2, <4>1, RoomStep
    <3>4. ASSUME NEW v \in DOMAIN rooms[q].visitors PROVE ViewerServed(history', rooms[q], v, sent'[v])
      <4>1. v \in Sessions /\ sent'[v] = sent[v] /\ sent[v] \in Seq(Nat)
        BY <1>6, <1>7, <2>2, <3>1
      <4>2. AllOf(history, sent[v], rooms[q].stream) /\ ViewerServed(history, rooms[q], v, sent[v])
        BY <3>1 DEF Apart, Served
      <4> QED BY <1>1, <1>2, <1>3, <3>1, <3>2, <4>1, <4>2, ViewerStays
    <3> QED BY <3>1, <3>3, <3>4
  <2> QED BY <2>1, <2>2
<1> QED BY <1>9, <1>10, <1>11 DEF Served

\* Every step serves the viewers.
LEMMA NextServed == IInv /\ Apart /\ Served /\ [Next]_vars => Served'
<1> SUFFICES ASSUME IInv, Apart, Served, [Next]_vars PROVE Served'
  OBVIOUS
<1>0. TypeOK /\ NoRoom \notin RoomIds /\ IInv'
  BY ConstantsAssumption, NextIInv DEF IInv
<1>1. ASSUME NEW s \in Sessions, Accept(s) \/ (\E r \in RoomIds : Connect(s, r)) PROVE Served'
  BY <1>1 DEF Accept, Connect, Served, StreamsFresh
<1>2. ASSUME NEW s \in Sessions, Disconnect(s) \/ PublishRefused(s) \/ PlayRefused(s) \/ StartAgain(s)
      PROVE  Served'
  <2>1. type[s] = "PULL" => roomId[s] \in RoomIds
    BY <1>2 DEF IInv, PullersNameSlots, Disconnect, PublishRefused, PlayRefused, StartAgain
  <2>2. PlayRefused(s) => roomId[s] \in RoomIds
    BY <1>0 DEF PlayRefused, TypeOK
  <2> QED BY <1>0, <1>2, <2>1, <2>2, CloseServed DEF Disconnect, PublishRefused, PlayRefused, StartAgain
<1>3. ASSUME NEW s \in Sessions, NEW r \in RoomIds, Publish(s, r) PROVE Served'
  BY <1>3, PublishServed
<1>4. ASSUME NEW s \in Sessions, Play(s) PROVE Served'
  BY <1>4, PlayServed
<1>5. ASSUME NEW s \in Sessions, NEW kind \in Kinds, Media(s, kind) PROVE Served'
  BY <1>5, MediaServed
<1>6. CASE UNCHANGED vars
  BY <1>6 DEF vars, Served, StreamsFresh
<1> QED BY <1>1, <1>2, <1>3, <1>4, <1>5, <1>6 DEF Next

\* What every reachable state satisfies.
LEMMA SpecServed == Spec => [](IInv /\ Apart /\ Served)
<1>1. Init => Apart /\ Served
  BY DEF Init, Apart, AllOf, Served, StreamsFresh, Decodable
<1> QED BY <1>1, InitIInv, NextIInv, NextApart, NextServed, PTL DEF Spec

-----------------------------------------------------------------------------
(* What follows from it *)

(***************************************************************************)
(* The variables of the server keep their types, room_id_ = -1 of a        *)
(* refused publisher included.                                             *)
(***************************************************************************)
THEOREM TypeCorrect == Spec => []TypeOK
<1>1. IInv => TypeOK
  BY DEF IInv
<1> QED BY <1>1, SpecIInv, PTL

(***************************************************************************)
(* id_pool_ and rooms_ of RoomManager agree: no live room is overwritten,  *)
(* no id is lost.                                                          *)
(***************************************************************************)
THEOREM PoolCorrect == Spec => []PoolMatchesRooms
<1>1. IInv => PoolMatchesRooms
  BY DEF IInv
<1> QED BY <1>1, SpecIInv, PTL

(***************************************************************************)
(* A room exists exactly while its one publisher is connected, so AddData  *)
(* and InitMetaData never go through a null rooms_[room_id_].              *)
(***************************************************************************)
THEOREM OneRoomPerPublisher == Spec => []RoomsMatchPublishers
<1>1. IInv => RoomsMatchPublishers
  <2> SUFFICES ASSUME IInv PROVE RoomsMatchPublishers
    OBVIOUS
  <2>1. \A s \in sessions : type[s] = "PUSH" => roomId[s] \in RoomIds
    BY DEF IInv, PublisherHasRoom
  <2>2. ASSUME NEW r \in RoomIds, rooms[r] = Null PROVE Publishers(r) = {}
    BY <2>2 DEF IInv, PublisherHasRoom, Publishers
  <2>3. ASSUME NEW r \in RoomIds, rooms[r] # Null
        PROVE  \E s \in sessions : Publishers(r) = {s}
    BY <2>3 DEF IInv, RoomHasPublisher, PublishersApart, Publishers
  <2> QED BY <2>1, <2>2, <2>3 DEF RoomsMatchPublishers
<1> QED BY <1>1, SpecIInv, PTL

(***************************************************************************)
(* The session pointers in visitors_ are those of live viewers of that     *)
(* room: a broadcast never uses a freed RTMPSession.                       *)
(***************************************************************************)
THEOREM VisitorsAlive == Spec => []NoDanglingVisitors
<1>1. IInv => NoDanglingVisitors
  BY DEF IInv
<1> QED BY <1>1, SpecIInv, PTL

\* What a step must satisfy for OnlyPublisherClosesRoom, for one room.
RoomKept(r) ==
    /\ rooms[r] # Null
    /\ rooms'[r] = Null \/ rooms'[r].stream # rooms[r].stream
    => Publishers(r) \subseteq sessions \ sessions'

\* Closing a session removes no room but that of a publisher who leaves.
LEMMA CloseKeepsRooms ==
    ASSUME IInv, NEW s \in sessions, NEW t, NEW r, CloseSession(s, t, r),
           \/ t = type[s] /\ r = roomId[s]
           \/ t = "PUSH" /\ r = NoRoom /\ type[s] = "UNDEFINED"
           \/ t = "PULL" /\ r \in RoomIds /\ rooms[r] = Null /\ type[s] = "UNDEFINED",
           NEW q \in RoomIds
    PROVE  RoomKept(q)
<1>0. TypeOK /\ sessions' = sessions \ {s} /\ rooms' = RoomsAfterClose(s, t, r)
  BY DEF IInv, CloseSession
<1>1. CASE t = "PULL" /\ rooms[r] # Null
  <2>1. r \in RoomIds /\ rooms[r] \in Room
    BY <1>0, <1>1 DEF IInv, TypeOK, PullersNameSlots
  <2>2. Leave(rooms[r], s) # Null /\ Leave(rooms[r], s).stream = rooms[r].stream
    BY <2>1, LeaveType, ConstantsAssumption
  <2>3. rooms' = [rooms EXCEPT ![r] = Leave(rooms[r], s)]
    BY <1>0, <1>1 DEF RoomsAfterClose
  <2> QED BY <1>0, <2>2, <2>3 DEF RoomKept, TypeOK
<1>2. CASE t = "PUSH" /\ r \in RoomIds \ idPool
  <2>1. type[s] = "PUSH" /\ roomId[s] = r
    BY <1>2, ConstantsAssumption
  <2>2. Publishers(r) \subseteq {s}
    BY <2>1 DEF IInv, PublishersApart, Publishers
  <2>3. rooms' = [rooms EXCEPT ![r] = Null]
    BY <1>0, <1>2 DEF RoomsAfterClose
  <2> QED BY <1>0, <2>2, <2>3 DEF RoomKept, TypeOK
<1>3. CASE /\ ~ (t = "PULL" /\ rooms[r] # Null)
           /\ ~ (t = "PUSH" /\ r \in RoomIds \ idPool)
  BY <1>0, <1>3 DEF RoomsAfterClose, RoomKept
<1> QED BY <1>1, <1>2, <1>3

\* No step removes a room whose publisher stays.
LEMMA NextKeepsRooms ==
    ASSUME IInv, [Next]_vars, NEW q \in RoomIds
    PROVE  RoomKept(q)
<1>0. TypeOK /\ NoRoom \notin RoomIds /\ Null \notin Room
  BY ConstantsAssumption DEF IInv
<1>1. ASSUME NEW s \in Sessions, Accept(s) PROVE RoomKept(q)
  BY <1>1 DEF Accept, RoomKept
<1>2. ASSUME NEW s \in Sessions, Disconnect(s) PROVE RoomKept(q)
  BY <1>2, CloseKeepsRooms DEF Disconnect
<1>3. ASSUME NEW s \in Sessions, NEW r \in RoomIds, Connect(s, r) PROVE RoomKept(q)
  BY <1>3 DEF Connect, RoomKept
<1>4. ASSUME NEW s \in Sessions, NEW r \in RoomIds, Publish(s, r) PROVE RoomKept(q)
  <2>1. rooms[r] = Null /\ \A p \in RoomIds \ {r} : rooms'[p] = rooms[p]
    BY <1>0, <1>4 DEF Publish, IInv, PoolMatchesRooms, TypeOK
  <2> QED BY <2>1 DEF RoomKept
<1>5. ASSUME NEW s \in Sessions, PublishRefused(s) PROVE RoomKept(q)
  BY <1>5, CloseKeepsRooms DEF PublishRefused
<1>6. ASSUME NEW s \in Sessions, Play(s) PROVE RoomKept(q)
  <2>1. roomId[s] \in RoomIds /\ rooms[roomId[s]] \in Room
    BY <1>0, <1>6 DEF Play, TypeOK
  <2>2. /\ Enter(rooms[roomId[s]], s) # Null
        /\ Enter(rooms[roomId[s]], s).stream = rooms[roomId[s]].stream
    BY <1>0, <2>1, EnterType
  <2>3. rooms' = [rooms EXCEPT ![roomId[s]] = Enter(rooms[roomId[s]], s)]
    BY <1>6 DEF Play
  <2> QED BY <1>0, <2>2, <2>3 DEF RoomKept, TypeOK
<1>7. ASSUME NEW s \in Sessions, PlayRefused(s) PROVE RoomKept(q)
  <2>1. roomId[s] \in RoomIds
    BY <1>0, <1>7 DEF PlayRefused, TypeOK
  <2> QED BY <1>7, <2>1, CloseKeepsRooms DEF PlayRefused
<1>8. ASSUME NEW s \in Sessions, StartAgain(s) PROVE RoomKept(q)
  BY <1>8, CloseKeepsRooms DEF StartAgain
<1>9. ASSUME NEW s \in Sessions, NEW kind \in Kinds, Media(s, kind) PROVE RoomKept(q)
  <2> DEFINE new == AddData(rooms[roomId[s]], kind, Len(history) + 1)
  <2>1. roomId[s] \in RoomIds /\ rooms[roomId[s]] \in Room /\ Len(history) + 1 \in Nat
    BY <1>0, <1>9 DEF Media, IInv, TypeOK, PublisherHasRoom
  <2>2. new # Null /\ new.stream = rooms[roomId[s]].stream
    BY <1>0, <2>1, AddDataType
  <2>3. rooms' = [rooms EXCEPT ![roomId[s]] = new]
    BY <1>9 DEF Media
  <2> HIDE DEF new
  <2> QED BY <1>0, <2>2, <2>3 DEF RoomKept, TypeOK
<1>10. CASE UNCHANGED vars
  BY <1>10 DEF vars, RoomKept
<1> QED
  BY <1>1, <1>2, <1>3, <1>4, <1>5, <1>6, <1>7, <1>8, <1>9, <1>10 DEF Next

(***************************************************************************)
(* Only the disconnection of its publisher deletes a room: not a refused   *)
(* publish, whose OnClose runs CloseRoom(-1), nor anybody else's close.    *)
(***************************************************************************)
THEOREM PublisherClosesRoom == Spec => OnlyPublisherClosesRoom
<1>1. IInv /\ [Next]_vars =>
        [\A r \in RoomIds :
            /\ rooms[r] # Null
            /\ rooms'[r] = Null \/ rooms'[r].stream # rooms[r].stream
            => Publishers(r) \subseteq sessions \ sessions']_vars
  BY NextKeepsRooms DEF RoomKept
<1> QED BY <1>1, SpecIInv, PTL DEF Spec, OnlyPublisherClosesRoom

(***************************************************************************)
(* A session is never sent anything of a stream other than its room's,     *)
(* though room ids and addresses of sessions are used again, and a viewer  *)
(* stays when its publisher has gone.                                      *)
(***************************************************************************)
THEOREM StreamsApart == Spec => []NoCrossTalk
<1>1. IInv /\ Apart => NoCrossTalk
  BY SMTT(40) DEF IInv, TypeOK, NoDanglingVisitors, Apart, NoCrossTalk, AllOf, OfStream, OpenRooms
<1> QED BY <1>1, SpecServed, PTL

(***************************************************************************)
(* The cache that Enter replays is the stream's latest key frame with all  *)
(* the video after it, in order: AddData never lets it go stale.           *)
(***************************************************************************)
THEOREM CacheCorrect == Spec => []CacheIsLatestGop
<1>1. Served => CacheIsLatestGop
  <2> SUFFICES ASSUME Served, NEW r \in RoomIds, rooms[r] # Null
               PROVE  /\ InOrder(rooms[r].cache, Video)
                      /\ ToSet(rooms[r].cache) = FromLast(Published(rooms[r].stream, Video), "key")
    BY DEF CacheIsLatestGop, OpenRooms
  <2>1. RoomCurrent(history, rooms[r])
    BY DEF Served
  <2> QED BY <2>1 DEF RoomCurrent, Ordered, InOrder, FromKey, FromLast, Frames, Published
<1> QED BY <1>1, SpecServed, PTL

(***************************************************************************)
(* Whatever the order of joins, leaves and payloads: a viewer's video and  *)
(* audio have no gap and no repetition, and hold the latest key frame and  *)
(* the sequence header as soon as the stream has one.                      *)
(***************************************************************************)
THEOREM NothingMissed == Spec => []GapFree
<1>1. IInv /\ Served => GapFree
  <2> SUFFICES ASSUME IInv, Served, NEW r \in RoomIds, rooms[r] # Null,
                      NEW v \in DOMAIN rooms[r].visitors
               PROVE  VideoGapFree(rooms[r].stream, v) /\ AudioGapFree(rooms[r].stream, v)
    BY DEF GapFree, OpenRooms
  <2> DEFINE st == rooms[r].stream
             video == rooms[r].visitors[v].has_sent_video
             audio == rooms[r].visitors[v].has_sent_audio
  <2>1. video \in BOOLEAN /\ audio \in BOOLEAN
    <3>1. rooms[r] \in Room
      BY DEF IInv, TypeOK
    <3> QED BY <3>1, FlagsType
  <2>2. VideoServed(history, st, video, sent[v]) /\ AudioServed(history, st, audio, sent[v])
    BY DEF Served, ViewerServed
  <2> HIDE DEF video, audio
  <2>3. VideoGapFree(st, v)
    <3>1. /\ InOrder(sent[v], Video)
          /\ Received(v, Video) \subseteq Published(st, Video)
          /\ \A i \in Received(v, Video), j \in Published(st, Video) : i < j => j \in Received(v, Video)
      BY <2>2 DEF VideoServed, Ordered, InOrder, Got, Received, Frames, Published
    <3>2. Has(Published(st, Video), "key") =>
            FromLast(Published(st, Video), "key") \subseteq Received(v, Video)
      BY <2>1, <2>2 DEF VideoServed, Got, Received, Frames, Published, FromKey, FromLast, Has
    <3> QED BY <3>1, <3>2 DEF VideoGapFree
  <2>4. AudioGapFree(st, v)
    BY <2>1, <2>2 DEF AudioServed, Ordered, InOrder, Got, Received, Frames, Published, Has, AudioGapFree
  <2> QED BY <2>3, <2>4
<1> QED BY <1>1, SpecServed, PTL

(***************************************************************************)
(* Every AAC frame a session got follows the sequence header that was in   *)
(* force when it was published, with no other header in between.           *)
(***************************************************************************)
THEOREM AudioCorrect == Spec => []AudioDecodable
<1>1. IInv /\ Served => AudioDecodable
  <2> SUFFICES ASSUME IInv, Served, NEW s \in sessions, NEW j \in DOMAIN sent[s],
                      history[sent[s][j]].kind = "aac"
               PROVE  LET n == sent[s][j]
                          headers == Published(history[n].stream, {"aacHeader"})
                      IN  \E i \in 1..(j - 1) :
                            /\ sent[s][i] \in {h \in headers : h < n}
                            /\ \A h \in headers : h < n => h <= sent[s][i]
                            /\ \A k \in (i + 1)..(j - 1) : history[sent[s][k]].kind # "aacHeader"
    BY DEF AudioDecodable
  <2>1. Decodable(history, sent[s])
    BY DEF IInv, TypeOK, Served
  <2> QED BY <2>1 DEF Decodable, Frames, Published
<1> QED BY <1>1, SpecServed, PTL

(***************************************************************************)
(* The last metadata a viewer has is the publisher's last, joined before   *)
(* or after it was sent.                                                   *)
(***************************************************************************)
THEOREM MetaCorrect == Spec => []MetaCurrent
<1>1. Served => MetaCurrent
  <2> SUFFICES ASSUME Served, NEW r \in RoomIds, rooms[r] # Null, NEW v \in DOMAIN rooms[r].visitors
               PROVE  /\ InOrder(sent[v], {"meta"})
                      /\ Received(v, {"meta"}) \subseteq Published(rooms[r].stream, {"meta"})
                      /\ \A n \in Published(rooms[r].stream, {"meta"}) :
                            \E k \in Received(v, {"meta"}) : n <= k
    BY DEF MetaCurrent, OpenRooms
  <2>1. MetaServed(history, rooms[r].stream, sent[v])
    BY DEF Served, ViewerServed
  <2> QED BY <2>1 DEF MetaServed, Ordered, InOrder, Got, Received, Frames, Published
<1> QED BY <1>1, SpecServed, PTL

-----------------------------------------------------------------------------
(* The rooms implement RoomDirectory *)

\* The variables of the directory, point by point.
LEMMA DirectoryIs ==
    /\ DOMAIN Hosts = RoomIds /\ DOMAIN Audience = RoomIds /\ DOMAIN Said = RoomIds
    /\ \A r \in RoomIds :
        /\ Hosts[r] = {s \in sessions : type[s] = "PUSH" /\ roomId[s] = r}
        /\ Audience[r] = IF rooms[r] = Null THEN {} ELSE DOMAIN rooms[r].visitors
        /\ Said[r] = IF rooms[r] = Null THEN {} ELSE Frames(history, rooms[r].stream, Kinds)
    /\ DOMAIN Heard = Sessions /\ \A s \in Sessions : Heard[s] = ToSet(sent[s])
BY DEF Hosts, Publishers, Audience, Said, Frames, Published, Heard

\* The same after a step.
LEMMA DirectoryBecomes ==
    /\ DOMAIN Hosts' = RoomIds /\ DOMAIN Audience' = RoomIds /\ DOMAIN Said' = RoomIds
    /\ \A r \in RoomIds :
        /\ Hosts'[r] = {s \in sessions' : type'[s] = "PUSH" /\ roomId'[s] = r}
        /\ Audience'[r] = IF rooms'[r] = Null THEN {} ELSE DOMAIN rooms'[r].visitors
        /\ Said'[r] = IF rooms'[r] = Null THEN {} ELSE Frames(history', rooms'[r].stream, Kinds)
    /\ DOMAIN Heard' = Sessions /\ \A s \in Sessions : Heard'[s] = ToSet(sent'[s])
BY DEF Hosts, Publishers, Audience, Said, Frames, Published, Heard

\* Nobody hosts and listens, or does either in two rooms; a room is there
\* while it has a host, and only who plays was sent anything.
LEMMA OneRoomEach ==
    ASSUME IInv, Apart
    PROVE  /\ \A r \in RoomIds : \A s \in Hosts[r] :
                type[s] = "PUSH" /\ roomId[s] = r /\ Hosts[r] = {s} /\ rooms[r] # Null
           /\ \A r \in RoomIds : \A s \in Audience[r] :
                s \in sessions /\ type[s] = "PULL" /\ roomId[s] = r /\ rooms[r] # Null
           /\ \A r \in RoomIds : Hosts[r] = {} <=> rooms[r] = Null
           /\ \A s \in Sessions : type[s] # "PULL" => Heard[s] = {}
<1>1. \A r \in RoomIds : \A s \in Hosts[r] :
        type[s] = "PUSH" /\ roomId[s] = r /\ Hosts[r] = {s} /\ rooms[r] # Null
  BY DirectoryIs DEF IInv, PublisherHasRoom, PublishersApart
<1>2. \A r \in RoomIds : \A s \in Audience[r] :
        s \in sessions /\ type[s] = "PULL" /\ roomId[s] = r /\ rooms[r] # Null
  BY DirectoryIs DEF IInv, NoDanglingVisitors
<1>3. \A r \in RoomIds : Hosts[r] = {} <=> rooms[r] = Null
  BY <1>1, DirectoryIs DEF IInv, RoomHasPublisher
<1>4. \A s \in Sessions : type[s] # "PULL" => Heard[s] = {}
  BY DirectoryIs DEF Apart, ToSet
<1> QED BY <1>1, <1>2, <1>3, <1>4

(***************************************************************************)
(* A session that is closed leaves its room, or closes the one it hosts    *)
(* with all that was said there.                                           *)
(***************************************************************************)
LEMMA CloseDirected ==
    ASSUME IInv, Apart, NEW s \in sessions, NEW t, NEW r, CloseSession(s, t, r),
           \/ t = type[s] /\ r = roomId[s]
           \/ t = "PUSH" /\ r = NoRoom /\ type[s] = "UNDEFINED"
           \/ t = "PULL" /\ r \in RoomIds /\ rooms[r] = Null /\ type[s] = "UNDEFINED"
    PROVE  Directory!Next
<1>0. /\ TypeOK /\ s \in Sessions /\ Null \notin Room /\ NoRoom \notin RoomIds
      /\ sessions' = sessions \ {s} /\ history' = history
      /\ \A q \in Sessions : type'[q] = IF q = s THEN "UNDEFINED" ELSE type[q]
      /\ \A q \in Sessions : roomId'[q] = IF q = s THEN NoRoom ELSE roomId[q]
      /\ \A q \in Sessions : sent'[q] = IF q = s THEN <<>> ELSE sent[q]
      /\ rooms' = RoomsAfterClose(s, t, r)
  BY ConstantsAssumption DEF IInv, TypeOK, CloseSession
<1>1. ASSUME NEW q \in RoomIds PROVE Hosts'[q] = Hosts[q] \ {s}
  <2>1. Hosts[q] = {p \in sessions : type[p] = "PUSH" /\ roomId[p] = q}
    BY DirectoryIs
  <2>2. Hosts'[q] = {p \in sessions' : type'[p] = "PUSH" /\ roomId'[p] = q}
    BY DirectoryBecomes
  <2>3. \A p \in sessions : p \in Sessions
    BY <1>0 DEF TypeOK
  <2> QED BY <1>0, <2>1, <2>2, <2>3
<1>2. ASSUME NEW q \in Sessions PROVE Heard'[q] = IF q = s THEN {} ELSE Heard[q]
  <2>1. Heard[q] = ToSet(sent[q]) /\ Heard'[q] = ToSet(sent'[q])
    BY DirectoryIs, DirectoryBecomes
  <2>2. ToSet(<<>>) = {}
    BY DEF ToSet
  <2> QED BY <1>0, <2>1, <2>2
<1>3. Heard' = [Heard EXCEPT ![s] = {}]
  BY <1>2, DirectoryIs DEF Heard
<1>4. CASE type[s] # "PUSH"
  <2>1. \A q \in RoomIds : s \notin Hosts[q]
    BY <1>4, DirectoryIs
  <2>2. Hosts' = Hosts
    BY <1>1, <2>1 DEF Hosts
  <2>3. \A q \in RoomIds : /\ rooms'[q] = Null <=> rooms[q] = Null
                           /\ rooms[q] # Null =>
                                /\ rooms'[q].stream = rooms[q].stream
                                /\ DOMAIN rooms'[q].visitors = DOMAIN rooms[q].visitors \ {s}
    <3> SUFFICES ASSUME NEW q \in RoomIds
                 PROVE  /\ rooms'[q] = Null <=> rooms[q] = Null
                        /\ rooms[q] # Null =>
                             /\ rooms'[q].stream = rooms[q].stream
                             /\ DOMAIN rooms'[q].visitors = DOMAIN rooms[q].visitors \ {s}
      OBVIOUS
    <3>1. CASE q = r /\ t = "PULL" /\ rooms[r] # Null
      <4>1. rooms[r] \in Room /\ rooms'[r] = Leave(rooms[r], s)
        BY <1>0, <3>1 DEF RoomsAfterClose, TypeOK
      <4> QED BY <1>0, <3>1, <4>1, LeaveType
    <3>2. CASE ~ (q = r /\ t = "PULL" /\ rooms[r] # Null)
      <4>1. rooms'[q] = rooms[q]
        BY <1>0, <1>4, <3>2 DEF RoomsAfterClose, TypeOK
      <4>2. rooms[q] # Null => s \notin DOMAIN rooms[q].visitors
        BY <1>0, <1>4, <3>2 DEF IInv, NoDanglingVisitors
      <4> QED BY <4>1, <4>2
    <3> QED BY <3>1, <3>2
  <2>4. Audience' = [q \in RoomIds |-> Audience[q] \ {s}]
    BY <2>3, DirectoryIs DEF Audience
  <2>5. Said' = Said
    BY <1>0, <2>3, DirectoryIs, DirectoryBecomes DEF Said
  <2>6. Directory!Leave(s)
    BY <1>0, <1>3, <2>1, <2>2, <2>4, <2>5 DEF Directory!Leave
  <2> QED BY <1>0, <2>6 DEF Directory!Next
<1>5. CASE type[s] = "PUSH"
  <2>1. t = "PUSH" /\ r = roomId[s] /\ r \in RoomIds /\ rooms[r] # Null /\ r \notin idPool
    BY <1>5 DEF IInv, PublisherHasRoom, PoolMatchesRooms
  <2>2. \A q \in RoomIds : rooms'[q] = IF q = r THEN Null ELSE rooms[q]
    BY <1>0, <2>1 DEF RoomsAfterClose, TypeOK
  <2>3. s \in Hosts[r] /\ Hosts[r] = {s} /\ \A q \in RoomIds \ {r} : s \notin Hosts[q]
    BY <1>5, <2>1, OneRoomEach, DirectoryIs
  <2>4. Hosts' = [Hosts EXCEPT ![r] = {}]
    <3>1. \A q \in RoomIds : Hosts'[q] = IF q = r THEN {} ELSE Hosts[q]
      <4> SUFFICES ASSUME NEW q \in RoomIds PROVE Hosts'[q] = IF q = r THEN {} ELSE Hosts[q]
        OBVIOUS
      <4>1. Hosts'[q] = Hosts[q] \ {s}
        BY <1>1
      <4>2. CASE q = r
        BY <2>3, <4>1, <4>2
      <4>3. CASE q # r
        <5>1. s \notin Hosts[q]
          BY <2>3, <4>3
        <5> QED BY <4>1, <4>3, <5>1
      <4> QED BY <4>2, <4>3
    <3> QED BY <2>1, <3>1 DEF Hosts
  <2>5. Audience' = [Audience EXCEPT ![r] = {}]
    BY <2>1, <2>2 DEF Audience
  <2>6. Said' = [Said EXCEPT ![r] = {}]
    <3>1. \A q \in RoomIds : Said'[q] = IF q = r THEN {} ELSE Said[q]
      <4> SUFFICES ASSUME NEW q \in RoomIds PROVE Said'[q] = IF q = r THEN {} ELSE Said[q]
        OBVIOUS
      <4>1. Said[q] = IF rooms[q] = Null THEN {} ELSE Frames(history, rooms[q].stream, Kinds)
        BY DirectoryIs
      <4>2. Said'[q] = IF rooms'[q] = Null THEN {} ELSE Frames(history', rooms'[q].stream, Kinds)
        BY DirectoryBecomes
      <4> QED BY <1>0, <2>2, <4>1, <4>2
    <3> QED BY <2>1, <3>1 DEF Said
  <2>7. Heard' = Heard
    <3>1. Heard[s] = {}
      BY <1>0, <1>5, OneRoomEach
    <3> QED BY <1>3, <3>1 DEF Heard
  <2>8. Directory!Close(s, r)
    BY <1>0, <2>3, <2>4, <2>5, <2>6, <2>7 DEF Directory!Close
  <2> QED BY <1>0, <2>1, <2>8 DEF Directory!Next
<1> QED BY <1>4, <1>5

\* A room is opened by a session that has nothing, under an id nobody hosts.
LEMMA PublishDirected ==
    ASSUME IInv, Apart, StreamsFresh, NEW s \in Sessions, NEW r \in RoomIds, Publish(s, r)
    PROVE  Directory!Open(s, r)
<1> DEFINE new == NewRoom(created + 1)
<1>0. /\ TypeOK /\ s \in sessions /\ history' = history /\ sent' = sent /\ sessions' = sessions
      /\ type[s] = "UNDEFINED" /\ rooms[r] = Null
      /\ \A q \in Sessions : type'[q] = IF q = s THEN "PUSH" ELSE type[q]
      /\ \A q \in Sessions : roomId'[q] = IF q = s THEN r ELSE roomId[q]
      /\ \A q \in RoomIds : rooms'[q] = IF q = r THEN new ELSE rooms[q]
  BY DEF IInv, PoolMatchesRooms, TypeOK, Publish
<1>1. new # Null /\ new.stream = created + 1 /\ DOMAIN new.visitors = {}
  <2>1. new.stream = created + 1
    BY DEF NewRoom
  <2> QED BY <1>0, <2>1, NewRoomType, ConstantsAssumption DEF TypeOK
<1>2. Frames(history, created + 1, Kinds) = {}
  <2>1. created \in Nat /\ \A n \in DOMAIN history : history[n].stream \in Nat
    <3>1. history \in Log /\ created \in Nat
      BY <1>0 DEF TypeOK, Log
    <3> QED BY <3>1, LogStreams
  <2>2. \A n \in DOMAIN history : history[n].stream <= created
    BY DEF StreamsFresh
  <2>3. \A n \in DOMAIN history : history[n].stream # created + 1
    <3> SUFFICES ASSUME NEW n \in DOMAIN history PROVE history[n].stream # created + 1
      OBVIOUS
    <3> DEFINE k == history[n].stream
    <3>1. k \in Nat /\ k <= created
      BY <2>1, <2>2
    <3> HIDE DEF k
    <3>2. k # created + 1
      BY <2>1, <3>1
    <3> QED BY <3>2 DEF k
  <2> QED BY <2>3 DEF Frames
<1> HIDE DEF new
<1>3. ~ Directory!Busy(s)
  <2>1. Heard[s] = {}
    BY <1>0, OneRoomEach
  <2>2. \A q \in RoomIds : s \notin Hosts[q] /\ s \notin Audience[q]
    BY <1>0, OneRoomEach
  <2> QED BY <2>1, <2>2 DEF Directory!Busy
<1>4. Hosts[r] = {}
  BY <1>0, OneRoomEach
<1>5. Hosts' = [Hosts EXCEPT ![r] = {s}]
  <2> SUFFICES ASSUME NEW q \in RoomIds PROVE Hosts'[q] = IF q = r THEN {s} ELSE Hosts[q]
    BY DEF Hosts
  <2>1. /\ Hosts[q] = {p \in sessions : type[p] = "PUSH" /\ roomId[p] = q}
        /\ Hosts'[q] = {p \in sessions' : type'[p] = "PUSH" /\ roomId'[p] = q}
    BY DirectoryIs, DirectoryBecomes
  <2>2. \A p \in sessions : p \in Sessions
    BY <1>0 DEF TypeOK
  <2>3. CASE q = r
    BY <1>0, <1>4, <2>1, <2>2, <2>3
  <2>4. CASE q # r
    BY <1>0, <2>1, <2>2, <2>4
  <2> QED BY <2>3, <2>4
<1>6. Audience' = Audience
  <2> SUFFICES ASSUME NEW q \in RoomIds PROVE Audience'[q] = Audience[q]
    BY DEF Audience
  <2>1. Audience[q] = IF rooms[q] = Null THEN {} ELSE DOMAIN rooms[q].visitors
    BY DirectoryIs
  <2>2. Audience'[q] = IF rooms'[q] = Null THEN {} ELSE DOMAIN rooms'[q].visitors
    BY DirectoryBecomes
  <2> QED BY <1>0, <1>1, <2>1, <2>2
<1>7. Said' = Said
  <2> SUFFICES ASSUME NEW q \in RoomIds PROVE Said'[q] = Said[q]
    BY DEF Said
  <2>1. Said[q] = IF rooms[q] = Null THEN {} ELSE Frames(history, rooms[q].stream, Kinds)
    BY DirectoryIs
  <2>2. Said'[q] = IF rooms'[q] = Null THEN {} ELSE Frames(history', rooms'[q].stream, Kinds)
    BY DirectoryBecomes
  <2> QED BY <1>0, <1>1, <1>2, <2>1, <2>2
<1>8. Heard' = Heard
  BY <1>0 DEF Heard
<1> QED BY <1>0, <1>3, <1>4, <1>5, <1>6, <1>7, <1>8 DEF Directory!Open

\* Payloads are of the kinds there are.
LEMMA LogKinds ==
    ASSUME NEW h \in Log
    PROVE  \A n \in DOMAIN h : h[n].kind \in Kinds
<1> SUFFICES ASSUME NEW n \in DOMAIN h PROVE h[n].kind \in Kinds
  OBVIOUS
<1> DEFINE Payload == [stream: Nat, kind: Kinds]
<1>1. h \in Seq(Payload)
  BY DEF Log
<1>2. ASSUME NEW x \in Payload PROVE x.kind \in Kinds
  OBVIOUS
<1> HIDE DEF Payload
<1>3. h[n] \in Payload
  BY <1>1
<1> QED BY <1>2, <1>3

\* A session that plays joins the room and is told something of its past.
LEMMA PlayDirected ==
    ASSUME IInv, Apart, NEW s \in Sessions, Play(s)
    PROVE  Directory!Join(s, roomId[s])
<1> DEFINE r == roomId[s]
           new == Enter(rooms[r], s)
           replay == ToSet(Replay(rooms[r]))
<1>0. /\ TypeOK /\ s \in sessions /\ history' = history /\ sessions' = sessions
      /\ r \in RoomIds /\ rooms[r] # Null /\ rooms[r] \in Room /\ type[s] = "UNDEFINED"
      /\ \A q \in Sessions : type'[q] = IF q = s THEN "PULL" ELSE type[q]
      /\ roomId' = roomId
      /\ \A q \in RoomIds : rooms'[q] = IF q = r THEN new ELSE rooms[q]
      /\ \A q \in Sessions : sent'[q] = IF q = s THEN sent[s] \o Replay(rooms[r]) ELSE sent[q]
  BY DEF IInv, TypeOK, Play
<1>1. new # Null /\ new.stream = rooms[r].stream /\ DOMAIN new.visitors = DOMAIN rooms[r].visitors \cup {s}
  BY <1>0, EnterType, ConstantsAssumption
<1>2. replay \subseteq Frames(history, rooms[r].stream, Kinds)
  <2> DEFINE q == Replay(rooms[r])
  <2>1. q \in Seq(Nat) /\ AllOf(history, q, rooms[r].stream)
    BY <1>0, ReplayType, ReplayOfStream DEF Apart
  <2>2. history \in Log
    BY <1>0 DEF TypeOK, Log
  <2> HIDE DEF q
  <2>3. \A n \in 1..Len(history) : n \in DOMAIN history /\ history[n].kind \in Kinds
    <3>1. DOMAIN history = 1..Len(history)
      BY <2>2 DEF Log
    <3> QED BY <2>2, <3>1, LogKinds
  <2>4. \A i \in DOMAIN q : q[i] \in Frames(history, rooms[r].stream, Kinds)
    BY <2>1, <2>3 DEF AllOf, OfStream, Frames
  <2> QED BY <2>4 DEF ToSet, q
<1>3. sent[s] \o Replay(rooms[r]) = Replay(rooms[r]) /\ Heard[s] = {}
  <2>1. sent[s] = <<>> /\ Replay(rooms[r]) \in Seq(Nat)
    BY <1>0, ReplayType DEF Apart
  <2>2. \A q \in Seq(Nat) : <<>> \o q = q
    OBVIOUS
  <2> QED BY <1>0, <2>1, <2>2, OneRoomEach
<1> HIDE DEF r, new
<1>4. ~ Directory!Busy(s)
  <2>1. \A q \in RoomIds : s \notin Hosts[q] /\ s \notin Audience[q]
    BY <1>0, OneRoomEach
  <2> QED BY <1>3, <2>1 DEF Directory!Busy
<1>5. Hosts[r] # {}
  BY <1>0, OneRoomEach
<1>6. Hosts' = Hosts
  <2> SUFFICES ASSUME NEW q \in RoomIds PROVE Hosts'[q] = Hosts[q]
    BY DEF Hosts
  <2>1. /\ Hosts[q] = {p \in sessions : type[p] = "PUSH" /\ roomId[p] = q}
        /\ Hosts'[q] = {p \in sessions' : type'[p] = "PUSH" /\ roomId'[p] = q}
    BY DirectoryIs, DirectoryBecomes
  <2>2. \A p \in sessions : p \in Sessions
    BY <1>0 DEF TypeOK
  <2> QED BY <1>0, <2>1, <2>2
<1>7. Audience' = [Audience EXCEPT ![r] = Audience[r] \cup {s}]
  <2> SUFFICES ASSUME NEW q \in RoomIds
               PROVE  Audience'[q] = IF q = r THEN Audience[r] \cup {s} ELSE Audience[q]
    BY DEF Audience
  <2>1. \A o \in RoomIds : Audience[o] = IF rooms[o] = Null THEN {} ELSE DOMAIN rooms[o].visitors
    BY DirectoryIs
  <2>2. Audience'[q] = IF rooms'[q] = Null THEN {} ELSE DOMAIN rooms'[q].visitors
    BY DirectoryBecomes
  <2> QED BY <1>0, <1>1, <2>1, <2>2
<1>8. Said' = Said
  <2> SUFFICES ASSUME NEW q \in RoomIds PROVE Said'[q] = Said[q]
    BY DEF Said
  <2>1. Said[q] = IF rooms[q] = Null THEN {} ELSE Frames(history, rooms[q].stream, Kinds)
    BY DirectoryIs
  <2>2. Said'[q] = IF rooms'[q] = Null THEN {} ELSE Frames(history', rooms'[q].stream, Kinds)
    BY DirectoryBecomes
  <2> QED BY <1>0, <1>1, <2>1, <2>2
<1>9. replay \in SUBSET Said[r]
  BY <1>0, <1>2, DirectoryIs
<1>10. Heard' = [Heard EXCEPT ![s] = replay]
  <2> SUFFICES ASSUME NEW q \in Sessions PROVE Heard'[q] = IF q = s THEN replay ELSE Heard[q]
    BY DEF Heard
  <2>1. Heard[q] = ToSet(sent[q]) /\ Heard'[q] = ToSet(sent'[q])
    BY DirectoryIs, DirectoryBecomes
  <2> QED BY <1>0, <1>3, <2>1
<1> HIDE DEF replay
<1>11. Directory!Join(s, r)
  BY <1>0, <1>4, <1>5, <1>6, <1>7, <1>8, <1>9, <1>10 DEF Directory!Join
<1> QED BY <1>11 DEF r

\* A payload is heard by some of the audience of its publisher's room.
LEMMA MediaDirected ==
    ASSUME IInv, Apart, StreamsFresh, NEW s \in Sessions, NEW kind \in Kinds, Media(s, kind)
    PROVE  Directory!Say(s, roomId[s]) /\ roomId[s] \in RoomIds
<1> DEFINE r == roomId[s]
           n == Len(history) + 1
           st == rooms[r].stream
           e == [stream |-> st, kind |-> kind]
           new == AddData(rooms[r], kind, n)
           to == Receivers(rooms[r], kind)
<1>0. /\ TypeOK /\ s \in sessions /\ sessions' = sessions /\ type' = type /\ roomId' = roomId
      /\ type[s] = "PUSH" /\ r \in RoomIds /\ rooms[r] # Null /\ rooms[r] \in Room
      /\ n \in Nat /\ history \in Log /\ e \in [stream: Nat, kind: Kinds]
      /\ history' = Append(history, e)
      /\ \A q \in RoomIds : rooms'[q] = IF q = r THEN new ELSE rooms[q]
      /\ \A v \in Sessions :
            sent[v] \in Seq(Nat) /\ sent'[v] = IF v \in to THEN Append(sent[v], n) ELSE sent[v]
  <2>1. /\ TypeOK /\ s \in sessions /\ type[s] = "PUSH"
        /\ r \in RoomIds /\ rooms[r] # Null /\ rooms[r] \in Room
    BY DEF IInv, TypeOK, PublisherHasRoom, Media
  <2>2. n \in Nat /\ history \in Log /\ e \in [stream: Nat, kind: Kinds]
    BY <2>1 DEF TypeOK, Log, Room
  <2>3. /\ sessions' = sessions /\ type' = type /\ roomId' = roomId
        /\ history' = Append(history, e)
        /\ rooms' = [rooms EXCEPT ![r] = new]
        /\ sent' = [v \in Sessions |-> IF v \in to THEN Append(sent[v], n) ELSE sent[v]]
    BY DEF Media
  <2> HIDE DEF new, to, e, n, r
  <2> QED BY <2>1, <2>2, <2>3 DEF TypeOK
<1>1. new # Null /\ new.stream = st /\ DOMAIN new.visitors = DOMAIN rooms[r].visitors
  BY <1>0, AddDataType, ConstantsAssumption
<1>2. to \subseteq Audience[r]
  BY <1>0, DirectoryIs DEF Receivers
<1>3. Len(history') = n
  BY <1>0 DEF Log
<1>4. e.stream = st /\ e.kind \in Kinds
  OBVIOUS
<1> HIDE DEF r, n, st, e, new, to
<1>5. \A x : Frames(history', x, Kinds) =
                IF x = st THEN Frames(history, x, Kinds) \cup {n} ELSE Frames(history, x, Kinds)
  <2> SUFFICES ASSUME NEW x
               PROVE  Frames(history', x, Kinds) =
                        IF x = st THEN Frames(history, x, Kinds) \cup {n} ELSE Frames(history, x, Kinds)
    OBVIOUS
  <2>1. Frames(Append(history, e), x, Kinds) =
            IF e.stream = x /\ e.kind \in Kinds THEN Frames(history, x, Kinds) \cup {Len(history) + 1}
            ELSE Frames(history, x, Kinds)
    BY <1>0, FramesGrow
  <2> QED BY <1>0, <1>4, <2>1 DEF n
<1>6. \A q \in RoomIds \ {r} : rooms[q] # Null => rooms[q].stream # st
  BY <1>0 DEF StreamsFresh, st
<1>7. s \in Hosts[r]
  <2>1. Hosts[r] = {p \in sessions : type[p] = "PUSH" /\ roomId[p] = r}
    BY <1>0, DirectoryIs
  <2> QED BY <1>0, <2>1 DEF r
<1>8. Hosts' = Hosts
  BY <1>0 DEF Hosts, Publishers
<1>9. Audience' = Audience
  <2> SUFFICES ASSUME NEW q \in RoomIds PROVE Audience'[q] = Audience[q]
    BY DEF Audience
  <2>1. Audience[q] = IF rooms[q] = Null THEN {} ELSE DOMAIN rooms[q].visitors
    BY DirectoryIs
  <2>2. Audience'[q] = IF rooms'[q] = Null THEN {} ELSE DOMAIN rooms'[q].visitors
    BY DirectoryBecomes
  <2> QED BY <1>0, <1>1, <2>1, <2>2
<1>10. Said' = [Said EXCEPT ![r] = Said[r] \cup {n}]
  <2> SUFFICES ASSUME NEW q \in RoomIds
               PROVE  Said'[q] = IF q = r THEN Said[r] \cup {n} ELSE Said[q]
    BY DEF Said
  <2>1. Said[q] = IF rooms[q] = Null THEN {} ELSE Frames(history, rooms[q].stream, Kinds)
    BY DirectoryIs
  <2>2. Said'[q] = IF rooms'[q] = Null THEN {} ELSE Frames(history', rooms'[q].stream, Kinds)
    BY DirectoryBecomes
  <2>3. CASE q = r
    BY <1>0, <1>1, <1>5, <2>1, <2>2, <2>3 DEF st
  <2>4. CASE q # r
    BY <1>0, <1>5, <1>6, <2>1, <2>2, <2>4
  <2> QED BY <2>3, <2>4
<1>11. Heard' = [v \in Sessions |-> IF v \in to THEN Heard[v] \cup {n} ELSE Heard[v]]
  <2> SUFFICES ASSUME NEW v \in Sessions
               PROVE  Heard'[v] = IF v \in to THEN Heard[v] \cup {n} ELSE Heard[v]
    BY DEF Heard
  <2>1. Heard[v] = ToSet(sent[v]) /\ Heard'[v] = ToSet(sent'[v])
    BY DirectoryIs, DirectoryBecomes
  <2>2. CASE v \in to
    <3>1. ToSet(Append(sent[v], n)) = ToSet(sent[v]) \cup {n}
      BY <1>0, ToSetAppend
    <3> QED BY <1>0, <2>1, <2>2, <3>1
  <2>3. CASE v \notin to
    BY <1>0, <2>1, <2>3
  <2> QED BY <2>2, <2>3
<1>12. Directory!Say(s, r)
  <2>1. Len(history') = Len(history) + 1
    BY <1>3 DEF n
  <2> QED BY <1>2, <1>3, <1>7, <1>8, <1>9, <1>10, <1>11, <2>1 DEF Directory!Say
<1> QED BY <1>0, <1>12 DEF r

\* Every step of the server is one operation of the directory, or none.
LEMMA DirectoryStep ==
    IInv /\ Apart /\ Served /\ [Next]_vars => [Directory!Next]_Directory!vars
<1> SUFFICES ASSUME IInv, Apart, Served, [Next]_vars
             PROVE  Directory!Next \/ UNCHANGED Directory!vars
  OBVIOUS
<1>0. TypeOK /\ StreamsFresh /\ NoRoom \notin RoomIds
  BY ConstantsAssumption DEF IInv, Served
<1>1. ASSUME NEW s \in Sessions, Accept(s) \/ (\E r \in RoomIds : Connect(s, r))
      PROVE  UNCHANGED Directory!vars
  <2>1. UNCHANGED <<type, rooms, history, sent>> /\ type[s] = "UNDEFINED"
    BY <1>1 DEF Accept, Connect, IInv, Unused
  <2>2. /\ sessions \subseteq sessions' /\ sessions' \subseteq sessions \cup {s}
        /\ \A q \in Sessions : q # s => roomId'[q] = roomId[q]
        /\ sessions \subseteq Sessions
    BY <1>0, <1>1 DEF Accept, Connect, TypeOK
  <2>3. Hosts' = Hosts
    <3> SUFFICES ASSUME NEW q \in RoomIds PROVE Hosts'[q] = Hosts[q]
      BY DEF Hosts
    <3>1. /\ Hosts[q] = {p \in sessions : type[p] = "PUSH" /\ roomId[p] = q}
          /\ Hosts'[q] = {p \in sessions' : type'[p] = "PUSH" /\ roomId'[p] = q}
      BY DirectoryIs, DirectoryBecomes
    <3> QED BY <2>1, <2>2, <3>1
  <2>4. Audience' = Audience /\ Said' = Said /\ Heard' = Heard
    BY <2>1 DEF Audience, Said, Published, Heard
  <2> QED BY <2>1, <2>3, <2>4 DEF Directory!vars
<1>2. ASSUME NEW s \in Sessions, Disconnect(s) \/ PublishRefused(s) \/ PlayRefused(s) \/ StartAgain(s)
      PROVE  Directory!Next
  <2>1. CASE Disconnect(s) \/ StartAgain(s)
    BY <2>1, CloseDirected DEF Disconnect, StartAgain
  <2>2. CASE PublishRefused(s)
    BY <2>2, CloseDirected DEF PublishRefused
  <2>3. CASE PlayRefused(s)
    <3>1. roomId[s] \in RoomIds
      BY <1>0, <2>3 DEF PlayRefused, TypeOK
    <3> QED BY <2>3, <3>1, CloseDirected DEF PlayRefused
  <2> QED BY <1>2, <2>1, <2>2, <2>3
<1>3. ASSUME NEW s \in Sessions, NEW r \in RoomIds, Publish(s, r) PROVE Directory!Next
  BY <1>0, <1>3, PublishDirected DEF Directory!Next
<1>4. ASSUME NEW s \in Sessions, Play(s) PROVE Directory!Next
  <2>1. roomId[s] \in RoomIds
    BY <1>0, <1>4 DEF Play, TypeOK
  <2> QED BY <1>4, <2>1, PlayDirected DEF Directory!Next
<1>5. ASSUME NEW s \in Sessions, NEW kind \in Kinds, Media(s, kind) PROVE Directory!Next
  BY <1>0, <1>5, MediaDirected DEF Directory!Next
<1>6. CASE UNCHANGED vars
  BY <1>6 DEF vars, Hosts, Publishers, Audience, Said, Published, Heard, Directory!vars
<1> QED BY <1>1, <1>2, <1>3, <1>4, <1>5, <1>6 DEF Next

(***************************************************************************)
(* The server is a directory of rooms, each with at most one host: for any *)
(* number of clients, ids and payloads, whatever a client does is a join,  *)
(* a leave, a word of a host to its own audience, an opening or a closing, *)
(* and CloseRoom takes the audience and the past of the room with it.      *)
(***************************************************************************)
THEOREM DirectoryImplemented == Spec => ImplementsDirectory
<1>1. Init => Directory!Init
  <2> SUFFICES ASSUME Init PROVE Directory!Init
    OBVIOUS
  <2>1. Hosts = [r \in RoomIds |-> {}] /\ Audience = [r \in RoomIds |-> {}]
    BY DEF Init, Hosts, Publishers, Audience
  <2>2. Said = [r \in RoomIds |-> {}] /\ Heard = [s \in Sessions |-> {}]
    BY DEF Init, Said, Heard, ToSet
  <2>3. Len(history) = 0
    BY DEF Init
  <2> QED BY <2>1, <2>2, <2>3 DEF Directory!Init
<1> QED BY <1>1, DirectoryStep, SpecServed, PTL DEF Spec, ImplementsDirectory, Directory!Spec
=============================================================================
