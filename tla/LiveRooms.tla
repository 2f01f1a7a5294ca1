------------------------------ MODULE LiveRooms ------------------------------
(***************************************************************************)
(* The room logic of the live server: the life of a connection in          *)
(* Listener (server/net.h, net.cc), the commands of RTMPSession            *)
(* (server/rtmp.cc), RoomManager and Room (server/room.h).                 *)
(*                                                                         *)
(* The server is one libevent loop.  A callback runs to its end before     *)
(* another starts, so the handling of one message is one action; what      *)
(* interleaves is the messages, the disconnections and the reconnections   *)
(* of different clients.  A command that sets NEED_CLOSE closes the        *)
(* session in the same callback (net.cc:68), hence in the same action.     *)
(*                                                                         *)
(* A payload is its kind; it is identified by its position in `history',   *)
(* the ghost list of everything the publishers sent.  `sent' is what went  *)
(* into each session's write buffer, in order.                             *)
(*                                                                         *)
(* The clients follow the protocol: they connect before they play, do not  *)
(* connect again afterwards, name an existing slot in the tcUrl, and send  *)
(* media only on a stream they publish.                                    *)
(***************************************************************************)
EXTENDS Naturals, Sequences, FiniteSets, SequencesExt

CONSTANTS
    Sessions,   \* addresses of RTMPSession objects; one is reused after a close
    RoomIds,    \* the ids RoomManager starts with, {0, 1, 2, 3} in the code
    NoRoom,     \* room_id_ = -1
    Null,       \* a null Room*
    MaxRooms,   \* bound: rooms created in a behaviour
    MaxFrames   \* bound: payloads published in a behaviour

Video == {"key", "inter"}
Audio == {"aacHeader", "aac"}
Kinds == Video \cup Audio \cup {"meta"}

\* Room::State, one per visitor
Flags == [has_sent_audio: BOOLEAN, has_sent_video: BOOLEAN]

Visitors == UNION {[V -> Flags] : V \in SUBSET Sessions}

(***************************************************************************)
(* A Room object.  stream tells two objects apart; meta and aacHeader are  *)
(* positions in history, 0 for a payload not received yet.                 *)
(***************************************************************************)
Room == [stream: Nat, meta: Nat, aacHeader: Nat, cache: Seq(Nat),
         visitors: Visitors]

ASSUME ConstantsAssumption ==
    /\ NoRoom \notin RoomIds
    /\ Null \notin Room
    /\ MaxRooms \in Nat
    /\ MaxFrames \in Nat

VARIABLES
    sessions,   \* the keys of Listener::sessions_
    type,       \* RTMPSession::type_
    roomId,     \* RTMPSession::room_id_
    idPool,     \* RoomManager::id_pool_
    rooms,      \* RoomManager::rooms_
    created,    \* ghost: number of rooms created so far
    history,    \* ghost: everything published, over all streams
    sent        \* ghost: positions in history sent to each session

vars == <<sessions, type, roomId, idPool, rooms, created, history, sent>>

TypeOK ==
    /\ sessions \subseteq Sessions
    /\ type \in [Sessions -> {"UNDEFINED", "PULL", "PUSH"}]
    /\ roomId \in [Sessions -> RoomIds \cup {NoRoom}]
    /\ idPool \subseteq RoomIds
    /\ rooms \in [RoomIds -> Room \cup {Null}]
    /\ created \in Nat
    /\ history \in Seq([stream: Nat, kind: Kinds])
    /\ sent \in [Sessions -> Seq(Nat)]

Init ==
    /\ sessions = {}
    /\ type = [s \in Sessions |-> "UNDEFINED"]
    /\ roomId = [s \in Sessions |-> NoRoom]
    /\ idPool = RoomIds
    /\ rooms = [r \in RoomIds |-> Null]
    /\ created = 0
    /\ history = <<>>
    /\ sent = [s \in Sessions |-> <<>>]

-----------------------------------------------------------------------------
(* Room *)

NewRoom(stream) ==
    [stream |-> stream, meta |-> 0, aacHeader |-> 0, cache |-> <<>>,
     visitors |-> [v \in {} |-> [has_sent_audio |-> FALSE,
                                 has_sent_video |-> FALSE]]]

\* Mutant: a joining viewer is not sent the metadata.
ReplayWithoutMeta(room) ==
    (IF room.aacHeader # 0 THEN <<room.aacHeader>> ELSE <<>>) \o room.cache

\* What Enter replays to a new visitor, and the visitor's flags afterwards.
Replay(room) ==
    (IF room.meta # 0 THEN <<room.meta>> ELSE <<>>)
    \o (IF room.aacHeader # 0 THEN <<room.aacHeader>> ELSE <<>>)
    \o room.cache

\* Mutant: the replayed cache does not count as video sent.
EnterWithoutFlags(room, s) ==
    [room EXCEPT !.visitors =
        [v \in DOMAIN @ \cup {s} |->
            IF v \in DOMAIN @ THEN @[v]
            ELSE [has_sent_audio |-> room.aacHeader # 0,
                  has_sent_video |-> FALSE]]]

Enter(room, s) ==
    [room EXCEPT !.visitors =
        [v \in DOMAIN @ \cup {s} |->
            IF v \in DOMAIN @ THEN @[v]
            ELSE [has_sent_audio |-> room.aacHeader # 0,
                  has_sent_video |-> room.cache # <<>>]]]

\* Mutant: visitors_.erase is missing.
LeaveNobody(room, s) == room

Leave(room, s) ==
    [room EXCEPT !.visitors = [v \in DOMAIN @ \ {s} |-> @[v]]]

\* The visitors a payload is sent to: everybody for metadata, a sequence
\* header and a key frame, else only who already has one of its medium.
Receivers(room, kind) ==
    {v \in DOMAIN room.visitors :
        \/ kind \in {"meta", "aacHeader", "key"}
        \/ kind = "aac" /\ room.visitors[v].has_sent_audio
        \/ kind = "inter" /\ room.visitors[v].has_sent_video}

\* Mutant: a key frame does not clear the cache.
CacheNeverCleared(room, kind, n) ==
    IF kind \in Video THEN Append(room.cache, n) ELSE room.cache

\* cached_video_payload_ after payload n: a key frame starts it again, an
\* inter frame is appended whatever is there.
CacheAfter(room, kind, n) ==
    CASE kind = "key"   -> <<n>>
      [] kind = "inter" -> Append(room.cache, n)
      [] OTHER          -> room.cache

\* Mutant: only the first sequence header is kept for those who join later.
AddDataKeepsFirstHeader(room, kind, n) ==
    [room EXCEPT
        !.meta = IF kind = "meta" THEN n ELSE @,
        !.aacHeader = IF kind = "aacHeader" /\ @ = 0 THEN n ELSE @,
        !.cache = CacheAfter(room, kind, n),
        !.visitors = [v \in DOMAIN @ |->
            [has_sent_audio |-> \/ @[v].has_sent_audio
                                \/ kind \in Audio /\ v \in Receivers(room, kind),
             has_sent_video |-> \/ @[v].has_sent_video
                                \/ kind \in Video /\ v \in Receivers(room, kind)]]]

\* The room after InitMetaData (kind "meta") or AddData (the others).
AddData(room, kind, n) ==
    [room EXCEPT
        !.meta = IF kind = "meta" THEN n ELSE @,
        !.aacHeader = IF kind = "aacHeader" THEN n ELSE @,
        !.cache = CacheAfter(room, kind, n),
        !.visitors = [v \in DOMAIN @ |->
            [has_sent_audio |-> \/ @[v].has_sent_audio
                                \/ kind \in Audio /\ v \in Receivers(room, kind),
             has_sent_video |-> \/ @[v].has_sent_video
                                \/ kind \in Video /\ v \in Receivers(room, kind)]]]

-----------------------------------------------------------------------------
(* Listener and RTMPSession *)

Accept(s) ==
    /\ s \notin sessions
    /\ sessions' = sessions \cup {s}
    /\ UNCHANGED <<type, roomId, idPool, rooms, created, history, sent>>

\* Mutant: OnClose of a viewer does nothing.
RoomsAfterPushClose(s, t, r) ==
    IF t = "PUSH" /\ r \in RoomIds \ idPool THEN [rooms EXCEPT ![r] = Null] ELSE rooms

\* Mutant: CloseRoom deletes the object and leaves the pointer.
RoomsAfterCloseDangling(s, t, r) ==
    IF t = "PULL" /\ rooms[r] # Null THEN [rooms EXCEPT ![r] = Leave(@, s)] ELSE rooms

\* RTMPSession::OnClose for a session whose type_ is t and room_id_ is r.
RoomsAfterClose(s, t, r) ==
    CASE t = "PULL" /\ rooms[r] # Null -> [rooms EXCEPT ![r] = Leave(@, s)]
      [] t = "PUSH" /\ r \in RoomIds \ idPool -> [rooms EXCEPT ![r] = Null]
      [] OTHER -> rooms

\* Mutant: CloseRoom without its range check.
PoolAfterCloseUnchecked(t, r) == IF t = "PUSH" THEN idPool \cup {r} ELSE idPool

PoolAfterClose(t, r) ==
    IF t = "PUSH" /\ r \in RoomIds THEN idPool \cup {r} ELSE idPool

\* Listener::CloseSession: OnClose, then the object is destroyed.  The
\* address may be reused, so its fields go back to what a constructor sets.
CloseSession(s, t, r) ==
    /\ rooms' = RoomsAfterClose(s, t, r)
    /\ idPool' = PoolAfterClose(t, r)
    /\ sessions' = sessions \ {s}
    /\ type' = [type EXCEPT ![s] = "UNDEFINED"]
    /\ roomId' = [roomId EXCEPT ![s] = NoRoom]
    /\ sent' = [sent EXCEPT ![s] = <<>>]
    /\ UNCHANGED <<created, history>>

\* EOF, an error, a timeout, or input that OnRead rejects.
Disconnect(s) ==
    /\ s \in sessions
    /\ CloseSession(s, type[s], roomId[s])

Connect(s, r) ==
    /\ s \in sessions
    /\ type[s] = "UNDEFINED"
    /\ roomId' = [roomId EXCEPT ![s] = r]
    /\ UNCHANGED <<sessions, type, idPool, rooms, created, history, sent>>

\* Mutant: a second publish is not refused.
PublishOverAndOver(s, r) ==
    /\ s \in sessions
    /\ type[s] # "PULL"
    /\ r \in idPool
    /\ created < MaxRooms
    /\ type' = [type EXCEPT ![s] = "PUSH"]
    /\ roomId' = [roomId EXCEPT ![s] = r]
    /\ idPool' = idPool \ {r}
    /\ rooms' = [rooms EXCEPT ![r] = NewRoom(created + 1)]
    /\ created' = created + 1
    /\ UNCHANGED <<sessions, history, sent>>

\* publish: CreateRoom takes any id of the pool, whatever connect stored.
Publish(s, r) ==
    /\ s \in sessions
    /\ type[s] = "UNDEFINED"
    /\ r \in idPool
    /\ created < MaxRooms
    /\ type' = [type EXCEPT ![s] = "PUSH"]
    /\ roomId' = [roomId EXCEPT ![s] = r]
    /\ idPool' = idPool \ {r}
    /\ rooms' = [rooms EXCEPT ![r] = NewRoom(created + 1)]
    /\ created' = created + 1
    /\ UNCHANGED <<sessions, history, sent>>

\* Mutant: a failed CreateRoom leaves in room_id_ what connect stored there.
PublishRefusedKeepsId(s) ==
    /\ s \in sessions
    /\ type[s] = "UNDEFINED"
    /\ idPool = {}
    /\ CloseSession(s, "PUSH", roomId[s])

\* publish with an empty pool: the session is a PUSH one with room_id_ -1
\* when CloseSession runs.
PublishRefused(s) ==
    /\ s \in sessions
    /\ type[s] = "UNDEFINED"
    /\ idPool = {}
    /\ CloseSession(s, "PUSH", NoRoom)

Play(s) ==
    /\ s \in sessions
    /\ type[s] = "UNDEFINED"
    /\ roomId[s] # NoRoom
    /\ rooms[roomId[s]] # Null
    /\ type' = [type EXCEPT ![s] = "PULL"]
    /\ rooms' = [rooms EXCEPT ![roomId[s]] = Enter(@, s)]
    /\ sent' = [sent EXCEPT ![s] = @ \o Replay(rooms[roomId[s]])]
    /\ UNCHANGED <<sessions, roomId, idPool, created, history>>

\* play of a room nobody publishes.
PlayRefused(s) ==
    /\ s \in sessions
    /\ type[s] = "UNDEFINED"
    /\ roomId[s] # NoRoom
    /\ rooms[roomId[s]] = Null
    /\ CloseSession(s, "PULL", roomId[s])

\* publish or play on a session that already has a type.
StartAgain(s) ==
    /\ s \in sessions
    /\ type[s] # "UNDEFINED"
    /\ CloseSession(s, type[s], roomId[s])

\* A media or metadata message of a publisher.
Media(s, kind) ==
    /\ s \in sessions
    /\ type[s] = "PUSH"
    /\ Len(history) < MaxFrames
    /\ LET room == rooms[roomId[s]]
           n == Len(history) + 1
       IN  /\ history' = Append(history, [stream |-> room.stream, kind |-> kind])
           /\ rooms' = [rooms EXCEPT ![roomId[s]] = AddData(@, kind, n)]
           /\ sent' = [v \in Sessions |->
                          IF v \in Receivers(room, kind)
                          THEN Append(sent[v], n) ELSE sent[v]]
    /\ UNCHANGED <<sessions, type, roomId, idPool, created>>

Next ==
    \E s \in Sessions :
        \/ Accept(s)
        \/ Disconnect(s)
        \/ \E r \in RoomIds : Connect(s, r)
        \/ \E r \in RoomIds : Publish(s, r)
        \/ PublishRefused(s)
        \/ Play(s)
        \/ PlayRefused(s)
        \/ StartAgain(s)
        \/ \E kind \in Kinds : Media(s, kind)

Spec == Init /\ [][Next]_vars

-----------------------------------------------------------------------------
(* Safety of the room table *)

(***************************************************************************)
(* id_pool_ holds exactly the ids whose rooms_ slot is null: CreateRoom    *)
(* never overwrites a live Room and no id is lost for good.                *)
(***************************************************************************)
PoolMatchesRooms == idPool = {r \in RoomIds : rooms[r] = Null}

Publishers(r) == {s \in sessions : type[s] = "PUSH" /\ roomId[s] = r}

(***************************************************************************)
(* Every room has exactly one connected publisher and every publisher a    *)
(* room: AddData and InitMetaData, which do not test rooms_[room_id_],     *)
(* never meet a null pointer, and no room outlives its publisher.          *)
(***************************************************************************)
RoomsMatchPublishers ==
    /\ \A s \in sessions : type[s] = "PUSH" => roomId[s] \in RoomIds
    /\ \A r \in RoomIds :
        IF rooms[r] = Null THEN Publishers(r) = {}
        ELSE \E s \in sessions : Publishers(r) = {s}

(***************************************************************************)
(* The RTMPSession* keys of visitors_ point to sessions that still exist,  *)
(* that play, and whose OnClose will look for them in this very room.      *)
(***************************************************************************)
NoDanglingVisitors ==
    \A r \in RoomIds : rooms[r] # Null =>
        \A v \in DOMAIN rooms[r].visitors :
            v \in sessions /\ type[v] = "PULL" /\ roomId[v] = r

(***************************************************************************)
(* Only the disconnection of its publisher removes a room or puts another  *)
(* in its place: a refused publish, a viewer that leaves or a repeated     *)
(* command of somebody else never does.                                    *)
(***************************************************************************)
OnlyPublisherClosesRoom ==
    [][\A r \in RoomIds :
          /\ rooms[r] # Null
          /\ rooms'[r] = Null \/ rooms'[r].stream # rooms[r].stream
          => Publishers(r) \subseteq sessions \ sessions']_vars

-----------------------------------------------------------------------------
(* What a viewer receives *)

\* The positions of a stream's payloads of some kinds,
Published(stream, K) ==
    {n \in DOMAIN history : history[n].stream = stream /\ history[n].kind \in K}

\* those of some kinds a session was sent,
Received(s, K) == {n \in ToSet(sent[s]) : history[n].kind \in K}

\* in the order in which they were published, none of them twice.
InOrder(frames, K) ==
    \A i, j \in DOMAIN frames :
        /\ i < j
        /\ history[frames[i]].kind \in K /\ history[frames[j]].kind \in K
        => frames[i] < frames[j]

OpenRooms == {rooms[r] : r \in {q \in RoomIds : rooms[q] # Null}}

Has(frames, kind) == \E n \in frames : history[n].kind = kind

\* The frames of a set from the last one of a kind on; all if there is none.
FromLast(frames, kind) ==
    {n \in frames : \A k \in frames : history[k].kind = kind => k <= n}

(***************************************************************************)
(* Everything a session was sent belongs to one stream, and to the one of  *)
(* the room it sits in: a viewer left behind by a publisher never gets     *)
(* data of the next stream that reuses the room id.                        *)
(***************************************************************************)
NoCrossTalk ==
    /\ \A s \in sessions : \A i, j \in DOMAIN sent[s] :
        history[sent[s][i]].stream = history[sent[s][j]].stream
    /\ \A room \in OpenRooms : \A v \in DOMAIN room.visitors :
        \A i \in DOMAIN sent[v] : history[sent[v][i]].stream = room.stream

(***************************************************************************)
(* The cache a joining viewer is served holds every video frame from the   *)
(* stream's latest key frame on.  Before the first key frame it holds all  *)
(* of them, inter frames that follow no key frame (room.h:58), though the  *)
(* comment at room.h:20 has the cache begin with a key frame.              *)
(***************************************************************************)
CacheIsLatestGop ==
    \A room \in OpenRooms :
        /\ InOrder(room.cache, Video)
        /\ ToSet(room.cache) = FromLast(Published(room.stream, Video), "key")

(***************************************************************************)
(* A viewer's video is a gap-free tail of the stream's video, without a    *)
(* repetition between the replayed cache and the broadcast, and it holds   *)
(* the latest key frame, if there was one, with all that followed.  Its    *)
(* audio starts with a sequence header as soon as the stream has one, and  *)
(* from there on nothing of the audio is missing.                          *)
(***************************************************************************)
VideoGapFree(stream, v) ==
    LET all == Published(stream, Video)
        got == Received(v, Video)
    IN  /\ InOrder(sent[v], Video)
        /\ got \subseteq all
        /\ \A i \in got, j \in all : i < j => j \in got
        /\ Has(all, "key") => FromLast(all, "key") \subseteq got

AudioGapFree(stream, v) ==
    LET all == Published(stream, Audio)
        got == Received(v, Audio)
    IN  /\ InOrder(sent[v], Audio)
        /\ got \subseteq all
        /\ got = {} => ~ Has(all, "aacHeader")
        /\ got # {} => \E first \in got :
            /\ history[first].kind = "aacHeader"
            /\ \A i \in got : first <= i
            /\ \A i \in got \ {first}, j \in all : i < j => j \in got

GapFree ==
    \A room \in OpenRooms : \A v \in DOMAIN room.visitors :
        VideoGapFree(room.stream, v) /\ AudioGapFree(room.stream, v)

(***************************************************************************)
(* Every AAC frame a viewer got is preceded, in what it got, by the very   *)
(* sequence header that was in force when the publisher sent the frame.    *)
(***************************************************************************)
AudioDecodable ==
    \A s \in sessions : \A j \in DOMAIN sent[s] :
        history[sent[s][j]].kind = "aac" =>
            LET n == sent[s][j]
                headers == Published(history[n].stream, {"aacHeader"})
            IN  \E i \in 1..(j - 1) :
                    /\ sent[s][i] \in {h \in headers : h < n}
                    /\ \A h \in headers : h < n => h <= sent[s][i]
                    /\ \A k \in (i + 1)..(j - 1) : history[sent[s][k]].kind # "aacHeader"

(***************************************************************************)
(* The metadata a viewer got last is the last the publisher sent, whether  *)
(* the viewer was there or joined afterwards.                              *)
(***************************************************************************)
MetaCurrent ==
    \A room \in OpenRooms : \A v \in DOMAIN room.visitors :
        LET all == Published(room.stream, {"meta"})
            got == Received(v, {"meta"})
        IN  /\ InOrder(sent[v], {"meta"})
            /\ got \subseteq all
            /\ \A n \in all : \E k \in got : n <= k

-----------------------------------------------------------------------------
(* What the rooms promise *)

\* The directory's variables: a deleted room has neither audience nor past,
\* whatever sessions it leaves behind.
Hosts == [r \in RoomIds |-> Publishers(r)]

Audience ==
    [r \in RoomIds |-> IF rooms[r] = Null THEN {} ELSE DOMAIN rooms[r].visitors]

Said ==
    [r \in RoomIds |-> IF rooms[r] = Null THEN {} ELSE Published(rooms[r].stream, Kinds)]

Heard == [s \in Sessions |-> ToSet(sent[s])]

Directory ==
    INSTANCE RoomDirectory WITH
        host <- Hosts, audience <- Audience, said <- Said, heard <- Heard,
        count <- Len(history)

(***************************************************************************)
(* Every message, refusal and disconnection is a step of the directory or  *)
(* none at all: a refused or repeated command changes nothing for others,  *)
(* a close takes exactly one client or one whole room away, and a new room *)
(* under an old id starts without audience and without past.               *)
(***************************************************************************)
ImplementsDirectory == Directory!Spec
=============================================================================
