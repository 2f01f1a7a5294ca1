# A TLA+ model of the live streaming system

The repository holds three programs: `server`, an RTMP server on libevent;
`player`, which plays a file or a stream with FFmpeg and SDL; `recorder`, which
captures and encodes audio and video and writes them to a file or a server.
This directory models their control: who may do what when, in which order, and
what is left behind when something ends early. Pixels, samples and AMF values
are abstracted to what the properties tell apart.

## 1. The system

| Component | State | Operations | Hard part |
|---|---|---|---|
| `Listener`, `Session` (server/net.*) | `sessions_`, per session a read and a write buffer | accept, ReadCallback, EventCallback, CloseSession | bytes arrive in pieces; a session is destroyed while others hold its address |
| RTMP reading (server/rtmp.cc 268-496, chunk_message.*) | `state_`, `chunk_header_commons_`, `message_previous_timestamp_`, `reading_messages_` | OnRead in four states | interleaved chunk streams, inherited header fields, extended timestamps |
| RTMP commands (server/rtmp.cc 44-223, 498-508) | `type_`, `room_id_` | connect, publish, play, media, OnClose | commands out of order, a refused publish |
| `Room`, `RoomManager` (server/room.h) | `rooms_`, `id_pool_`; per room the viewers and their flags, the metadata, the AAC header, the cached group of pictures | CreateRoom, CloseRoom, EnterRoom, LeaveRoom, AddData, InitMetaData | joining between two frames, a publisher that goes before its viewers, reuse of ids and addresses |
| `ByteStream`, AMF0 (server/stream.*, command_message.*) | a position and a buffer | read, write, Commit | incomplete input |
| `Queue<T>` (util/queue.h) | `q_`, `m_`, two condition variables | Put, TimedPut, Get, TimedGet, TryToGet, Clear | notifications outside the lock, `notify_one`, timeouts |
| Player threads (player/main.cc) | `quit_flag`, two packet queues | reading, decoding (twice), main | end of input, shutdown from five sides |
| `Renderer` (util/renderer.*) | `is_alive_`, a queue of 100 frames, the window | Submit, Render, Kill | a full queue, Kill from the window's event |
| `Speaker` (util/speaker.*) | `is_alive_`, two queues, the device | Submit, Speak, the SDL callback, Kill | change of format, a thread blocked in a queue only the callback empties |
| Player context (player/context.*) | `alive_micro_seconds_`, `playing_time_interval_` | the heart thread, CalcDelayTimeInMicroSecond, UpdatePlayingTimeInterval | three threads without a lock; milliseconds and microseconds |
| Recorder (recorder/*, util/filter.*, util/muxer.*) | capture threads, filter and muxer threads with their queues | Submit, Kill, trailer | dropping queues, partial start, the trailer |
| TCORE networking (util/net/neter.*, session.*, threadpool.*) | `session_container`, `ready_close_session_list`; per session `event_flag`, the list to send, the data read; a task queue | Wait, Accept/Read/Write functions, Connect, SendProtocol, Close | edge-triggered events and flags set and tested by three threads |
| TCORE buffers and rest (octets.h, marshal.*, log.*, ...) | copy-on-write octets | pop, push, commit, revert | linked by no program, like all of TCORE |

How they interact. In the server everything runs on one libevent thread:
`ReadCallback` fills the buffer and calls `OnRead`, which calls `HandleMessage`,
which calls `RoomManager`, which writes to other sessions; a callback runs to
its end before another starts. In the player six threads and SDL's audio
callback share `quit_flag`, two `is_alive_` flags and four queues:

    read_func -> packet queues -> decoding threads -> Renderer::submit_queue_ -> Render
                                                   -> Speaker::submit_queue_ -> Speak -> sample_queue_ -> SDL

The renderer paces itself by the audio: SDL's callback stores the interval that
begins to play, the heart thread stores the clock, and the renderer reads both.
In TCORE one thread polls epoll and turns events into flags and tasks, another
takes the tasks and reads, writes, accepts and connects, and any thread may
send; they meet in the flags of a session, in the task queue and in the list of
sessions to be closed.

What makes each part correct is listed with its hazards, at their lines, in
`PROJECT.json`.

## 2. Modules

| Module | Models | Extended by |
|---|---|---|
| `LiveRooms` | net.* (life of a session), the commands of rtmp.cc, room.h | `MCLiveRooms`, `LiveRoomsProofs` |
| `RoomDirectory` | what RoomManager promises: rooms with one host, an audience and a past of their own | used by `LiveRooms` through `INSTANCE` |
| `ChunkCodec` | OnRead of rtmp.cc and the header codec, as functions of a session | `ChunkStream`, `Outbound` |
| `ChunkStream` | a client that sends, the read loop of net.cc | `MCChunkStream`, `ChunkStreamProofs` |
| `Outbound` | what the server writes: handshake, replies, media; Session::Write | `MCOutbound`, `OutboundProofs` |
| `BlockingBuffer` | what `Queue<T>` promises: a blocking FIFO in which nobody waits in vain | used by `MediaQueue` through `INSTANCE` |
| `MediaQueue` | queue.h with its mutex, condition variables and timeouts | `MCMediaQueue`, `MediaQueueProofs` |
| `Player` | player/main.cc, Renderer, Speaker, the event loop | `MCPlayer`, `PlayerProofs` |
| `AVSync` | player/context.*: the heart, the playing interval, the renderer's delay | `MCAVSync`, `PlayerProofs` |
| `Recorder` | the recorder's inputs, Context, Filter, Muxer, main | `MCRecorder`, `RecorderProofs` |
| `Neter` | util/net: Neter::Wait, Session, TaskQueue, ClearTaskQueueTask, the user's sends | `MCNeter`, `NeterProofs` |
| `Lists` | nothing: how a history of numbers is compared with what it is a history of | `Player`, `Recorder`, `ListsProofs` |

`Player` and `Recorder` use `Queue<T>` as a FIFO whose calls are single steps. That is what
`MediaQueue` shows: `ImplementsBuffer` (checked) and `BufferImplemented` (its
safety half, proved) say that each call of the queue takes effect in one step
of `BlockingBuffer`, and that nobody sleeps beside an element or a free place.

### LiveRooms and RoomDirectory

One action per message or event. `Accept` is `ListenCallabck`; `Disconnect`
stands for every way `CloseSession` is reached from the network; `Connect`,
`Publish`, `Play` are the commands with the calls to `RoomManager` they make,
`PublishRefused`, `PlayRefused`, `StartAgain` their error paths, which set
`NEED_CLOSE` and so close the session in the same callback; `Media` is a media
or metadata message of a publisher with the broadcast. `RoomsAfterClose` and
`PoolAfterClose` are `OnClose` with `LeaveRoom` or `CloseRoom`. A session is its
address, and an address returns after its session was destroyed.

Payloads are their kinds (key and inter video frame, AAC sequence header, AAC
frame, metadata) and are identified by their place in `history`, everything the
publishers sent. `sent` is what went into each session's write buffer. Both are
ghosts: no guard reads them but the bound.

The clients follow the protocol: they connect before they play and not again
afterwards, name a room of 0 to 3, send media only on a stream they publish. What
the code does beyond that is under hazards.

`RoomDirectory` knows neither pool nor Room objects, caches or flags: a room has
a host or none, an audience and the payloads its present host said; a client has
what it heard. The mapping is `host <- Hosts` (the sessions of type PUSH whose
`room_id_` it is), `audience <- Audience` (the keys of `visitors_`), `said <-
Said` (what was published on the room's stream), `heard <- Heard` (what is in
`sent`); where the pointer is null, audience and
past are empty. `Accept`, `Connect` are
stutters; a closed session is a `Leave` or a `Close`, whichever way it came to it. A
viewer whose room was closed under it listens nowhere and can only leave. How
much of the past `Join` replays and who hears a `Say` is left open there: that
is what `GapFree`, `AudioDecodable` and `MetaCurrent` are about.

### ChunkCodec and ChunkStream

The client sends the handshake and then the chunks of the messages of `Script`,
its chunk streams interleaved in any order, each message begun in any format
RTMP allows at that point. The network hands over any prefix of what is under
way. The server is a record `session` and `OnRead` a function of it, composed
as the code composes it: each state falls through to the next, a chunk that is
incomplete leaves everything as it was, one complete message is handled per
call. `Receive`, `LoopBody` and `LoopEnd` are the three parts of
`ReadCallback`. The stream is cut into tokens (basic header, message header,
extended timestamp, payload unit), the smallest pieces whose absence the code
can notice.

### Outbound

`SendS0AndS1`, `SendS2`, `Connect`, `Answer`, `Play` and `Broadcast` are the
places that write; `Serialize` cuts a message into chunks as
`ChunkSerializeHelper` does. `Write(pieces, k)` stands for the calls of
`Session::Write` that an action makes, each of which takes the whole buffer or
fails: `k` is the last that succeeded. The client is a second session of
`ChunkCodec`, so the run checks the two halves of the server's codec against
each other; the handshake messages of both directions have the same form. In
`Play` the room's replay goes out before the reply to `play`, as in the code.

### MediaQueue and BlockingBuffer

A call that finds its condition true does its work in one step, under `m_`;
otherwise it begins to wait. The notifications follow as steps of their own,
since `m_` is released before. `notify_one` wakes any one waiting thread; a
waiting thread may also wake for no reason, and a timed one when its deadline
passes, whether or not it was notified before. `Clear` is enabled beside no
waiting producer because its one caller is the queue's only producer.

`BlockingBuffer` has the same FIFO without mutex and notifications. The mapping
is `items <- q`, `asking` the consumers inside a wait, `offers` what the waiting
producers hold.

### Player

A step of a thread is what it does between two accesses to shared state.
`Reader`, `Decoder(m)`, `Render`, `Speak`, `AudioCallback` and `Main` are the
threads; `CloseWindow` and `Interrupt` are the user. A frame is named by its
packet's place in the input. The codec holds `Delay` frames back until the null
packet flushes it. Every failure the code handles is an action: `ReadFails`,
`DecodeFails`, `DrawFails`, `ResetFails`, and a sample that cannot be converted.
`disturbed` records that one of them, or the user, interfered.

### AVSync

`Player` says which frame is shown after which; `AVSync` says when. `Heart` is
the thread that copies the clock, `Plays` the part of the audio callback that
calls `UpdatePlayingTimeInterval`; `Loads`, `Computes` and `Shows` are the
renderer's: the interval is loaded as a whole, `alive_micro_seconds_` is read
later, and the frame is shown when the sleep is over, so that the other two
threads may run in between. All values are in the units the code gives them:
time points in microseconds, the duration divided by 1000, and `Lead` adds the
two as the code does. `ShownInStep` bounds the delay without that duration: a
frame less than 100 ms ahead of the sample's beginning is shown in step, one
further ahead is held back at most once more, by as much as it is ahead.
`HeldBackBeyondSampleOnly` says for which frames the documented unit
(context.h:87) would allow that, those over 100 ms behind the sample's end, and
is violated. `Tick` is the computer's clock. `Beat` bounds how old `alive_micro_seconds_` gets, `Late` how
long a sleep runs over; a frame comes in step up to these two. A clock set back,
and an `int64_t` read while it is written, are left out.

### Recorder

From `Context::Context` to the return of main. The constructor builds its parts
in `BuildOrder`; the constructor of each succeeds or throws (a device that is not
there, a filter graph or an encoder that cannot be set up), each in one step.
`Filter` and `Muxer` start their threads at once, the inputs when `Run` is called
for one after the other at the end; the handler of SIGINT is set only then. After
an exception what was built is destroyed, else when the event loop ends (`Over`).
`Input(i)`, for two cameras and a microphone, is `Input::Decode` with the
receiver Context gives it; `Filter` and `Muxer` are the two threads that follow;
`Destroy` and `Joined` are the destructors, whose order `DestroyedBefore` reads
off the members of `Context`. `Submit` looks at `is_alive_`, looks at the size and
puts in three steps, the first of which is one with the filter's reading of its
sink (`FilterGives`). The test of an input's loop is one step with the read that
follows it. A thread's return and the scope guard that clears `is_alive_`
are one step; the filter has no such guard, so `FilterAddFails` leaves its flag
as it is. Encoders hold `Delay` frames back, which are lost at the end because
nothing flushes them: `AudioComplete` speaks of a prefix. A video frame that
leaves the filter bears the number of the main frame in it.

### Neter

Four parties act. `Peer` is the kernel and the other end: connections, data, an
end of stream, a reset, room in the send buffer. `Poll` is the thread in
`Neter::Wait`: `EpollWait` takes what changed, `HandleIn`, `HandleOut` and
`HandleError` are the bits of one event in the order in which `Wait` tests them,
`Sweep` empties `ready_close_session_list`. `Work` is the thread of
`ClearTaskQueueTask`: `FindsEmpty`, `FallsAsleep` and `Take` are
`TaskQueue::Wait` and its return, then the read and write functions of the three
kinds of session, step by step, for both lists and both flags can change under
them. `User` is a thread that calls `Connect` and `SendProtocol`: the flag, the
data and the attempt to add a task are three steps.

A task is added under the queue's mutex but the thread tests the size before it
waits: `resting = "drowsy"` lies between. `Push` wakes only a thread that is
asleep; `WakesSpuriously` is `pthread_cond_wait`'s. Setting a flag and testing
the pending flag is one step of the polling thread, since nobody else sets the
flags it sets. Testing the flags, setting the pending one and pushing the task
is one step as well: the test is atomic in the code, and until the push whoever
set the flag is the only one to act on it. `Close` is one step too: setting
CLOSE_READY, `disconnect_callback` and the entry in `ready_close_session_list`
(session.cpp:45-50). Only the thread that set the flag does the rest, so two
closes are told apart as in the code, but the callback is assumed to return, and
nothing of another thread falls between the flag and the entry.
`session_container` has no lock of its own in the code; each access to it is one
step here. Which sessions are to be closed is a set, the
list's order being of no consequence. Left out are EINTR, the making and
cancelling of threads, the copy-on-write of `Octets` and an `accept` that fails
when there is nothing to accept.

`overslept` and `raced` are ghosts: they record that a task, or data to send,
came in the very moment at which the code misses it. `NothingStranded` allows
these two cases and no others.

## 3. Runs

| Run | Instance | Question |
|---|---|---|
| `rooms` | 3 sessions, 2 ids, 2 rooms created, 4 payloads | Is the room table sound, does each viewer get what a room promises, and is the server a directory of rooms? |
| `chunks` | 2 chunk streams, 5 messages, chunks of 2 units, an extended timestamp | Do the messages arrive whole, in order, at once, at any cut? |
| `chunks_previous` | 1 message of two chunks | Is the previous timestamp that of the previous message? No |
| `outbound` | 7 messages, replies of 2 chunks, media of 1 and 2 | Does the client get each message whole, once, in order, though Write may fail? |
| `outbound_time` | 6 messages | Does media arrive with its timestamp, as chunk_message.cc:124-126 intends? No |
| `queue` | 2 producers, 2 consumers, capacity 2, vectors of 2 | Is a wakeup ever lost; does the queue implement the FIFO? |
| `player` | 5 packets, two audio formats, both bounded queues of 1 | Order, device and window in every interleaving and failure; does main always return? |
| `player_file` | 4 packets | Is a file played to its end, as src/README.md:27 says? No |
| `recorder` | any constructor may throw; 3 frames, however spread over the inputs, queue limits 0 | Limits, order, destruction and trailer in every interleaving and failure; does main always return? |
| `sync` | frames at 0 to 180 ms, samples of 40 ms at 0 to 80 ms, a clock of 20 ms steps | Is a frame shown in step with the audio, whatever the three threads do? |
| `sync_unit` | that of `sync` | Is only a frame over 100 ms behind the end of the sample held back once more, the duration being in microseconds as context.h:87 says? No |
| `neter` | a client and the acceptor, 2 messages each way, room for 1 unit | Does data arrive whole and in order, is an event lost, a closed session left, a session used after it went? |

What they show. Rooms: `PoolMatchesRooms`, `RoomsMatchPublishers`
and `NoDanglingVisitors` are about the table;
`NoCrossTalk`, `CacheIsLatestGop`, `GapFree` (video and audio), `AudioDecodable`
and `MetaCurrent` about what a viewer receives, whenever it joins; `ImplementsDirectory` says
that the server is a `RoomDirectory`: a refusal or repetition touches nobody else, and a
room under an old id begins without audience and past. Chunks:
`MessagesIntact`, `NothingHeldBack`, `TimestampsIntact`, `EventuallyDelivered`.
Outbound: `HeardAsSent` (nothing lost, doubled or out of order). Queue: `GetterNotForgotten`,
`PutterNotForgotten`, `CapacityKept`, `TimedCallsReturn`, `ImplementsBuffer`.
Player: `FramesInOrder`, `SamplesFitDevice`, `SamplesLostAtResetOnly`,
`WindowOutlivesRendering`, `DeviceClosedAtEnd`, `PlayerExits`. Recorder:
`QueuesBounded`, `AudioComplete`, `VideoInOrder`, `UsersGoFirst`,
`TrailerWritten`, `RecorderExits`. AVSync: `ShownInStep`, and
`HeldBackBeyondSampleOnly`, which is violated. Neter: `SentInOrder`,
`MessagesWhole`, `PendingMeansQueued`, `EventsFindSession`, `NothingStranded`,
`ClosedIsRemoved`. Each property
comes with a plausible mistake in the code, kept as a `Mutant` definition, under
which its run finds it violated.

Bounds, and why they are enough.

- `rooms`: the properties relate a publisher, a viewer, and a third session that
  takes over a slot, an id or an address; two creations let an id be used twice;
  four payloads are the least that hold a header or key frame, a frame before a
  viewer joins, one after, and a replacement. Sessions and ids are symmetric.
- `chunks`: `Script` has a message in one chunk and in two, two message streams
  on one chunk stream, all four formats, deltas and a timestamp over the mark.
  `MaxInFlight` only keeps the client from running ahead; a cut is possible
  after every token.
- `outbound`: three messages answer connect; then a reply, a replay with its
  status and broadcasts, in one and two chunks, share a buffer. The timestamps
  sent do not depend on those given, one value is enough.
- `queue`: two threads a side are the least with which `notify_one` can wake the
  wrong one; a vector of two is the least that passes the capacity.
- `player`: a capacity of 1 for `RenderCapacity`, 100 in the code, makes the
  queue full with two frames. Three audio packets give a device that is reopened
  while a sample waits.
- `recorder`: a limit of 0 makes a queue drop at the second frame, and three
  video frames are the least that pass the limit by more than the two inputs
  may; three audio frames, or one or two beside video, show a gap and a drop.
- `sync`: three samples let the interval change twice between a load and a show;
  frames lie before, in, behind and more than 100 ms behind a sample, and the one
  at 180 ms exactly 100 ms behind the end of the sample at 40 ms. `ShownInStep` is
  proved for all values.
- `sync_unit`: the same instance. With the duration stored in microseconds both
  properties hold in it, so the unit is all that violates the second.
- `neter`: a session meets the acceptor, the polling, the working and a sending
  thread at once; the two messages of the peer are one with a payload, which may
  arrive in two reads, and an empty one; a message of two units and room for one
  make a write stop inside a message, and a second message is appended while the
  first is put back. Sessions share nothing but the container and the task queue.

A queue of the player or the recorder whose call times out at any moment stands for timeouts of
any length.

### What the code does not do

1. `AddData` caches inter frames before the first key frame (room.h:58) and
   replays them, against the comment at room.h:20, by which a cache begins with a
   key frame. `CacheIsLatestGop` states what the cache holds in both cases; no run
   of its own asks for the comment's claim.
2. The continuation of a format 0 message adds its absolute timestamp to itself
   (rtmp.cc:401) and stores the sum as the previous timestamp (rtmp.cc:466).
   A publisher whose absolute timestamps are 0 does not see it, since 0 + 0 = 0.
   `TimestampsIntact` states what still holds.
3. Every message the server sends has the timestamp 0 and the message stream 0
   (chunk_message.cc:124 tests the header's type before line 143 sets it).
4. The player ends with its input: `quit_flag` at main.cc:53 also stops the
   threads that have packets and frames to work off.
5. TCORE's working thread reads the queue's size before it waits
   (threadpool.h:78), so a task pushed in between does not wake it.
6. TCORE's data to send stays behind, until something else is sent or reported,
   when the flag is set before the data (session.cpp:273), when the rest is put
   back after room was reported (session.cpp:251), or when a first message was
   appended before the connection was made (session.cpp:101).
7. A TCORE session whose read was called for nothing is closed (session.cpp:186),
   and an end of stream counts as EAGAIN if `errno` still is that of an earlier
   call (session.cpp:174).
8. The playing interval's duration is computed in milliseconds (context.h:161)
   and added to microseconds (context.h:143), though the member's comment says
   microseconds (context.h:87): a frame more than 100 ms ahead of the sample's
   beginning, instead of its end, is held back twice, as `sync_unit` shows. Two
   more comments name the wrong unit: context.h:98 calls `alive_micro_seconds_`
   milliseconds, and renderer.h:61 the delay, which renderer.cc:153 sleeps in
   microseconds.

### Fairness

`ChunkStream`: the network delivers and a callback that was called goes on; the
client may stop anywhere. `MediaQueue`: a thread inside a call runs, a woken one
gets the mutex, a deadline passes; nobody must make a call, and a spurious
wakeup is never needed. `Player`: each thread runs, SDL calls the audio callback
while a device is open, `av_read_frame` returns; the user need not do anything.
`Recorder`: each thread runs and the calls of FFmpeg return; no input need
capture anything. `Neter`: the polling thread runs, nothing else; peers may be
silent and the working thread may sleep. That `Poll` runs at all takes for granted
that the task of polling was picked up by a thread at the start.
These are the guarantees of a scheduler, of `std::condition_variable` and of
SDL. A read that never returns (a stalled RTMP server) would keep `main` from
returning: `PlayerExits` and `RecorderExits` depend on that assumption. `LiveRooms` and
`AVSync` have no fairness, their properties are safety only.

## 4. Proofs

`LiveRoomsProofs`, for every set of sessions and of ids: `TypeCorrect`,
`PoolCorrect`, `OneRoomPerPublisher`, `VisitorsAlive`, `PublisherClosesRoom`,
`StreamsApart`, `CacheCorrect`, `NothingMissed`, `AudioCorrect`, `MetaCorrect`,
`DirectoryImplemented`.
The invariant `IInv` adds to the properties of the table what makes them inductive: an
unaccepted session has no type (`Unused`), whoever plays names a slot
(`PullersNameSlots`), each publisher has its own live room (`PublisherHasRoom`,
`RoomHasPublisher`, `PublishersApart`). The last is needed because a `CloseRoom`
for a shared id would take another publisher's room. The lemmas before it give
the type of `NewRoom`, `Enter`, `Leave`, `AddData` and `Replay`; `CloseStep`
handles the four actions that end in `CloseSession` at once. For `StreamsApart`
the invariant `Apart` says more than `NoCrossTalk`: what a room keeps for those
who join is of its own stream, its visitors have received that stream only, and
a session that does not play was sent nothing, so that `Play` starts clean. It
needs `NoDanglingVisitors`: a visitor left behind would receive for whoever got
its address next. `CacheCorrect` to `MetaCorrect` are about what a viewer receives and
follow from `Served`, which builds on `IInv` and `Apart`. It ties three things to
one history: the room, whose cache is the latest group of pictures and whose
metadata and AAC header are the newest (`RoomCurrent`); each viewer, who has the
frames of the stream from some frame on, or none yet and a flag that says so
(`ViewerServed`); and what a session ever got, in which each AAC frame comes after
its header (`Decodable`). It needs that no stream number is used twice
(`StreamsFresh`). Each kind of payload is added by a lemma of its own; a payload
of another stream or kind changes nothing. `PublisherClosesRoom` (`OnlyPublisherClosesRoom`) follows from `IInv` by
itself; TLC sees it as a part of `ImplementsDirectory`, where only a host's `Close` empties a
room. `DirectoryImplemented` maps each
action to one of `RoomDirectory`, with one lemma for each (`CloseDirected`, `PublishDirected`,
`PlayDirected`, `MediaDirected`); it needs `IInv` and `Apart`, for a session must have
heard nothing when it opens or joins a room, and `StreamsFresh`, so that the new
room has no past and a payload is said in one room. The only assumption is `ConstantsAssumption`: `NoRoom` is no id and `Null` no room.

`MediaQueueProofs`, for any finite sets of threads, any capacity and any batch:
`TypeCorrect`, `NoLostGetter`, `CapacityCorrect`, `NoLostPutter`,
`BufferImplemented`. Given the types these invariants are inductive as they
stand. `PutterNotForgotten` counts: a sleeping producer is safe as long as
owed notifications, awake producers and elements together reach the capacity.
Each lemma from `OwingFinite` on shows how one kind of step changes that sum: a
get that frees a place owes a notification or finds the sum large enough
(`TakePaysForItsPlace`), a put takes a place and one awake producer
(`PutFillsItsPlace`), a notification becomes an awake producer
(`NotificationArrives`). `BufferStep` maps each step of the queue to a step or a
stutter of `BlockingBuffer`. The assumption is `QueueAssumption`.

`ChunkStreamProofs`, for any script of messages, chunk size, mark, sizes of the
handshake and number of tokens in flight: `MessagesAlwaysIntact`,
`NothingEverHeldBack` and `TimestampsAlwaysIntact`. The server's state says
something only in terms of what it has read, and that is no longer anywhere in the
state. So the invariant says that a history exists: all tokens the client has
written and the state it was in after each of its chunks (`Written`), the chunk's
tokens standing where they were written (`ChunkAt`). The server has taken some
number of these chunks, its buffer and the wire are the rest (`Reading`, `Tells`),
and its maps of headers, of previous timestamps and of messages half read are what
the history up to there makes them (`Knows`). The heart of the proof is that OnRead
takes exactly the chunk the buffer begins with or leaves everything as it is
(`DoneReads`): the header's length, its fields and the rest of the message come out
as the client put them in (`FacesHeader`, `FacesCommon`, `FacesReading`), though
the header says neither the message's length nor, for an extended timestamp, its
own size. A chunk that is not all there holds no end of a message, and the loop of
ReadCallback stops only then (`Stopped`). For timestamps the history says which
absolute one a message counts from (`Anchor`); the server has remembered it rightly
unless it was not zero and its message took several chunks (`Plain`), and from there
on every delta is added once (`Clock`): within a relative message of several
chunks the remembered timestamp is behind by the delta, which its last chunk adds. The
assumptions are `CodecAssumption` and `ConstantsAssumption`.

The last part of `PlayerProofs` is about `AVSync`, for any time points, lengths, steps
and bounds: `SyncAlways` and, from it, `FramesInStep`. No name of `AVSync` is one of
`Player`'s, so one module extends both. The invariant gives the variables their types (`SyncTypes`)
and ties each copy to the moment it was made: `alive` is at most a `Beat` old
(`Beats`), the interval holds the `alive` of the moment at which its sample
began (`Stored`), the loaded interval is one that was stored (`Copied`), and the
end of a sleep is due, but for a lead, within a `Beat` of the sample's clock
(`Planned`). `LeadBounded` says that a lead is none or what `ShownInStep` allows,
since no duration is below the initial -1 (`Measured`). The assumption is
`AVSyncAssumption`.

`PlayerProofs`, for any input, any delay of the codecs and any capacity of the
renderer's queue: `PlayerAlways` and, from it, `WindowOutlives`,
`SamplesAlwaysFit`, `DeviceAlwaysClosed`. `Types` says more than types: packets
and frames stay on the way of their medium, so that what reaches the speaker has
a format. `Fitting` adds to `SamplesFitDevice` the sample that the Speak thread
holds between the look at the device and the put. `Closing` is the argument over
three threads by which `Speaker::Kill` may do nothing when the speaker is dead:
before main gets there only the Speak thread can have ended it, and that closes
its device first; afterwards nobody opens one.

`FramesAlwaysInOrder` and `SamplesLostOnlyAtReset` take a second invariant,
`Order`. A packet of a medium is in one place at a time: not read yet, in the
packet queue, in the decoder, in the thread's hands, in the queue of renderer or
speaker, or shown or played. Each of these places lists the packets between two
positions of the input, and the next place begins where it ends
(`OnTheWay`, `Shown`, `Played`). A packet moves across one boundary at a time. A stage whose
thread has ended is bound to nothing more (`Feeds`): what lies behind it is lost,
and what is in front of it is still in order. Samples have one more way to
go, `ResetLoses`: when the device is closed for other parameters, those that wait
for the callback are lost, and the one that follows them has those parameters. The
assumption is `PlayerAssumption`.

`ListsProofs` has the lemmas about such lists for `Player` and `Recorder`: how two
are joined, one is split, an element moves, a number is left out, and what is
picked of one medium from a queue of both. Its second half is for `Neter` and
`Outbound`, whose properties speak of sequences of messages flattened into
sequences of units. The library's induction theorems take an operator as a
parameter and no prover here can give them one, so the induction is over sets:
a set of naturals with 0 and with the successor of each of its members has them all
(`Inductive`), for otherwise there is a least one it lacks (`LeastOf`), and the same
for sequences (`Sequential`). `FlattenSeq` is a recursive function on an interval;
that there is exactly one such function (`PartialExists`, `PartialUnique`) gives
the equations `FlattenNone`, `FlattenAppend`, `FlattenConcat` by which everything else
about it is proved.

`RecorderProofs`, for any number of frames, any limits and any delay of the
encoders: `OrderAlways` and, from it, `UsersFirst` and `TrailerAlways`;
`QueuesAlwaysBounded`, `AudioAlwaysComplete`, `VideoAlwaysInOrder`. The order of destruction is no property of one step. It
follows from the order of construction (`InOrder`), from `Run`, which is not
reached before all is built (`Waiting`), from the end of the event loop, after
which nothing is built and no thread begins (`Ended`), and from the turn of each
part (`Gone`). The trailer needs that a muxer that has ended wrote it or failed
(`Finishing`). The bound of a queue counts, besides its frames, the threads that
saw room and have not put yet (`Short`); `VideoPut` and `VideoTaken` say how a put
and a get change that number. For audio and video the invariants `Heard` and `Seen`
follow the frames as in `Player`: what was written, what the encoder holds and
what waits in the muxer's queue list the frames up to some number (`Muxed`). For
audio this number is that of the last frame the input is through with, as long as
the muxer lives or a frame that was granted entry is yet to be put (`MuxesAudio`);
a frame that cannot be resampled leaves the list (`SkipsOne`). For video it is
below all that comes: the frame in the callback, those in the graph, those of the
main input in the filter's queue (`Coming`); a frame dropped on the way only
widens a gap. When the muxer has failed only what was written counts. The
assumption is `RecorderAssumption`.

`NeterProofs`, for any number of sessions, messages and units: `NeterAlways` and,
from it, `EventsAlwaysFind` and `PendingAlwaysQueued`. The flags and the queue
agree (`Counted`) only because a pending task always has the flags it needs
(`Granted`), for a task without them is skipped and its flag stays. `WRITE_READY`
is cleared apart from a task in one place, the end of a connection, and there it
is not set: nobody else knows of the session yet (`Connecting`). A session that a
task or a thread still holds when it leaves the container has `CLOSE_READY`
(`Named`), which keeps it from being closed a second time, so what is to be
closed is always in the container (`Listed`). The assumption is `NeterAssumption`.

The second half of `NeterProofs` goes on from there to the data: `SentAlwaysInOrder` and
`NothingEverStranded`. While a thread writes, the list to send is in its hands and
others append to a new one; so the messages in the hands are counted in front of
the list, and every step moves what a session sends in one of four ways (`Moves`):
a message is appended, the list goes into the hands or back in front of what came
meanwhile, the kernel takes a unit, or nothing happens. `NothingStranded` says
what is left to do in a state at rest; the invariant says for every state who will
do it: epoll, that has or will have an event, a pending task, the thread at work
(`InHand`), or the user about to add a task. For data to send with `WRITE_READY`
set it names the two moments at which the code fails to (`Waits`), the ghosts
`overslept` and `raced`.

The last part of `NeterProofs` is `MessagesAlwaysWhole`: what the callback has got,
flattened, then what is read, then what is still in the socket's buffer, is what the peer has sent so far
of its stream. The stream is cut into messages in one way only, so the messages read from its
front are the next in order and a loop that stops has less than one message left.

`OutboundProofs`, for any lengths of messages, chunks and handshake messages:
`AlwaysHeardAsSent`. The client's buffer, the wire and the unwritten bytes are one
sequence, and the invariant (`OutboundInv`) says what is in it: what the client has still to
read, from the place where it is (`Client`), in the handshake, between two
messages or within one. `Write` adds to the end of the sequence whichever of its calls fail
(`WriteIs`, `PiecesIs`); `OnRead` takes from the front exactly one chunk or waits for
the rest of it (`AtMoves`), and the last chunk of a message completes the message
(`HearsMoves`). Since each step of the client shortens its buffer or leaves everything as it
is, a client that cannot read on and has nothing coming has heard all. Which
tokens of the handshake are still owed follows from `stage` (`Owes`): no message is sent
before they are written. The assumptions are `CodecAssumption` and `OutboundAssumption`.

Several properties say that one history is another with something left out. They
are stated in closed form, by the numbers of what is in it and their order
(`Lists`, `SentInOrder`), so that their proofs need no induction over data at all.

Every invariant and every action property of a passing run is a theorem. Checked by
TLC only are the liveness properties, `EventuallyDelivered`, `TimedCallsReturn`, `PlayerExits`,
`RecorderExits`, `ClosedIsRemoved` and the fair half of `ImplementsBuffer`: fairness
needs `ENABLED`, which is out of the prover's reach. So are `RECURSIVE` operators; none of
the modules declares one.

## 5. Not modelled

AMF0, the flags of the recorder and what it does with frames inside FFmpeg, its
debugging renderer and speaker, flv.h (no caller), the start of server and
player, and logging. Of TCORE: `Octets` and marshalling (their results are the
messages of `Neter`), threads' creation and cancelling, addresses, and the
classes nothing uses. `quit_flag` is a plain `bool` in the code; the model reads and
writes it in single steps. Each loop that tests it calls functions of other
libraries on the way, so a compiler reads it again in each pass.

## 6. Plan

In the order of importance; all but entry 7 are done.

1. `LiveRooms`: the server's own logic, with its proofs.
2. `ChunkStream`: everything the server believes about its input.
3. `BlockingBuffer`, `MediaQueue`: the primitive under player and recorder, with
   the refinement.
4. `Player`: threads and shutdown.
5. `Recorder`: construction, capture inputs, `Filter`, `Muxer` and the end.
6. `Outbound`: what the server writes, read back by `ChunkCodec`.
7. `ByteStream` and AMF0 as operators, checked against a reference decoder.
8. `AVSync`: audio and video in step, at the boundaries of the intervals, with
   its proof.
9. `Neter`: TCORE's task queue and the event flags of a session.
10. Proofs of the safety properties of `LiveRooms`, `ChunkStream`, `Player`,
    `Recorder` and `Neter`, order and completeness of what they pass on included.
11. `MessagesWhole` and `HeardAsSent`, with induction over sequences.
12. `RoomDirectory`, and that `LiveRooms` implements it.
