------------------------------- MODULE Neter -------------------------------
(***************************************************************************)
(* TCORE, the socket library under util/net: the thread that polls epoll   *)
(* (Neter::Wait), the thread that reads and writes (ClearTaskQueueTask),   *)
(* their task queue, the event flags that tie them together, and a user's  *)
(* thread that connects and sends.                                         *)
(*                                                                         *)
(* epoll is edge triggered: a session is reported once for each change of  *)
(* its socket, with all that is ready then.  Setting a flag and trying to  *)
(* add a task is one step of the polling thread, which alone sets it.      *)
(* session_container is taken as if each access to it were one step.       *)
(*                                                                         *)
(* What the peer sends is a stream of tokens: message k is the size of its *)
(* payload, <<k, 0>>, and the payload.  What is sent to it is messages of  *)
(* Size units, numbered in the order in which they are appended.           *)
(***************************************************************************)
EXTENDS Naturals, Sequences, FiniteSets, SequencesExt

CONSTANTS
    Acceptor,    \* the session of Listen
    Clients,     \* the sessions that exchange data
    Lengths,     \* payload tokens of each message the peer sends
    Answered,    \* the messages of the peer the read callback answers
    Size,        \* units of a message that is sent
    MaxAppends,  \* bound: messages sent over a session
    SendRoom     \* units the kernel takes while the peer reads nothing

Sids == Clients \cup {Acceptor}
Flags == {"READ_ACCESS", "READ_PENDING", "WRITE_ACCESS", "WRITE_READY", "WRITE_PENDING", "CLOSE_READY"}

ASSUME NeterAssumption ==
    /\ IsFiniteSet(Clients)
    /\ Acceptor \notin Clients
    /\ Lengths \in Seq(Nat)
    /\ Answered \subseteq DOMAIN Lengths
    /\ Size \in Nat \ {0}
    /\ MaxAppends \in Nat
    /\ SendRoom \in Nat \ {0}

VARIABLES
    flags,      \* event_flag of each session
    container,  \* session_container
    watched,    \* the sessions registered with epoll
    edge,       \* those epoll has a change to report of
    polling,    \* Wait is between epoll_wait and its return
    batch,      \* the events epoll_wait gave that are not handled yet
    toClose,    \* ready_close_session_list, the order aside
    tasks,      \* the task queue of the reading and writing thread
    resting,    \* that thread is awake, drowsy (the queue was empty) or asleep
    worker,     \* what it is doing: pc, session, list taken, errno, has read
    session,    \* the buffers and function pointers of each session
    socket,     \* the socket of each session and what its peer did
    backlog,    \* connections the acceptor has to accept
    user,       \* the user's thread: pc and session
    announced,  \* sessions whose connect_callback was called
    overslept,  \* ghost: a task was added just before the thread fell asleep
    raced       \* ghost: sessions with data whose WRITE_READY went without it

poll == <<polling, batch>>
queue == <<tasks, resting, overslept>>
kernel == <<watched, edge, socket, backlog>>

vars == <<flags, container, kernel, poll, toClose, queue, worker, session, user, announced, raced>>

Init ==
    /\ flags = [s \in Sids |-> {}]
    /\ container = {Acceptor}
    /\ watched = {Acceptor}
    /\ edge = {}
    /\ polling = FALSE
    /\ batch = <<>>
    /\ toClose = {}
    /\ tasks = <<>>
    /\ resting = "awake"
    /\ worker = [pc |-> "idle", s |-> Acceptor, list |-> <<>>, errno |-> "none", got |-> FALSE]
    /\ session = [s \in Clients |->
        [kind |-> "none", readData |-> <<>>, sendList |-> <<>>, cursor |-> 0,
         appended |-> <<>>, written |-> <<>>, received |-> <<>>]]
    /\ socket = [s \in Clients |->
        [state |-> "none", inbox |-> <<>>, sent |-> 0, unread |-> 0, nospace |-> FALSE]]
    /\ backlog = 0
    /\ user = [pc |-> "idle", s |-> Acceptor]
    /\ announced = {}
    /\ overslept = FALSE
    /\ raced = {}

-----------------------------------------------------------------------------
(* Flags, tasks and closing *)

SetEventFlag(s, set) == flags' = [flags EXCEPT ![s] = @ \cup set]

\* TaskQueue::Push and its broadcast, which only a sleeping thread hears.
Push(task) ==
    /\ tasks' = Append(tasks, task)
    /\ resting' = IF resting = "asleep" THEN "awake" ELSE resting
    /\ overslept' = (resting = "drowsy")

\* Mutant: a task that is pending is added once more.
TryAddReadTaskAgain(s, set) ==
    IF "READ_ACCESS" \in flags[s] \cup set
    THEN SetEventFlag(s, set \cup {"READ_PENDING"}) /\ Push(<<"read", s>>)
    ELSE SetEventFlag(s, set) /\ UNCHANGED queue

\* TryAddReadTask after the flags in set were set.
TryAddReadTask(s, set) ==
    LET now == flags[s] \cup set
    IN  IF "READ_ACCESS" \in now /\ "READ_PENDING" \notin now
        THEN SetEventFlag(s, set \cup {"READ_PENDING"}) /\ Push(<<"read", s>>)
        ELSE SetEventFlag(s, set) /\ UNCHANGED queue

TryAddWriteTask(s, set) ==
    LET now == flags[s] \cup set
    IN  IF {"WRITE_ACCESS", "WRITE_READY"} \subseteq now /\ "WRITE_PENDING" \notin now
        THEN SetEventFlag(s, set \cup {"WRITE_PENDING"}) /\ Push(<<"write", s>>)
        ELSE SetEventFlag(s, set) /\ UNCHANGED queue

\* Mutant: CLOSE_READY is set and nobody is told.
CloseMarksOnly(s) ==
    /\ SetEventFlag(s, {"CLOSE_READY"})
    /\ UNCHANGED toClose

\* Session::Close: only the first call calls disconnect_callback.
Close(s) ==
    /\ SetEventFlag(s, {"CLOSE_READY"})
    /\ toClose' = IF "CLOSE_READY" \in flags[s] THEN toClose ELSE toClose \cup {s}

\* Session c with one more message of Size units to send.
WithMessage(c) ==
    LET number == Len(c.appended) + 1
    IN  [c EXCEPT !.sendList = Append(@, number), !.appended = Append(@, number)]

MaySend(s) == Len(session[s].appended) < MaxAppends

-----------------------------------------------------------------------------
(* The kernel *)

Ready(s) ==
    IF s = Acceptor THEN {e \in {"in"} : backlog > 0}
    ELSE LET k == socket[s]
         IN  CASE k.state \in {"none", "connecting"} -> {}
               [] k.state = "reset" -> {"in", "out", "err"}
               [] OTHER -> {e \in {"in"} : k.inbox # <<>> \/ k.state = "eof"}
                           \cup {e \in {"out"} : k.unread < SendRoom}

Changed(s) == edge' = edge \cup ({s} \cap watched)

Stream == FlattenSeq([k \in DOMAIN Lengths |-> [i \in 1..(Lengths[k] + 1) |-> <<k, i - 1>>]])

Unborn == {s \in Clients : session[s].kind = "none"}

KernelStep == UNCHANGED <<flags, container, watched, poll, toClose, queue, worker, session, user,
                          announced, raced>>

PeerConnects ==
    /\ backlog < Cardinality(Unborn)
    /\ backlog' = backlog + 1
    /\ Changed(Acceptor)
    /\ UNCHANGED socket
    /\ KernelStep

\* While a session is watched, a connection in progress is established or refused, an open one receives
\* a token, is closed by the peer or breaks.
PeerSends(s) ==
    /\ socket[s].state = "open"
    /\ socket[s].sent < Len(Stream)
    /\ socket' = [socket EXCEPT ![s].sent = @ + 1, ![s].inbox = Append(@, Stream[socket[s].sent + 1])]
    /\ Changed(s)
    /\ UNCHANGED backlog
    /\ KernelStep

PeerActs(s, from, to) ==
    /\ socket[s].state \in from
    /\ socket' = [socket EXCEPT ![s].state = to]
    /\ Changed(s)
    /\ UNCHANGED backlog
    /\ KernelStep

\* The peer reads a unit; epoll reports it if a write had found no room.
PeerReads(s) ==
    /\ socket[s].unread > 0
    /\ socket' = [socket EXCEPT ![s].unread = @ - 1, ![s].nospace = FALSE]
    /\ IF socket[s].nospace THEN Changed(s) ELSE UNCHANGED edge
    /\ UNCHANGED backlog
    /\ KernelStep

Peer ==
    \/ PeerConnects
    \/ \E s \in watched \ {Acceptor} :
        \/ PeerSends(s)
        \/ PeerReads(s)
        \/ PeerActs(s, {"connecting"}, "open")
        \/ PeerActs(s, {"open"}, "eof")
        \/ PeerActs(s, {"connecting", "open", "eof"}, "reset")

\* A socket is registered; what is ready already is reported.
Watch(s, state) ==
    /\ container' = container \cup {s}
    /\ watched' = watched \cup {s}
    /\ edge' = IF state = "connecting" THEN edge ELSE edge \cup {s}

-----------------------------------------------------------------------------
(* Neter::Wait *)

\* epoll_wait gives what changed, or nothing after a second, of which only
\* the sweep that follows is of note.
EpollWait ==
    /\ ~ polling
    /\ edge # {} \/ toClose # {}
    /\ polling' = TRUE
    /\ \E order \in SetToSeqs({s \in edge : Ready(s) # {}}) :
        batch' = [k \in DOMAIN order |-> [s |-> order[k], events |-> Ready(order[k])]]
    /\ edge' = {}
    /\ UNCHANGED <<flags, container, watched, socket, backlog, toClose, queue, worker, session,
                   user, announced, raced>>

\* One bit of the first event, after those Wait looks at before.
HandleEvent(event, before) ==
    /\ batch # <<>>
    /\ event \in Head(batch).events
    /\ Head(batch).events \cap before = {}
    /\ batch' = IF Head(batch).events = {event} THEN Tail(batch)
                ELSE [batch EXCEPT ![1].events = @ \ {event}]
    /\ UNCHANGED <<container, kernel, polling, worker, session, user, announced, raced>>

HandleIn ==
    /\ HandleEvent("in", {})
    /\ TryAddReadTask(Head(batch).s, {"READ_ACCESS"})
    /\ UNCHANGED toClose

\* Mutant: room is noted and no task added for it.
HandleOutNotes ==
    /\ HandleEvent("out", {"in"})
    /\ SetEventFlag(Head(batch).s, {"WRITE_ACCESS"})
    /\ UNCHANGED <<toClose, queue>>

HandleOut ==
    /\ HandleEvent("out", {"in"})
    /\ TryAddWriteTask(Head(batch).s, {"WRITE_ACCESS"})
    /\ UNCHANGED toClose

HandleError ==
    /\ HandleEvent("err", {"in", "out"})
    /\ Close(Head(batch).s)
    /\ UNCHANGED queue

\* Mutant: a session leaves the container and not epoll.
SweepStillWatched ==
    /\ polling
    /\ batch = <<>>
    /\ polling' = FALSE
    /\ container' = container \ toClose
    /\ toClose' = {}
    /\ UNCHANGED <<flags, watched, edge, socket, backlog, batch, queue, worker, session, user,
                   announced, raced>>

\* The sessions of ready_close_session_list leave epoll and the container.
Sweep ==
    /\ polling
    /\ batch = <<>>
    /\ polling' = FALSE
    /\ container' = container \ toClose
    /\ watched' = watched \ toClose
    /\ edge' = edge \ toClose
    /\ toClose' = {}
    /\ UNCHANGED <<flags, socket, backlog, batch, queue, worker, session, user, announced, raced>>

Poll == EpollWait \/ HandleIn \/ HandleOut \/ HandleError \/ Sweep

-----------------------------------------------------------------------------
(* ClearTaskQueueTask::Exec *)

Goto(label) == worker' = [worker EXCEPT !.pc = label]

\* The task is done; errno stays what the last failing call set.
Done(errno) == worker' = [pc |-> "idle", s |-> Acceptor, list |-> <<>>, errno |-> errno, got |-> FALSE]

\* Wait is called after Size, without the mutex: what is pushed in between
\* does not wake the thread.
FindsEmpty ==
    /\ worker.pc = "idle" /\ resting = "awake"
    /\ tasks = <<>>
    /\ resting' = "drowsy"
    /\ UNCHANGED <<flags, container, kernel, poll, toClose, tasks, overslept, worker, session, user,
                   announced, raced>>

FallsAsleep ==
    /\ resting = "drowsy"
    /\ resting' = "asleep"
    /\ UNCHANGED <<flags, container, kernel, poll, toClose, tasks, overslept, worker, session, user,
                   announced, raced>>

WakesSpuriously ==
    /\ resting = "asleep"
    /\ resting' = "awake"
    /\ overslept' = FALSE
    /\ UNCHANGED <<flags, container, kernel, poll, toClose, tasks, worker, session, user, announced,
                   raced>>

Needed(op) ==
    IF op = "read" THEN {"READ_ACCESS", "READ_PENDING"}
    ELSE {"WRITE_ACCESS", "WRITE_READY", "WRITE_PENDING"}

Cleared(op) == IF op = "read" THEN Needed("read") ELSE {"WRITE_READY", "WRITE_PENDING"}

Function(op, s) ==
    IF op = "read" THEN IF s = Acceptor THEN "accept" ELSE "read"
    ELSE IF session[s].kind = "connector" THEN "connect" ELSE "swap"

\* A task is taken; Read and Write go on only with their flags and clear them.
Take ==
    /\ worker.pc = "idle" /\ resting = "awake"
    /\ tasks # <<>>
    /\ tasks' = Tail(tasks)
    /\ LET op == Head(tasks)[1]
           s == Head(tasks)[2]
       IN  IF Needed(op) \subseteq flags[s] /\ "CLOSE_READY" \notin flags[s]
           THEN /\ flags' = [flags EXCEPT ![s] = @ \ Cleared(op)]
                /\ worker' = [worker EXCEPT !.pc = Function(op, s), !.s = s, !.got = FALSE]
           ELSE UNCHANGED <<flags, worker>>
    /\ UNCHANGED <<container, kernel, poll, toClose, resting, overslept, session, user, announced, raced>>

\* AcceptorReadFunc: a session is made and its connect_callback called, and
\* only then is it in the container.
Accepts(s) ==
    /\ worker.pc = "accept"
    /\ backlog > 0
    /\ s \in Unborn
    /\ backlog' = backlog - 1
    /\ session' = [session EXCEPT ![s].kind = "exchanger"]
    /\ socket' = [socket EXCEPT ![s].state = "open"]
    /\ announced' = announced \cup {s}
    /\ worker' = [worker EXCEPT !.pc = "insert", !.s = s]
    /\ UNCHANGED <<flags, container, watched, edge, poll, toClose, queue, user, raced>>

Inserts ==
    /\ worker.pc = "insert"
    /\ Watch(worker.s, "open")
    /\ Goto("accept")
    /\ UNCHANGED <<flags, socket, backlog, poll, toClose, queue, session, user, announced, raced>>

AcceptAgain ==
    /\ worker.pc = "accept"
    /\ backlog = 0
    /\ Done("EAGAIN")
    /\ UNCHANGED <<flags, container, kernel, poll, toClose, queue, session, user, announced, raced>>

\* accept fails for good, for want of descriptors for one; where there was
\* nothing to accept this is left out.
AcceptFails ==
    /\ worker.pc = "accept"
    /\ backlog > 0
    /\ Close(Acceptor)
    /\ Done("other")
    /\ UNCHANGED <<container, kernel, poll, queue, session, user, announced, raced>>

\* ExchangerReadFunc: read gives what is there,
ReadGives ==
    /\ worker.pc = "read"
    /\ socket[worker.s].inbox # <<>>
    /\ session' = [session EXCEPT ![worker.s].readData = @ \o socket[worker.s].inbox]
    /\ socket' = [socket EXCEPT ![worker.s].inbox = <<>>]
    /\ worker' = [worker EXCEPT !.got = TRUE]
    /\ UNCHANGED <<flags, container, watched, edge, backlog, poll, toClose, queue, user, announced, raced>>

\* or the loop ends, with EAGAIN or because the peer is through and errno
\* still is EAGAIN from a call before.  A loop that read nothing closes the
\* session.
ReadEnds ==
    /\ worker.pc = "read"
    /\ socket[worker.s].inbox = <<>>
    /\ \/ socket[worker.s].state = "open"
       \/ socket[worker.s].state = "eof" /\ worker.errno = "EAGAIN"
    /\ IF worker.got
       THEN /\ worker' = [worker EXCEPT !.pc = "deserialize", !.errno = "EAGAIN"]
            /\ UNCHANGED <<flags, toClose>>
       ELSE Done("EAGAIN") /\ Close(worker.s)
    /\ UNCHANGED <<container, kernel, poll, queue, session, user, announced, raced>>

\* or it failed, or the peer is through and errno is anything else.
ReadFails ==
    /\ worker.pc = "read"
    /\ socket[worker.s].inbox = <<>>
    /\ \/ socket[worker.s].state \in {"connecting", "reset"}
       \/ socket[worker.s].state = "eof" /\ worker.errno # "EAGAIN"
    /\ Close(worker.s)
    /\ Done(IF socket[worker.s].state = "eof" THEN worker.errno ELSE "other")
    /\ UNCHANGED <<container, kernel, poll, queue, session, user, announced, raced>>

\* Mutant: the bytes behind the size are not counted.
PopsUncounted(data) == data # <<>>

\* The size can be popped and, behind it, as many bytes.
Pops(data) ==
    /\ Len(data) > 1
    /\ Len(data) - 1 >= Lengths[data[1][1]]

\* GenerateProtocol: messages are popped and committed until one throws, and
\* what that one has popped is reverted.
Generate[data \in Seq((DOMAIN Lengths) \X Nat)] ==
    IF ~ Pops(data) THEN [given |-> <<>>, left |-> data]
    ELSE LET k == data[1][1]
             rest == Generate[SubSeq(data, Lengths[k] + 2, Len(data))]
         IN  [given |-> <<k>> \o rest.given, left |-> rest.left]

\* The read callback gets each message and may answer one, through
\* SendProtocol like everybody else.
Deserialize ==
    /\ worker.pc = "deserialize"
    /\ LET s == worker.s
           result == Generate[session[s].readData]
           read == [session[s] EXCEPT !.readData = result.left, !.received = @ \o result.given]
           answers == s \in container /\ MaySend(s) /\ Answered \cap ToSet(result.given) # {}
       IN  IF answers
           THEN /\ session' = [session EXCEPT ![s] = WithMessage(read)]
                /\ TryAddWriteTask(s, {"WRITE_READY"})
           ELSE /\ session' = [session EXCEPT ![s] = read]
                /\ UNCHANGED <<flags, queue>>
    /\ Done(worker.errno)
    /\ UNCHANGED <<container, kernel, poll, toClose, user, announced, raced>>

\* ConnectorWriteFunc: the connection failed, or the session exchanges data
\* from now on; the callback may send a first message.
ConnectFails ==
    /\ worker.pc = "connect"
    /\ socket[worker.s].state = "reset"
    /\ Close(worker.s)
    /\ Done(worker.errno)
    /\ UNCHANGED <<container, kernel, poll, queue, session, user, announced, raced>>

Connected ==
    /\ worker.pc = "connect"
    /\ socket[worker.s].state # "reset"
    /\ LET s == worker.s
           open == [session[s] EXCEPT !.kind = "exchanger"]
           cleared == flags[s] \ {"WRITE_READY"}
       IN  /\ raced' = IF session[s].sendList = <<>> THEN raced ELSE raced \cup {s}
           /\ announced' = announced \cup {s}
           /\ \/ /\ flags' = [flags EXCEPT ![s] = cleared]
                 /\ session' = [session EXCEPT ![s] = open]
                 /\ UNCHANGED queue
              \/ /\ MaySend(s) /\ s \in container
                 /\ session' = [session EXCEPT ![s] = WithMessage(open)]
                 /\ flags' = [flags EXCEPT ![s] = cleared \cup {"WRITE_READY", "WRITE_PENDING"}]
                 /\ Push(<<"write", s>>)
    /\ Done(worker.errno)
    /\ UNCHANGED <<container, kernel, poll, toClose, user>>

\* ExchangerWriteFunc takes the whole list,
Swap ==
    /\ worker.pc = "swap"
    /\ worker' = [worker EXCEPT !.pc = "write", !.list = session[worker.s].sendList]
    /\ session' = [session EXCEPT ![worker.s].sendList = <<>>]
    /\ raced' = raced \ {worker.s}
    /\ UNCHANGED <<flags, container, kernel, poll, toClose, queue, user, announced>>

\* writes as much of its first message as the kernel takes,
Writes ==
    /\ worker.pc = "write"
    /\ worker.list # <<>>
    /\ LET s == worker.s
           c == session[s]
           count == Min({SendRoom - socket[s].unread, Size - c.cursor})
           whole == c.cursor + count = Size
       IN  /\ socket[s].state # "reset"
           /\ count > 0
           /\ session' = [session EXCEPT
                ![s].cursor = IF whole THEN 0 ELSE @ + count,
                ![s].written = @ \o [k \in 1..count |-> <<Head(worker.list), c.cursor + k>>]]
           /\ socket' = [socket EXCEPT ![s].unread = @ + count]
           /\ worker' = [worker EXCEPT !.list = IF whole THEN Tail(@) ELSE @]
    /\ UNCHANGED <<flags, container, watched, edge, backlog, poll, toClose, queue, user, announced, raced>>

WriteEnds ==
    /\ worker.pc = "write"
    /\ worker.list = <<>>
    /\ SetEventFlag(worker.s, {"WRITE_ACCESS"})
    /\ Done(worker.errno)
    /\ UNCHANGED <<container, kernel, poll, toClose, queue, session, user, announced, raced>>

WriteFails ==
    /\ worker.pc = "write"
    /\ worker.list # <<>>
    /\ socket[worker.s].state = "reset"
    /\ Close(worker.s)
    /\ Done("other")
    /\ UNCHANGED <<container, kernel, poll, queue, session, user, announced, raced>>

\* until EAGAIN; then it puts the rest back, in front of what was appended
\* meanwhile, and waits for the next report of room.
WriteAgain ==
    /\ worker.pc = "write"
    /\ worker.list # <<>>
    /\ socket[worker.s].state # "reset"
    /\ socket[worker.s].unread = SendRoom
    /\ socket' = [socket EXCEPT ![worker.s].nospace = TRUE]
    /\ worker' = [worker EXCEPT !.pc = "putback", !.errno = "EAGAIN"]
    /\ UNCHANGED <<flags, container, watched, edge, backlog, poll, toClose, queue, session, user,
                   announced, raced>>

\* Mutant: the loop that is commented out, from the first to the last.
PutsBackForward ==
    /\ worker.pc = "putback"
    /\ session' = [session EXCEPT ![worker.s].sendList = Reverse(worker.list) \o @]
    /\ SetEventFlag(worker.s, {"WRITE_READY"})
    /\ raced' = IF socket[worker.s].nospace THEN raced ELSE raced \cup {worker.s}
    /\ Done(worker.errno)
    /\ UNCHANGED <<container, kernel, poll, toClose, queue, user, announced>>

PutsBack ==
    /\ worker.pc = "putback"
    /\ session' = [session EXCEPT ![worker.s].sendList = worker.list \o @]
    /\ SetEventFlag(worker.s, {"WRITE_READY"})
    /\ raced' = IF socket[worker.s].nospace THEN raced ELSE raced \cup {worker.s}
    /\ Done(worker.errno)
    /\ UNCHANGED <<container, kernel, poll, toClose, queue, user, announced>>

Work ==
    \/ FindsEmpty \/ FallsAsleep \/ Take
    \/ (\E s \in Clients : Accepts(s)) \/ Inserts \/ AcceptAgain \/ AcceptFails
    \/ ReadGives \/ ReadEnds \/ ReadFails \/ Deserialize
    \/ ConnectFails \/ Connected
    \/ Swap \/ Writes \/ WriteEnds \/ WriteFails \/ WriteAgain \/ PutsBack

-----------------------------------------------------------------------------
(* The user's thread: Connect and SendProtocol *)

\* connect succeeds at once, or is in progress; else Connect fails and
\* leaves nothing behind.
Connects(s, state) ==
    /\ user.pc = "idle"
    /\ s \in Unborn /\ backlog < Cardinality(Unborn)
    /\ session' = [session EXCEPT ![s].kind = IF state = "open" THEN "exchanger" ELSE "connector"]
    /\ socket' = [socket EXCEPT ![s].state = state]
    /\ IF state = "open" THEN UNCHANGED flags ELSE SetEventFlag(s, {"WRITE_READY"})
    /\ Watch(s, state)
    /\ announced' = IF state = "open" THEN announced \cup {s} ELSE announced
    /\ UNCHANGED <<backlog, poll, toClose, queue, worker, user, raced>>

\* SendProtocol finds the session and AppendSendData sets WRITE_READY,
Sends(s) ==
    /\ user.pc = "idle"
    /\ s \in announced \cap container
    /\ MaySend(s)
    /\ SetEventFlag(s, {"WRITE_READY"})
    /\ user' = [pc |-> "append", s |-> s]
    /\ UNCHANGED <<container, kernel, poll, toClose, queue, worker, session, announced, raced>>

\* appends the data to the list
Appends ==
    /\ user.pc = "append"
    /\ session' = [session EXCEPT ![user.s] = WithMessage(@)]
    /\ raced' = IF "WRITE_READY" \in flags[user.s] THEN raced ELSE raced \cup {user.s}
    /\ user' = [user EXCEPT !.pc = "add"]
    /\ UNCHANGED <<flags, container, kernel, poll, toClose, queue, worker, announced>>

\* and tries to add a task.
Adds ==
    /\ user.pc = "add"
    /\ TryAddWriteTask(user.s, {})
    /\ user' = [pc |-> "idle", s |-> Acceptor]
    /\ UNCHANGED <<container, kernel, poll, toClose, worker, session, announced, raced>>

User ==
    \/ \E s \in Clients : Sends(s) \/ (\E state \in {"open", "connecting"} : Connects(s, state))
    \/ Appends
    \/ Adds

Next == Peer \/ Poll \/ Work \/ WakesSpuriously \/ User

(***************************************************************************)
(* The scheduler lets the polling thread run.  No other fairness is        *)
(* assumed: a peer may be silent and the other thread may sleep.           *)
(***************************************************************************)
Spec == Init /\ [][Next]_vars /\ WF_vars(Poll)

-----------------------------------------------------------------------------
(* Properties *)

Open(s) == s \in container /\ "CLOSE_READY" \notin flags[s]

\* The unit that follows another one in what is sent.
After(unit) == IF unit[2] = Size THEN <<unit[1] + 1, 1>> ELSE <<unit[1], unit[2] + 1>>

(***************************************************************************)
(* While a session is open, what the kernel took is, in order and without  *)
(* a gap, the units of the messages as they were appended; the messages it *)
(* did not take, or not to the end, wait in the list, or before it in the  *)
(* hands of the thread that writes, though messages are appended while     *)
(* that thread puts back what it could not write; and the cursor is where  *)
(* the kernel stopped.                                                     *)
(***************************************************************************)
SentInOrder ==
    \A s \in Clients : Open(s) =>
        LET c == session[s]
            waiting == (IF worker.s = s THEN worker.list ELSE <<>>) \o c.sendList
            before == Len(c.appended) - Len(waiting)
            next == <<before + 1, c.cursor + 1>>
        IN  /\ \A k \in DOMAIN waiting : waiting[k] = before + k
            /\ \A k \in DOMAIN c.written :
                c.written[k] = IF k = 1 THEN <<1, 1>> ELSE After(c.written[k - 1])
            /\ IF c.written = <<>> THEN next = <<1, 1>> ELSE next = After(Last(c.written))

(***************************************************************************)
(* While a session is open, the messages its callback got are those the    *)
(* peer sent, in order, and nothing the peer sent is lost on the way.      *)
(* Between two reads only the start of a message is held back, or an empty *)
(* last one, which pop_bytes does not take before more bytes follow.       *)
(***************************************************************************)
MessagesWhole ==
    \A s \in Clients : Open(s) =>
        LET c == session[s]
            got == FlattenSeq([k \in DOMAIN c.received |->
                       [i \in 1..(Lengths[c.received[k]] + 1) |-> <<c.received[k], i - 1>>]])
        IN  /\ got \o c.readData \o socket[s].inbox = SubSeq(Stream, 1, socket[s].sent)
            /\ c.readData # <<>> /\ ~ (worker.s = s /\ worker.pc \in {"read", "deserialize"}) =>
                LET k == c.readData[1][1]
                IN  Len(c.readData) <= Lengths[k] \/ c.readData = <<<<k, 0>>>>

(***************************************************************************)
(* The pending flags and the task queue agree: an open session has a read  *)
(* task, or a write task, in the queue exactly if the flag says so, and    *)
(* never two.  So the queue is bounded by the sessions, and the thread     *)
(* never works at a task whose flags another one has consumed.             *)
(***************************************************************************)
PendingMeansQueued ==
    \A s \in Sids : Open(s) =>
        \A op \in {"read", "write"} :
            LET flag == IF op = "read" THEN "READ_PENDING" ELSE "WRITE_PENDING"
                queued == Cardinality({k \in DOMAIN tasks : tasks[k] = <<op, s>>})
            IN  queued = IF flag \in flags[s] THEN 1 ELSE 0

(***************************************************************************)
(* Wait looks a session up and dereferences what it finds: every event at  *)
(* hand, and every session to be closed, is one of the container.          *)
(***************************************************************************)
EventsFindSession ==
    /\ \A k \in DOMAIN batch : batch[k].s \in container
    /\ toClose \subseteq container

(***************************************************************************)
(* When nothing is left to do in this process, an open session has no      *)
(* unread input, and data unsent only if the kernel had no room for it or  *)
(* WRITE_READY was lost to the data: consumed between the flag and the     *)
(* data, set after the room was reported, or cleared with the connection.  *)
(* The thread sleeps beside a task only if it was about to sleep when the  *)
(* task was added.                                                         *)
(***************************************************************************)
Quiet ==
    /\ ~ polling /\ edge = {}
    /\ tasks = <<>> /\ worker.pc = "idle"
    /\ user.pc = "idle"

NothingStranded ==
    /\ Quiet => \A s \in Clients : Open(s) =>
        /\ socket[s].inbox = <<>>
        /\ session[s].sendList # <<>> => socket[s].nospace \/ s \in raced
    /\ Quiet /\ Open(Acceptor) => backlog = 0
    /\ resting = "asleep" /\ tasks # <<>> => overslept

(***************************************************************************)
(* A session that is closed, by whichever thread, leaves epoll and the     *)
(* container.                                                              *)
(***************************************************************************)
ClosedIsRemoved ==
    \A s \in Sids : (s \in container /\ "CLOSE_READY" \in flags[s]) ~> s \notin container
=============================================================================
