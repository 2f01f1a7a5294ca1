---------------------------- MODULE NeterProofs ----------------------------
(***************************************************************************)
(* For any number of sessions, messages and units: Wait finds the session  *)
(* of every event and of every session to be closed, and the pending flags *)
(* agree with the task queue.                                              *)
(*                                                                         *)
(* Both rest on what the flags say.  A pending task has the flags it needs *)
(* (Granted), or the thread would skip it and leave its flag behind; that  *)
(* takes the one place that clears WRITE_READY beside a task, the end of a *)
(* connection, to be reached before anybody else knows of the session      *)
(* (Connecting).  And a session that somebody still holds when it leaves   *)
(* the container has CLOSE_READY (Named), so it is neither closed again    *)
(* nor given a task.                                                       *)
(*                                                                         *)
(* The last part is about what comes in: the callback of a session gets    *)
(* the peer's messages whole and in order.  What it got, what the session  *)
(* holds, what lies in the socket and what is still to come are together   *)
(* what the peer sends (Whole), and GenerateTCPMessage takes messages off  *)
(* the front of such tokens until less than one is left (GenerateGives).   *)
(***************************************************************************)
EXTENDS Neter, ListsProofs

\* The acceptor is never written to.
Task == ({"read"} \X Sids) \cup ({"write"} \X Clients)

Event == [s : Clients, events : SUBSET {"in", "out", "err"}] \cup [s : {Acceptor}, events : SUBSET {"in"}]

Labels == {"idle", "accept", "insert", "read", "deserialize", "connect", "swap", "write", "putback"}

\* The types; of what a session holds only its kind matters here.
Control ==
    /\ batch \in Seq(Event)
    /\ {"pc", "s"} \subseteq DOMAIN worker
    /\ worker.pc \in Labels /\ worker.s \in Sids
    /\ worker.pc \notin {"idle", "accept"} => worker.s \in Clients
    /\ user \in [pc : {"idle", "append", "add"}, s : Sids]
    /\ user.pc # "idle" => user.s \in announced
    /\ announced \subseteq Clients
    /\ DOMAIN session = Clients
    /\ \A s \in Clients : "kind" \in DOMAIN session[s]
    /\ watched \subseteq Sids

Types ==
    /\ flags \in [Sids -> SUBSET Flags]
    /\ tasks \in Seq(Task)
    /\ Control

\* The places of a task in a queue.
At(q, t) == {k \in DOMAIN q : q[k] = t}

One(b) == IF b THEN 1 ELSE 0

Pending(op) == IF op = "read" THEN "READ_PENDING" ELSE "WRITE_PENDING"

\* A pending task is one whose other flags are set.
Granted ==
    \A s \in Sids : \A op \in {"read", "write"} :
        Pending(op) \in flags[s] => Needed(op) \subseteq flags[s]

\* PendingMeansQueued, in the container or not.
Counted ==
    \A s \in Sids : "CLOSE_READY" \notin flags[s] =>
        \A op \in {"read", "write"} : Cardinality(At(tasks, <<op, s>>)) = One(Pending(op) \in flags[s])

\* While the thread connects, nobody else knows of the session.
Connecting ==
    /\ \A s \in announced : session[s].kind = "exchanger"
    /\ worker.pc = "connect" =>
        /\ session[worker.s].kind = "connector"
        /\ "WRITE_ACCESS" \in flags[worker.s]
        /\ "WRITE_READY" \notin flags[worker.s]

Known(s) == s \in container \/ "CLOSE_READY" \in flags[s]

\* What epoll reports and what is to be closed is in the container.
Listed ==
    /\ edge \subseteq watched
    /\ watched \subseteq container
    /\ toClose \subseteq container
    /\ \A k \in DOMAIN batch : batch[k].s \in container
    /\ \A s \in toClose : s \in Sids /\ "CLOSE_READY" \in flags[s]

\* So are, unless closed, the sessions that somebody works for.
Named ==
    /\ Known(Acceptor)
    /\ \A k \in DOMAIN tasks : Known(tasks[k][2])
    /\ worker.pc \notin {"idle", "insert"} => Known(worker.s)
    /\ user.pc # "idle" => Known(user.s)

\* The invariant, and the parts of it that are shown to be kept one by one.
Serving == Types /\ Granted /\ Counted

NeterInvariant == Serving /\ Connecting /\ Listed /\ Named

Served == flags \in [Sids -> SUBSET Flags] /\ tasks \in Seq(Task) /\ Granted /\ Counted

Kept == Control /\ Connecting /\ Listed /\ Named

-----------------------------------------------------------------------------
\* The occurrences of a task in a queue are counted by a number;
LEMMA AtFinite ==
    ASSUME NEW S, NEW q \in Seq(S), NEW t
    PROVE  IsFiniteSet(At(q, t)) /\ Cardinality(At(q, t)) \in Nat
  <1> DEFINE n == Len(q)
  <1>1. n \in Nat /\ DOMAIN q = 1..n
    OBVIOUS
  <1> HIDE DEF n
  <1>2. IsFiniteSet(1..n)
    BY <1>1, FS_Interval
  <1>3. At(q, t) \in SUBSET (1..n)
    BY <1>1 DEF At
  <1> QED
    BY <1>2, <1>3, FS_Subset, FS_CardinalityType

\* an element that is added counts once more,
LEMMA AtAppend ==
    ASSUME NEW S, NEW q \in Seq(S), NEW u \in S, NEW t
    PROVE  Cardinality(At(Append(q, u), t)) = Cardinality(At(q, t)) + One(u = t)
  <1>1. At(Append(q, u), t) = IF u = t THEN At(q, t) \cup {Len(q) + 1} ELSE At(q, t)
    <2>1. /\ DOMAIN Append(q, u) = 1..(Len(q) + 1)
          /\ Append(q, u)[Len(q) + 1] = u
          /\ \A k \in 1..Len(q) : Append(q, u)[k] = q[k]
          /\ DOMAIN q = 1..Len(q) /\ Len(q) \in Nat
      OBVIOUS
    <2> QED
      BY <2>1 DEF At
  <1>2. Len(q) + 1 \notin At(q, t)
    BY DEF At
  <1>3. IsFiniteSet(At(q, t)) /\ Cardinality(At(q, t)) \in Nat
    BY AtFinite
  <1>4. Cardinality(At(q, t) \cup {Len(q) + 1}) = Cardinality(At(q, t)) + 1
    BY <1>2, <1>3, FS_AddElement
  <1> QED
    BY <1>1, <1>3, <1>4 DEF One

\* and one that is taken once less.
LEMMA AtTail ==
    ASSUME NEW S, NEW q \in Seq(S), q # <<>>, NEW t
    PROVE  Cardinality(At(Tail(q), t)) = Cardinality(At(q, t)) - One(Head(q) = t)
  <1> DEFINE rest == At(q, t) \ {1}
             back == [k \in At(Tail(q), t) |-> k + 1]
  <1>1. /\ Tail(q) \in Seq(S) /\ Len(Tail(q)) = Len(q) - 1 /\ Len(q) \in Nat \ {0}
        /\ \A k \in 1..(Len(q) - 1) : Tail(q)[k] = q[k + 1]
        /\ DOMAIN Tail(q) = 1..(Len(q) - 1) /\ DOMAIN q = 1..Len(q)
        /\ Head(q) = q[1]
    OBVIOUS
  <1>2. \A k \in At(Tail(q), t) : k \in Nat /\ k + 1 \in rest
    BY <1>1 DEF At
  <1>3. \A k \in rest : k \in Nat /\ k - 1 \in At(Tail(q), t) /\ (k - 1) + 1 = k
    BY <1>1 DEF At
  <1>4. back \in Bijection(At(Tail(q), t), rest)
    BY <1>2, <1>3 DEF Bijection, Injection, Surjection, IsInjective
  <1>5. IsFiniteSet(At(Tail(q), t)) /\ IsFiniteSet(At(q, t)) /\ Cardinality(At(q, t)) \in Nat
    BY <1>1, AtFinite
  <1> HIDE DEF back, rest
  <1>6. Cardinality(rest) = Cardinality(At(Tail(q), t))
    BY <1>4, <1>5, FS_Bijection DEF ExistsBijection
  <1>7. Cardinality(rest) = IF 1 \in At(q, t) THEN Cardinality(At(q, t)) - 1 ELSE Cardinality(At(q, t))
    BY <1>5, FS_RemoveElement DEF rest
  <1>8. 1 \in At(q, t) <=> Head(q) = t
    BY <1>1 DEF At
  <1> QED
    BY <1>5, <1>6, <1>7, <1>8 DEF One

-----------------------------------------------------------------------------

\* Flags other than the pending ones are set.
LEMMA Marking ==
    ASSUME Serving, NEW s \in Sids,
           NEW set, set \subseteq {"READ_ACCESS", "WRITE_ACCESS", "WRITE_READY", "CLOSE_READY"},
           SetEventFlag(s, set), tasks' = tasks
    PROVE  flags' \in [Sids -> SUBSET Flags] /\ tasks' \in Seq(Task) /\ Granted' /\ Counted'
  <1>1. flags' \in [Sids -> SUBSET Flags] /\ tasks' \in Seq(Task)
    BY DEF Serving, Types, Control, SetEventFlag, Flags
  <1>2. \A v \in Sids : /\ flags[v] \subseteq flags'[v]
                         /\ \A op \in {"read", "write"} : Pending(op) \in flags'[v] <=> Pending(op) \in flags[v]
    BY DEF Serving, Types, Control, SetEventFlag, Pending
  <1>3. Granted'
    BY <1>2 DEF Serving, Granted, Needed
  <1>4. Counted'
    BY <1>2 DEF Serving, Counted, One
  <1> QED
    BY <1>1, <1>3, <1>4

\* A task is added with its flag.
LEMMA Adding ==
    ASSUME Serving, NEW s \in Sids, NEW op \in {"read", "write"},
           NEW set \in SUBSET {"READ_ACCESS", "WRITE_ACCESS", "WRITE_READY"},
           <<op, s>> \in Task,
           Needed(op) \ {Pending(op)} \subseteq flags[s] \cup set,
           Pending(op) \notin flags[s],
           SetEventFlag(s, set \cup {Pending(op)}), Push(<<op, s>>)
    PROVE  flags' \in [Sids -> SUBSET Flags] /\ tasks' \in Seq(Task) /\ Granted' /\ Counted'
  <1>1. flags' \in [Sids -> SUBSET Flags] /\ tasks' \in Seq(Task) /\ tasks' = Append(tasks, <<op, s>>)
    <2>1. set \cup {Pending(op)} \subseteq Flags
      BY DEF Flags, Pending
    <2>2. flags' \in [Sids -> SUBSET Flags]
      BY <2>1 DEF Serving, Types, Control, SetEventFlag
    <2>3. tasks \in Seq(Task) /\ tasks' = Append(tasks, <<op, s>>)
      BY DEF Serving, Types, Control, Push
    <2> QED
      BY <2>2, <2>3
  <1>2. /\ flags'[s] = flags[s] \cup set \cup {Pending(op)}
        /\ \A v \in Sids \ {s} : flags'[v] = flags[v]
    BY DEF Serving, Types, Control, SetEventFlag
  <1>3. \A o \in {"read", "write"} : o # op => (Pending(o) \in flags'[s] <=> Pending(o) \in flags[s])
    BY <1>2 DEF Pending
  <1>4. Granted'
    BY <1>2, <1>3 DEF Serving, Granted, Needed, Pending
  <1>5. Counted'
    <2> SUFFICES ASSUME NEW v \in Sids, "CLOSE_READY" \notin flags'[v], NEW o \in {"read", "write"}
                 PROVE  Cardinality(At(tasks', <<o, v>>)) = One(Pending(o) \in flags'[v])
      BY DEF Counted
    <2>1. Cardinality(At(tasks', <<o, v>>)) = Cardinality(At(tasks, <<o, v>>)) + One(<<op, s>> = <<o, v>>)
      BY <1>1, AtAppend DEF Serving, Types, Control, One
    <2>2. Cardinality(At(tasks, <<o, v>>)) = One(Pending(o) \in flags[v])
      BY <1>2 DEF Serving, Counted, One
    <2>3. CASE o = op /\ v = s
      BY <1>2, <2>1, <2>2, <2>3 DEF One
    <2>4. CASE ~ (o = op /\ v = s)
      <3>1. Pending(o) \in flags'[v] <=> Pending(o) \in flags[v]
        BY <1>2, <1>3, <2>4
      <3> QED
        BY <2>1, <2>2, <2>4, <3>1 DEF One
    <2> QED
      BY <2>3, <2>4
  <1> QED
    BY <1>1, <1>4, <1>5

\* What TryAddReadTask and TryAddWriteTask do is one or the other.
LEMMA TryingRead ==
    ASSUME Serving, NEW s \in Sids, TryAddReadTask(s, {"READ_ACCESS"})
    PROVE  /\ flags' \in [Sids -> SUBSET Flags] /\ tasks' \in Seq(Task) /\ Granted' /\ Counted'
           /\ \A k \in DOMAIN tasks' : (k \in DOMAIN tasks /\ tasks'[k] = tasks[k]) \/ tasks'[k][2] = s
           /\ \A v \in Sids : flags[v] \subseteq flags'[v]
  <1> DEFINE adds == "READ_PENDING" \notin flags[s]
             set == {"READ_ACCESS"}
  <1>1. CASE adds
    <2>1. SetEventFlag(s, set \cup {Pending("read")}) /\ Push(<<"read", s>>)
      BY <1>1 DEF TryAddReadTask, Pending
    <2>2. <<"read", s>> \in Task
      BY DEF Task
    <2>3. Needed("read") \ {Pending("read")} \subseteq flags[s] \cup set /\ Pending("read") \notin flags[s]
      BY <1>1 DEF Needed, Pending
    <2>4. flags' \in [Sids -> SUBSET Flags] /\ tasks' \in Seq(Task) /\ Granted' /\ Counted'
      BY <2>1, <2>2, <2>3, Adding
    <2>5. tasks \in Seq(Task) /\ tasks' = Append(tasks, <<"read", s>>)
      BY <2>1 DEF Push, Serving, Types, Control
    <2>6. \A k \in DOMAIN tasks' : (k \in DOMAIN tasks /\ tasks'[k] = tasks[k]) \/ tasks'[k][2] = s
      BY <2>5
    <2>7. \A v \in Sids : flags[v] \subseteq flags'[v]
      BY <2>1 DEF SetEventFlag, Serving, Types, Control
    <2> QED
      BY <2>4, <2>6, <2>7
  <1>2. CASE ~ adds
    <2>1. SetEventFlag(s, set) /\ tasks' = tasks
      BY <1>2 DEF TryAddReadTask, queue
    <2> QED
      BY <2>1, Marking DEF SetEventFlag, Serving, Types, Control
  <1> QED
    BY <1>1, <1>2

\* The same of a write task.
LEMMA TryingWrite ==
    ASSUME Serving, NEW s \in Clients,
           NEW set \in SUBSET {"WRITE_ACCESS", "WRITE_READY"}, TryAddWriteTask(s, set)
    PROVE  /\ flags' \in [Sids -> SUBSET Flags] /\ tasks' \in Seq(Task) /\ Granted' /\ Counted'
           /\ \A k \in DOMAIN tasks' : (k \in DOMAIN tasks /\ tasks'[k] = tasks[k]) \/ tasks'[k][2] = s
           /\ \A v \in Sids : flags[v] \subseteq flags'[v]
  <1> DEFINE adds == {"WRITE_ACCESS", "WRITE_READY"} \subseteq flags[s] \cup set
                       /\ "WRITE_PENDING" \notin flags[s] \cup set
  <1>0. s \in Sids
    BY DEF Sids
  <1>1. CASE adds
    <2>1. SetEventFlag(s, set \cup {Pending("write")}) /\ Push(<<"write", s>>)
      BY <1>1 DEF TryAddWriteTask, Pending
    <2>2. <<"write", s>> \in Task
      BY DEF Task
    <2>3. Needed("write") \ {Pending("write")} \subseteq flags[s] \cup set /\ Pending("write") \notin flags[s]
      BY <1>1 DEF Needed, Pending
    <2>4. flags' \in [Sids -> SUBSET Flags] /\ tasks' \in Seq(Task) /\ Granted' /\ Counted'
      BY <1>0, <2>1, <2>2, <2>3, Adding
    <2>5. tasks \in Seq(Task) /\ tasks' = Append(tasks, <<"write", s>>)
      BY <2>1 DEF Push, Serving, Types, Control
    <2>6. \A k \in DOMAIN tasks' : (k \in DOMAIN tasks /\ tasks'[k] = tasks[k]) \/ tasks'[k][2] = s
      BY <2>5
    <2>7. \A v \in Sids : flags[v] \subseteq flags'[v]
      BY <2>1 DEF SetEventFlag, Serving, Types, Control
    <2> QED
      BY <2>4, <2>6, <2>7
  <1>2. CASE ~ adds
    <2>1. SetEventFlag(s, set) /\ tasks' = tasks
      BY <1>2 DEF TryAddWriteTask, queue
    <2> QED
      BY <1>0, <2>1, Marking DEF SetEventFlag, Serving, Types, Control
  <1> QED
    BY <1>1, <1>2

\* A task that is taken is the only one of its session and kind, and its
\* flags are there unless the session was closed.
LEMMA Taking ==
    ASSUME Serving, Take
    PROVE  /\ flags' \in [Sids -> SUBSET Flags] /\ tasks' \in Seq(Task) /\ Granted' /\ Counted'
           /\ \A v \in Sids : "CLOSE_READY" \in flags[v] => "CLOSE_READY" \in flags'[v]
  <1> DEFINE op == Head(tasks)[1]
             s == Head(tasks)[2]
             goes == Needed(op) \subseteq flags[s] /\ "CLOSE_READY" \notin flags[s]
  <1>1. /\ tasks # <<>> /\ tasks' = Tail(tasks) /\ tasks \in Seq(Task)
        /\ flags' = IF goes THEN [flags EXCEPT ![s] = @ \ Cleared(op)] ELSE flags
        /\ flags \in [Sids -> SUBSET Flags]
    BY DEF Take, Serving, Types, Control
  <1>2. Head(tasks) \in Task /\ tasks' \in Seq(Task)
    BY <1>1
  <1>3. op \in {"read", "write"} /\ s \in Sids /\ Head(tasks) = <<op, s>>
    BY <1>2 DEF Task, Sids
  <1> HIDE DEF op, s
  <1>4. /\ flags' \in [Sids -> SUBSET Flags]
        /\ \A v \in Sids : "CLOSE_READY" \in flags[v] <=> "CLOSE_READY" \in flags'[v]
        /\ \A v \in Sids \ {s} : flags'[v] = flags[v]
        /\ flags'[s] = IF goes THEN flags[s] \ Cleared(op) ELSE flags[s]
    BY <1>1, <1>3 DEF Cleared, Needed
  <1>5. Granted'
    BY <1>3, <1>4 DEF Serving, Granted, Pending, Needed, Cleared
  <1>6. Counted'
    <2> SUFFICES ASSUME NEW v \in Sids, "CLOSE_READY" \notin flags'[v], NEW o \in {"read", "write"}
                 PROVE  Cardinality(At(tasks', <<o, v>>)) = One(Pending(o) \in flags'[v])
      BY DEF Counted
    <2>1. Cardinality(At(tasks', <<o, v>>)) = Cardinality(At(tasks, <<o, v>>)) - One(<<op, s>> = <<o, v>>)
      BY <1>1, <1>3, AtTail DEF One
    <2>2. Cardinality(At(tasks, <<o, v>>)) = One(Pending(o) \in flags[v])
      BY <1>4 DEF Serving, Counted
    <2>3. CASE o = op /\ v = s
      <3>1. Cardinality(At(tasks', <<op, s>>)) \in Nat
        BY <1>2, AtFinite
      <3>2. Pending(op) \in flags[s]
        BY <2>1, <2>2, <2>3, <3>1 DEF One
      <3>3. goes
        BY <1>3, <1>4, <2>3, <3>2 DEF Serving, Granted
      <3>4. Pending(op) \notin flags'[s]
        BY <1>3, <1>4, <3>3 DEF Pending, Cleared, Needed
      <3> QED
        BY <2>1, <2>2, <2>3, <3>2, <3>4 DEF One
    <2>4. CASE ~ (o = op /\ v = s)
      <3>1. Pending(o) \in flags'[v] <=> Pending(o) \in flags[v]
        BY <1>3, <1>4, <2>4 DEF Pending, Cleared, Needed
      <3> QED
        BY <2>1, <2>2, <2>4, <3>1 DEF One
    <2> QED
      BY <2>3, <2>4
  <1> QED
    BY <1>2, <1>4, <1>5, <1>6

\* A session is closed;
LEMMA Closing ==
    ASSUME Serving, NEW s \in Sids, Close(s), tasks' = tasks
    PROVE  Served'
  BY Marking DEF Close, Served

\* neither flags nor tasks change.
LEMMA Resting ==
    ASSUME Serving, UNCHANGED <<flags, tasks>>
    PROVE  Served'
  BY DEF Serving, Types, Control, Served, Granted, Counted

\* The event Wait looks at.
LEMMA Handled ==
    ASSUME Types, NEW event, NEW before, HandleEvent(event, before)
    PROVE  /\ Head(batch).s \in Sids
           /\ event # "in" => Head(batch).s \in Clients
           /\ batch' \in Seq(Event)
           /\ \A k \in DOMAIN batch' : \E j \in DOMAIN batch : batch'[k].s = batch[j].s
           /\ 1 \in DOMAIN batch /\ Head(batch) = batch[1]
  <1>1. batch \in Seq(Event) /\ batch # <<>> /\ event \in Head(batch).events
    BY DEF Types, Control, HandleEvent
  <1>2. Head(batch) \in Event /\ Head(batch) = batch[1] /\ 1 \in DOMAIN batch
    BY <1>1
  <1>3. Head(batch).s \in Sids /\ (event # "in" => Head(batch).s \in Clients)
    BY <1>1, <1>2 DEF Event, Sids
  <1>4. CASE batch' = Tail(batch)
    BY <1>1, <1>2, <1>3, <1>4
  <1>5. CASE batch' = [batch EXCEPT ![1].events = @ \ {event}]
    <2> DEFINE e == [Head(batch) EXCEPT !.events = @ \ {event}]
    <2>1. batch' = [batch EXCEPT ![1] = e]
      BY <1>2, <1>5
    <2>2. e \in Event /\ e.s = Head(batch).s
      BY <1>2 DEF Event
    <2> HIDE DEF e
    <2>3. batch' \in Seq(Event) /\ DOMAIN batch' = DOMAIN batch
      BY <1>1, <1>2, <2>1, <2>2
    <2>4. \A k \in DOMAIN batch : batch'[k].s = batch[k].s
      BY <1>1, <1>2, <2>1, <2>2
    <2> QED
      BY <1>2, <1>3, <2>3, <2>4
  <1> QED
    BY <1>4, <1>5 DEF HandleEvent

\* The polling thread keeps flags and tasks,
LEMMA PollServes ==
    ASSUME Serving, Poll
    PROVE  Served'
  <1>1. CASE EpollWait \/ Sweep
    BY <1>1, Resting DEF EpollWait, Sweep, queue
  <1>2. CASE HandleIn
    BY <1>2, Handled, TryingRead DEF HandleIn, Serving, Served
  <1>3. CASE HandleOut
    BY <1>3, Handled, TryingWrite DEF HandleOut, Serving, Served
  <1>4. CASE HandleError
    BY <1>4, Handled, Closing DEF HandleError, Serving, queue
  <1> QED
    BY <1>1, <1>2, <1>3, <1>4 DEF Poll

\* With the connection WRITE_READY is cleared, but it was not set.
LEMMA ConnectedServes ==
    ASSUME Serving, Connecting, Connected
    PROVE  Served'
  <1> DEFINE s == worker.s
  <1>1. s \in Sids /\ s \in Clients /\ "WRITE_READY" \notin flags[s] /\ flags \in [Sids -> SUBSET Flags]
    BY DEF Connected, Serving, Types, Control, Connecting, Sids
  <1>2. "WRITE_PENDING" \notin flags[s]
    BY <1>1 DEF Serving, Granted, Pending, Needed
  <1>3. CASE flags' = [flags EXCEPT ![s] = flags[s] \ {"WRITE_READY"}] /\ tasks' = tasks
    <2>1. flags' = flags
      BY <1>1, <1>3
    <2> QED
      BY <1>3, <2>1, Resting
  <1>4. CASE
        /\ flags' = [flags EXCEPT ![s] = (flags[s] \ {"WRITE_READY"}) \cup {"WRITE_READY", "WRITE_PENDING"}]
        /\ Push(<<"write", s>>)
    <2>1. SetEventFlag(s, {"WRITE_READY"} \cup {Pending("write")})
      BY <1>1, <1>4 DEF SetEventFlag, Pending
    <2>2. /\ Needed("write") \ {Pending("write")} \subseteq flags[s] \cup {"WRITE_READY"}
          /\ Pending("write") \notin flags[s]
      BY <1>1, <1>2 DEF Needed, Pending, Connecting, Connected
    <2>3. <<"write", s>> \in Task
      BY <1>1 DEF Task
    <2> HIDE DEF s
    <2> QED
      BY <1>1, <1>4, <2>1, <2>2, <2>3, Adding DEF Served
  <1> QED
    BY <1>3, <1>4 DEF Connected, queue

\* so does the thread that reads and writes,
LEMMA WorkServes ==
    ASSUME Serving, Connecting, Work
    PROVE  Served'
  <1> USE DEF queue, Goto, Done, Watch
  <1>1. /\ worker.s \in Sids /\ Acceptor \in Sids
        /\ worker.pc \notin {"idle", "accept"} => worker.s \in Clients
    BY DEF Serving, Types, Control, Sids
  <1>2. CASE Take
    BY <1>2, Taking DEF Served
  <1>3. CASE FindsEmpty \/ FallsAsleep \/ Inserts \/ AcceptAgain \/ ReadGives \/ Swap \/ Writes \/ WriteAgain
    BY <1>3, Resting DEF FindsEmpty, FallsAsleep, Inserts, AcceptAgain, ReadGives, Swap, Writes, WriteAgain
  <1>4. CASE \E s \in Clients : Accepts(s)
    BY <1>4, Resting DEF Accepts
  <1>5. CASE AcceptFails \/ ReadFails \/ ConnectFails \/ WriteFails
    BY <1>1, <1>5, Closing DEF AcceptFails, ReadFails, ConnectFails, WriteFails
  <1>6. CASE ReadEnds
    BY <1>1, <1>6, Closing, Resting DEF ReadEnds
  <1>7. CASE Deserialize
    <2>1. CASE TryAddWriteTask(worker.s, {"WRITE_READY"})
      BY <1>1, <1>7, <2>1, TryingWrite DEF Deserialize, Served
    <2>2. CASE UNCHANGED <<flags, queue>>
      BY <2>2, Resting
    <2> QED
      BY <1>7, <2>1, <2>2 DEF Deserialize
  <1>8. CASE Connected
    BY <1>8, ConnectedServes
  <1>9. CASE WriteEnds \/ PutsBack
    <2>1. PICK set \in {{"WRITE_ACCESS"}, {"WRITE_READY"}} : SetEventFlag(worker.s, set)
      BY <1>9 DEF WriteEnds, PutsBack
    <2> QED
      BY <1>1, <1>9, <2>1, Marking DEF WriteEnds, PutsBack, Served
  <1> QED
    BY <1>2, <1>3, <1>4, <1>5, <1>6, <1>7, <1>8, <1>9 DEF Work

\* the user's thread,
LEMMA UserServes ==
    ASSUME Serving, User
    PROVE  Served'
  <1>1. user.pc # "idle" => user.s \in Clients
    BY DEF Serving, Types, Control
  <1>2. ASSUME NEW s \in Clients, Sends(s) \/ (\E state \in {"open", "connecting"} : Connects(s, state))
        PROVE  Served'
    <2>1. s \in Sids
      BY DEF Sids
    <2>2. tasks' = tasks
      BY <1>2 DEF Sends, Connects, queue
    <2>3. CASE UNCHANGED flags
      BY <2>2, <2>3, Resting
    <2>4. CASE SetEventFlag(s, {"WRITE_READY"})
      BY <2>1, <2>2, <2>4, Marking DEF Served
    <2> QED
      BY <1>2, <2>3, <2>4 DEF Sends, Connects
  <1>3. CASE Appends
    BY <1>3, Resting DEF Appends, queue
  <1>4. CASE Adds
    BY <1>1, <1>4, TryingWrite DEF Adds, Served
  <1> QED
    BY <1>2, <1>3, <1>4 DEF User

\* and everybody.
LEMMA NextServes ==
    ASSUME Serving, Connecting, [Next]_vars
    PROVE  Served'
  <1>1. CASE Peer \/ WakesSpuriously \/ UNCHANGED vars
    BY <1>1, Resting DEF Peer, PeerConnects, PeerSends, PeerReads, PeerActs, KernelStep, WakesSpuriously,
                         vars, queue
  <1> QED
    BY <1>1, PollServes, WorkServes, UserServes DEF Next

-----------------------------------------------------------------------------
\* The sessions keep their kinds but in three actions.
SameKinds ==
    /\ DOMAIN session' = Clients
    /\ \A s \in Clients : "kind" \in DOMAIN session'[s] /\ session'[s].kind = session[s].kind

\* Actions that read and write touch buffers only.
LEMMA Buffers ==
    ASSUME Types,
           ReadGives \/ Deserialize \/ Swap \/ Writes \/ PutsBack \/ Appends \/ session' = session
    PROVE  SameKinds
  <1> USE DEF Types, Control, SameKinds
  <1>1. CASE ReadGives
    BY <1>1 DEF ReadGives
  <1>2. CASE Deserialize
    <2> DEFINE s == worker.s
               result == Generate[session[s].readData]
               read == [session[s] EXCEPT !.readData = result.left, !.received = @ \o result.given]
    <2>1. s \in Clients
      BY <1>2 DEF Deserialize
    <2>2. /\ "kind" \in DOMAIN read /\ read.kind = session[s].kind
          /\ "kind" \in DOMAIN WithMessage(read) /\ WithMessage(read).kind = session[s].kind
      BY <2>1 DEF WithMessage
    <2>3. session' = [session EXCEPT ![s] = WithMessage(read)] \/ session' = [session EXCEPT ![s] = read]
      BY <1>2 DEF Deserialize
    <2> HIDE DEF read
    <2> QED
      BY <2>1, <2>2, <2>3
  <1>3. CASE Swap \/ Writes \/ PutsBack
    <2>1. worker.s \in Clients
      BY <1>3 DEF Swap, Writes, PutsBack
    <2>2. CASE Swap
      BY <2>1, <2>2 DEF Swap
    <2>3. CASE PutsBack
      BY <2>1, <2>3 DEF PutsBack
    <2>4. CASE Writes
      <3>1. PICK c, w : session' = [session EXCEPT ![worker.s].cursor = c, ![worker.s].written = w]
        BY <2>4 DEF Writes
      <3> QED
        BY <2>1, <3>1
    <2> QED
      BY <1>3, <2>2, <2>3, <2>4
  <1>4. CASE Appends
    <2>1. user.s \in Clients
      BY <1>4 DEF Appends
    <2>2. /\ "kind" \in DOMAIN WithMessage(session[user.s])
          /\ WithMessage(session[user.s]).kind = session[user.s].kind
      BY <2>1 DEF WithMessage
    <2> QED
      BY <1>4, <2>1, <2>2 DEF Appends
  <1>5. CASE session' = session
    BY <1>5
  <1> QED
    BY <1>1, <1>2, <1>3, <1>4, <1>5

-----------------------------------------------------------------------------
\* Peers and the kernel report nothing but watched sessions.
LEMMA PeerKeeps ==
    ASSUME NeterInvariant, Peer \/ WakesSpuriously \/ UNCHANGED vars
    PROVE  Kept'
  <1>1. /\ UNCHANGED <<flags, container, watched, batch, toClose, tasks, worker, session, user, announced>>
        /\ edge' \subseteq edge \cup watched
    BY DEF Peer, PeerConnects, PeerSends, PeerReads, PeerActs, KernelStep, Changed, WakesSpuriously,
           vars, queue, poll, kernel
  <1>2. Control'
    BY <1>1 DEF NeterInvariant, Serving, Types, Control
  <1>3. Connecting'
    BY <1>1 DEF NeterInvariant, Connecting
  <1>4. Listed' /\ Named'
    BY <1>1 DEF NeterInvariant, Listed, Named, Known
  <1> QED
    BY <1>2, <1>3, <1>4 DEF Kept

\* Whoever is named stays known while sessions are only added and flags of
\* closing only set.
LEMMA StaysNamed ==
    ASSUME Serving, Named, container \subseteq container',
           \A s \in Sids : "CLOSE_READY" \in flags[s] => "CLOSE_READY" \in flags'[s],
           \A k \in DOMAIN tasks' : (\E j \in DOMAIN tasks : tasks'[k] = tasks[j])
                \/ (tasks'[k][2] \in Sids /\ Known(tasks'[k][2])),
           worker'.pc \notin {"idle", "insert"} => worker'.s \in Sids
                /\ (worker'.s \in container' \/ "CLOSE_READY" \in flags[worker'.s]),
           user'.pc # "idle" => user'.s \in Sids /\ Known(user'.s)
    PROVE  Named'
  <1>1. Acceptor \in Sids /\ \A k \in DOMAIN tasks : tasks[k][2] \in Sids
    BY DEF Serving, Types, Control, Task, Sids
  <1> QED
    BY <1>1 DEF Named, Known

\* epoll_wait gives events of watched sessions.
LEMMA EpollKeeps ==
    ASSUME NeterInvariant, EpollWait
    PROVE  Kept'
  <1> DEFINE some == {s \in edge : Ready(s) # {}}
  <1>1. PICK order \in SetToSeqs(some) :
            batch' = [k \in DOMAIN order |-> [s |-> order[k], events |-> Ready(order[k])]]
    BY DEF EpollWait
  <1>2. some \subseteq Sids /\ some \subseteq container
    BY DEF NeterInvariant, Serving, Types, Control, Listed
  <1>3. Cardinality(some) \in Nat
    <2>1. IsFiniteSet(Clients \cup {Acceptor})
      BY NeterAssumption, FS_AddElement DEF NeterAssumption
    <2> QED
      BY <1>2, <2>1, FS_Subset, FS_CardinalityType DEF Sids
  <1> HIDE DEF some
  <1>4. order \in [1..Cardinality(some) -> some]
    BY <1>1 DEF SetToSeqs
  <1>5. \A s \in Sids : [s |-> s, events |-> Ready(s)] \in Event
    <2>1. Ready(Acceptor) \subseteq {"in"}
      BY DEF Ready
    <2>2. \A s \in Clients : Ready(s) \in SUBSET {"in", "out", "err"}
      <3> SUFFICES ASSUME NEW s \in Clients PROVE Ready(s) \subseteq {"in", "out", "err"}
        OBVIOUS
      <3>1. s # Acceptor
        BY NeterAssumption DEF NeterAssumption
      <3>2. CASE socket[s].state \in {"none", "connecting"}
        BY <3>1, <3>2 DEF Ready
      <3>3. CASE socket[s].state = "reset"
        BY <3>1, <3>3 DEF Ready
      <3>4. CASE socket[s].state \notin {"none", "connecting", "reset"}
        BY <3>1, <3>4 DEF Ready
      <3> QED
        BY <3>2, <3>3, <3>4
    <2> QED
      BY <2>1, <2>2 DEF Event, Sids
  <1>6. /\ DOMAIN batch' = 1..Cardinality(some)
        /\ \A k \in 1..Cardinality(some) :
            /\ batch'[k] \in Event /\ batch'[k].s \in container
            /\ batch'[k] = [s |-> order[k], events |-> Ready(order[k])]
    BY <1>1, <1>2, <1>4, <1>5
  <1>7. batch' \in Seq(Event)
    <2> DEFINE n == Cardinality(some)
    <2>1. n \in Nat /\ batch' \in [1..n -> Event]
      BY <1>1, <1>3, <1>4, <1>6
    <2> HIDE DEF n
    <2> QED
      BY <2>1
  <1>8. UNCHANGED <<flags, container, watched, toClose, tasks, worker, session, user, announced>> /\ edge' = {}
    BY DEF EpollWait, queue
  <1>9. Control' /\ Connecting'
    BY <1>7, <1>8 DEF NeterInvariant, Serving, Types, Control, Connecting
  <1>10. Listed' /\ Named'
    BY <1>6, <1>8 DEF NeterInvariant, Listed, Named, Known
  <1> QED
    BY <1>9, <1>10 DEF Kept

\* What is removed was closed, and no event is left when it is removed.
LEMMA SweepKeeps ==
    ASSUME NeterInvariant, Sweep
    PROVE  Kept'
  <1>1. /\ UNCHANGED <<flags, batch, tasks, worker, session, user, announced>> /\ batch = <<>>
        /\ container' = container \ toClose /\ watched' = watched \ toClose
        /\ edge' = edge \ toClose /\ toClose' = {}
    BY DEF Sweep, queue
  <1>2. Control' /\ Connecting'
    BY <1>1 DEF NeterInvariant, Serving, Types, Control, Connecting
  <1>3. \A s \in Sids : Known(s) => Known(s)'
    BY <1>1 DEF NeterInvariant, Listed, Known
  <1>4. /\ Acceptor \in Sids /\ worker.s \in Sids /\ user.s \in Sids
        /\ \A k \in DOMAIN tasks : tasks[k][2] \in Sids
    BY DEF NeterInvariant, Serving, Types, Control, Task, Sids
  <1>5. edge' \subseteq watched' /\ watched' \subseteq container' /\ toClose' \subseteq container'
    BY <1>1 DEF NeterInvariant, Listed
  <1>6. DOMAIN batch' = {}
    BY <1>1
  <1>7. Named'
    BY <1>1, <1>3, <1>4 DEF NeterInvariant, Named, Known
  <1> QED
    BY <1>1, <1>2, <1>5, <1>6, <1>7 DEF Listed, Kept

\* The handlers of events set flags of closing and add tasks for sessions
\* of the container.
LEMMA HandlersKeep ==
    ASSUME NeterInvariant, HandleIn \/ HandleOut \/ HandleError
    PROVE  Kept'
  <1> DEFINE s == Head(batch).s
  <1>1. /\ s \in Sids /\ s \in container
        /\ batch' \in Seq(Event)
        /\ \A k \in DOMAIN batch' : batch'[k].s \in container
        /\ HandleOut => s \in Clients
    BY Handled DEF HandleIn, HandleOut, HandleError, NeterInvariant, Serving, Listed
  <1>2. UNCHANGED <<container, watched, edge, worker, session, user, announced>>
    BY DEF HandleIn, HandleOut, HandleError, HandleEvent, kernel
  <1>3. /\ \A v \in Sids : flags[v] \subseteq flags'[v]
        /\ \A v \in Sids : "WRITE_READY" \in flags'[v] => "WRITE_READY" \in flags[v]
    <2>1. PICK set \in {{"READ_ACCESS"}, {"READ_ACCESS", "READ_PENDING"}, {"WRITE_ACCESS"},
                        {"WRITE_ACCESS", "WRITE_PENDING"}, {"CLOSE_READY"}} : SetEventFlag(s, set)
      <3>1. CASE HandleIn
        <4>1. {"READ_ACCESS"} \cup {"READ_PENDING"} = {"READ_ACCESS", "READ_PENDING"}
          OBVIOUS
        <4> QED
          BY <3>1, <4>1 DEF HandleIn, TryAddReadTask
      <3>2. CASE HandleOut
        <4>1. {"WRITE_ACCESS"} \cup {"WRITE_PENDING"} = {"WRITE_ACCESS", "WRITE_PENDING"}
          OBVIOUS
        <4> QED
          BY <3>2, <4>1 DEF HandleOut, TryAddWriteTask
      <3>3. CASE HandleError
        BY <3>3 DEF HandleError, Close
      <3> QED
        BY <3>1, <3>2, <3>3
    <2>2. flags' = [flags EXCEPT ![s] = flags[s] \cup set] /\ flags \in [Sids -> SUBSET Flags]
      BY <2>1 DEF SetEventFlag, NeterInvariant, Serving, Types, Control
    <2> HIDE DEF s
    <2> QED
      BY <1>1, <2>1, <2>2
  <1>4. \A k \in DOMAIN tasks' : (k \in DOMAIN tasks /\ tasks'[k] = tasks[k]) \/ tasks'[k][2] = s
    <2>1. CASE HandleIn
      BY <1>1, <2>1, TryingRead DEF HandleIn, NeterInvariant
    <2>2. CASE HandleOut
      BY <1>1, <2>2, TryingWrite DEF HandleOut, NeterInvariant
    <2>3. CASE HandleError
      BY <2>3 DEF HandleError, queue
    <2> QED
      BY <2>1, <2>2, <2>3
  <1>5. /\ toClose' \subseteq toClose \cup {s}
        /\ s \in toClose' => s \in toClose \/ "CLOSE_READY" \in flags'[s]
    BY <1>1 DEF HandleIn, HandleOut, HandleError, Close, SetEventFlag, NeterInvariant, Serving, Types, Control
  <1> HIDE DEF s
  <1>6. Control'
    BY <1>1, <1>2 DEF NeterInvariant, Serving, Types, Control
  <1>7. Connecting'
    BY <1>2, <1>3 DEF NeterInvariant, Serving, Types, Control, Connecting
  <1>8. Listed'
    BY <1>1, <1>2, <1>3, <1>5 DEF NeterInvariant, Listed
  <1>9. Named'
    BY <1>1, <1>2, <1>3, <1>4, StaysNamed DEF NeterInvariant, Named, Known, Serving, Types, Control
  <1> QED
    BY <1>6, <1>7, <1>8, <1>9 DEF Kept

\* Of the thread that reads and writes: the actions that leave sessions,
\* tasks and flags alone,
LEMMA WorkerMoves ==
    ASSUME NeterInvariant,
           UNCHANGED <<flags, container, watched, batch, toClose, tasks, user, announced>>,
           edge' = edge, SameKinds,
           {"pc", "s"} \subseteq DOMAIN worker',
           \/ /\ worker'.pc \in Labels \ {"connect"} /\ worker'.s = worker.s
              /\ worker.pc \notin {"idle", "accept", "insert"}
           \/ worker'.pc = "idle" /\ worker'.s = Acceptor
           \/ worker' = worker
    PROVE  Kept'
  <1>1. Control'
    BY DEF NeterInvariant, Serving, Types, Control, SameKinds, Sids, Labels
  <1>2. Connecting'
    BY DEF NeterInvariant, Serving, Types, Control, Connecting, SameKinds
  <1>3. Listed'
    BY DEF NeterInvariant, Listed
  <1>4. Named'
    BY DEF NeterInvariant, Named, Known
  <1> QED
    BY <1>1, <1>2, <1>3, <1>4 DEF Kept

\* those that close its session,
LEMMA WorkerCloses ==
    ASSUME NeterInvariant, NEW s \in Sids, Known(s), Close(s),
           UNCHANGED <<container, watched, batch, tasks, session, user, announced>>,
           edge' = edge, {"pc", "s"} \subseteq DOMAIN worker', worker'.pc = "idle", worker'.s = Acceptor
    PROVE  Kept'
  <1>1. \A v \in Sids : "CLOSE_READY" \in flags[v] => "CLOSE_READY" \in flags'[v]
    BY DEF Close, SetEventFlag, NeterInvariant, Serving, Types, Control
  <1>2. toClose' \subseteq container' /\ \A v \in toClose' : v \in Sids /\ "CLOSE_READY" \in flags'[v]
    BY <1>1 DEF Close, SetEventFlag, NeterInvariant, Serving, Types, Control, Listed, Known
  <1>3. Control'
    BY DEF NeterInvariant, Serving, Types, Control, Sids, Labels
  <1>4. Connecting'
    BY DEF NeterInvariant, Connecting
  <1>5. Listed'
    BY <1>2 DEF NeterInvariant, Listed
  <1>6. Named'
    BY <1>1, StaysNamed DEF NeterInvariant, Named, Serving, Types, Control
  <1> QED
    BY <1>3, <1>4, <1>5, <1>6 DEF Kept

\* those that set flags of it, or add a task for it,
LEMMA WorkerMarks ==
    ASSUME NeterInvariant, NEW s \in Sids, Known(s),
           \A v \in Sids : flags[v] \subseteq flags'[v],
           \A k \in DOMAIN tasks' : (k \in DOMAIN tasks /\ tasks'[k] = tasks[k]) \/ tasks'[k][2] = s,
           UNCHANGED <<container, watched, batch, toClose, user>>,
           edge' = edge, announced \subseteq announced', announced' \subseteq Clients,
           DOMAIN session' = Clients, \A v \in Clients : "kind" \in DOMAIN session'[v],
           \A v \in announced' : session'[v].kind = "exchanger",
           {"pc", "s"} \subseteq DOMAIN worker', worker'.pc = "idle", worker'.s = Acceptor
    PROVE  Kept'
  <1>1. Control'
    BY DEF NeterInvariant, Serving, Types, Control, Sids, Labels
  <1>2. Connecting'
    BY DEF Connecting
  <1>3. Listed'
    BY DEF NeterInvariant, Listed
  <1>4. Named'
    BY StaysNamed DEF NeterInvariant, Named, Serving, Types, Control
  <1> QED
    BY <1>1, <1>2, <1>3, <1>4 DEF Kept

\* the one that takes a task, whose session is open if it goes on,
LEMMA TakeKeeps ==
    ASSUME NeterInvariant, Take
    PROVE  Kept'
  <1> DEFINE op == Head(tasks)[1]
             s == Head(tasks)[2]
             goes == Needed(op) \subseteq flags[s] /\ "CLOSE_READY" \notin flags[s]
  <1>1. tasks \in Seq(Task) /\ tasks # <<>> /\ tasks' = Tail(tasks)
    BY DEF Take, NeterInvariant, Serving, Types, Control
  <1>2. Head(tasks) \in Task /\ Head(tasks) = tasks[1] /\ 1 \in DOMAIN tasks
    BY <1>1
  <1>3. op \in {"read", "write"} /\ s \in Sids /\ (op = "write" => s \in Clients) /\ Known(s)
    BY <1>2 DEF Task, Sids, NeterInvariant, Named
  <1>4. \A k \in DOMAIN tasks' : \E j \in DOMAIN tasks : tasks'[k] = tasks[j]
    <2>1. \A k \in DOMAIN tasks' : k + 1 \in DOMAIN tasks /\ tasks'[k] = tasks[k + 1]
      BY <1>1
    <2> QED
      BY <2>1
  <1>5. UNCHANGED <<container, watched, edge, batch, toClose, session, user, announced>>
    BY DEF Take, kernel, poll
  <1>6. IF goes
        THEN /\ flags' = [flags EXCEPT ![s] = flags[s] \ Cleared(op)]
             /\ worker' = [worker EXCEPT !.pc = Function(op, s), !.s = s, !.got = FALSE]
        ELSE UNCHANGED <<flags, worker>>
    BY DEF Take
  <1>7. worker.pc = "idle"
    BY DEF Take
  <1> HIDE DEF op, s
  <1>8. /\ {"pc", "s"} \subseteq DOMAIN worker'
        /\ goes => worker'.pc = Function(op, s) /\ worker'.s = s
    BY <1>6 DEF NeterInvariant, Serving, Types, Control
  <1>9. /\ Function(op, s) \in Labels
        /\ Function(op, s) # "accept" => s \in Clients
        /\ Function(op, s) = "connect" => op = "write" /\ session[s].kind = "connector"
    BY <1>3 DEF Function, Labels, Sids
  <1>10. /\ \A v \in Sids : "CLOSE_READY" \in flags[v] <=> "CLOSE_READY" \in flags'[v]
         /\ goes /\ op = "write" => "WRITE_READY" \notin flags'[s] /\ "WRITE_ACCESS" \in flags'[s]
    <2>1. CASE goes
      <3>1. flags' = [flags EXCEPT ![s] = flags[s] \ Cleared(op)] /\ flags \in [Sids -> SUBSET Flags]
        BY <1>6, <2>1 DEF NeterInvariant, Serving, Types, Control
      <3>2. flags'[s] = flags[s] \ Cleared(op) /\ \A v \in Sids : v # s => flags'[v] = flags[v]
        BY <1>3, <3>1
      <3>3. /\ "CLOSE_READY" \notin Cleared(op)
            /\ op = "write" => "WRITE_READY" \in Cleared(op) /\ "WRITE_ACCESS" \notin Cleared(op)
        BY <1>3 DEF Cleared, Needed
      <3>4. op = "write" => "WRITE_ACCESS" \in flags[s]
        BY <2>1 DEF Needed
      <3> QED
        BY <3>2, <3>3, <3>4
    <2>2. CASE ~ goes
      BY <1>6, <2>2
    <2> QED
      BY <2>1, <2>2
  <1>11. Control'
    BY <1>3, <1>5, <1>6, <1>8, <1>9 DEF NeterInvariant, Serving, Types, Control
  <1>12. Connecting'
    BY <1>5, <1>6, <1>7, <1>8, <1>9, <1>10 DEF NeterInvariant, Connecting
  <1>13. Listed'
    BY <1>5, <1>10 DEF NeterInvariant, Listed
  <1>14. Named'
    BY <1>3, <1>4, <1>5, <1>6, <1>7, <1>8, <1>10, StaysNamed
       DEF NeterInvariant, Named, Known, Serving, Types, Control
  <1> QED
    BY <1>11, <1>12, <1>13, <1>14 DEF Kept

\* those that accept and
LEMMA AcceptsKeep ==
    ASSUME NeterInvariant, NEW s \in Clients, Accepts(s)
    PROVE  Kept'
  <1>1. /\ UNCHANGED <<flags, container, watched, edge, batch, toClose, tasks, user>>
        /\ worker' = [worker EXCEPT !.pc = "insert", !.s = s]
        /\ session' = [session EXCEPT ![s].kind = "exchanger"]
        /\ announced' = announced \cup {s}
    BY DEF Accepts, poll, queue
  <1>2. /\ {"pc", "s"} \subseteq DOMAIN worker' /\ worker'.pc = "insert" /\ worker'.s = s
    BY <1>1 DEF NeterInvariant, Serving, Types, Control
  <1>3. /\ DOMAIN session' = Clients /\ session'[s].kind = "exchanger"
        /\ \A v \in Clients : "kind" \in DOMAIN session'[v]
        /\ \A v \in Clients : v # s => session'[v] = session[v]
    BY <1>1 DEF NeterInvariant, Serving, Types, Control
  <1>4. Control'
    BY <1>1, <1>2, <1>3 DEF NeterInvariant, Serving, Types, Control, Labels, Sids
  <1>5. Connecting'
    BY <1>1, <1>2, <1>3 DEF NeterInvariant, Serving, Types, Control, Connecting
  <1>6. Listed' /\ Named'
    BY <1>1, <1>2 DEF NeterInvariant, Listed, Named, Known
  <1> QED
    BY <1>4, <1>5, <1>6 DEF Kept

\* put what was accepted into the container,
LEMMA InsertsKeep ==
    ASSUME NeterInvariant, Inserts
    PROVE  Kept'
  <1> DEFINE s == worker.s
  <1>1. /\ s \in Clients
        /\ UNCHANGED <<flags, batch, toClose, tasks, user, session, announced>>
        /\ worker' = [worker EXCEPT !.pc = "accept"]
        /\ container' = container \cup {s} /\ watched' = watched \cup {s}
        /\ edge' = edge \cup {s}
    BY DEF Inserts, Watch, Goto, poll, queue, NeterInvariant, Serving, Types, Control
  <1>2. {"pc", "s"} \subseteq DOMAIN worker' /\ worker'.pc = "accept" /\ worker'.s = s
    BY <1>1 DEF NeterInvariant, Serving, Types, Control
  <1> HIDE DEF s
  <1>3. Control'
    BY <1>1, <1>2 DEF NeterInvariant, Serving, Types, Control, Labels, Sids
  <1>4. Connecting'
    BY <1>1, <1>2 DEF NeterInvariant, Connecting
  <1>5. Listed'
    BY <1>1 DEF NeterInvariant, Listed
  <1>6. Named'
    BY <1>1, <1>2, StaysNamed DEF NeterInvariant, Named, Known, Serving, Types, Control, Sids
  <1> QED
    BY <1>3, <1>4, <1>5, <1>6 DEF Kept

\* the one that ends a connection,
LEMMA ConnectedKeeps ==
    ASSUME NeterInvariant, Connected
    PROVE  Kept'
  <1> DEFINE s == worker.s
             open == [session[s] EXCEPT !.kind = "exchanger"]
  <1>1. /\ s \in Clients /\ s \in Sids /\ Known(s) /\ "WRITE_READY" \notin flags[s]
        /\ tasks \in Seq(Task) /\ flags \in [Sids -> SUBSET Flags]
    BY DEF Connected, NeterInvariant, Serving, Types, Control, Named, Connecting
  <1>2. /\ UNCHANGED <<container, watched, edge, batch, toClose, user>>
        /\ announced' = announced \cup {s}
        /\ worker'.pc = "idle" /\ worker'.s = Acceptor /\ {"pc", "s"} \subseteq DOMAIN worker'
    BY DEF Connected, Done, kernel, poll
  <1>3. /\ "kind" \in DOMAIN open /\ open.kind = "exchanger"
        /\ "kind" \in DOMAIN WithMessage(open) /\ WithMessage(open).kind = "exchanger"
    BY <1>1 DEF WithMessage, NeterInvariant, Serving, Types, Control
  <1>4. PICK c \in {open, WithMessage(open)} : session' = [session EXCEPT ![s] = c]
    BY DEF Connected
  <1>5. /\ DOMAIN session' = Clients
        /\ session'[s].kind = "exchanger" /\ "kind" \in DOMAIN session'[s]
        /\ \A v \in Clients : v # s => session'[v] = session[v]
    BY <1>1, <1>3, <1>4 DEF NeterInvariant, Serving, Types, Control
  <1>6. \A v \in Sids : flags[v] \subseteq flags'[v]
    <2>1. \/ flags' = [flags EXCEPT ![s] = flags[s] \ {"WRITE_READY"}]
          \/ flags' = [flags EXCEPT ![s] = (flags[s] \ {"WRITE_READY"}) \cup {"WRITE_READY", "WRITE_PENDING"}]
      BY DEF Connected
    <2> QED
      BY <1>1, <2>1
  <1>7. \A k \in DOMAIN tasks' : (k \in DOMAIN tasks /\ tasks'[k] = tasks[k]) \/ tasks'[k][2] = s
    BY <1>1 DEF Connected, Push, queue
  <1> HIDE DEF s
  <1>8. /\ announced \subseteq announced' /\ announced' \subseteq Clients
        /\ \A v \in announced' : session'[v].kind = "exchanger"
        /\ \A v \in Clients : "kind" \in DOMAIN session'[v]
    BY <1>1, <1>2, <1>5 DEF NeterInvariant, Serving, Types, Control, Connecting
  <1> QED
    BY <1>1, <1>2, <1>5, <1>6, <1>7, <1>8, WorkerMarks

\* and so all of them.
LEMMA WorkKeeps ==
    ASSUME NeterInvariant, Work
    PROVE  Kept'
  <1>1. /\ Types /\ Acceptor \in Sids /\ Known(Acceptor)
        /\ worker.s \in Sids /\ (worker.pc \notin {"idle", "insert"} => Known(worker.s))
        /\ worker.pc \notin {"idle", "accept"} => worker.s \in Clients
        /\ {"pc", "s"} \subseteq DOMAIN worker
        /\ \A s \in announced : s \in Clients /\ session[s].kind = "exchanger"
        /\ announced \subseteq Clients
    BY DEF NeterInvariant, Serving, Types, Control, Named, Sids, Connecting
  <1> USE DEF poll, kernel, queue
  <1>2. CASE FindsEmpty \/ FallsAsleep
    BY <1>1, <1>2, WorkerMoves, Buffers DEF FindsEmpty, FallsAsleep
  <1>3. CASE Take
    BY <1>3, TakeKeeps
  <1>4. CASE (\E s \in Clients : Accepts(s)) \/ Inserts
    BY <1>4, AcceptsKeep, InsertsKeep
  <1>5. CASE AcceptAgain
    BY <1>1, <1>5, WorkerMoves, Buffers DEF AcceptAgain, Done
  <1>6. CASE AcceptFails
    BY <1>1, <1>6, WorkerCloses DEF AcceptFails, Done
  <1>7. CASE ReadGives
    <2>1. worker' = [worker EXCEPT !.got = TRUE]
      BY <1>7 DEF ReadGives
    <2>2. worker'.pc = "read" /\ worker.pc = "read" /\ worker'.s = worker.s /\ {"pc", "s"} \subseteq DOMAIN worker'
      BY <1>1, <1>7, <2>1 DEF ReadGives
    <2> QED
      BY <1>1, <1>7, <2>2, WorkerMoves, Buffers DEF ReadGives, Labels
  <1>8. CASE ReadEnds
    <2>1. CASE worker.got
      <3>1. worker' = [worker EXCEPT !.pc = "deserialize", !.errno = "EAGAIN"]
        BY <1>8, <2>1 DEF ReadEnds
      <3>2. /\ worker'.pc = "deserialize" /\ worker.pc = "read" /\ worker'.s = worker.s
            /\ {"pc", "s"} \subseteq DOMAIN worker'
        BY <1>1, <1>8, <3>1 DEF ReadEnds
      <3> QED
        BY <1>1, <1>8, <2>1, <3>2, WorkerMoves, Buffers DEF ReadEnds, Labels
    <2>2. CASE ~ worker.got
      BY <1>1, <1>8, <2>2, WorkerCloses DEF ReadEnds, Done
    <2> QED
      BY <2>1, <2>2
  <1>9. CASE ReadFails \/ ConnectFails \/ WriteFails
    BY <1>1, <1>9, WorkerCloses DEF ReadFails, ConnectFails, WriteFails, Done
  <1>10. CASE Deserialize
    <2>1. CASE TryAddWriteTask(worker.s, {"WRITE_READY"})
      <3>1. /\ worker.s \in Clients /\ Known(worker.s) /\ SameKinds
            /\ worker'.pc = "idle" /\ worker'.s = Acceptor /\ {"pc", "s"} \subseteq DOMAIN worker'
            /\ UNCHANGED <<container, watched, edge, batch, toClose, user, announced>>
        BY <1>1, <1>10, Buffers DEF Deserialize, Done
      <3>2. /\ \A k \in DOMAIN tasks' : (k \in DOMAIN tasks /\ tasks'[k] = tasks[k]) \/ tasks'[k][2] = worker.s
            /\ \A v \in Sids : flags[v] \subseteq flags'[v]
        BY <2>1, <3>1, TryingWrite DEF NeterInvariant
      <3>3. \A v \in announced' : session'[v].kind = "exchanger"
        BY <1>1, <3>1 DEF SameKinds
      <3> QED
        BY <1>1, <3>1, <3>2, <3>3, WorkerMarks DEF SameKinds
    <2>2. CASE UNCHANGED <<flags, queue>>
      BY <1>1, <1>10, <2>2, WorkerMoves, Buffers DEF Deserialize, Done
    <2> QED
      BY <1>10, <2>1, <2>2 DEF Deserialize
  <1>11. CASE Connected
    BY <1>11, ConnectedKeeps
  <1>12. CASE Swap \/ Writes \/ WriteAgain
    <2>1. /\ worker.pc \in {"swap", "write"} /\ worker'.pc \in {"write", "putback"} /\ worker'.s = worker.s
          /\ {"pc", "s"} \subseteq DOMAIN worker'
      BY <1>1, <1>12 DEF Swap, Writes, WriteAgain
    <2>2. SameKinds
      BY <1>1, <1>12, Buffers DEF WriteAgain
    <2>3. UNCHANGED <<flags, container, watched, edge, batch, toClose, tasks, user, announced>>
      BY <1>12 DEF Swap, Writes, WriteAgain
    <2> QED
      BY <2>1, <2>2, <2>3, WorkerMoves DEF Labels
  <1>13. CASE WriteEnds \/ PutsBack
    <2>1. /\ worker.s \in Clients /\ Known(worker.s) /\ SameKinds
          /\ worker'.pc = "idle" /\ worker'.s = Acceptor /\ {"pc", "s"} \subseteq DOMAIN worker'
          /\ UNCHANGED <<container, watched, edge, batch, toClose, user, announced, tasks>>
      <3>1. CASE WriteEnds
        BY <1>1, <3>1, Buffers DEF WriteEnds, Done
      <3>2. CASE PutsBack
        <4>1. SameKinds
          BY <1>1, <3>2, Buffers
        <4> QED
          BY <1>1, <3>2, <4>1 DEF PutsBack, Done
      <3> QED
        BY <1>13, <3>1, <3>2
    <2>2. PICK set : SetEventFlag(worker.s, set)
      BY <1>13 DEF WriteEnds, PutsBack
    <2>3. \A v \in Sids : flags[v] \subseteq flags'[v]
      BY <1>1, <2>2 DEF SetEventFlag, Types, Control
    <2>4. \A v \in announced' : session'[v].kind = "exchanger"
      BY <1>1, <2>1 DEF SameKinds
    <2> QED
      BY <1>1, <2>1, <2>3, <2>4, WorkerMarks DEF SameKinds
  <1> QED
    BY <1>2, <1>3, <1>4, <1>5, <1>6, <1>7, <1>8, <1>9, <1>10, <1>11, <1>12, <1>13 DEF Work

\* The user's thread.
LEMMA UserKeeps ==
    ASSUME NeterInvariant, User
    PROVE  Kept'
  <1>1. /\ Types /\ flags \in [Sids -> SUBSET Flags]
        /\ user \in [pc : {"idle", "append", "add"}, s : Sids]
        /\ user.pc # "idle" => user.s \in announced /\ Known(user.s)
        /\ \A s \in announced : s \in Clients /\ session[s].kind = "exchanger"
        /\ Acceptor \in Sids
    BY DEF NeterInvariant, Serving, Types, Control, Named, Sids, Connecting
  <1> USE DEF poll, kernel, queue
  <1>2. ASSUME NEW s \in Clients, Sends(s)
        PROVE  Kept'
    <2>1. /\ s \in Sids /\ s \in announced /\ s \in container
          /\ UNCHANGED <<container, watched, edge, batch, toClose, tasks, worker, session, announced>>
          /\ user' = [pc |-> "append", s |-> s]
          /\ flags' = [flags EXCEPT ![s] = flags[s] \cup {"WRITE_READY"}]
      BY <1>2 DEF Sends, SetEventFlag, Sids
    <2>2. \A v \in Sids : flags[v] \subseteq flags'[v] /\ (v # s => flags'[v] = flags[v])
      BY <1>1, <2>1
    <2>3. Control'
      BY <2>1 DEF NeterInvariant, Serving, Types, Control
    <2>4. Connecting'
      <3>1. worker.pc = "connect" => worker.s # s /\ worker.s \in Sids
        BY <1>1, <2>1 DEF NeterInvariant, Connecting, Types, Control
      <3> QED
        BY <2>1, <2>2, <3>1 DEF NeterInvariant, Connecting
    <2>5. Listed'
      BY <2>1, <2>2 DEF NeterInvariant, Listed
    <2>6. Named'
      BY <1>1, <2>1, <2>2, StaysNamed DEF NeterInvariant, Named, Known, Types, Control
    <2> QED
      BY <2>3, <2>4, <2>5, <2>6 DEF Kept
  <1>3. ASSUME NEW s \in Clients, NEW state \in {"open", "connecting"}, Connects(s, state)
        PROVE  Kept'
    <2>1. /\ s \in Sids /\ session[s].kind = "none"
          /\ UNCHANGED <<batch, toClose, tasks, worker, user>>
          /\ container' = container \cup {s} /\ watched' = watched \cup {s}
          /\ edge' \in {edge, edge \cup {s}}
          /\ session' = [session EXCEPT ![s].kind = IF state = "open" THEN "exchanger" ELSE "connector"]
          /\ flags' = flags \/ flags' = [flags EXCEPT ![s] = flags[s] \cup {"WRITE_READY"}]
          /\ announced' = IF state = "open" THEN announced \cup {s} ELSE announced
      BY <1>3 DEF Connects, SetEventFlag, Watch, Unborn, Sids
    <2>2. \A v \in Sids : flags[v] \subseteq flags'[v] /\ (v # s => flags'[v] = flags[v])
      BY <1>1, <2>1
    <2>3. /\ DOMAIN session' = Clients
          /\ \A v \in Clients : "kind" \in DOMAIN session'[v]
          /\ \A v \in Clients : v # s => session'[v] = session[v]
          /\ state = "open" => session'[s].kind = "exchanger"
      BY <1>1, <2>1 DEF Types, Control
    <2>4. Control'
      BY <2>1, <2>3 DEF NeterInvariant, Serving, Types, Control
    <2>5. Connecting'
      <3>1. worker.pc = "connect" => worker.s # s /\ worker.s \in Sids /\ worker.s \in Clients
        BY <1>1, <2>1 DEF NeterInvariant, Connecting, Types, Control
      <3>2. \A v \in announced' : session'[v].kind = "exchanger"
        BY <1>1, <2>1, <2>3
      <3> QED
        BY <2>1, <2>2, <2>3, <3>1, <3>2 DEF NeterInvariant, Connecting
    <2>6. Listed'
      BY <2>1, <2>2 DEF NeterInvariant, Listed
    <2>7. Named'
      BY <1>1, <2>1, <2>2, StaysNamed DEF NeterInvariant, Named, Known, Types, Control
    <2> QED
      BY <2>4, <2>5, <2>6, <2>7 DEF Kept
  <1>4. CASE Appends
    <2>1. /\ UNCHANGED <<flags, container, watched, edge, batch, toClose, tasks, worker, announced>>
          /\ user' = [user EXCEPT !.pc = "add"] /\ user.pc = "append" /\ SameKinds
      BY <1>1, <1>4, Buffers DEF Appends
    <2>2. user' \in [pc : {"idle", "append", "add"}, s : Sids] /\ user'.s = user.s
      BY <1>1, <2>1
    <2>3. Control'
      BY <1>1, <2>1, <2>2 DEF NeterInvariant, Serving, Types, Control, SameKinds
    <2>4. Connecting'
      BY <1>1, <2>1 DEF NeterInvariant, Connecting, SameKinds, Types, Control
    <2>5. Listed' /\ Named'
      BY <1>1, <2>1, <2>2 DEF NeterInvariant, Listed, Named, Known
    <2> QED
      BY <2>3, <2>4, <2>5 DEF Kept
  <1>5. CASE Adds
    <2> DEFINE s == user.s
    <2>1. /\ UNCHANGED <<container, watched, edge, batch, toClose, worker, session, announced>>
          /\ user' = [pc |-> "idle", s |-> Acceptor]
          /\ s \in announced /\ s \in Clients /\ s \in Sids /\ Known(s)
          /\ TryAddWriteTask(s, {})
      BY <1>1, <1>5 DEF Adds, Sids
    <2>2. /\ \A k \in DOMAIN tasks' : (k \in DOMAIN tasks /\ tasks'[k] = tasks[k]) \/ tasks'[k][2] = s
          /\ \A v \in Sids : flags[v] \subseteq flags'[v]
      BY <2>1, TryingWrite DEF NeterInvariant
    <2>3. \A v \in Sids : v # s => flags'[v] = flags[v]
      BY <1>1, <2>1 DEF TryAddWriteTask, SetEventFlag
    <2> HIDE DEF s
    <2>4. Control'
      BY <1>1, <2>1 DEF NeterInvariant, Serving, Types, Control
    <2>5. Connecting'
      <3>1. worker.pc = "connect" => worker.s # s /\ worker.s \in Sids
        BY <1>1, <2>1 DEF NeterInvariant, Connecting, Types, Control
      <3> QED
        BY <2>1, <2>2, <2>3, <3>1 DEF NeterInvariant, Connecting
    <2>6. Listed'
      BY <2>1, <2>2 DEF NeterInvariant, Listed
    <2>7. Named'
      BY <1>1, <2>1, <2>2, StaysNamed DEF NeterInvariant, Named, Known, Types, Control
    <2> QED
      BY <2>4, <2>5, <2>6, <2>7 DEF Kept
  <1> QED
    BY <1>2, <1>3, <1>4, <1>5 DEF User

\* Every step keeps the invariant,
LEMMA NextKeeps == NeterInvariant /\ [Next]_vars => NeterInvariant'
  <1> SUFFICES ASSUME NeterInvariant, [Next]_vars
               PROVE  NeterInvariant'
    OBVIOUS
  <1>1. Served'
    BY NextServes DEF NeterInvariant
  <1>2. Kept'
    <2>1. CASE Poll
      BY <2>1, EpollKeeps, HandlersKeep, SweepKeeps DEF Poll
    <2> QED
      BY <2>1, PeerKeeps, WorkKeeps, UserKeeps DEF Next
  <1> QED
    BY <1>1, <1>2 DEF NeterInvariant, Serving, Types, Served, Control, Kept

\* and it holds at the start.
LEMMA InitKeeps == Init => NeterInvariant
  <1> SUFFICES ASSUME Init
               PROVE  NeterInvariant
    OBVIOUS
  <1>1. Types
    BY DEF Init, Types, Control, Sids, Labels, Flags
  <1>2. Granted /\ Counted
    <2>1. \A t : Cardinality(At(tasks, t)) = 0
      BY FS_EmptySet DEF Init, At
    <2> QED
      BY <2>1 DEF Init, Granted, Counted, One
  <1>3. Connecting /\ Listed /\ Named
    BY DEF Init, Connecting, Listed, Named, Known
  <1> QED
    BY <1>1, <1>2, <1>3 DEF NeterInvariant, Serving

\* The invariant is one of the specification.
THEOREM NeterAlways == Spec => []NeterInvariant
  BY InitKeeps, NextKeeps, PTL DEF Spec

(***************************************************************************)
(* Wait dereferences what it finds for the id of an event: it always finds *)
(* the session, since a session leaves epoll and the container together    *)
(* and only when all events at hand were handled.                          *)
(***************************************************************************)
THEOREM EventsAlwaysFind == Spec => []EventsFindSession
  <1>1. NeterInvariant => EventsFindSession
    BY DEF NeterInvariant, Listed, EventsFindSession
  <1> QED
    BY <1>1, NeterAlways, PTL

(***************************************************************************)
(* An open session has a task in the queue exactly if its flag says so,    *)
(* and never two, whichever of the three threads adds it.                  *)
(***************************************************************************)
THEOREM PendingAlwaysQueued == Spec => []PendingMeansQueued
  <1>1. NeterInvariant => PendingMeansQueued
    BY DEF NeterInvariant, Serving, Counted, PendingMeansQueued, Open, At, One, Pending
  <1> QED
    BY <1>1, NeterAlways, PTL

-----------------------------------------------------------------------------
(***************************************************************************)
(* For any number of sessions, messages and units: what a session sends    *)
(* leaves in order and without a gap, and nothing that has to be done for  *)
(* a session is forgotten.                                                 *)
(*                                                                         *)
(* Order: every step moves what is sent in one of four ways (Moves), with  *)
(* the messages in the hands of the thread that writes counted in front of *)
(* the list, and each way keeps it in order.                               *)
(*                                                                         *)
(* Nothing forgotten: whoever waits is named by an event epoll has or will *)
(* have, by a pending flag, or by the thread at work (InHand).  Of data to *)
(* send that takes more: with WRITE_READY set and no task, either the user *)
(* is about to add one, or the first room was not told of yet, or the      *)
(* kernel will tell of the next (Waits).                                   *)
(***************************************************************************)

\* What the thread that writes has in its hands of a session's messages.
Held(s) == IF worker.s = s THEN worker.list ELSE <<>>

(***************************************************************************)
(* Messages w wait of n that were appended, out went to the kernel and of  *)
(* the first that waits the units up to cur.                               *)
(***************************************************************************)
Ordered(w, n, out, cur) ==
    /\ \A k \in DOMAIN w : w[k] = n - Len(w) + k
    /\ \A k \in DOMAIN out : k = 1 => out[k] = <<1, 1>>
    /\ \A k \in DOMAIN out : k # 1 => out[k] = After(out[k - 1])
    /\ out = <<>> => <<n - Len(w) + 1, cur + 1>> = <<1, 1>>
    /\ out # <<>> => <<n - Len(w) + 1, cur + 1>> = After(out[Len(out)])

InOrder(c, list) == Ordered(list \o c.sendList, Len(c.appended), c.written, c.cursor)

\* A part of a message: its number and its place.
Unit == Nat \X Nat

\* A session's buffers.
Buffer(c) ==
    /\ DOMAIN c = {"kind", "readData", "sendList", "cursor", "appended", "written", "received"}
    /\ c.sendList \in Seq(Nat)
    /\ c.appended \in Seq(Nat)
    /\ c.written \in Seq(Unit)
    /\ c.cursor \in 0..(Size - 1)

\* The thread that writes holds messages only while it writes.
Hands ==
    /\ DOMAIN worker = {"pc", "s", "list", "errno", "got"}
    /\ worker.list \in Seq(Nat)
    /\ worker.pc \notin {"write", "putback"} => worker.list = <<>>

Sockets ==
    /\ DOMAIN socket = Clients
    /\ \A s \in Clients :
        /\ DOMAIN socket[s] = {"state", "inbox", "sent", "unread", "nospace"}
        /\ socket[s].unread \in 0..SendRoom

Shapes == Hands /\ Sockets /\ DOMAIN session = Clients /\ \A s \in Clients : Buffer(session[s])

Delivered == \A s \in Clients : "CLOSE_READY" \notin flags[s] => InOrder(session[s], Held(s))

-----------------------------------------------------------------------------
(* The ways in which what a session sends moves *)

SameSend(c, d) ==
    /\ d.sendList = c.sendList /\ d.appended = c.appended
    /\ d.written = c.written /\ d.cursor = c.cursor

\* A message is appended,
Grows(c, d) ==
    /\ d.sendList = Append(c.sendList, Len(c.appended) + 1)
    /\ d.appended = Append(c.appended, Len(c.appended) + 1)
    /\ d.written = c.written /\ d.cursor = c.cursor

\* the list goes into the hands of the thread that writes, or back,
Passes(c, list, d, held) ==
    /\ held \o d.sendList = list \o c.sendList
    /\ d.appended = c.appended /\ d.written = c.written /\ d.cursor = c.cursor

\* the kernel takes units of the first message in its hands.
Goes(c, list, d, held) ==
    /\ list # <<>>
    /\ \E count \in 1..(Size - c.cursor) :
        /\ d.sendList = c.sendList /\ d.appended = c.appended
        /\ d.written = c.written \o [k \in 1..count |-> <<list[1], c.cursor + k>>]
        /\ c.cursor + count = Size => held = Tail(list) /\ d.cursor = 0
        /\ c.cursor + count # Size => held = list /\ d.cursor = c.cursor + count

Moves(c, list, d, held) ==
    \/ held = list /\ (SameSend(c, d) \/ Grows(c, d))
    \/ Passes(c, list, d, held)
    \/ Goes(c, list, d, held)

\* What is in two sequences put together, in one without its head,
LEMMA ConcatAt ==
    ASSUME NEW S, NEW q \in Seq(S), NEW p \in Seq(S)
    PROVE  /\ q \o p \in Seq(S)
           /\ Len(q) \in Nat /\ Len(p) \in Nat
           /\ Len(q \o p) = Len(q) + Len(p)
           /\ DOMAIN (q \o p) = 1..(Len(q) + Len(p))
           /\ \A i \in 1..Len(q) : (q \o p)[i] = q[i]
           /\ \A i \in 1..Len(p) : (q \o p)[Len(q) + i] = p[i]
OBVIOUS

LEMMA TailAt ==
    ASSUME NEW S, NEW q \in Seq(S), q # <<>>
    PROVE  /\ Tail(q) \in Seq(S)
           /\ Len(q) \in Nat /\ Len(q) >= 1
           /\ Len(Tail(q)) = Len(q) - 1
           /\ DOMAIN Tail(q) = 1..(Len(q) - 1)
           /\ \A i \in 1..(Len(q) - 1) : Tail(q)[i] = q[i + 1]
OBVIOUS

\* and in one with one element more.
LEMMA AppendAt ==
    ASSUME NEW S, NEW q \in Seq(S), NEW x \in S
    PROVE  /\ Append(q, x) \in Seq(S)
           /\ Len(q) \in Nat
           /\ Len(Append(q, x)) = Len(q) + 1
           /\ DOMAIN Append(q, x) = 1..(Len(q) + 1)
           /\ \A i \in 1..Len(q) : Append(q, x)[i] = q[i]
           /\ Append(q, x)[Len(q) + 1] = x
OBVIOUS

LEMMA ConcatAppend ==
    ASSUME NEW p \in Seq(Nat), NEW q \in Seq(Nat), NEW x \in Nat
    PROVE  p \o Append(q, x) = Append(p \o q, x)
<1>1. p \o q \in Seq(Nat) /\ Append(q, x) \in Seq(Nat)
  BY AppendAt, ConcatAt
<1>2. /\ p \o Append(q, x) \in Seq(Nat) /\ Append(p \o q, x) \in Seq(Nat)
      /\ Len(p \o Append(q, x)) = Len(Append(p \o q, x))
  BY <1>1, AppendAt, ConcatAt
<1>3. ASSUME NEW i \in 1..Len(p \o Append(q, x))
      PROVE  (p \o Append(q, x))[i] = Append(p \o q, x)[i]
  OBVIOUS
<1> QED BY <1>2, <1>3, SeqEqual

\* One more message at the end of those that wait.
LEMMA OrderedGrows ==
    ASSUME NEW w \in Seq(Nat), NEW n \in Nat, NEW out, NEW cur, Ordered(w, n, out, cur)
    PROVE  Ordered(Append(w, n + 1), n + 1, out, cur)
<1> DEFINE v == Append(w, n + 1)
<1>1. /\ Len(v) = Len(w) + 1 /\ Len(w) \in Nat /\ DOMAIN v = 1..(Len(w) + 1) /\ DOMAIN w = 1..Len(w)
      /\ \A k \in DOMAIN w : v[k] = w[k]
      /\ v[Len(w) + 1] = n + 1
  BY AppendAt
<1> HIDE DEF v
<1>2. \A k \in DOMAIN v : v[k] = n + 1 - Len(v) + k
  <2> SUFFICES ASSUME NEW k \in DOMAIN v PROVE v[k] = n + 1 - Len(v) + k
    OBVIOUS
  <2>1. CASE k \in DOMAIN w
    BY <1>1, <2>1 DEF Ordered
  <2>2. CASE k \notin DOMAIN w
    BY <1>1, <2>2
  <2> QED BY <2>1, <2>2
<1>3. n + 1 - Len(v) + 1 = n - Len(w) + 1
  BY <1>1
<1>4. Ordered(v, n + 1, out, cur)
  BY <1>2, <1>3 DEF Ordered
<1> QED BY <1>4 DEF v

LEMMA PlaceAt ==
    ASSUME NEW k \in Nat, NEW l \in Nat, NEW count \in Nat, k > l + 1, k <= l + count
    PROVE  /\ k - l \in 1..count /\ (k - l) - 1 \in 1..count
           /\ l + (k - l) = k /\ l + ((k - l) - 1) = k - 1
OBVIOUS

\* Of the messages w, the kernel takes count units of the first, those
\* after cur, and then v waits from next on.
Takes(w, cur, count, add, v, next) ==
    /\ w # <<>> /\ cur + count <= Size
    /\ Len(add) = count
    /\ \A k \in 1..count : add[k] = <<w[1], cur + k>>
    /\ cur + count = Size => v = Tail(w) /\ next = 0
    /\ cur + count # Size => v = w /\ next = cur + count

LEMMA OrderedGoes ==
    ASSUME NEW w \in Seq(Nat), NEW n \in Nat, NEW out \in Seq(Unit), NEW cur \in Nat,
           NEW count \in Nat, count >= 1, NEW add \in Seq(Unit), NEW v, NEW next,
           Ordered(w, n, out, cur), Takes(w, cur, count, add, v, next)
    PROVE  Ordered(v, n, out \o add, next)
<1> DEFINE more == out \o add
           m == w[1]
<1>0. Size \in Nat /\ cur + count <= Size
  BY NeterAssumption DEF Takes
<1>1. /\ Len(w) \in Nat /\ Len(w) >= 1 /\ DOMAIN w = 1..Len(w) /\ 1 \in DOMAIN w
      /\ \A k \in DOMAIN w : w[k] = n - Len(w) + k
  <2> HIDE DEF more, m
  <2>1. w # <<>>
    BY DEF Takes
  <2>2. /\ Len(w) \in Nat /\ Len(w) >= 1 /\ DOMAIN w = 1..Len(w) /\ 1 \in DOMAIN w
    BY <2>1
  <2>3. \A k \in DOMAIN w : w[k] = n - Len(w) + k
    BY DEF Ordered
  <2> QED BY <2>2, <2>3
<1>2. m = n - Len(w) + 1
  BY <1>1
<1>3. /\ Len(more) = Len(out) + count /\ Len(out) \in Nat /\ DOMAIN more = 1..(Len(out) + count)
      /\ \A k \in 1..Len(out) : more[k] = out[k]
      /\ \A k \in 1..count : more[Len(out) + k] = add[k]
  <2>1. Len(add) = count
    BY DEF Takes
  <2>2. /\ Len(more) = Len(out) + Len(add) /\ Len(out) \in Nat
        /\ DOMAIN more = 1..(Len(out) + Len(add))
        /\ \A k \in 1..Len(out) : more[k] = out[k]
        /\ \A k \in 1..Len(add) : more[Len(out) + k] = add[k]
    BY ConcatAt
  <2> HIDE DEF more
  <2> QED BY <2>1, <2>2
<1>31. DOMAIN out = 1..Len(out) /\ (out = <<>> <=> Len(out) = 0)
  OBVIOUS
<1> HIDE DEF more, m
<1>4. \A k \in 1..count : more[Len(out) + k] = <<m, cur + k>>
  BY <1>3 DEF m, Takes
<1>5. /\ \A k \in DOMAIN v : v[k] = n - Len(v) + k
      /\ Len(v) = IF cur + count = Size THEN Len(w) - 1 ELSE Len(w)
  <2>1. CASE cur + count = Size
    <3>1. /\ Len(v) = Len(w) - 1 /\ DOMAIN v = 1..(Len(w) - 1)
          /\ \A k \in 1..(Len(w) - 1) : v[k] = w[k + 1]
      <4>1. v = Tail(w) /\ w # <<>>
        BY <2>1 DEF Takes
      <4> QED BY <4>1, TailAt
    <3>2. ASSUME NEW k \in 1..(Len(w) - 1) PROVE v[k] = n - Len(v) + k
      <4>1. k + 1 \in DOMAIN w
        BY <1>1
      <4>2. v[k] = n - Len(w) + (k + 1)
        BY <1>1, <3>1, <4>1
      <4> QED BY <1>1, <3>1, <4>2
    <3> QED BY <2>1, <3>1, <3>2
  <2>2. CASE cur + count # Size
    <3>1. v = w
      BY <2>2 DEF Takes
    <3> QED BY <1>1, <2>2, <3>1
  <2> QED BY <2>1, <2>2
<1>6. \A u, i : After(<<u, i>>) = IF i = Size THEN <<u + 1, 1>> ELSE <<u, i + 1>>
  BY DEF After
<1>7. \A k \in DOMAIN more : k = 1 => more[k] = <<1, 1>>
  <2>1. CASE out = <<>>
    <3>1. Len(out) = 0 /\ <<m, cur + 1>> = <<1, 1>>
      BY <1>2, <1>31, <2>1 DEF Ordered
    <3>2. 1 \in 1..count /\ Len(out) + 1 = 1
      BY <3>1
    <3>3. more[1] = <<m, cur + 1>>
      BY <1>4, <3>2
    <3> QED BY <3>1, <3>3
  <2>2. CASE out # <<>>
    <3>1. 1 \in DOMAIN out /\ 1 \in 1..Len(out)
      BY <1>3, <1>31, <2>2
    <3>2. out[1] = <<1, 1>>
      BY <3>1 DEF Ordered
    <3> QED BY <1>3, <3>1, <3>2
  <2> QED BY <2>1, <2>2
<1>8. ASSUME NEW k \in DOMAIN more, k # 1 PROVE more[k] = After(more[k - 1])
  <2>0. k \in Nat /\ k >= 2 /\ k <= Len(out) + count
    BY <1>3, <1>8
  <2>1. CASE k <= Len(out)
    <3>1. k \in 1..Len(out) /\ k - 1 \in 1..Len(out)
      BY <1>3, <2>0, <2>1
    <3> QED BY <1>3, <1>31, <1>8, <3>1 DEF Ordered
  <2>2. CASE k = Len(out) + 1
    <3>1. out # <<>> /\ Len(out) >= 1 /\ Len(out) \in 1..Len(out)
      BY <1>3, <1>31, <2>0, <2>2
    <3>2. <<m, cur + 1>> = After(out[Len(out)])
      BY <1>2, <3>1 DEF Ordered
    <3>3. more[k] = <<m, cur + 1>>
      <4>1. 1 \in 1..count
        OBVIOUS
      <4> QED BY <1>4, <2>2, <4>1
    <3>4. k - 1 = Len(out) /\ more[k - 1] = out[Len(out)]
      BY <1>3, <2>2, <3>1
    <3> QED BY <3>2, <3>3, <3>4
  <2>3. CASE k > Len(out) + 1
    <3> DEFINE j == k - Len(out)
    <3>1. /\ j \in 1..count /\ j - 1 \in 1..count /\ Len(out) + j = k
          /\ Len(out) + (j - 1) = k - 1
      BY <1>3, <2>0, <2>3, PlaceAt
    <3> HIDE DEF j
    <3>2. more[k] = <<m, cur + j>> /\ more[k - 1] = <<m, cur + (j - 1)>>
      BY <1>4, <3>1
    <3>3. cur + (j - 1) # Size /\ (cur + (j - 1)) + 1 = cur + j
      <4>1. j \in Nat /\ j <= count
        BY <3>1
      <4> QED BY <1>0, <4>1
    <3> DEFINE i == cur + (j - 1)
    <3>4. After(<<m, i>>) = <<m, i + 1>>
      <4> HIDE DEF i
      <4>1. i # Size
        BY <3>3 DEF i
      <4> QED BY <1>6, <4>1
    <3>5. more[k - 1] = <<m, i>> /\ more[k] = <<m, i + 1>>
      BY <3>2, <3>3
    <3> QED BY <3>4, <3>5
  <2>4. k <= Len(out) \/ k = Len(out) + 1 \/ k > Len(out) + 1
    BY <1>3, <2>0
  <2> QED BY <2>1, <2>2, <2>3, <2>4
<1>9. more # <<>> /\ <<n - Len(v) + 1, next + 1>> = After(more[Len(more)])
  <2>1. count \in 1..count /\ more # <<>>
    BY <1>3
  <2>2. more[Len(more)] = <<m, cur + count>>
    BY <1>3, <1>4, <2>1
  <2>3. CASE cur + count = Size
    <3>1. n - Len(v) + 1 = m + 1 /\ next + 1 = 1
      <4>1. next = 0
        BY <2>3 DEF Takes
      <4> QED BY <1>1, <1>2, <1>5, <2>3, <4>1
    <3> QED BY <1>6, <2>1, <2>2, <2>3, <3>1
  <2>4. CASE cur + count # Size
    <3>1. n - Len(v) + 1 = m /\ next + 1 = cur + count + 1
      <4>1. next = cur + count
        BY <2>4 DEF Takes
      <4> QED BY <1>1, <1>2, <1>5, <2>4, <4>1
    <3>2. After(<<m, cur + count>>) = <<m, cur + count + 1>>
      BY <1>6, <2>4
    <3> QED BY <2>1, <2>2, <3>1, <3>2
  <2> QED BY <2>3, <2>4
<1>10. Ordered(v, n, more, next)
  BY <1>5, <1>7, <1>8, <1>9 DEF Ordered
<1> QED BY <1>10 DEF more

\* Whatever moves, the order is kept.
LEMMA MovesInOrder ==
    ASSUME NEW c, Buffer(c), NEW list \in Seq(Nat), NEW d, NEW held,
           InOrder(c, list), Moves(c, list, d, held)
    PROVE  InOrder(d, held)
<1> DEFINE n == Len(c.appended)
           q == c.sendList
           w == list \o q
<1>0. /\ q \in Seq(Nat) /\ c.appended \in Seq(Nat) /\ n \in Nat /\ w \in Seq(Nat)
      /\ c.written \in Seq(Unit) /\ c.cursor \in Nat /\ c.cursor < Size /\ Size \in Nat
  BY NeterAssumption DEF Buffer
<1>1. Ordered(w, n, c.written, c.cursor)
  BY DEF InOrder
<1>2. CASE held = list /\ SameSend(c, d)
  BY <1>2 DEF SameSend, InOrder
<1>3. CASE held = list /\ Grows(c, d)
  <2>1. list \o Append(q, n + 1) = Append(w, n + 1)
    BY SMTT(40), <1>0, ConcatAppend
  <2>2. Len(Append(c.appended, n + 1)) = n + 1
    BY <1>0, AppendAt
  <2> HIDE DEF w
  <2>3. Ordered(Append(w, n + 1), n + 1, c.written, c.cursor)
    BY <1>0, <1>1, OrderedGrows
  <2> QED BY <1>3, <2>1, <2>2, <2>3 DEF InOrder, Grows
<1>4. CASE Passes(c, list, d, held)
  BY <1>4 DEF Passes, InOrder
<1>5. CASE Goes(c, list, d, held)
  <2>1. PICK count \in 1..(Size - c.cursor) :
            /\ d.sendList = q /\ d.appended = c.appended
            /\ d.written = c.written \o [k \in 1..count |-> <<list[1], c.cursor + k>>]
            /\ c.cursor + count = Size => held = Tail(list) /\ d.cursor = 0
            /\ c.cursor + count # Size => held = list /\ d.cursor = c.cursor + count
    BY <1>5 DEF Goes
  <2>2. list # <<>>
    BY <1>5 DEF Goes
  <2>3. w # <<>> /\ w[1] = list[1] /\ list[1] \in Nat
    <3>1. Len(list) >= 1 /\ 1 \in 1..Len(list)
      BY <2>2
    <3> QED BY <1>0, <3>1, ConcatAt
  <2>4. Tail(list) \o q = Tail(w)
    <3>1. Tail(list) \in Seq(Nat)
      BY <2>2, TailAt
    <3>2. Len(Tail(list) \o q) = Len(Tail(w)) /\ Tail(list) \o q \in Seq(Nat) /\ Tail(w) \in Seq(Nat)
      BY <1>0, <2>2, <2>3, <3>1, TailAt, ConcatAt
    <3>3. ASSUME NEW i \in 1..Len(Tail(w)) PROVE (Tail(list) \o q)[i] = Tail(w)[i]
      BY <1>0, <2>2, <2>3, <3>1, ConcatProperties, HeadTailProperties
    <3> QED BY <3>2, <3>3, SeqEqual
  <2> DEFINE v == held \o d.sendList
             add == [k \in 1..count |-> <<list[1], c.cursor + k>>]
  <2>5. /\ c.cursor + count = Size => v = Tail(w) /\ d.cursor = 0
        /\ c.cursor + count # Size => v = w /\ d.cursor = c.cursor + count
    BY <2>1, <2>4
  <2>6. count \in Nat /\ count >= 1 /\ c.cursor + count <= Size
    BY <1>0
  <2>7. add \in Seq(Unit) /\ Len(add) = count
    <3>1. add \in [1..count -> Unit]
      BY SMTT(40), <1>0, <2>3, <2>6 DEF Unit
    <3> HIDE DEF add
    <3> QED BY <2>6, <3>1
  <2>8. \A k \in 1..count : add[k] = <<w[1], c.cursor + k>>
    BY <2>3
  <2> HIDE DEF v, w, add
  <2>9. Takes(w, c.cursor, count, add, v, d.cursor)
    BY <2>3, <2>5, <2>6, <2>7, <2>8 DEF Takes
  <2>10. Ordered(v, n, c.written \o add, d.cursor)
    BY <1>0, <1>1, <2>6, <2>7, <2>9, OrderedGoes
  <2> QED BY <2>1, <2>10 DEF InOrder, v, add
<1> QED BY <1>2, <1>3, <1>4, <1>5 DEF Moves

-----------------------------------------------------------------------------
(* What every step does to what is sent *)

\* Once a session is closed it stays so.
LEMMA ClosedStays ==
    ASSUME NeterInvariant, [Next]_vars, NEW v \in Sids, "CLOSE_READY" \in flags[v]
    PROVE  "CLOSE_READY" \in flags'[v]
<1>0. flags \in [Sids -> SUBSET Flags]
  BY DEF NeterInvariant, Serving, Types
<1>1. ASSUME NEW s, NEW set, SetEventFlag(s, set) PROVE "CLOSE_READY" \in flags'[v]
  BY <1>0, <1>1 DEF SetEventFlag
<1>2. ASSUME NEW s, NEW set, TryAddReadTask(s, set) \/ TryAddWriteTask(s, set) \/ Close(s)
      PROVE "CLOSE_READY" \in flags'[v]
  BY <1>1, <1>2 DEF TryAddReadTask, TryAddWriteTask, Close
<1>3. CASE flags' = flags
  BY <1>3
<1>4. CASE Poll
  BY <1>2, <1>3, <1>4 DEF Poll, EpollWait, HandleIn, HandleOut, HandleError, Sweep
<1>5. CASE Take
  <2>1. flags' = flags \/ \E s, op : flags' = [flags EXCEPT ![s] = @ \ Cleared(op)]
    BY <1>5 DEF Take
  <2> QED BY <1>0, <2>1 DEF Cleared, Needed
<1>6. CASE Connected
  <2>1. PICK s : \/ flags' = [flags EXCEPT ![s] = flags[s] \ {"WRITE_READY"}]
                \/ flags' = [flags EXCEPT ![s] =
                        (flags[s] \ {"WRITE_READY"}) \cup {"WRITE_READY", "WRITE_PENDING"}]
    BY <1>6 DEF Connected
  <2> QED BY <1>0, <2>1
<1>7. CASE Deserialize
  BY <1>2, <1>3, <1>7 DEF Deserialize
<1>8. CASE Work
  BY <1>1, <1>2, <1>3, <1>5, <1>6, <1>7, <1>8
     DEF Work, FindsEmpty, FallsAsleep, Accepts, Inserts, AcceptAgain, AcceptFails, ReadGives, ReadEnds,
         ReadFails, ConnectFails, Swap, Writes, WriteEnds, WriteFails, WriteAgain, PutsBack
<1>9. CASE User
  BY <1>1, <1>2, <1>3, <1>9 DEF User, Connects, Sends, Appends, Adds
<1>10. CASE Peer \/ WakesSpuriously \/ UNCHANGED vars
  BY <1>3, <1>10 DEF Peer, PeerConnects, PeerSends, PeerReads, PeerActs, KernelStep, WakesSpuriously, vars
<1> QED BY <1>4, <1>8, <1>9, <1>10 DEF Next

\* What the thread has in its hands stays there,
Stays == Hands' /\ \A s \in Clients : Held(s)' = Held(s)

\* what sessions send stays as it is,
Rests ==
    /\ DOMAIN session' = Clients
    /\ \A s \in Clients : Buffer(session'[s]) /\ SameSend(session[s], session'[s])

Moved(s) == "CLOSE_READY" \in flags'[s] \/ Moves(session[s], Held(s), session'[s], Held(s)')

\* sockets keep their shape.
MovesOnly == Shapes' /\ \A s \in Clients : Moved(s)

LEMMA RestsMove ==
    ASSUME Stays, Rests, Sockets'
    PROVE  MovesOnly
BY DEF Stays, Rests, MovesOnly, Shapes, Moved, Moves

LEMMA SameRests ==
    ASSUME Shapes, session' = session
    PROVE  Rests
BY DEF Shapes, Rests, SameSend

LEMMA HandsEmpty ==
    ASSUME Hands, worker.pc \notin {"write", "putback"},
           DOMAIN worker' = {"pc", "s", "list", "errno", "got"}, worker'.list = <<>>
    PROVE  Stays
BY DEF Hands, Stays, Held

LEMMA DoneHands ==
    ASSUME Hands, NEW e, Done(e), worker.pc \notin {"write", "putback"} \/ worker.list = <<>>
    PROVE  Stays
<1>1. DOMAIN worker' = {"pc", "s", "list", "errno", "got"} /\ worker'.list = <<>> /\ worker.list = <<>>
  BY DEF Done, Hands
<1> QED BY <1>1 DEF Hands, Stays, Held

\* What the kernel and the peers do leaves the buffers alone.
LEMMA PeerMoves ==
    ASSUME NeterInvariant, Shapes, Peer \/ WakesSpuriously \/ UNCHANGED vars
    PROVE  MovesOnly
<1>1. session' = session /\ worker' = worker
  BY DEF Peer, PeerConnects, PeerSends, PeerReads, PeerActs, KernelStep, WakesSpuriously, vars
<1>2. Stays
  BY <1>1 DEF Stays, Shapes, Hands, Held
<1>3. SendRoom \in Nat
  BY NeterAssumption
<1>4. Sockets'
  <2>1. CASE socket' = socket
    BY <2>1 DEF Shapes, Sockets
  <2>2. ASSUME NEW s \in Clients, PeerSends(s) PROVE Sockets'
    BY <2>2 DEF Shapes, Sockets, PeerSends
  <2>3. ASSUME NEW s \in Clients, PeerReads(s) PROVE Sockets'
    BY <1>3, <2>3 DEF Shapes, Sockets, PeerReads
  <2>4. ASSUME NEW s \in Clients, NEW from, NEW to, PeerActs(s, from, to) PROVE Sockets'
    BY <2>4 DEF Shapes, Sockets, PeerActs
  <2>5. watched \ {Acceptor} \subseteq Clients
    BY DEF NeterInvariant, Serving, Types, Control, Sids
  <2> QED BY <2>1, <2>2, <2>3, <2>4, <2>5 DEF Peer, PeerConnects, KernelStep, WakesSpuriously, vars, kernel
<1> QED BY <1>1, <1>2, <1>4, SameRests, RestsMove

LEMMA PollMoves ==
    ASSUME Shapes, Poll
    PROVE  MovesOnly
<1>1. session' = session /\ worker' = worker /\ socket' = socket
  BY DEF Poll, EpollWait, HandleIn, HandleOut, HandleError, HandleEvent, Sweep, kernel
<1>2. Stays /\ Sockets'
  BY <1>1 DEF Stays, Shapes, Hands, Held, Sockets
<1> QED BY <1>1, <1>2, SameRests, RestsMove
\* The record of a session with other readData or another kind.
LEMMA BufferKeeps ==
    ASSUME NEW c, Buffer(c)
    PROVE  /\ \A x : LET d == [c EXCEPT !.kind = x] IN Buffer(d) /\ SameSend(c, d)
           /\ \A x : LET d == [c EXCEPT !.readData = x] IN Buffer(d) /\ SameSend(c, d)
           /\ \A x, y : LET d == [c EXCEPT !.readData = x, !.received = y] IN Buffer(d) /\ SameSend(c, d)
BY DEF Buffer, SameSend

LEMMA MessageGrows ==
    ASSUME NEW c, NEW d, Buffer(c), Buffer(d), SameSend(c, d)
    PROVE  Buffer(WithMessage(d)) /\ Grows(c, WithMessage(d))
<1> DEFINE n == Len(d.appended) + 1
<1>1. /\ n \in Nat /\ Append(d.appended, n) \in Seq(Nat) /\ Append(d.sendList, n) \in Seq(Nat)
  BY AppendAt DEF Buffer
<1>2. WithMessage(d) = [d EXCEPT !.sendList = Append(d.sendList, n), !.appended = Append(d.appended, n)]
  BY DEF WithMessage, Buffer
<1> HIDE DEF n
<1>3. Buffer(WithMessage(d))
  BY <1>1, <1>2 DEF Buffer
<1>4. Grows(c, WithMessage(d))
  BY <1>2 DEF Buffer, Grows, SameSend, n
<1> QED BY <1>3, <1>4

\* One session changes and the others keep what they have.
LEMMA OneChanges ==
    ASSUME Shapes, NEW s \in Clients, NEW d, session' = [session EXCEPT ![s] = d],
           Buffer(d), Stays, Sockets', SameSend(session[s], d) \/ Grows(session[s], d)
    PROVE  MovesOnly
<1>1. /\ DOMAIN session' = Clients /\ session'[s] = d
      /\ \A v \in Clients : v # s => session'[v] = session[v]
  BY DEF Shapes
<1>2. Shapes'
  BY <1>1 DEF Shapes, Stays
<1>3. ASSUME NEW v \in Clients PROVE Moved(v)
  BY <1>1 DEF Stays, Moved, Moves, SameSend
<1> QED BY <1>2, <1>3 DEF MovesOnly

LEMMA UserMoves ==
    ASSUME NeterInvariant, Shapes, User
    PROVE  MovesOnly
<1>0. DOMAIN session = Clients /\ DOMAIN socket = Clients /\ Hands /\ Sockets
      /\ \A s \in Clients : Buffer(session[s])
  BY DEF Shapes, Sockets
<1>1. worker' = worker
  BY DEF User, Sends, Connects, Appends, Adds
<1>2. Stays
  BY <1>0, <1>1 DEF Stays, Hands, Held
<1>3. ASSUME NEW s \in Clients, NEW state, Connects(s, state) PROVE MovesOnly
  <2>1. PICK x : session' = [session EXCEPT ![s].kind = x] /\ socket' = [socket EXCEPT ![s].state = state]
    BY <1>3 DEF Connects
  <2>2. Sockets'
    BY <1>0, <2>1 DEF Sockets
  <2>3. session' = [session EXCEPT ![s] = [session[s] EXCEPT !.kind = x]]
    BY <1>0, <2>1
  <2> QED BY <1>0, <1>2, <2>2, <2>3, BufferKeeps, OneChanges
<1>4. CASE Appends
  <2>1. user.s \in Clients /\ socket' = socket
    BY <1>4 DEF NeterInvariant, Serving, Types, Control, Appends, kernel
  <2>2. session' = [session EXCEPT ![user.s] = WithMessage(session[user.s])]
    BY <1>0, <1>4 DEF Appends
  <2>3. Sockets'
    BY <1>0, <2>1 DEF Sockets
  <2>4. Buffer(session[user.s]) /\ SameSend(session[user.s], session[user.s])
    BY <1>0, <2>1 DEF SameSend
  <2> QED BY <1>2, <2>1, <2>2, <2>3, <2>4, MessageGrows, OneChanges
<1>5. CASE session' = session /\ socket' = socket
  <2>1. Sockets'
    BY <1>0, <1>5 DEF Sockets
  <2> QED BY <1>2, <1>5, <2>1, SameRests, RestsMove
<1>6. ASSUME NEW s \in Clients, Sends(s) PROVE session' = session /\ socket' = socket
  BY <1>6 DEF Sends, kernel
<1>7. ASSUME Adds PROVE session' = session /\ socket' = socket
  BY <1>7 DEF Adds, kernel
<1> QED BY <1>3, <1>4, <1>5, <1>6, <1>7 DEF User
\* The thread that reads and writes, where it leaves what is sent alone,
LEMMA WorkRests ==
    ASSUME NeterInvariant, Shapes,
           \/ FindsEmpty \/ FallsAsleep \/ Take \/ Inserts \/ AcceptAgain \/ AcceptFails
           \/ ReadEnds \/ ReadFails \/ ConnectFails \/ WriteEnds
    PROVE  MovesOnly
<1>0. Hands /\ Sockets
  BY DEF Shapes
<1>1. session' = session /\ socket' = socket
  BY DEF FindsEmpty, FallsAsleep, Take, Inserts, AcceptAgain, AcceptFails, ReadEnds, ReadFails,
         ConnectFails, WriteEnds, kernel
<1>2. Sockets'
  BY <1>0, <1>1 DEF Sockets
<1>3. Stays
  <2>1. CASE FindsEmpty \/ FallsAsleep
    <3>1. worker' = worker
      BY <2>1 DEF FindsEmpty, FallsAsleep
    <3> QED BY <1>0, <3>1 DEF Stays, Hands, Held
  <2>2. CASE Take
    <3>1. worker' = worker \/ \E x, y : worker' = [worker EXCEPT !.pc = x, !.s = y, !.got = FALSE]
      BY <2>2 DEF Take
    <3>2. worker.pc = "idle"
      BY <2>2 DEF Take
    <3>3. DOMAIN worker' = DOMAIN worker /\ worker'.list = <<>>
      BY <1>0, <3>1, <3>2 DEF Hands
    <3> QED BY <1>0, <3>2, <3>3, HandsEmpty DEF Hands
  <2>3. CASE Inserts
    <3>1. worker.pc = "insert" /\ worker' = [worker EXCEPT !.pc = "accept"]
      BY <2>3 DEF Inserts, Goto
    <3> QED BY <1>0, <3>1, HandsEmpty DEF Hands
  <2>4. CASE AcceptAgain \/ AcceptFails \/ ReadFails \/ ConnectFails \/ WriteEnds
    <3>1. \E e : Done(e)
      BY <2>4 DEF AcceptAgain, AcceptFails, ReadFails, ConnectFails, WriteEnds
    <3>2. worker.pc \notin {"write", "putback"} \/ worker.list = <<>>
      BY <2>4 DEF AcceptAgain, AcceptFails, ReadFails, ConnectFails, WriteEnds
    <3> QED BY <1>0, <3>1, <3>2, DoneHands
  <2>5. CASE ReadEnds
    <3>1. worker.pc = "read" /\ (Done("EAGAIN")
             \/ worker' = [worker EXCEPT !.pc = "deserialize", !.errno = "EAGAIN"])
      BY <2>5 DEF ReadEnds
    <3>2. CASE worker' = [worker EXCEPT !.pc = "deserialize", !.errno = "EAGAIN"]
      <4>1. DOMAIN worker' = DOMAIN worker /\ worker'.list = <<>>
        BY <1>0, <3>1, <3>2 DEF Hands
      <4> QED BY <1>0, <3>1, <4>1, HandsEmpty DEF Hands
    <3> QED BY <1>0, <3>1, <3>2, DoneHands
  <2> QED BY <2>1, <2>2, <2>3, <2>4, <2>5
<1> QED BY <1>1, <1>2, <1>3, SameRests, RestsMove

\* accepts, reads or connects a session,
LEMMA WorkReads ==
    ASSUME NeterInvariant, Shapes,
           (\E s \in Clients : Accepts(s)) \/ ReadGives \/ Deserialize \/ Connected
    PROVE  MovesOnly
<1>0. DOMAIN session = Clients /\ DOMAIN socket = Clients /\ Hands /\ Sockets
      /\ \A s \in Clients : Buffer(session[s])
  BY DEF Shapes, Sockets
<1>01. worker.pc \notin {"idle", "accept"} => worker.s \in Clients
  BY DEF NeterInvariant, Serving, Types, Control
<1>1. ASSUME NEW s \in Clients, Accepts(s) PROVE MovesOnly
  <2>1. /\ session' = [session EXCEPT ![s] = [session[s] EXCEPT !.kind = "exchanger"]]
        /\ socket' = [socket EXCEPT ![s].state = "open"]
        /\ worker' = [worker EXCEPT !.pc = "insert", !.s = s] /\ worker.pc = "accept"
    BY <1>0, <1>1 DEF Accepts
  <2>2. Sockets'
    BY <1>0, <2>1 DEF Sockets
  <2>3. Stays
    <3>1. DOMAIN worker' = DOMAIN worker /\ worker'.list = <<>>
      BY <1>0, <2>1 DEF Hands
    <3> QED BY <1>0, <2>1, <3>1, HandsEmpty DEF Hands
  <2> QED BY <1>0, <2>1, <2>2, <2>3, BufferKeeps, OneChanges
<1>2. CASE ReadGives
  <2>1. worker.s \in Clients /\ worker.pc = "read"
    BY <1>01, <1>2 DEF ReadGives
  <2>2. PICK x : /\ session' = [session EXCEPT ![worker.s].readData = x]
                 /\ socket' = [socket EXCEPT ![worker.s].inbox = <<>>]
                 /\ worker' = [worker EXCEPT !.got = TRUE]
    BY <1>0, <1>2, <2>1 DEF ReadGives
  <2>3. Sockets'
    BY <1>0, <2>1, <2>2 DEF Sockets
  <2>4. Stays
    <3>1. DOMAIN worker' = DOMAIN worker /\ worker'.list = <<>>
      BY <1>0, <2>1, <2>2 DEF Hands
    <3> QED BY <1>0, <2>1, <3>1, HandsEmpty DEF Hands
  <2>5. session' = [session EXCEPT ![worker.s] = [session[worker.s] EXCEPT !.readData = x]]
    BY <1>0, <2>1, <2>2
  <2> QED BY <1>0, <2>1, <2>3, <2>4, <2>5, BufferKeeps, OneChanges
<1>3. CASE Deserialize
  <2> DEFINE s == worker.s
             result == Generate[session[s].readData]
             read == [session[s] EXCEPT !.readData = result.left, !.received = @ \o result.given]
  <2>1. s \in Clients /\ worker.pc = "deserialize" /\ Done(worker.errno) /\ socket' = socket
    BY <1>01, <1>3 DEF Deserialize, kernel
  <2>2. session' = [session EXCEPT ![s] = WithMessage(read)] \/ session' = [session EXCEPT ![s] = read]
    BY <1>3 DEF Deserialize
  <2>3. PICK x, y : read = [session[s] EXCEPT !.readData = x, !.received = y]
    BY <1>0, <2>1
  <2> HIDE DEF read
  <2>4. Buffer(read) /\ SameSend(session[s], read)
    BY <1>0, <2>1, <2>3, BufferKeeps
  <2>5. Buffer(WithMessage(read)) /\ Grows(session[s], WithMessage(read))
    BY <1>0, <2>1, <2>4, MessageGrows
  <2>6. Stays
    BY <1>0, <2>1, DoneHands
  <2>7. Sockets'
    BY <1>0, <2>1 DEF Sockets
  <2> QED BY <2>1, <2>2, <2>4, <2>5, <2>6, <2>7, OneChanges
<1>4. CASE Connected
  <2> DEFINE s == worker.s
             open == [session[s] EXCEPT !.kind = "exchanger"]
  <2>1. s \in Clients /\ worker.pc = "connect" /\ Done(worker.errno) /\ socket' = socket
    BY <1>01, <1>4 DEF Connected, kernel
  <2>2. session' = [session EXCEPT ![s] = WithMessage(open)] \/ session' = [session EXCEPT ![s] = open]
    BY <1>4 DEF Connected
  <2>3. Buffer(open) /\ SameSend(session[s], open)
    BY <1>0, <2>1, BufferKeeps
  <2> HIDE DEF open
  <2>5. Buffer(WithMessage(open)) /\ Grows(session[s], WithMessage(open))
    BY <1>0, <2>1, <2>3, MessageGrows
  <2>6. Stays
    BY <1>0, <2>1, DoneHands
  <2>7. Sockets'
    BY <1>0, <2>1 DEF Sockets
  <2> QED BY <2>1, <2>2, <2>3, <2>5, <2>6, <2>7, OneChanges
<1> QED BY <1>1, <1>2, <1>3, <1>4
\* Min of two.
LEMMA MinTwo ==
    ASSUME NEW a \in Int, NEW b \in Int
    PROVE  Min({a, b}) \in Int /\ Min({a, b}) <= a /\ Min({a, b}) <= b
<1>1. \E x \in {a, b} : \A y \in {a, b} : x <= y
  <2>1. CASE a <= b
    BY <2>1
  <2>2. CASE ~ (a <= b)
    <3>1. b <= a /\ b <= b
      BY <2>2
    <3> QED BY <3>1
  <2> QED BY <2>1, <2>2
<1>2. Min({a, b}) \in {a, b} /\ \A y \in {a, b} : Min({a, b}) <= y
  BY <1>1 DEF Min
<1> QED BY <1>2

\* One session moves, with the thread at work for it.
LEMMA WorkerMovesOne ==
    ASSUME NeterInvariant, Shapes, Hands', Sockets', worker.pc \in {"swap", "write", "putback"},
           NEW d, session' = [session EXCEPT ![worker.s] = d], Buffer(d),
           NEW held, held = IF worker'.s = worker.s THEN worker'.list ELSE <<>>,
           worker'.s # worker.s => worker'.s \notin Clients,
           Moves(session[worker.s], worker.list, d, held)
    PROVE  MovesOnly
<1>0. worker.s \in Clients
  BY DEF NeterInvariant, Serving, Types, Control
<1>1. /\ DOMAIN session' = Clients /\ session'[worker.s] = d
      /\ \A v \in Clients : v # worker.s => session'[v] = session[v]
  BY <1>0 DEF Shapes
<1>2. Shapes'
  BY <1>1 DEF Shapes
<1>3. ASSUME NEW v \in Clients PROVE Moved(v)
  <2>1. CASE v = worker.s
    <3>1. Held(v) = worker.list /\ Held(v)' = held
      BY <2>1 DEF Held
    <3> QED BY <1>1, <2>1, <3>1 DEF Moved
  <2>2. CASE v # worker.s
    <3>1. Held(v) = <<>> /\ Held(v)' = <<>>
      BY <2>2 DEF Held
    <3> QED BY <1>1, <2>2, <3>1 DEF Moved, Moves, SameSend
  <2> QED BY <2>1, <2>2
<1> QED BY <1>2, <1>3 DEF MovesOnly

\* and writes.
LEMMA WorkWrites ==
    ASSUME NeterInvariant, Shapes, Swap \/ Writes \/ WriteAgain \/ WriteFails \/ PutsBack
    PROVE  MovesOnly
<1> DEFINE s == worker.s
           c == session[s]
<1>0. /\ DOMAIN session = Clients /\ DOMAIN socket = Clients /\ Hands /\ Sockets
      /\ \A v \in Clients : Buffer(session[v])
      /\ worker.list \in Seq(Nat) /\ DOMAIN worker = {"pc", "s", "list", "errno", "got"}
  BY DEF Shapes, Sockets, Hands
<1>01. worker.pc \in {"swap", "write", "putback"} /\ s \in Clients /\ Acceptor \notin Clients
  BY NeterAssumption DEF NeterInvariant, Serving, Types, Control, Swap, Writes, WriteAgain, WriteFails, PutsBack
<1>02. Buffer(c) /\ c.sendList \in Seq(Nat)
  BY <1>0, <1>01 DEF Buffer
<1>1. CASE Swap
  <2> DEFINE d == [c EXCEPT !.sendList = <<>>]
  <2>1. /\ worker' = [worker EXCEPT !.pc = "write", !.list = c.sendList] /\ worker.pc = "swap"
        /\ session' = [session EXCEPT ![s] = d] /\ socket' = socket
    BY <1>0, <1>01, <1>1 DEF Swap, kernel
  <2>2. Sockets' /\ Hands' /\ worker'.s = s /\ worker'.list = c.sendList /\ worker.list = <<>>
    BY <1>0, <1>02, <2>1 DEF Sockets, Hands
  <2>3. Buffer(d) /\ d.sendList = <<>> /\ d.appended = c.appended /\ d.written = c.written
        /\ d.cursor = c.cursor
    BY <1>02 DEF Buffer
  <2>4. Passes(c, <<>>, d, c.sendList)
    <3>1. c.sendList \o <<>> = <<>> \o c.sendList
      BY <1>02, ConcatEmptySeq
    <3> QED BY <2>3, <3>1 DEF Passes
  <2> HIDE DEF d
  <2>5. /\ c.sendList = IF worker'.s = s THEN worker'.list ELSE <<>>
        /\ worker'.s # s => worker'.s \notin Clients
    BY <2>2
  <2>6. Moves(c, worker.list, d, c.sendList)
    BY <2>2, <2>4 DEF Moves
  <2> QED BY <1>01, <2>1, <2>2, <2>3, <2>5, <2>6, WorkerMovesOne
<1>2. CASE PutsBack
  <2> DEFINE d == [c EXCEPT !.sendList = worker.list \o c.sendList]
  <2>1. /\ Done(worker.errno) /\ worker.pc = "putback"
        /\ session' = [session EXCEPT ![s] = d] /\ socket' = socket
    BY <1>0, <1>01, <1>2 DEF PutsBack, kernel
  <2>2. Sockets' /\ Hands' /\ worker'.s = Acceptor
    BY <1>0, <2>1 DEF Sockets, Hands, Done
  <2>3. Buffer(d) /\ d.sendList = worker.list \o c.sendList /\ d.appended = c.appended
        /\ d.written = c.written /\ d.cursor = c.cursor
    BY <1>0, <1>02, ConcatAt DEF Buffer
  <2>4. Passes(c, worker.list, d, <<>>)
    <3>1. d.sendList \in Seq(Nat)
      BY <2>3 DEF Buffer
    <3>2. <<>> \o d.sendList = d.sendList
      BY <3>1, ConcatEmptySeq
    <3> QED BY <2>3, <3>2 DEF Passes
  <2> HIDE DEF d
  <2>5. /\ <<>> = IF worker'.s = s THEN worker'.list ELSE <<>>
        /\ worker'.s # s => worker'.s \notin Clients
    BY <1>01, <2>2
  <2>6. Moves(c, worker.list, d, <<>>)
    BY <2>4 DEF Moves
  <2> QED BY <1>01, <2>1, <2>2, <2>3, <2>5, <2>6, WorkerMovesOne
<1>3. CASE WriteAgain
  <2>1. /\ session' = session /\ socket' = [socket EXCEPT ![s].nospace = TRUE]
        /\ worker' = [worker EXCEPT !.pc = "putback", !.errno = "EAGAIN"]
    BY <1>3 DEF WriteAgain
  <2>2. Sockets'
    BY <1>0, <1>01, <2>1 DEF Sockets
  <2>3. Stays
    BY <1>0, <2>1 DEF Stays, Hands, Held
  <2> QED BY <2>1, <2>2, <2>3, SameRests, RestsMove
<1>4. CASE WriteFails
  <2>1. /\ session' = session /\ socket' = socket /\ Done("other") /\ SetEventFlag(s, {"CLOSE_READY"})
    BY <1>4 DEF WriteFails, Close, kernel
  <2>2. Sockets' /\ Hands'
    BY <1>0, <2>1 DEF Sockets, Hands, Done
  <2>3. Shapes'
    BY <1>0, <2>1, <2>2 DEF Shapes
  <2>4. ASSUME NEW v \in Clients PROVE Moved(v)
    <3>1. CASE v = s
      <4>1. "CLOSE_READY" \in flags'[v]
        BY <1>01, <2>1, <3>1 DEF SetEventFlag, NeterInvariant, Serving, Types, Sids
      <4> QED BY <4>1 DEF Moved
    <3>2. CASE v # s
      <4>1. Held(v) = <<>> /\ Held(v)' = <<>>
        BY <1>01, <2>1, <3>2 DEF Held, Done
      <4> QED BY <2>1, <4>1 DEF Moved, Moves, SameSend
    <3> QED BY <3>1, <3>2
  <2> QED BY <2>3, <2>4 DEF MovesOnly
<1>5. CASE Writes
  <2> DEFINE unread == socket[s].unread
             count == Min({SendRoom - unread, Size - c.cursor})
             whole == c.cursor + count = Size
             add == [k \in 1..count |-> <<Head(worker.list), c.cursor + k>>]
             d == [c EXCEPT !.cursor = IF whole THEN 0 ELSE c.cursor + count,
                            !.written = c.written \o add]
             held == IF whole THEN Tail(worker.list) ELSE worker.list
  <2>1. /\ worker.pc = "write" /\ worker.list # <<>> /\ count > 0
        /\ session' = [session EXCEPT ![s] = d]
        /\ socket' = [socket EXCEPT ![s].unread = unread + count]
        /\ worker' = [worker EXCEPT !.list = held]
    BY <1>0, <1>01, <1>5 DEF Writes
  <2>2. /\ Size \in Nat /\ SendRoom \in Nat /\ unread \in 0..SendRoom /\ c.cursor \in 0..(Size - 1)
    BY <1>0, <1>01, <1>02, NeterAssumption DEF Buffer, Sockets
  <2>3. /\ count \in Int /\ count <= SendRoom - unread /\ count <= Size - c.cursor
    <3>1. SendRoom - unread \in Int /\ Size - c.cursor \in Int
      BY <2>2
    <3> HIDE DEF unread
    <3> QED BY <3>1, MinTwo
  <2> HIDE DEF count
  <2>4. /\ count \in 1..(Size - c.cursor) /\ unread + count \in 0..SendRoom
    BY SMTT(40), <2>1, <2>2, <2>3
  <2>5. Sockets'
    BY <1>0, <1>01, <2>1, <2>4 DEF Sockets
  <2>6. held \in Seq(Nat)
    BY <1>0, <2>1, TailAt
  <2>7. Head(worker.list) \in Nat /\ worker.list[1] = Head(worker.list)
    BY <1>0, <2>1
  <2> HIDE DEF held, unread
  <2>8. Hands' /\ worker'.s = s /\ worker'.list = held
    BY <1>0, <2>1, <2>6 DEF Hands
  <2>9. add \in Seq(Unit)
    <3>1. add \in [1..count -> Unit] /\ count \in Nat
      BY <2>2, <2>4, <2>7 DEF Unit
    <3> HIDE DEF add
    <3> QED BY <3>1
  <2>10. Buffer(d) /\ Goes(c, worker.list, d, held)
    <3> DEFINE out == c.written \o add
               cursor == IF whole THEN 0 ELSE c.cursor + count
    <3>1. out \in Seq(Unit)
      BY <1>02, <2>9, ConcatAt DEF Buffer
    <3>2. cursor \in 0..(Size - 1)
      BY <2>2, <2>4
    <3>3. add = [k \in 1..count |-> <<worker.list[1], c.cursor + k>>]
      BY <2>7
    <3> HIDE DEF add, out, cursor
    <3>4. Buffer(d)
      BY <1>02, <3>1, <3>2 DEF Buffer, out, cursor
    <3>5. /\ d.sendList = c.sendList /\ d.appended = c.appended
          /\ d.written = out /\ d.cursor = cursor
      BY <1>02 DEF Buffer, out, cursor
    <3>6. /\ c.cursor + count = Size => held = Tail(worker.list) /\ cursor = 0
          /\ c.cursor + count # Size => held = worker.list /\ cursor = c.cursor + count
      BY DEF held, cursor
    <3> HIDE DEF d
    <3>7. Goes(c, worker.list, d, held)
      BY <2>1, <2>4, <3>3, <3>5, <3>6 DEF Goes, out
    <3> QED BY <3>4, <3>7
  <2> HIDE DEF d
  <2>11. Moves(c, worker.list, d, held)
    BY <2>10 DEF Moves
  <2> QED BY <1>01, <2>1, <2>5, <2>8, <2>10, <2>11, WorkerMovesOne
<1> QED BY <1>1, <1>2, <1>3, <1>4, <1>5

\* Every step moves what is sent in one of those ways.
LEMMA NextMoves ==
    ASSUME NeterInvariant, Shapes, [Next]_vars
    PROVE  MovesOnly
<1>1. CASE Work
  BY <1>1, WorkRests, WorkReads, WorkWrites DEF Work
<1> QED BY <1>1, PeerMoves, PollMoves, UserMoves DEF Next

LEMMA DeliveredKept == NeterInvariant /\ Shapes /\ Delivered /\ [Next]_vars => (Shapes /\ Delivered)'
<1> SUFFICES ASSUME NeterInvariant, Shapes, Delivered, [Next]_vars PROVE (Shapes /\ Delivered)'
  OBVIOUS
<1>1. Shapes' /\ \A s \in Clients : Moved(s)
  BY NextMoves DEF MovesOnly
<1>2. ASSUME NEW s \in Clients, "CLOSE_READY" \notin flags'[s] PROVE InOrder(session'[s], Held(s)')
  <2>1. "CLOSE_READY" \notin flags[s] /\ s \in Sids
    BY <1>2, ClosedStays DEF Sids
  <2>2. InOrder(session[s], Held(s)) /\ Buffer(session[s]) /\ Held(s) \in Seq(Nat)
    BY <2>1 DEF Delivered, Shapes, Hands, Held
  <2>3. Moves(session[s], Held(s), session'[s], Held(s)')
    BY <1>1, <1>2 DEF Moved
  <2> QED BY <2>2, <2>3, MovesInOrder
<1> QED BY <1>1, <1>2 DEF Delivered

LEMMA DeliveredAtStart == Init => Shapes /\ Delivered
<1> SUFFICES ASSUME Init PROVE Shapes /\ Delivered
  OBVIOUS
<1>0. SendRoom \in Nat /\ Size \in Nat \ {0}
  BY NeterAssumption
<1>1. Hands /\ Sockets
  BY <1>0 DEF Init, Hands, Sockets
<1>2. ASSUME NEW s \in Clients
      PROVE  /\ DOMAIN session[s] = {"kind", "readData", "sendList", "cursor", "appended", "written", "received"}
             /\ session[s].sendList = <<>> /\ session[s].appended = <<>> /\ session[s].written = <<>>
             /\ session[s].cursor = 0
  BY DEF Init
<1>3. ASSUME NEW s \in Clients PROVE Buffer(session[s])
  <2>1. <<>> \in Seq(Nat) /\ <<>> \in Seq(Unit) /\ 0 \in 0..(Size - 1)
    BY <1>0
  <2> QED BY <1>2, <2>1 DEF Buffer
<1>4. ASSUME NEW s \in Clients PROVE InOrder(session[s], Held(s))
  <2>1. Held(s) = <<>>
    BY DEF Init, Held
  <2>2. <<>> \o <<>> = <<>> /\ Len(<<>>) = 0 /\ DOMAIN <<>> = {}
    OBVIOUS
  <2>3. Ordered(<<>>, 0, <<>>, 0)
    <3>1. 0 - 0 + 1 = 1 /\ 0 + 1 = 1
      OBVIOUS
    <3> QED BY <2>2, <3>1 DEF Ordered
  <2> QED BY <1>2, <2>1, <2>2, <2>3 DEF InOrder
<1>5. DOMAIN session = Clients
  BY DEF Init
<1> QED BY <1>1, <1>3, <1>4, <1>5 DEF Shapes, Delivered

LEMMA DeliveredSent == Shapes /\ Delivered => SentInOrder
<1> SUFFICES ASSUME Shapes, Delivered, NEW s \in Clients, Open(s)
             PROVE  LET c == session[s]
                        waiting == (IF worker.s = s THEN worker.list ELSE <<>>) \o c.sendList
                        before == Len(c.appended) - Len(waiting)
                        next == <<before + 1, c.cursor + 1>>
                    IN  /\ \A k \in DOMAIN waiting : waiting[k] = before + k
                        /\ \A k \in DOMAIN c.written :
                            c.written[k] = IF k = 1 THEN <<1, 1>> ELSE After(c.written[k - 1])
                        /\ IF c.written = <<>> THEN next = <<1, 1>> ELSE next = After(Last(c.written))
  BY DEF SentInOrder
<1> DEFINE c == session[s]
           waiting == (IF worker.s = s THEN worker.list ELSE <<>>) \o c.sendList
           before == Len(c.appended) - Len(waiting)
<1>1. Ordered(waiting, Len(c.appended), c.written, c.cursor)
  BY DEF Delivered, InOrder, Held, Open
<1> HIDE DEF c, waiting
<1>2. \A k \in DOMAIN waiting : waiting[k] = before + k
  BY <1>1 DEF Ordered
<1>3. \A k \in DOMAIN c.written : c.written[k] = IF k = 1 THEN <<1, 1>> ELSE After(c.written[k - 1])
  BY <1>1 DEF Ordered
<1>4. IF c.written = <<>> THEN <<before + 1, c.cursor + 1>> = <<1, 1>>
      ELSE <<before + 1, c.cursor + 1>> = After(Last(c.written))
  BY <1>1 DEF Ordered, Last
<1> QED BY <1>2, <1>3, <1>4 DEF c, waiting

(***************************************************************************)
(* What the kernel takes of an open session is, in order and without a     *)
(* gap, what was appended, whatever is appended while the thread writes    *)
(* and puts back what it could not write.                                  *)
(***************************************************************************)
THEOREM SentAlwaysInOrder == Spec => []SentInOrder
<1>1. Spec => [](Shapes /\ Delivered)
  BY DeliveredAtStart, DeliveredKept, NeterAlways, PTL DEF Spec
<1> QED BY <1>1, DeliveredSent, PTL

-----------------------------------------------------------------------------
(* Nothing is stranded: what has to be done for a session is on its way. *)

\* An event of a session is at hand, or will be reported if it is ready.
Told(s, e) == \E k \in DOMAIN batch : batch[k].s = s /\ e \in batch[k].events
Coming(s, e) == s \in edge \/ Told(s, e)

WorksAt(labels, s) == worker.pc \in labels /\ worker.s = s

\* Input that is not read yet,
Heard ==
    \A s \in Clients : Open(s) /\ socket[s].inbox # <<>> =>
        Coming(s, "in") \/ "READ_PENDING" \in flags[s] \/ WorksAt({"read"}, s)

\* connections that are not accepted yet
Welcomed ==
    /\ backlog \in Nat
    /\ Acceptor \in watched \/ "CLOSE_READY" \in flags[Acceptor]
    /\ backlog > 0 /\ Open(Acceptor) =>
        Coming(Acceptor, "in") \/ "READ_PENDING" \in flags[Acceptor] \/ worker.pc \in {"accept", "insert"}

\* and the first room to write are or will be reported.
Roomed ==
    \A s \in Clients : Open(s) /\ "WRITE_ACCESS" \notin flags[s] =>
        socket[s].state \in {"none", "connecting"} \/ Coming(s, "out")

\* A session does in turn what it can: nothing before it is made, nothing
\* but wait before it is connected, and it writes nothing before it has room.
Unmade(s) ==
    session[s].kind = "none" =>
        socket[s].state = "none" /\ s \notin container /\ ~ WorksAt({"insert"}, s)

Unconnected(s) ==
    socket[s].state \in {"none", "connecting"} =>
        /\ "WRITE_ACCESS" \notin flags[s] /\ s \notin announced
        /\ ~ Told(s, "out") /\ ~ WorksAt({"deserialize"}, s)
        /\ session[s].sendList = <<>> /\ socket[s].inbox = <<>>

Unwritten(s) ==
    "WRITE_ACCESS" \notin flags[s] =>
        socket[s].unread = 0 /\ ~ WorksAt({"swap", "write", "putback"}, s)

Begun ==
    \A s \in Clients :
        Unmade(s) /\ Unconnected(s) /\ Unwritten(s) /\ (session[s].sendList # <<>> => Known(s))

\* Data to send has a task, or is about to be taken, or to get one: from
\* who appended it, with the first room, or with the next.
NextRoom(s) == socket[s].nospace \/ (s \in edge /\ socket[s].unread < SendRoom) \/ Told(s, "out")

Waits(s) ==
    \/ "WRITE_PENDING" \in flags[s]
    \/ WorksAt({"swap", "connect"}, s)
    \/ /\ "WRITE_READY" \in flags[s]
       /\ \/ user.pc = "add" /\ user.s = s
          \/ "WRITE_ACCESS" \notin flags[s]
          \/ ~ WorksAt({"write", "putback"}, s) /\ NextRoom(s)

Awaited == \A s \in Clients : Open(s) /\ session[s].sendList # <<>> => s \in raced \/ Waits(s)

\* A task finds the thread awake, or was added as it fell asleep.
Roused ==
    /\ resting \in {"drowsy", "asleep"} /\ tasks # <<>> => overslept
    /\ ~ polling => batch = <<>>

InHand == Heard /\ Welcomed /\ Roomed /\ Begun /\ Awaited /\ Roused

\* epoll_wait tells of all that is ready, and of nothing else.
LEMMA EpollTells ==
    ASSUME NeterInvariant, EpollWait, NEW s, NEW e
    PROVE  Told(s, e)' <=> s \in edge /\ e \in Ready(s)
<1> DEFINE some == {v \in edge : Ready(v) # {}}
           n == Cardinality(some)
<1>1. PICK order \in SetToSeqs(some) :
          batch' = [k \in DOMAIN order |-> [s |-> order[k], events |-> Ready(order[k])]]
  BY DEF EpollWait
<1>2. IsFiniteSet(some)
  <2>1. IsFiniteSet(Clients \cup {Acceptor})
    BY NeterAssumption, FS_AddElement DEF NeterAssumption
  <2>2. some \subseteq Sids
    BY DEF NeterInvariant, Serving, Types, Control, Listed
  <2> QED BY <2>1, <2>2, FS_Subset DEF Sids
<1>3. n \in Nat /\ IsFiniteSet(1..n) /\ Cardinality(1..n) = n
  BY <1>2, FS_CardinalityType, FS_Interval
<1> HIDE DEF some
<1>4. order \in [1..n -> some] /\ \A i, j \in 1..n : i # j => order[i] # order[j]
  BY <1>1 DEF SetToSeqs
<1>5. order \in Injection(1..n, some)
  BY <1>4 DEF Injection, IsInjective
<1>6. order \in Surjection(1..n, some)
  BY <1>2, <1>3, <1>5, FS_Injection
<1>7. \A v \in some : \E k \in 1..n : order[k] = v
  BY <1>6 DEF Surjection
<1> HIDE DEF n
<1>8. DOMAIN batch' = 1..n /\ \A k \in 1..n : batch'[k].s = order[k] /\ batch'[k].events = Ready(order[k])
  BY <1>1, <1>4
<1>9. ASSUME s \in edge, e \in Ready(s) PROVE Told(s, e)'
  <2>1. s \in some
    BY <1>9 DEF some
  <2> QED BY <1>7, <1>8, <1>9, <2>1 DEF Told
<1>10. ASSUME Told(s, e)' PROVE s \in edge /\ e \in Ready(s)
  <2>1. PICK k \in 1..n : order[k] = s /\ e \in Ready(order[k])
    BY <1>8, <1>10 DEF Told
  <2> QED BY <1>4, <2>1 DEF some
<1> QED BY <1>9, <1>10

\* An event that is handled is at hand no more, and all others are.
LEMMA HandlingTells ==
    ASSUME NeterInvariant, NEW event, NEW before, HandleEvent(event, before), NEW s, NEW e
    PROVE  /\ Told(s, e)' => Told(s, e)
           /\ Told(s, e) => Told(s, e)' \/ (e = event /\ s = Head(batch).s)
<1>1. batch \in Seq(Event) /\ batch # <<>> /\ event \in Head(batch).events
  BY DEF NeterInvariant, Serving, Types, Control, HandleEvent
<1>2. Head(batch) = batch[1] /\ 1 \in DOMAIN batch /\ Len(batch) \in Nat /\ DOMAIN batch = 1..Len(batch)
  BY <1>1
<1>3. CASE Head(batch).events = {event} /\ batch' = Tail(batch)
  <2>1. /\ DOMAIN batch' = 1..(Len(batch) - 1)
        /\ \A i \in 1..(Len(batch) - 1) : batch'[i] = batch[i + 1]
    BY <1>1, <1>3, TailAt
  <2>2. ASSUME NEW k \in DOMAIN batch, batch[k].s = s, e \in batch[k].events,
               ~ (e = event /\ s = Head(batch).s)
        PROVE  Told(s, e)'
    <3>1. k # 1
      BY <1>2, <1>3, <2>2
    <3>2. k - 1 \in 1..(Len(batch) - 1) /\ (k - 1) + 1 = k
      BY <1>2, <3>1
    <3> QED BY <2>1, <2>2, <3>2 DEF Told
  <2>3. ASSUME NEW k \in DOMAIN batch', batch'[k].s = s, e \in batch'[k].events PROVE Told(s, e)
    <3>1. k + 1 \in DOMAIN batch /\ batch'[k] = batch[k + 1]
      BY <1>2, <2>1
    <3> QED BY <2>3, <3>1 DEF Told
  <2> QED BY <2>2, <2>3 DEF Told
<1>4. CASE batch' = [batch EXCEPT ![1].events = @ \ {event}]
  <2>1. /\ DOMAIN batch' = DOMAIN batch
        /\ \A k \in DOMAIN batch : k # 1 => batch'[k] = batch[k]
        /\ batch'[1] = [batch[1] EXCEPT !.events = @ \ {event}]
    BY <1>2, <1>4
  <2>2. batch[1] \in Event
    BY <1>1, <1>2
  <2>3. batch'[1].s = batch[1].s /\ batch'[1].events = batch[1].events \ {event}
    BY <2>1, <2>2 DEF Event
  <2> QED BY <1>2, <2>1, <2>3 DEF Told
<1> QED BY <1>3, <1>4 DEF HandleEvent

\* Flags are only set, but by the thread that takes a task or connects.
LEMMA FlagsGrow ==
    ASSUME NeterInvariant, [Next]_vars, ~ Take, ~ Connected, NEW v \in Sids
    PROVE  flags[v] \subseteq flags'[v]
<1>0. flags \in [Sids -> SUBSET Flags]
  BY DEF NeterInvariant, Serving, Types
<1>1. ASSUME NEW s, NEW set, SetEventFlag(s, set) PROVE flags[v] \subseteq flags'[v]
  BY <1>0, <1>1 DEF SetEventFlag
<1>2. ASSUME NEW s, NEW set, TryAddReadTask(s, set) \/ TryAddWriteTask(s, set) \/ Close(s)
      PROVE flags[v] \subseteq flags'[v]
  BY <1>1, <1>2 DEF TryAddReadTask, TryAddWriteTask, Close
<1>3. CASE flags' = flags
  BY <1>3
<1>4. CASE Poll
  BY <1>2, <1>3, <1>4 DEF Poll, EpollWait, HandleIn, HandleOut, HandleError, Sweep
<1>7. CASE Deserialize
  BY <1>2, <1>3, <1>7 DEF Deserialize
<1>8. CASE Work
  BY <1>1, <1>2, <1>3, <1>7, <1>8
     DEF Work, FindsEmpty, FallsAsleep, Accepts, Inserts, AcceptAgain, AcceptFails, ReadGives, ReadEnds,
         ReadFails, ConnectFails, Swap, Writes, WriteEnds, WriteFails, WriteAgain, PutsBack
<1>9. CASE User
  BY <1>1, <1>2, <1>3, <1>9 DEF User, Connects, Sends, Appends, Adds
<1>10. CASE Peer \/ WakesSpuriously \/ UNCHANGED vars
  BY <1>3, <1>10 DEF Peer, PeerConnects, PeerSends, PeerReads, PeerActs, KernelStep, WakesSpuriously, vars
<1> QED BY <1>4, <1>8, <1>9, <1>10 DEF Next

LEMMA TakeClears ==
    ASSUME NeterInvariant, Take, NEW v \in Sids
    PROVE  \/ flags'[v] = flags[v]
           \/ /\ flags'[v] = flags[v] \ {"READ_ACCESS", "READ_PENDING"}
              /\ worker'.pc = (IF v = Acceptor THEN "accept" ELSE "read") /\ worker'.s = v
           \/ /\ flags'[v] = flags[v] \ {"WRITE_READY", "WRITE_PENDING"}
              /\ worker'.pc = (IF session[v].kind = "connector" THEN "connect" ELSE "swap")
              /\ worker'.s = v
<1> DEFINE op == Head(tasks)[1]
           s == Head(tasks)[2]
<1>1. op \in {"read", "write"} /\ s \in Sids
  <2>1. Head(tasks) \in Task
    BY DEF Take, NeterInvariant, Serving, Types
  <2> QED BY <2>1 DEF Task, Sids
<1>2. \/ flags' = flags
      \/ /\ flags' = [flags EXCEPT ![s] = flags[s] \ Cleared(op)]
         /\ worker' = [worker EXCEPT !.pc = Function(op, s), !.s = s, !.got = FALSE]
  BY DEF Take
<1>3. flags \in [Sids -> SUBSET Flags] /\ {"pc", "s"} \subseteq DOMAIN worker
  BY DEF NeterInvariant, Serving, Types, Control
<1> HIDE DEF op, s
<1>4. CASE flags' = flags
  BY <1>4
<1>5. CASE v # s
  BY <1>2, <1>3, <1>5
<1>6. CASE flags' # flags /\ v = s
  <2>1. flags'[v] = flags[v] \ Cleared(op) /\ worker'.pc = Function(op, v) /\ worker'.s = v
    BY <1>1, <1>2, <1>3, <1>6
  <2>2. CASE op = "read"
    BY <2>1, <2>2 DEF Function, Cleared, Needed
  <2>3. CASE op = "write"
    BY <2>1, <2>3 DEF Function, Cleared, Needed
  <2> QED BY <1>1, <2>2, <2>3
<1> QED BY <1>4, <1>5, <1>6

LEMMA ConnectedSets ==
    ASSUME NeterInvariant, Shapes, Connected, NEW v \in Sids
    PROVE  /\ v # worker.s => flags'[v] = flags[v]
           /\ flags[v] \ {"WRITE_READY"} \subseteq flags'[v]
           /\ flags'[v] \subseteq flags[v] \cup {"WRITE_READY", "WRITE_PENDING"}
           /\ raced \subseteq raced'
           /\ v = worker.s /\ session'[v].sendList # <<>> => v \in raced' \/ "WRITE_PENDING" \in flags'[v]
<1> DEFINE s == worker.s
           open == [session[s] EXCEPT !.kind = "exchanger"]
<1>1. s \in Clients /\ s \in Sids /\ flags \in [Sids -> SUBSET Flags] /\ DOMAIN session = Clients
  BY DEF Connected, NeterInvariant, Serving, Types, Control, Sids
<1>2. raced' = IF session[s].sendList = <<>> THEN raced ELSE raced \cup {s}
  BY DEF Connected
<1>3. open.sendList = session[s].sendList
  BY <1>1 DEF Shapes, Buffer
<1> HIDE DEF open, s
<1>4. CASE flags' = [flags EXCEPT ![s] = flags[s] \ {"WRITE_READY"}] /\ session' = [session EXCEPT ![s] = open]
  BY <1>1, <1>2, <1>3, <1>4 DEF s
<1>5. CASE flags' = [flags EXCEPT ![s] = (flags[s] \ {"WRITE_READY"}) \cup {"WRITE_READY", "WRITE_PENDING"}]
  BY <1>1, <1>2, <1>5 DEF s
<1> QED BY <1>4, <1>5 DEF Connected, s, open

\* Who tries to add a task has added it, or a flag is missing.
LEMMA TriedRead ==
    ASSUME flags \in [Sids -> SUBSET Flags], NEW s \in Sids, NEW set, TryAddReadTask(s, set)
    PROVE  /\ flags[s] \cup set \subseteq flags'[s]
           /\ "READ_ACCESS" \in flags'[s] => "READ_PENDING" \in flags'[s]
           /\ flags'[s] \subseteq flags[s] \cup set \cup {"READ_PENDING"}
           /\ \A v \in Sids : v # s => flags'[v] = flags[v]
BY DEF TryAddReadTask, SetEventFlag

LEMMA TriedWrite ==
    ASSUME flags \in [Sids -> SUBSET Flags], NEW s \in Sids, NEW set, TryAddWriteTask(s, set)
    PROVE  /\ flags[s] \cup set \subseteq flags'[s]
           /\ {"WRITE_ACCESS", "WRITE_READY"} \subseteq flags'[s] => "WRITE_PENDING" \in flags'[s]
           /\ flags'[s] \subseteq flags[s] \cup set \cup {"WRITE_PENDING"}
           /\ \A v \in Sids : v # s => flags'[v] = flags[v]
BY DEF TryAddWriteTask, SetEventFlag

\* What epoll has to report stays until it is told or the session closed,
LEMMA EdgeStays ==
    ASSUME NeterInvariant, [Next]_vars, ~ EpollWait, NEW s \in Sids, s \in edge
    PROVE  s \in edge' \/ "CLOSE_READY" \in flags[s]
<1>1. CASE edge \subseteq edge'
  BY <1>1
<1>2. CASE Poll
  <2>1. CASE Sweep
    BY <2>1 DEF Sweep, NeterInvariant, Listed
  <2>2. CASE HandleIn \/ HandleOut \/ HandleError
    BY <2>2 DEF HandleIn, HandleOut, HandleError, HandleEvent, kernel
  <2> QED BY <1>2, <2>1, <2>2 DEF Poll
<1>3. CASE Peer
  BY <1>1, <1>3 DEF Peer, PeerConnects, PeerSends, PeerReads, PeerActs, Changed
<1>4. CASE Work
  BY <1>1, <1>4
     DEF Work, FindsEmpty, FallsAsleep, Take, Accepts, Inserts, Watch, AcceptAgain, AcceptFails, ReadGives,
         ReadEnds, ReadFails, Deserialize, ConnectFails, Connected, Swap, Writes, WriteEnds, WriteFails,
         WriteAgain, PutsBack, kernel
<1>5. CASE User
  BY <1>1, <1>5 DEF User, Connects, Watch, Sends, Appends, Adds, kernel
<1>6. CASE WakesSpuriously \/ UNCHANGED vars
  BY <1>1, <1>6 DEF WakesSpuriously, vars, kernel
<1> QED BY <1>2, <1>3, <1>4, <1>5, <1>6 DEF Next

\* and what is told until it is handled.
LEMMA ToldStays ==
    ASSUME NeterInvariant, Roused, [Next]_vars, NEW s, NEW e, Told(s, e)
    PROVE  \/ Told(s, e)'
           \/ HandleIn /\ e = "in" /\ s = Head(batch).s
           \/ HandleOut /\ e = "out" /\ s = Head(batch).s
           \/ HandleError /\ e = "err" /\ s = Head(batch).s
<1>1. CASE batch' = batch
  BY <1>1 DEF Told
<1>2. CASE Poll
  <2>1. CASE EpollWait
    BY <2>1 DEF EpollWait, Roused, Told
  <2>2. CASE Sweep
    BY <1>1, <2>2 DEF Sweep
  <2> QED BY <1>2, <2>1, <2>2, HandlingTells DEF Poll, HandleIn, HandleOut, HandleError
<1>3. CASE Peer \/ WakesSpuriously \/ UNCHANGED vars
  BY <1>1, <1>3 DEF Peer, PeerConnects, PeerSends, PeerReads, PeerActs, KernelStep, WakesSpuriously, vars, poll
<1>4. CASE Work
  BY <1>1, <1>4
     DEF Work, FindsEmpty, FallsAsleep, Take, Accepts, Inserts, AcceptAgain, AcceptFails, ReadGives,
         ReadEnds, ReadFails, Deserialize, ConnectFails, Connected, Swap, Writes, WriteEnds, WriteFails,
         WriteAgain, PutsBack, poll
<1>5. CASE User
  BY <1>1, <1>5 DEF User, Connects, Sends, Appends, Adds, poll
<1> QED BY <1>2, <1>3, <1>4, <1>5 DEF Next

LEMMA InputComes ==
    ASSUME NeterInvariant, Roused, [Next]_vars, NEW s \in Sids, Coming(s, "in"), "in" \in Ready(s)
    PROVE  Coming(s, "in")' \/ "READ_PENDING" \in flags'[s] \/ "CLOSE_READY" \in flags[s]
<1>1. CASE s \in edge
  <2>1. CASE EpollWait
    BY <1>1, <2>1, EpollTells DEF Coming
  <2> QED BY <1>1, <2>1, EdgeStays DEF Coming
<1>2. CASE Told(s, "in")
  <2>1. CASE HandleIn /\ s = Head(batch).s
    BY <2>1, TriedRead DEF HandleIn, NeterInvariant, Serving, Types
  <2> QED BY <1>2, <2>1, ToldStays DEF Coming
<1> QED BY <1>1, <1>2 DEF Coming

\* A session with room to write gets its task if it has anything to write.
LEMMA RoomTold ==
    ASSUME NeterInvariant, Roused, [Next]_vars, NEW s \in Sids, Told(s, "out")
    PROVE  \/ Told(s, "out")'
           \/ /\ "WRITE_ACCESS" \in flags'[s]
              /\ "WRITE_READY" \in flags'[s] => "WRITE_PENDING" \in flags'[s]
<1>1. CASE HandleOut /\ s = Head(batch).s
  BY <1>1, TriedWrite DEF HandleOut, NeterInvariant, Serving, Types
<1> QED BY <1>1, ToldStays

LEMMA RoomReported ==
    ASSUME NeterInvariant, [Next]_vars, NEW s \in Sids, s \in edge, "out" \in Ready(s)
    PROVE  s \in edge' \/ Told(s, "out")' \/ "CLOSE_READY" \in flags[s]
<1>1. CASE EpollWait
  BY <1>1, EpollTells
<1> QED BY <1>1, EdgeStays

\* What is ready of a session that is connected.
LEMMA ReadyWhen ==
    ASSUME NEW s \in Clients, socket[s].state \notin {"none", "connecting"}
    PROVE  /\ socket[s].inbox # <<>> => "in" \in Ready(s)
           /\ socket[s].unread < SendRoom => "out" \in Ready(s)
<1>1. s # Acceptor
  BY NeterAssumption
<1>2. CASE socket[s].state = "reset"
  BY <1>1, <1>2 DEF Ready
<1>3. CASE socket[s].state # "reset"
  BY <1>1, <1>3 DEF Ready
<1> QED BY <1>2, <1>3

\* What may happen to a socket,
LEMMA SocketMoves ==
    ASSUME NeterInvariant, Shapes, [Next]_vars, NEW s \in Clients
    PROVE  \/ socket'[s] = socket[s]
           \/ PeerSends(s) /\ s \in watched
           \/ PeerReads(s) /\ s \in watched
           \/ /\ s \in watched
              /\ \/ PeerActs(s, {"connecting"}, "open")
                 \/ PeerActs(s, {"open"}, "eof")
                 \/ PeerActs(s, {"connecting", "open", "eof"}, "reset")
           \/ Accepts(s)
           \/ Connects(s, "open") \/ Connects(s, "connecting")
           \/ worker.s = s /\ (ReadGives \/ Writes \/ WriteAgain)
<1>0. DOMAIN socket = Clients
  BY DEF Shapes, Sockets
<1>1. CASE socket' = socket
  BY <1>1
<1>2. CASE Poll
  BY <1>1, <1>2 DEF Poll, EpollWait, HandleIn, HandleOut, HandleError, HandleEvent, Sweep, kernel
<1>3. CASE Peer
  <2>1. CASE PeerConnects
    BY <1>1, <2>1 DEF PeerConnects
  <2>2. ASSUME NEW v, v # s, PeerSends(v) \/ PeerReads(v) \/ (\E from, to : PeerActs(v, from, to))
        PROVE  socket'[s] = socket[s]
    BY <1>0, <2>2 DEF PeerSends, PeerReads, PeerActs
  <2> QED BY <1>3, <2>1, <2>2 DEF Peer
<1>4. CASE Work
  <2>1. ASSUME NEW v \in Clients, v # s, Accepts(v) PROVE socket'[s] = socket[s]
    BY <1>0, <2>1 DEF Accepts
  <2>2. ASSUME worker.s # s, ReadGives \/ Writes \/ WriteAgain PROVE socket'[s] = socket[s]
    <3>1. CASE ReadGives
      BY <1>0, <2>2, <3>1 DEF ReadGives
    <3>2. CASE Writes
      <4>1. PICK x : socket' = [socket EXCEPT ![worker.s].unread = x]
        BY <3>2 DEF Writes
      <4> QED BY <1>0, <2>2, <4>1
    <3>3. CASE WriteAgain
      BY <1>0, <2>2, <3>3 DEF WriteAgain
    <3> QED BY <2>2, <3>1, <3>2, <3>3
  <2> QED BY <1>1, <1>4, <2>1, <2>2
     DEF Work, FindsEmpty, FallsAsleep, Take, Inserts, AcceptAgain, AcceptFails,
         ReadEnds, ReadFails, Deserialize, ConnectFails, Connected, Swap, WriteEnds, WriteFails,
         PutsBack, kernel
<1>5. CASE User
  <2>1. ASSUME NEW v \in Clients, v # s, NEW state, Connects(v, state) PROVE socket'[s] = socket[s]
    BY <1>0, <2>1 DEF Connects
  <2> QED BY <1>1, <1>5, <2>1 DEF User, Sends, Appends, Adds, kernel
<1>6. CASE WakesSpuriously \/ UNCHANGED vars
  BY <1>1, <1>6 DEF WakesSpuriously, vars, kernel
<1> QED BY <1>2, <1>3, <1>4, <1>5, <1>6 DEF Next

\* to the thread that reads and writes,
LEMMA WorkerGoes ==
    ASSUME NeterInvariant, Shapes, [Next]_vars
    PROVE  \/ worker'.pc = worker.pc /\ worker'.s = worker.s
           \/ /\ worker'.pc = "idle" /\ worker'.s = Acceptor
              /\ \/ AcceptAgain \/ AcceptFails \/ ReadEnds \/ ReadFails \/ Deserialize
                 \/ ConnectFails \/ Connected \/ WriteEnds \/ WriteFails \/ PutsBack
           \/ /\ Take /\ worker.pc = "idle" /\ worker'.pc \in {"accept", "read", "connect", "swap"}
              /\ worker'.pc = "swap" => "WRITE_ACCESS" \in flags[worker'.s]
           \/ worker.pc = "accept" /\ worker'.pc = "insert" /\ Accepts(worker'.s)
           \/ Inserts /\ worker.pc = "insert" /\ worker'.pc = "accept" /\ worker'.s = worker.s
           \/ ReadEnds /\ worker.pc = "read" /\ worker'.pc = "deserialize" /\ worker'.s = worker.s
           \/ Swap /\ worker.pc = "swap" /\ worker'.pc = "write" /\ worker'.s = worker.s
           \/ WriteAgain /\ worker.pc = "write" /\ worker'.pc = "putback" /\ worker'.s = worker.s
<1>0. DOMAIN worker = {"pc", "s", "list", "errno", "got"}
  BY DEF Shapes, Hands
<1>1. CASE worker' = worker
  BY <1>1
<1>2. ASSUME NEW e, Done(e) PROVE worker'.pc = "idle" /\ worker'.s = Acceptor
  BY <1>2 DEF Done
<1>3. CASE Take
  <2> DEFINE op == Head(tasks)[1]
             s == Head(tasks)[2]
  <2>1. op \in {"read", "write"}
    <3>1. Head(tasks) \in Task
      BY <1>3 DEF Take, NeterInvariant, Serving, Types
    <3> QED BY <3>1 DEF Task
  <2>2. worker.pc = "idle" /\ (worker' = worker
            \/ (Needed(op) \subseteq flags[s] /\ worker' = [worker EXCEPT !.pc = Function(op, s), !.s = s, !.got = FALSE]))
    BY <1>3 DEF Take
  <2> HIDE DEF op, s
  <2>3. CASE worker' # worker
    <3>1. worker'.pc = Function(op, s) /\ worker'.s = s /\ Needed(op) \subseteq flags[s]
      BY <1>0, <2>2, <2>3
    <3>2. Function(op, s) \in {"accept", "read", "connect", "swap"}
      BY <2>1 DEF Function
    <3>3. Function(op, s) = "swap" => "WRITE_ACCESS" \in Needed(op)
      BY <2>1 DEF Function, Needed
    <3> QED BY <1>3, <2>2, <3>1, <3>2, <3>3
  <2> QED BY <1>1, <2>3
<1>4. ASSUME NEW s \in Clients, Accepts(s)
      PROVE  worker.pc = "accept" /\ worker'.pc = "insert" /\ Accepts(worker'.s)
  <2>1. worker.pc = "accept" /\ worker'.pc = "insert" /\ worker'.s = s
    BY <1>0, <1>4 DEF Accepts
  <2> QED BY <1>4, <2>1
<1>5. CASE Inserts
  BY <1>0, <1>5 DEF Inserts, Goto
<1>6. CASE ReadGives
  BY <1>0, <1>6 DEF ReadGives
<1>7. CASE ReadEnds
  BY <1>0, <1>2, <1>7 DEF ReadEnds
<1>8. CASE Swap
  BY <1>0, <1>8 DEF Swap
<1>9. CASE WriteAgain
  BY <1>0, <1>9 DEF WriteAgain
<1>10. CASE Writes
  <2>1. PICK x : worker' = [worker EXCEPT !.list = x]
    BY <1>10 DEF Writes
  <2> QED BY <1>0, <2>1
<1>11. CASE Work
  BY <1>1, <1>2, <1>3, <1>4, <1>5, <1>6, <1>7, <1>8, <1>9, <1>10, <1>11
     DEF Work, FindsEmpty, FallsAsleep, AcceptAgain, AcceptFails, ReadFails, Deserialize, ConnectFails,
         Connected, WriteEnds, WriteFails, PutsBack
<1>12. CASE Poll \/ Peer \/ User \/ WakesSpuriously \/ UNCHANGED vars
  BY <1>1, <1>12
     DEF Poll, EpollWait, HandleIn, HandleOut, HandleError, HandleEvent, Sweep,
         Peer, PeerConnects, PeerSends, PeerReads, PeerActs, KernelStep,
         User, Connects, Sends, Appends, Adds, WakesSpuriously, vars
<1> QED BY <1>11, <1>12 DEF Next

\* and to the container.
LEMMA ContainerGrows ==
    ASSUME NeterInvariant, [Next]_vars, NEW s \in Clients, s \in container', s \notin container
    PROVE  \/ Inserts /\ worker.s = s /\ s \in edge'
           \/ Connects(s, "open") /\ s \in edge'
           \/ Connects(s, "connecting")
<1>1. ASSUME container' \subseteq container PROVE FALSE
  BY <1>1
<1>2. CASE Poll
  BY <1>1, <1>2 DEF Poll, EpollWait, HandleIn, HandleOut, HandleError, HandleEvent, Sweep
<1>3. CASE Peer \/ WakesSpuriously \/ UNCHANGED vars
  BY <1>1, <1>3 DEF Peer, PeerConnects, PeerSends, PeerReads, PeerActs, KernelStep, WakesSpuriously, vars
<1>4. CASE Work
  BY <1>1, <1>4
     DEF Work, FindsEmpty, FallsAsleep, Take, Accepts, Inserts, Watch, AcceptAgain, AcceptFails, ReadGives,
         ReadEnds, ReadFails, Deserialize, ConnectFails, Connected, Swap, Writes, WriteEnds, WriteFails,
         WriteAgain, PutsBack
<1>5. CASE User
  BY <1>1, <1>5 DEF User, Connects, Watch, Sends, Appends, Adds
<1> QED BY <1>2, <1>3, <1>4, <1>5 DEF Next

\* What may happen to a session's buffers.
LEMMA SessionMoves ==
    ASSUME NeterInvariant, Shapes, [Next]_vars, NEW s \in Clients
    PROVE  \/ session'[s] = session[s]
           \/ session'[s] = [session[s] EXCEPT !.kind = "exchanger"]
                /\ (Accepts(s) \/ Connects(s, "open"))
           \/ session'[s] = [session[s] EXCEPT !.kind = "connector"] /\ Connects(s, "connecting")
           \/ Appends /\ user.s = s /\ session'[s].kind = session[s].kind
           \/ Connected /\ worker.s = s /\ session'[s].kind = "exchanger"
           \/ worker.s = s /\ session'[s].kind = session[s].kind
                /\ \/ ReadGives /\ session'[s].sendList = session[s].sendList
                   \/ Writes /\ session'[s].sendList = session[s].sendList
                   \/ /\ Deserialize
                      /\ \/ session'[s].sendList = session[s].sendList
                         \/ s \in container /\ TryAddWriteTask(s, {"WRITE_READY"})
                   \/ Swap /\ session'[s].sendList = <<>>
                   \/ PutsBack
<1>0. DOMAIN session = Clients /\ \A v \in Clients : Buffer(session[v])
  BY DEF Shapes
<1>00. worker.pc \notin {"idle", "accept"} => worker.s \in Clients
  BY DEF NeterInvariant, Serving, Types, Control
<1>01. DOMAIN session[s] = {"kind", "readData", "sendList", "cursor", "appended", "written", "received"}
  BY <1>0 DEF Buffer
<1>1. CASE session' = session
  BY <1>1
<1>2. ASSUME NEW v \in Clients, Accepts(v)
      PROVE  \/ session'[s] = session[s]
             \/ session'[s] = [session[s] EXCEPT !.kind = "exchanger"] /\ Accepts(s)
  <2>1. session' = [session EXCEPT ![v].kind = "exchanger"]
    BY <1>2 DEF Accepts
  <2>2. v # s => session'[s] = session[s]
    BY <1>0, <2>1
  <2>3. v = s => session'[s] = [session[s] EXCEPT !.kind = "exchanger"]
    BY <1>0, <2>1
  <2>4. CASE v = s
    <3>1. Accepts(s)
      BY <1>2, <2>4
    <3> QED BY <2>3, <2>4, <3>1
  <2> QED BY <2>2, <2>4
<1>3. ASSUME NEW v \in Clients, NEW state \in {"open", "connecting"}, Connects(v, state)
      PROVE  \/ session'[s] = session[s]
             \/ session'[s] = [session[s] EXCEPT !.kind = "exchanger"] /\ Connects(s, "open")
             \/ session'[s] = [session[s] EXCEPT !.kind = "connector"] /\ Connects(s, "connecting")
  <2>1. CASE v # s
    BY <1>0, <1>3, <2>1 DEF Connects
  <2>2. CASE v = s /\ state = "open"
    BY <1>0, <1>3, <2>2 DEF Connects
  <2>3. CASE v = s /\ state = "connecting"
    BY <1>0, <1>3, <2>3 DEF Connects
  <2> QED BY <1>3, <2>1, <2>2, <2>3
<1>4. CASE Appends
  <2>1. WithMessage(session[s]).kind = session[s].kind
    BY <1>01 DEF WithMessage
  <2> QED BY <1>0, <1>4, <2>1 DEF Appends
<1>5. CASE Connected
  <2> DEFINE open == [session[s] EXCEPT !.kind = "exchanger"]
  <2>1. WithMessage(open).kind = "exchanger" /\ open.kind = "exchanger"
    BY <1>01 DEF WithMessage
  <2>2. CASE worker.s = s
    <3>1. session' = [session EXCEPT ![s] = WithMessage(open)] \/ session' = [session EXCEPT ![s] = open]
      BY <1>5, <2>2 DEF Connected
    <3> HIDE DEF open
    <3> QED BY <1>0, <1>5, <2>1, <2>2, <3>1
  <2>3. CASE worker.s # s
    <3>1. \E x : session' = [session EXCEPT ![worker.s] = x]
      BY <1>5 DEF Connected
    <3> QED BY <1>0, <2>3, <3>1
  <2> QED BY <2>2, <2>3
<1>6. CASE ReadGives
  <2>1. PICK x : session' = [session EXCEPT ![worker.s].readData = x]
    BY <1>0, <1>00, <1>6 DEF ReadGives
  <2> QED BY <1>0, <1>01, <1>6, <2>1
<1>7. CASE Writes
  <2>1. PICK x, y : session' = [session EXCEPT ![worker.s].cursor = x, ![worker.s].written = y]
    BY <1>7 DEF Writes
  <2> QED BY <1>0, <1>01, <1>7, <2>1
<1>8. CASE Deserialize
  <2> DEFINE v == worker.s
             result == Generate[session[v].readData]
             read == [session[v] EXCEPT !.readData = result.left, !.received = @ \o result.given]
  <2>0. ASSUME v = s, TryAddWriteTask(v, {"WRITE_READY"}) PROVE TryAddWriteTask(s, {"WRITE_READY"})
    BY <2>0
  <2>1. \/ session' = [session EXCEPT ![v] = WithMessage(read)] /\ v \in container
              /\ TryAddWriteTask(v, {"WRITE_READY"})
        \/ session' = [session EXCEPT ![v] = read]
    BY <1>8 DEF Deserialize
  <2>2. v \in Clients
    BY <1>00, <1>8 DEF Deserialize
  <2>3. /\ read.kind = session[v].kind /\ read.sendList = session[v].sendList
        /\ WithMessage(read).kind = session[v].kind
    BY <1>0, <2>2 DEF Buffer, WithMessage
  <2> HIDE DEF read
  <2>4. v # s => session'[s] = session[s]
    BY <1>0, <2>1
  <2>5. v = s => session'[s] = read \/ session'[s] = WithMessage(read)
    BY <1>0, <2>1
  <2>6. v = s => \/ session'[s].sendList = session[s].sendList
                 \/ s \in container /\ TryAddWriteTask(s, {"WRITE_READY"})
    <3>1. CASE session' = [session EXCEPT ![v] = read]
      <4>1. v = s => session'[s].sendList = session[s].sendList
        BY <1>0, <2>3, <3>1
      <4> QED BY <4>1
    <3> QED BY <2>0, <2>1, <3>1
  <2>7. v = s => session'[s].kind = session[s].kind
    BY <2>3, <2>5
  <2> QED BY <1>8, <2>4, <2>6, <2>7
<1>9. CASE Swap
  BY <1>0, <1>01, <1>9 DEF Swap
<1>10. CASE PutsBack
  BY <1>0, <1>01, <1>10 DEF PutsBack
<1>11. CASE Work
  BY <1>1, <1>2, <1>5, <1>6, <1>7, <1>8, <1>9, <1>10, <1>11
     DEF Work, FindsEmpty, FallsAsleep, Take, Inserts, AcceptAgain, AcceptFails, ReadEnds, ReadFails,
         ConnectFails, WriteEnds, WriteFails, WriteAgain
<1>12. CASE User
  BY <1>1, <1>3, <1>4, <1>12 DEF User, Sends, Adds
<1>13. CASE Poll \/ Peer \/ WakesSpuriously \/ UNCHANGED vars
  BY <1>1, <1>13
     DEF Poll, EpollWait, HandleIn, HandleOut, HandleError, HandleEvent, Sweep,
         Peer, PeerConnects, PeerSends, PeerReads, PeerActs, KernelStep, WakesSpuriously, vars
<1> QED BY <1>11, <1>12, <1>13 DEF Next

LEMMA UnmadeKept ==
    ASSUME NeterInvariant, Shapes, [Next]_vars, NEW s \in Clients, Unmade(s)
    PROVE  Unmade(s)'
<1> SUFFICES ASSUME session'[s].kind = "none"
             PROVE  socket'[s].state = "none" /\ s \notin container' /\ ~ WorksAt({"insert"}, s)'
  BY DEF Unmade
<1>0. DOMAIN session[s] = {"kind", "readData", "sendList", "cursor", "appended", "written", "received"}
      /\ DOMAIN socket = Clients /\ DOMAIN socket[s] = {"state", "inbox", "sent", "unread", "nospace"}
  BY DEF Shapes, Buffer, Sockets
<1>1. session[s].kind = "none" /\ ~ Accepts(s) /\ ~ Connects(s, "open") /\ ~ Connects(s, "connecting")
  <2>1. ASSUME Accepts(s) \/ Connects(s, "open") \/ Connects(s, "connecting") PROVE FALSE
    <3>1. DOMAIN session = Clients
      BY DEF Shapes
    <3>2. session'[s].kind \in {"exchanger", "connector"}
      BY <1>0, <2>1, <3>1 DEF Accepts, Connects
    <3> QED BY <3>2
  <2> QED BY <2>1, SessionMoves
<1>2. socket[s].state = "none" /\ s \notin container /\ ~ WorksAt({"insert"}, s)
  BY <1>1 DEF Unmade
<1>3. socket'[s].state = "none"
  <2>1. CASE worker.s = s /\ (ReadGives \/ Writes \/ WriteAgain)
    <3>1. socket'[s].state = socket[s].state
      <4>1. CASE ReadGives
        BY <1>0, <4>1 DEF ReadGives
      <4>2. CASE Writes
        BY <1>0, <4>2 DEF Writes
      <4>3. CASE WriteAgain
        BY <1>0, <4>3 DEF WriteAgain
      <4> QED BY <2>1, <4>1, <4>2, <4>3
    <3> QED BY <1>2, <3>1
  <2>2. CASE PeerReads(s)
    BY <1>0, <1>2, <2>2 DEF PeerReads
  <2> QED BY <1>1, <1>2, <2>1, <2>2, SocketMoves DEF PeerSends, PeerActs
<1>4. s \notin container'
  <2>1. ASSUME s \in container' PROVE FALSE
    <3>1. Inserts /\ worker.s = s
      BY <1>1, <1>2, <2>1, ContainerGrows
    <3> QED BY <1>2, <3>1 DEF Inserts, WorksAt
  <2> QED BY <2>1
<1>5. ~ WorksAt({"insert"}, s)'
  BY <1>1, <1>2, WorkerGoes DEF WorksAt
<1> QED BY <1>3, <1>4, <1>5

\* What becomes of a socket: what it does in each case.
LEMMA SocketGets ==
    ASSUME NeterInvariant, Shapes, Begun, [Next]_vars, NEW s \in Clients
    PROVE  /\ socket'[s].state \in {"none", "connecting"} => socket[s].state \in {"none", "connecting"}
           /\ socket[s].state = "connecting" => socket'[s].state = "connecting" \/ s \in edge'
           /\ socket'[s].state # socket[s].state =>
                socket[s].state # "none" \/ Accepts(s) \/ Connects(s, "open") \/ Connects(s, "connecting")
           /\ socket'[s].inbox # <<>> =>
                socket[s].inbox # <<>> \/ (s \in edge' /\ socket[s].state = "open")
           /\ \/ socket'[s].unread = socket[s].unread
              \/ socket[s].unread # 0 /\ socket'[s].unread < socket[s].unread
              \/ WorksAt({"write"}, s)
           /\ socket[s].nospace =>
                socket'[s].nospace \/ (s \in edge' /\ socket'[s].unread < SendRoom)
<1>0. /\ DOMAIN socket = Clients /\ DOMAIN socket[s] = {"state", "inbox", "sent", "unread", "nospace"}
      /\ socket[s].unread \in 0..SendRoom /\ SendRoom \in Nat
  BY NeterAssumption DEF Shapes, Sockets
<1>1. CASE socket'[s] = socket[s]
  BY <1>1
<1>2. CASE PeerSends(s) /\ s \in watched
  BY <1>0, <1>2 DEF PeerSends, Changed
<1>3. CASE PeerReads(s) /\ s \in watched
  BY <1>0, <1>3 DEF PeerReads, Changed
<1>4. ASSUME s \in watched, NEW from, "none" \notin from, NEW to \in {"open", "eof", "reset"}, PeerActs(s, from, to)
      PROVE  /\ socket'[s] = [socket[s] EXCEPT !.state = to] /\ s \in edge' /\ socket[s].state # "none"
             /\ socket'[s].state \notin {"none", "connecting"}
             /\ socket'[s].inbox = socket[s].inbox /\ socket'[s].unread = socket[s].unread
             /\ socket'[s].nospace = socket[s].nospace
  BY <1>0, <1>4 DEF PeerActs, Changed
<1>5. CASE \/ PeerActs(s, {"connecting"}, "open") /\ s \in watched
           \/ PeerActs(s, {"open"}, "eof") /\ s \in watched
           \/ PeerActs(s, {"connecting", "open", "eof"}, "reset") /\ s \in watched
  BY <1>4, <1>5
<1>6. CASE Accepts(s)
  <2>1. socket'[s] = [socket[s] EXCEPT !.state = "open"] /\ session[s].kind = "none"
    BY <1>0, <1>6 DEF Accepts, Unborn
  <2>2. socket[s].state = "none"
    BY <2>1 DEF Begun, Unmade
  <2> QED BY <1>0, <1>6, <2>1, <2>2
<1>7. CASE Connects(s, "open") \/ Connects(s, "connecting")
  <2>1. session[s].kind = "none" /\ (socket'[s] = [socket[s] EXCEPT !.state = "open"]
                \/ socket'[s] = [socket[s] EXCEPT !.state = "connecting"])
    BY <1>0, <1>7 DEF Connects, Unborn
  <2>2. socket[s].state = "none"
    BY <2>1 DEF Begun, Unmade
  <2> QED BY <1>0, <1>7, <2>1, <2>2
<1>8. CASE worker.s = s /\ ReadGives
  BY <1>0, <1>8 DEF ReadGives
<1>9. CASE worker.s = s /\ WriteAgain
  BY <1>0, <1>9 DEF WriteAgain
<1>10. CASE worker.s = s /\ Writes
  <2>1. PICK x : socket' = [socket EXCEPT ![s].unread = x]
    BY <1>10 DEF Writes
  <2>2. WorksAt({"write"}, s)
    BY <1>10 DEF Writes, WorksAt
  <2> QED BY <1>0, <2>1, <2>2
<1> QED BY <1>1, <1>2, <1>3, <1>5, <1>6, <1>7, <1>8, <1>9, <1>10, SocketMoves

\* Only what epoll told of gives WRITE_ACCESS,
LEMMA AccessGiven ==
    ASSUME NeterInvariant, Shapes, [Next]_vars, NEW s \in Clients, "WRITE_ACCESS" \in flags'[s]
    PROVE  "WRITE_ACCESS" \in flags[s] \/ Told(s, "out") \/ WorksAt({"write"}, s)
<1>0. flags \in [Sids -> SUBSET Flags] /\ s \in Sids
  BY DEF NeterInvariant, Serving, Types, Sids
<1>1. ASSUME NEW v, NEW set, SetEventFlag(v, set), "WRITE_ACCESS" \notin set PROVE "WRITE_ACCESS" \in flags[s]
  BY <1>0, <1>1 DEF SetEventFlag
<1>2. ASSUME NEW v, NEW set, "WRITE_ACCESS" \notin set, TryAddReadTask(v, set) \/ TryAddWriteTask(v, set) \/ Close(v)
      PROVE "WRITE_ACCESS" \in flags[s]
  <2>1. /\ "WRITE_ACCESS" \notin set \cup {"READ_PENDING"} /\ "WRITE_ACCESS" \notin set \cup {"WRITE_PENDING"}
        /\ "WRITE_ACCESS" \notin {"CLOSE_READY"}
    BY <1>2
  <2>2. SetEventFlag(v, set) \/ SetEventFlag(v, set \cup {"READ_PENDING"})
            \/ SetEventFlag(v, set \cup {"WRITE_PENDING"}) \/ SetEventFlag(v, {"CLOSE_READY"})
    BY <1>2 DEF TryAddReadTask, TryAddWriteTask, Close
  <2> QED BY <1>1, <1>2, <2>1, <2>2
<1>3. CASE flags' = flags
  BY <1>3
<1>4. CASE Poll
  <2>1. CASE HandleIn
    <3>1. "WRITE_ACCESS" \notin {"READ_ACCESS"}
      OBVIOUS
    <3> QED BY <1>2, <2>1, <3>1 DEF HandleIn
  <2>2. CASE HandleOut
    <3>1. batch \in Seq(Event) /\ batch # <<>> /\ "out" \in Head(batch).events
      BY <2>2 DEF HandleOut, HandleEvent, NeterInvariant, Serving, Types, Control
    <3>2. Told(Head(batch).s, "out") /\ Head(batch).s \in Sids
      <4>1. 1 \in DOMAIN batch /\ Head(batch) = batch[1] /\ batch[1] \in Event
        BY <3>1
      <4> QED BY <3>1, <4>1 DEF Told, Event, Sids
    <3>3. s = Head(batch).s \/ flags'[s] = flags[s]
      BY <1>0, <2>2, <3>2, TriedWrite DEF HandleOut
    <3> QED BY <3>2, <3>3
  <2>3. CASE HandleError
    BY <1>1, <2>3 DEF HandleError, Close
  <2> QED BY <1>3, <1>4, <2>1, <2>2, <2>3 DEF Poll, EpollWait, Sweep
<1>5. CASE Take
  <2> QED BY <1>0, <1>5, TakeClears
<1>6. CASE Connected
  BY <1>0, <1>6, ConnectedSets
<1>7. CASE WriteEnds
  BY <1>0, <1>7 DEF WriteEnds, SetEventFlag, WorksAt
<1>8. CASE Deserialize
  BY <1>2, <1>3, <1>8 DEF Deserialize
<1>9. CASE PutsBack
  BY <1>1, <1>9 DEF PutsBack
<1>10. CASE AcceptFails \/ ReadEnds \/ ReadFails \/ ConnectFails \/ WriteFails
  BY <1>1, <1>3, <1>10 DEF AcceptFails, ReadEnds, ReadFails, ConnectFails, WriteFails, Close
<1>11. CASE Work
  BY <1>3, <1>5, <1>6, <1>7, <1>8, <1>9, <1>10, <1>11
     DEF Work, FindsEmpty, FallsAsleep, Accepts, Inserts, AcceptAgain, ReadGives, Swap, Writes, WriteAgain
<1>12. CASE User
  <2>1. ASSUME NEW v \in Clients, NEW state, Connects(v, state) PROVE "WRITE_ACCESS" \in flags[s]
    BY <1>1, <1>3, <2>1 DEF Connects
  <2>2. ASSUME NEW v \in Clients, Sends(v) PROVE "WRITE_ACCESS" \in flags[s]
    BY <1>1, <2>2 DEF Sends
  <2> QED BY <1>2, <1>3, <1>12, <2>1, <2>2 DEF User, Appends, Adds
<1>13. CASE Peer \/ WakesSpuriously \/ UNCHANGED vars
  BY <1>3, <1>13 DEF Peer, PeerConnects, PeerSends, PeerReads, PeerActs, KernelStep, WakesSpuriously, vars
<1> QED BY <1>4, <1>11, <1>12, <1>13 DEF Next

\* only a connection announces a session
LEMMA AnnouncedBy ==
    ASSUME NeterInvariant, [Next]_vars, NEW s \in Clients, s \in announced', s \notin announced
    PROVE  Accepts(s) \/ Connects(s, "open") \/ (Connected /\ worker.s = s)
<1>1. CASE Work
  <2>1. ASSUME NEW v \in Clients, Accepts(v) PROVE Accepts(s)
    <3>1. v = s
      BY <2>1 DEF Accepts
    <3> QED BY <2>1, <3>1
  <2>2. CASE Connected
    BY <2>2 DEF Connected
  <2> QED BY <1>1, <2>1, <2>2
     DEF Work, FindsEmpty, FallsAsleep, Take, Inserts, AcceptAgain, AcceptFails, ReadGives,
         ReadEnds, ReadFails, Deserialize, ConnectFails, Swap, Writes, WriteEnds, WriteFails,
         WriteAgain, PutsBack
<1>2. CASE User
  <2>1. ASSUME NEW v \in Clients, NEW state \in {"open", "connecting"}, Connects(v, state) PROVE Connects(s, "open")
    <3>1. v = s /\ state = "open"
      BY <2>1 DEF Connects
    <3> QED BY <2>1, <3>1
  <2> QED BY <1>2, <2>1 DEF User, Sends, Appends, Adds
<1>3. CASE Poll \/ Peer \/ WakesSpuriously \/ UNCHANGED vars
  BY <1>3
     DEF Poll, EpollWait, HandleIn, HandleOut, HandleError, HandleEvent, Sweep,
         Peer, PeerConnects, PeerSends, PeerReads, PeerActs, KernelStep, WakesSpuriously, vars
<1> QED BY <1>1, <1>2, <1>3 DEF Next

\* and only epoll_wait gives events, of what is ready.
LEMMA ToldOf ==
    ASSUME NeterInvariant, [Next]_vars, NEW s, NEW e, Told(s, e)'
    PROVE  Told(s, e) \/ (EpollWait /\ e \in Ready(s))
<1>1. CASE batch' = batch
  BY <1>1 DEF Told
<1>2. CASE Poll
  <2>1. CASE EpollWait
    BY <2>1, EpollTells
  <2>2. CASE Sweep
    BY <1>1, <2>2 DEF Sweep
  <2> QED BY <1>2, <2>1, <2>2, HandlingTells DEF Poll, HandleIn, HandleOut, HandleError
<1>3. CASE Peer \/ WakesSpuriously \/ UNCHANGED vars
  BY <1>1, <1>3 DEF Peer, PeerConnects, PeerSends, PeerReads, PeerActs, KernelStep, WakesSpuriously, vars, poll
<1>4. CASE Work
  BY <1>1, <1>4
     DEF Work, FindsEmpty, FallsAsleep, Take, Accepts, Inserts, AcceptAgain, AcceptFails, ReadGives,
         ReadEnds, ReadFails, Deserialize, ConnectFails, Connected, Swap, Writes, WriteEnds, WriteFails,
         WriteAgain, PutsBack, poll
<1>5. CASE User
  BY <1>1, <1>5 DEF User, Connects, Sends, Appends, Adds, poll
<1> QED BY <1>2, <1>3, <1>4, <1>5 DEF Next

-----------------------------------------------------------------------------
LEMMA UnconnectedKept ==
    ASSUME NeterInvariant, Shapes, Begun, [Next]_vars, NEW s \in Clients
    PROVE  Unconnected(s)'
<1> SUFFICES ASSUME socket'[s].state \in {"none", "connecting"}
             PROVE  /\ "WRITE_ACCESS" \notin flags'[s] /\ s \notin announced'
                    /\ ~ Told(s, "out")' /\ ~ WorksAt({"deserialize"}, s)'
                    /\ session'[s].sendList = <<>> /\ socket'[s].inbox = <<>>
  BY DEF Unconnected
<1>0. /\ DOMAIN session = Clients /\ DOMAIN socket = Clients
      /\ DOMAIN socket[s] = {"state", "inbox", "sent", "unread", "nospace"}
      /\ DOMAIN session[s] = {"kind", "readData", "sendList", "cursor", "appended", "written", "received"}
  BY DEF Shapes, Sockets, Buffer
<1>1. socket[s].state \in {"none", "connecting"}
  BY SocketGets
<1>2. /\ "WRITE_ACCESS" \notin flags[s] /\ s \notin announced
      /\ ~ Told(s, "out") /\ ~ WorksAt({"deserialize"}, s)
      /\ session[s].sendList = <<>> /\ socket[s].inbox = <<>>
  BY <1>1 DEF Begun, Unconnected
<1>3. ~ WorksAt({"swap", "write", "putback"}, s)
  BY <1>2 DEF Begun, Unwritten
<1>4. ~ Accepts(s) /\ ~ Connects(s, "open")
  BY <1>0 DEF Accepts, Connects
<1>5. "WRITE_ACCESS" \notin flags'[s]
  BY <1>2, <1>3, AccessGiven DEF WorksAt
<1>6. ~ (Connected /\ worker.s = s)
  BY <1>2 DEF Connected, NeterInvariant, Connecting
<1>7. s \notin announced'
  BY <1>2, <1>4, <1>6, AnnouncedBy
<1>8. ~ Told(s, "out")'
  <2>1. s # Acceptor
    BY NeterAssumption
  <2>2. Ready(s) = {}
    BY <1>1, <2>1 DEF Ready
  <2> QED BY <1>2, <2>2, ToldOf
<1>9. ~ WorksAt({"deserialize"}, s)'
  <2>1. ASSUME ReadEnds, worker.s = s PROVE FALSE
    BY <1>1, <2>1 DEF ReadEnds
  <2> QED BY <1>2, <2>1, WorkerGoes DEF WorksAt
<1>10. session'[s].sendList = <<>>
  <2>1. CASE Appends /\ user.s = s
    BY <1>2, <2>1 DEF Appends, NeterInvariant, Serving, Types, Control
  <2>2. CASE worker.s = s /\ (PutsBack \/ Deserialize)
    BY <1>2, <1>3, <2>2 DEF PutsBack, Deserialize, WorksAt
  <2> QED BY <1>0, <1>2, <1>4, <1>6, <2>1, <2>2, SessionMoves
<1>11. socket'[s].inbox = <<>>
  BY <1>1, <1>2, SocketGets
<1> QED BY <1>5, <1>7, <1>8, <1>9, <1>10, <1>11

LEMMA UnwrittenKept ==
    ASSUME NeterInvariant, Shapes, Begun, [Next]_vars, NEW s \in Clients
    PROVE  Unwritten(s)'
<1> SUFFICES ASSUME "WRITE_ACCESS" \notin flags'[s]
             PROVE  socket'[s].unread = 0 /\ ~ WorksAt({"swap", "write", "putback"}, s)'
  BY DEF Unwritten
<1>0. s \in Sids /\ s # Acceptor
  BY NeterAssumption DEF Sids
<1>1. "WRITE_ACCESS" \notin flags[s]
  <2>1. CASE Take
    BY <1>0, <2>1, TakeClears
  <2>2. CASE Connected
    BY <1>0, <2>2, ConnectedSets
  <2>3. CASE ~ Take /\ ~ Connected
    BY <1>0, <2>3, FlagsGrow
  <2> QED BY <2>1, <2>2, <2>3
<1>2. socket[s].unread = 0 /\ ~ WorksAt({"swap", "write", "putback"}, s)
  BY <1>1 DEF Begun, Unwritten
<1>3. socket'[s].unread = 0
  BY <1>2, SocketGets DEF WorksAt
<1>4. ~ WorksAt({"swap", "write", "putback"}, s)'
  BY <1>0, <1>1, <1>2, WorkerGoes DEF WorksAt
<1> QED BY <1>3, <1>4

LEMMA BegunKept ==
    ASSUME NeterInvariant, Shapes, Begun, [Next]_vars
    PROVE  Begun'
<1> SUFFICES ASSUME NEW s \in Clients
             PROVE  Unmade(s)' /\ Unconnected(s)' /\ Unwritten(s)' /\ (session'[s].sendList # <<>> => Known(s)')
  BY DEF Begun
<1>1. Unmade(s)'
  BY UnmadeKept DEF Begun
<1>2. ASSUME session'[s].sendList # <<>> PROVE Known(s)'
  <2>0. DOMAIN session[s] = {"kind", "readData", "sendList", "cursor", "appended", "written", "received"}
    BY DEF Shapes, Buffer
  <2>1. Known(s)
    <3>1. CASE session[s].sendList # <<>>
      BY <3>1 DEF Begun
    <3>2. CASE Appends /\ user.s = s
      BY <3>2 DEF Appends, NeterInvariant, Named
    <3>3. CASE worker.s = s /\ (Deserialize \/ PutsBack \/ Connected)
      BY <3>3 DEF Deserialize, PutsBack, Connected, NeterInvariant, Named
    <3> QED BY <1>2, <2>0, <3>1, <3>2, <3>3, SessionMoves
  <2>2. s \in Sids
    BY DEF Sids
  <2>3. s \in container => s \in container' \/ "CLOSE_READY" \in flags[s]
    <3>1. container \ toClose \subseteq container'
      <4>1. CASE Poll
        BY <4>1 DEF Poll, EpollWait, HandleIn, HandleOut, HandleError, HandleEvent, Sweep
      <4>2. CASE Work
        BY <4>2
           DEF Work, FindsEmpty, FallsAsleep, Take, Accepts, Inserts, Watch, AcceptAgain, AcceptFails,
               ReadGives, ReadEnds, ReadFails, Deserialize, ConnectFails, Connected, Swap, Writes,
               WriteEnds, WriteFails, WriteAgain, PutsBack
      <4>3. CASE User
        BY <4>3 DEF User, Connects, Watch, Sends, Appends, Adds
      <4>4. CASE Peer \/ WakesSpuriously \/ UNCHANGED vars
        BY <4>4 DEF Peer, PeerConnects, PeerSends, PeerReads, PeerActs, KernelStep, WakesSpuriously, vars
      <4> QED BY <4>1, <4>2, <4>3, <4>4 DEF Next
    <3> QED BY <3>1 DEF NeterInvariant, Listed
  <2> QED BY <2>1, <2>2, <2>3, ClosedStays DEF Known
<1> QED BY <1>1, <1>2, UnconnectedKept, UnwrittenKept

LEMMA HeardKept ==
    ASSUME NeterInvariant, Shapes, Begun, Roused, Heard, [Next]_vars
    PROVE  Heard'
<1> SUFFICES ASSUME NEW s \in Clients, s \in container', "CLOSE_READY" \notin flags'[s], socket'[s].inbox # <<>>
             PROVE  Coming(s, "in")' \/ "READ_PENDING" \in flags'[s] \/ WorksAt({"read"}, s)'
  BY DEF Heard, Open
<1>0. s \in Sids /\ "CLOSE_READY" \notin flags[s] /\ s # Acceptor
  BY ClosedStays, NeterAssumption DEF Sids
<1>1. CASE s \notin container
  <2>1. s \in edge' \/ Connects(s, "connecting")
    BY <1>1, ContainerGrows
  <2>2. CASE Connects(s, "connecting")
    <3>1. session[s].kind = "none" /\ socket'[s].inbox = socket[s].inbox
      BY <2>2 DEF Connects, Unborn, Shapes, Sockets
    <3>2. socket[s].inbox = <<>>
      BY <3>1 DEF Begun, Unmade, Unconnected
    <3> QED BY <3>1, <3>2
  <2> QED BY <2>1, <2>2 DEF Coming
<1>2. CASE s \in container /\ socket[s].inbox = <<>>
  BY <1>2, SocketGets DEF Coming
<1>3. CASE s \in container /\ socket[s].inbox # <<>>
  <2>1. Coming(s, "in") \/ "READ_PENDING" \in flags[s] \/ WorksAt({"read"}, s)
    BY <1>0, <1>3 DEF Heard, Open
  <2>2. CASE Coming(s, "in")
    <3>1. socket[s].state \notin {"none", "connecting"}
      BY <1>3 DEF Begun, Unconnected
    <3>2. "in" \in Ready(s)
      BY <1>3, <3>1, ReadyWhen
    <3> QED BY <1>0, <2>2, <3>2, InputComes
  <2>3. CASE "READ_PENDING" \in flags[s]
    <3>1. CASE Take
      BY <1>0, <2>3, <3>1, TakeClears DEF WorksAt
    <3>2. CASE Connected
      BY <1>0, <2>3, <3>2, ConnectedSets
    <3>3. CASE ~ Take /\ ~ Connected
      BY <1>0, <2>3, <3>3, FlagsGrow
    <3> QED BY <3>1, <3>2, <3>3
  <2>4. CASE WorksAt({"read"}, s)
    <3>1. ~ ReadEnds /\ ~ ReadFails
      BY <1>3, <2>4 DEF ReadEnds, ReadFails, WorksAt
    <3>2. worker.pc = "read" /\ worker.s = s
      BY <2>4 DEF WorksAt
    <3>3. ~ (AcceptAgain \/ AcceptFails \/ Deserialize \/ ConnectFails \/ Connected \/ WriteEnds
                \/ WriteFails \/ PutsBack)
      BY <3>2 DEF AcceptAgain, AcceptFails, Deserialize, ConnectFails, Connected, WriteEnds, WriteFails, PutsBack
    <3> QED BY <3>1, <3>2, <3>3, WorkerGoes DEF WorksAt
  <2> QED BY <2>1, <2>2, <2>3, <2>4
<1> QED BY <1>1, <1>2, <1>3

LEMMA WelcomedKept ==
    ASSUME NeterInvariant, Shapes, Roused, Welcomed, [Next]_vars
    PROVE  Welcomed'
<1>0. Acceptor \in Sids /\ Acceptor \notin Clients
  BY NeterAssumption DEF Sids
<1>1. Acceptor \in watched' \/ "CLOSE_READY" \in flags'[Acceptor]
  <2>1. watched \ toClose \subseteq watched'
    <3>1. CASE Poll
      BY <3>1 DEF Poll, EpollWait, HandleIn, HandleOut, HandleError, HandleEvent, Sweep, kernel
    <3>2. CASE Work
      BY <3>2
         DEF Work, FindsEmpty, FallsAsleep, Take, Accepts, Inserts, Watch, AcceptAgain, AcceptFails,
             ReadGives, ReadEnds, ReadFails, Deserialize, ConnectFails, Connected, Swap, Writes,
             WriteEnds, WriteFails, WriteAgain, PutsBack, kernel
    <3>3. CASE User
      BY <3>3 DEF User, Connects, Watch, Sends, Appends, Adds, kernel
    <3>4. CASE Peer \/ WakesSpuriously \/ UNCHANGED vars
      BY <3>4 DEF Peer, PeerConnects, PeerSends, PeerReads, PeerActs, KernelStep, WakesSpuriously, vars, kernel
    <3> QED BY <3>1, <3>2, <3>3, <3>4 DEF Next
  <2>2. Acceptor \in toClose => "CLOSE_READY" \in flags[Acceptor]
    BY DEF NeterInvariant, Listed
  <2> QED BY <1>0, <2>1, <2>2, ClosedStays DEF Welcomed
<1>2. ASSUME backlog' > 0, Acceptor \in container', "CLOSE_READY" \notin flags'[Acceptor]
      PROVE  Coming(Acceptor, "in")' \/ "READ_PENDING" \in flags'[Acceptor] \/ worker'.pc \in {"accept", "insert"}
  <2>0. "CLOSE_READY" \notin flags[Acceptor] /\ Acceptor \in watched /\ Acceptor \in container
    BY <1>0, <1>2, ClosedStays DEF Welcomed, NeterInvariant, Listed
  <2>1. backlog > 0 \/ PeerConnects
    <3>1. CASE Work
      BY <1>2, <3>1
         DEF Work, FindsEmpty, FallsAsleep, Take, Accepts, Inserts, AcceptAgain, AcceptFails,
             ReadGives, ReadEnds, ReadFails, Deserialize, ConnectFails, Connected, Swap, Writes,
             WriteEnds, WriteFails, WriteAgain, PutsBack, kernel
    <3>2. CASE Peer
      BY <1>2, <3>2 DEF Peer, PeerSends, PeerReads, PeerActs
    <3>3. CASE Poll \/ User \/ WakesSpuriously \/ UNCHANGED vars
      BY <1>2, <3>3
         DEF Poll, EpollWait, HandleIn, HandleOut, HandleError, HandleEvent, Sweep,
             User, Connects, Sends, Appends, Adds, WakesSpuriously, vars, kernel
    <3> QED BY <3>1, <3>2, <3>3 DEF Next
  <2>2. CASE PeerConnects
    BY <2>0, <2>2 DEF PeerConnects, Changed, Coming
  <2>3. CASE backlog > 0
    <3>1. Coming(Acceptor, "in") \/ "READ_PENDING" \in flags[Acceptor] \/ worker.pc \in {"accept", "insert"}
      BY <2>0, <2>3 DEF Welcomed, Open
    <3>2. CASE Coming(Acceptor, "in")
      <4>1. "in" \in Ready(Acceptor)
        BY <2>3 DEF Ready
      <4> QED BY <1>0, <2>0, <3>2, <4>1, InputComes
    <3>3. CASE "READ_PENDING" \in flags[Acceptor]
      <4>1. CASE Take
        BY <1>0, <3>3, <4>1, TakeClears
      <4>2. CASE Connected
        BY <1>0, <3>3, <4>2, ConnectedSets
      <4>3. CASE ~ Take /\ ~ Connected
        BY <1>0, <3>3, <4>3, FlagsGrow
      <4> QED BY <4>1, <4>2, <4>3
    <3>4. CASE worker.pc \in {"accept", "insert"}
      <4>1. ~ AcceptAgain
        BY <2>3 DEF AcceptAgain
      <4>2. ~ AcceptFails
        BY <1>0, <1>2 DEF AcceptFails, Close, SetEventFlag, NeterInvariant, Serving, Types
      <4>3. ~ (ReadEnds \/ ReadFails \/ Deserialize \/ ConnectFails \/ Connected \/ WriteEnds
                  \/ WriteFails \/ PutsBack)
        BY <3>4 DEF ReadEnds, ReadFails, Deserialize, ConnectFails, Connected, WriteEnds, WriteFails, PutsBack
      <4> QED BY <3>4, <4>1, <4>2, <4>3, WorkerGoes
    <3> QED BY <3>1, <3>2, <3>3, <3>4
  <2> QED BY <2>1, <2>2, <2>3
<1>3. backlog' \in Nat
  <2>0. backlog \in Nat
    BY DEF Welcomed
  <2>1. CASE backlog' = backlog
    BY <2>0, <2>1
  <2>01. CASE PeerConnects
    BY <2>0, <2>01 DEF PeerConnects
  <2>02. ASSUME NEW s, Accepts(s) PROVE backlog' \in Nat
    BY <2>0, <2>02 DEF Accepts
  <2>2. CASE Work
    BY <2>02, <2>1, <2>2
       DEF Work, FindsEmpty, FallsAsleep, Take, Inserts, AcceptAgain, AcceptFails,
           ReadGives, ReadEnds, ReadFails, Deserialize, ConnectFails, Connected, Swap, Writes,
           WriteEnds, WriteFails, WriteAgain, PutsBack, kernel
  <2>3. CASE Peer
    BY <2>01, <2>1, <2>3 DEF Peer, PeerSends, PeerReads, PeerActs
  <2>4. CASE Poll \/ User \/ WakesSpuriously \/ UNCHANGED vars
    BY <2>1, <2>4
       DEF Poll, EpollWait, HandleIn, HandleOut, HandleError, HandleEvent, Sweep,
           User, Connects, Sends, Appends, Adds, WakesSpuriously, vars, kernel
  <2> QED BY <2>2, <2>3, <2>4 DEF Next
<1> QED BY <1>1, <1>2, <1>3 DEF Welcomed, Open

LEMMA RoomedKept ==
    ASSUME NeterInvariant, Shapes, Begun, Roused, Roomed, [Next]_vars
    PROVE  Roomed'
<1> SUFFICES ASSUME NEW s \in Clients, s \in container', "CLOSE_READY" \notin flags'[s],
                    "WRITE_ACCESS" \notin flags'[s], socket'[s].state \notin {"none", "connecting"}
             PROVE  Coming(s, "out")'
  BY DEF Roomed, Open
<1>0. s \in Sids /\ "CLOSE_READY" \notin flags[s] /\ s # Acceptor
  BY ClosedStays, NeterAssumption DEF Sids
<1>1. "WRITE_ACCESS" \notin flags[s]
  <2>1. CASE Take
    BY <1>0, <2>1, TakeClears
  <2>2. CASE Connected
    BY <1>0, <2>2, ConnectedSets
  <2>3. CASE ~ Take /\ ~ Connected
    BY <1>0, <2>3, FlagsGrow
  <2> QED BY <2>1, <2>2, <2>3
<1>2. CASE s \notin container
  <2>1. ~ Connects(s, "connecting")
    BY DEF Connects, Shapes, Sockets
  <2> QED BY <1>2, <2>1, ContainerGrows DEF Coming
<1>3. CASE s \in container
  <2>1. ~ Accepts(s) /\ ~ Connects(s, "open") /\ ~ Connects(s, "connecting")
    BY <1>3 DEF Accepts, Connects, Unborn, Begun, Unmade
  <2>2. CASE socket[s].state \in {"none", "connecting"}
    BY <2>1, <2>2, SocketGets DEF Coming
  <2>3. CASE socket[s].state \notin {"none", "connecting"}
    <3>1. Coming(s, "out")
      BY <1>0, <1>1, <1>3, <2>3 DEF Roomed, Open
    <3>2. "out" \in Ready(s)
      <4>1. socket[s].unread = 0 /\ SendRoom \in Nat \ {0}
        BY <1>1, NeterAssumption DEF Begun, Unwritten
      <4>2. socket[s].unread < SendRoom
        BY <4>1
      <4> QED BY <2>3, <4>2, ReadyWhen
    <3>3. CASE s \in edge
      BY <1>0, <3>2, <3>3, RoomReported DEF Coming
    <3>4. CASE Told(s, "out")
      BY <1>0, <3>4, RoomTold DEF Coming
    <3> QED BY <3>1, <3>3, <3>4 DEF Coming
  <2> QED BY <2>2, <2>3
<1> QED BY <1>2, <1>3

LEMMA RousedKept ==
    ASSUME NeterInvariant, Roused, [Next]_vars
    PROVE  Roused'
<1>0. tasks \in Seq(Task)
  BY DEF NeterInvariant, Serving, Types
<1>1. CASE UNCHANGED <<tasks, resting, overslept, polling, batch>>
  BY <1>1 DEF Roused
<1>2. ASSUME NEW t, Push(t)
      PROVE  resting' \in {"drowsy", "asleep"} /\ tasks' # <<>> => overslept'
  BY <1>2 DEF Push
<1>3. ASSUME UNCHANGED <<tasks, resting, overslept>>
      PROVE  resting' \in {"drowsy", "asleep"} /\ tasks' # <<>> => overslept'
  BY <1>3 DEF Roused
<1>4. ASSUME NEW s, NEW set, TryAddReadTask(s, set) \/ TryAddWriteTask(s, set)
      PROVE  resting' \in {"drowsy", "asleep"} /\ tasks' # <<>> => overslept'
  BY <1>2, <1>3, <1>4 DEF TryAddReadTask, TryAddWriteTask, queue
<1>5. CASE Poll
  <2>1. CASE EpollWait
    BY <1>3, <2>1 DEF EpollWait, Roused, queue
  <2>2. CASE Sweep
    BY <1>3, <2>2 DEF Sweep, Roused, queue
  <2>3. ASSUME NEW event, NEW before, HandleEvent(event, before) PROVE ~ polling' => batch' = <<>>
    BY <2>3 DEF HandleEvent, Roused
  <2>4. CASE HandleIn
    BY <1>4, <2>3, <2>4 DEF HandleIn, Roused
  <2>5. CASE HandleOut
    BY <1>4, <2>3, <2>5 DEF HandleOut, Roused
  <2>6. CASE HandleError
    BY <1>3, <2>3, <2>6 DEF HandleError, Roused, queue
  <2> QED BY <1>5, <2>1, <2>2, <2>4, <2>5, <2>6 DEF Poll
<1>6. CASE FindsEmpty \/ FallsAsleep \/ Take \/ WakesSpuriously
  BY <1>0, <1>6 DEF FindsEmpty, FallsAsleep, Take, WakesSpuriously, Roused, poll
<1>7. CASE Deserialize
  BY <1>3, <1>4, <1>7 DEF Deserialize, Roused, queue, poll
<1>8. CASE Connected
  BY <1>2, <1>3, <1>8 DEF Connected, Roused, queue, poll
<1>9. CASE Work
  BY <1>1, <1>6, <1>7, <1>8, <1>9
     DEF Work, Accepts, Inserts, AcceptAgain, AcceptFails, ReadGives, ReadEnds, ReadFails, ConnectFails,
         Swap, Writes, WriteEnds, WriteFails, WriteAgain, PutsBack, queue, poll
<1>10. CASE User
  <2>1. CASE Adds
    BY <1>4, <2>1 DEF Adds, Roused, poll
  <2> QED BY <1>1, <1>10, <2>1 DEF User, Connects, Sends, Appends, queue, poll
<1>11. CASE Peer \/ UNCHANGED vars
  BY <1>1, <1>11 DEF Peer, PeerConnects, PeerSends, PeerReads, PeerActs, KernelStep, vars, queue, poll
<1> QED BY <1>5, <1>6, <1>9, <1>10, <1>11 DEF Next

\* Who waits, waits on, or is served.
LEMMA WaitsOn ==
    ASSUME NeterInvariant, Shapes, Begun, Roused, [Next]_vars, NEW s \in Clients,
           Waits(s), session[s].sendList # <<>>, "CLOSE_READY" \notin flags'[s],
           worker.s = s => ~ Swap /\ ~ Connected /\ ~ PutsBack
    PROVE  Waits(s)'
<1>0. s \in Sids /\ "CLOSE_READY" \notin flags[s] /\ s # Acceptor /\ flags \in [Sids -> SUBSET Flags]
  BY ClosedStays, NeterAssumption DEF Sids, NeterInvariant, Serving, Types
<1>1. CASE "WRITE_PENDING" \in flags[s]
  <2>1. CASE Take
    BY <1>0, <1>1, <2>1, TakeClears DEF Waits, WorksAt
  <2>2. CASE Connected
    BY <1>0, <1>1, <2>2, ConnectedSets DEF Waits
  <2>3. CASE ~ Take /\ ~ Connected
    BY <1>0, <1>1, <2>3, FlagsGrow DEF Waits
  <2> QED BY <2>1, <2>2, <2>3
<1>2. CASE WorksAt({"swap", "connect"}, s)
  <2>1. worker.pc \in {"swap", "connect"} /\ worker.s = s
    BY <1>2 DEF WorksAt
  <2>2. ~ ConnectFails
    BY <1>0, <2>1 DEF ConnectFails, Close, SetEventFlag
  <2>3. ~ (AcceptAgain \/ AcceptFails \/ ReadEnds \/ ReadFails \/ Deserialize \/ WriteEnds \/ WriteFails)
    BY <2>1 DEF AcceptAgain, AcceptFails, ReadEnds, ReadFails, Deserialize, WriteEnds, WriteFails
  <2>4. worker'.pc \in {"swap", "connect"} /\ worker'.s = s
    BY <2>1, <2>2, <2>3, WorkerGoes
  <2> QED BY <2>4 DEF Waits, WorksAt
<1>3. CASE /\ "WRITE_READY" \in flags[s]
           /\ \/ user.pc = "add" /\ user.s = s
              \/ "WRITE_ACCESS" \notin flags[s]
              \/ ~ WorksAt({"write", "putback"}, s) /\ NextRoom(s)
  <2>1. "WRITE_READY" \in flags'[s] \/ WorksAt({"swap", "connect"}, s)'
    <3>1. CASE Take
      BY <1>0, <1>3, <3>1, TakeClears DEF WorksAt
    <3>2. CASE Connected
      BY <1>0, <1>3, <3>2, ConnectedSets
    <3>3. CASE ~ Take /\ ~ Connected
      BY <1>0, <1>3, <3>3, FlagsGrow
    <3> QED BY <3>1, <3>2, <3>3
  <2>2. CASE WorksAt({"swap", "connect"}, s)'
    BY <2>2 DEF Waits
  <2>3. CASE "WRITE_READY" \in flags'[s] /\ ~ WorksAt({"swap", "connect"}, s)'
    <3>1. CASE user.pc = "add" /\ user.s = s
      <4>1. CASE Adds
        BY <1>0, <2>3, <3>1, <4>1, TriedWrite DEF Adds, Waits
      <4>2. CASE ~ Adds
        <5>1. user' = user
          <6>1. CASE User
            BY <3>1, <4>2, <6>1 DEF User, Connects, Sends, Appends
          <6>2. CASE Work
            BY <6>2
               DEF Work, FindsEmpty, FallsAsleep, Take, Accepts, Inserts, AcceptAgain, AcceptFails,
                   ReadGives, ReadEnds, ReadFails, Deserialize, ConnectFails, Connected, Swap, Writes,
                   WriteEnds, WriteFails, WriteAgain, PutsBack
          <6>3. CASE Poll \/ Peer \/ WakesSpuriously \/ UNCHANGED vars
            BY <6>3
               DEF Poll, EpollWait, HandleIn, HandleOut, HandleError, HandleEvent, Sweep,
                   Peer, PeerConnects, PeerSends, PeerReads, PeerActs, KernelStep, WakesSpuriously, vars
          <6> QED BY <6>1, <6>2, <6>3 DEF Next
        <5> QED BY <2>3, <3>1, <5>1 DEF Waits
      <4> QED BY <4>1, <4>2
    <3>2. CASE "WRITE_ACCESS" \notin flags[s]
      <4>1. CASE "WRITE_ACCESS" \notin flags'[s]
        BY <2>3, <4>1 DEF Waits
      <4>2. CASE "WRITE_ACCESS" \in flags'[s]
        <5>1. ~ WorksAt({"write"}, s) /\ ~ WorksAt({"write", "putback"}, s)
          BY <3>2 DEF Begun, Unwritten, WorksAt
        <5>2. Told(s, "out")
          BY <3>2, <4>2, <5>1, AccessGiven
        <5>3. ~ WorksAt({"write", "putback"}, s)'
          BY <1>0, <5>1, WorkerGoes DEF WorksAt
        <5>4. Told(s, "out")' \/ "WRITE_PENDING" \in flags'[s]
          BY <1>0, <2>3, <5>2, RoomTold
        <5> QED BY <2>3, <5>3, <5>4 DEF Waits, NextRoom
      <4> QED BY <4>1, <4>2
    <3>3. CASE ~ WorksAt({"write", "putback"}, s) /\ NextRoom(s)
      <4>1. ~ WorksAt({"write", "putback"}, s)'
        BY <1>0, <3>3, WorkerGoes DEF WorksAt
      <4>2. CASE Told(s, "out")
        <5>1. Told(s, "out")' \/ "WRITE_PENDING" \in flags'[s]
          BY <1>0, <2>3, <4>2, RoomTold
        <5> QED BY <2>3, <4>1, <5>1 DEF Waits, NextRoom
      <4>3. CASE socket[s].nospace
        <5>1. socket'[s].nospace \/ (s \in edge' /\ socket'[s].unread < SendRoom)
          BY <4>3, SocketGets
        <5> QED BY <2>3, <4>1, <5>1 DEF Waits, NextRoom
      <4>4. CASE s \in edge /\ socket[s].unread < SendRoom
        <5>1. "out" \in Ready(s)
          <6>1. socket[s].state \notin {"none", "connecting"}
            BY DEF Begun, Unconnected
          <6> QED BY <4>4, <6>1, ReadyWhen
        <5>2. s \in edge' \/ Told(s, "out")'
          BY <1>0, <4>4, <5>1, RoomReported
        <5>3. socket'[s].unread < SendRoom
          <6>1. /\ \/ socket'[s].unread = socket[s].unread
                   \/ socket[s].unread # 0 /\ socket'[s].unread < socket[s].unread
          BY <3>3, SocketGets DEF WorksAt
          <6>2. /\ socket[s].unread \in 0..SendRoom /\ SendRoom \in Nat
                /\ socket'[s].unread \in 0..SendRoom
            BY NeterAssumption, NextMoves DEF Shapes, Sockets, MovesOnly
          <6> QED BY <4>4, <6>1, <6>2
        <5> QED BY <2>3, <4>1, <5>2, <5>3 DEF Waits, NextRoom
      <4> QED BY <3>3, <4>2, <4>3, <4>4 DEF NextRoom
    <3> QED BY <1>3, <3>1, <3>2, <3>3
  <2> QED BY <2>1, <2>2, <2>3
<1> QED BY <1>1, <1>2, <1>3 DEF Waits

LEMMA AwaitedKept ==
    ASSUME NeterInvariant, Shapes, Begun, Roused, Awaited, [Next]_vars
    PROVE  Awaited'
<1> SUFFICES ASSUME NEW s \in Clients, s \in container', "CLOSE_READY" \notin flags'[s],
                    session'[s].sendList # <<>>, s \notin raced'
             PROVE  Waits(s)'
  BY DEF Awaited, Open
<1>0. /\ s \in Sids /\ "CLOSE_READY" \notin flags[s] /\ s # Acceptor /\ flags \in [Sids -> SUBSET Flags]
      /\ DOMAIN session = Clients
      /\ DOMAIN session[s] = {"kind", "readData", "sendList", "cursor", "appended", "written", "received"}
  BY ClosedStays, NeterAssumption DEF Sids, NeterInvariant, Serving, Types, Shapes, Buffer
<1>1. CASE Appends /\ user.s = s
  <2>1. "WRITE_READY" \in flags'[s]
    BY <1>1 DEF Appends
  <2>2. user'.pc = "add" /\ user'.s = s
    BY <1>1 DEF Appends, NeterInvariant, Serving, Types, Control
  <2> QED BY <2>1, <2>2 DEF Waits
<1>2. CASE Connected /\ worker.s = s
  BY <1>0, <1>2, ConnectedSets DEF Waits
<1>3. CASE PutsBack /\ worker.s = s
  <2>1. "WRITE_READY" \in flags'[s] /\ worker'.pc = "idle"
    BY <1>0, <1>3 DEF PutsBack, SetEventFlag, Done
  <2>2. socket[s].nospace /\ socket' = socket
    BY <1>3 DEF PutsBack, kernel
  <2> QED BY <2>1, <2>2 DEF Waits, NextRoom, WorksAt
<1>4. CASE TryAddWriteTask(s, {"WRITE_READY"})
  BY <1>0, <1>4, TriedWrite DEF Waits
<1>5. CASE session'[s].sendList = session[s].sendList /\ (worker.s = s => ~ Swap /\ ~ Connected /\ ~ PutsBack)
  <2>1. Known(s) /\ Open(s)
    BY <1>0, <1>5 DEF Begun, Known, Open
  <2>2. s \notin raced
    <3>1. CASE Work
      <4>1. CASE Connected
        BY <1>0, <4>1, ConnectedSets
      <4>2. CASE Swap
        BY <1>5, <4>2 DEF Swap
      <4>3. CASE PutsBack
        BY <4>3 DEF PutsBack
      <4> QED BY <3>1, <4>1, <4>2, <4>3
         DEF Work, FindsEmpty, FallsAsleep, Take, Accepts, Inserts, AcceptAgain, AcceptFails,
             ReadGives, ReadEnds, ReadFails, Deserialize, ConnectFails, Writes, WriteEnds, WriteFails, WriteAgain
    <3>2. CASE User
      BY <3>2 DEF User, Connects, Sends, Appends, Adds
    <3>3. CASE Poll \/ Peer \/ WakesSpuriously \/ UNCHANGED vars
      BY <3>3
         DEF Poll, EpollWait, HandleIn, HandleOut, HandleError, HandleEvent, Sweep,
             Peer, PeerConnects, PeerSends, PeerReads, PeerActs, KernelStep, WakesSpuriously, vars
    <3> QED BY <3>1, <3>2, <3>3 DEF Next
  <2>3. Waits(s)
    BY <1>5, <2>1, <2>2 DEF Awaited
  <2> QED BY <1>5, <2>3, WaitsOn
<1>6. ASSUME worker.s = s, Swap PROVE FALSE
  <2>1. session'[s].sendList = <<>>
    BY <1>0, <1>6 DEF Swap
  <2> QED BY <2>1
<1> QED BY <1>0, <1>1, <1>2, <1>3, <1>4, <1>5, <1>6, SessionMoves

\* Every step leaves in hand what has to be done.
LEMMA InHandKept ==
    ASSUME NeterInvariant, Shapes, InHand, [Next]_vars
    PROVE  InHand'
BY HeardKept, WelcomedKept, RoomedKept, BegunKept, AwaitedKept, RousedKept DEF InHand

LEMMA InHandAtStart == Init => InHand
<1> SUFFICES ASSUME Init PROVE InHand
  OBVIOUS
<1>1. Acceptor \notin Clients /\ Clients \subseteq Sids /\ Acceptor \in Sids
  BY NeterAssumption DEF Sids
<1>2. \A s \in Clients : session[s].kind = "none" /\ session[s].sendList = <<>> /\ socket[s].state = "none"
            /\ socket[s].inbox = <<>> /\ socket[s].unread = 0 /\ flags[s] = {} /\ s \notin container
  BY <1>1 DEF Init
<1>3. worker.pc = "idle" /\ announced = {} /\ backlog = 0 /\ resting = "awake" /\ batch = <<>>
      /\ Acceptor \in watched
  BY DEF Init
<1>4. \A s, e : ~ Told(s, e)
  BY <1>3 DEF Told
<1> QED BY <1>1, <1>2, <1>3, <1>4
   DEF InHand, Heard, Welcomed, Roomed, Begun, Unmade, Unconnected, Unwritten, Awaited, Roused, WorksAt, Open

\* When nothing is left to do, nobody waits but for the peer.
LEMMA QuietLeavesNothing == NeterInvariant /\ InHand => NothingStranded
<1> SUFFICES ASSUME NeterInvariant, InHand PROVE NothingStranded
  OBVIOUS
<1>1. ASSUME Quiet
      PROVE  /\ \A s, e : ~ Coming(s, e)
             /\ \A s \in Sids : Open(s) => "READ_PENDING" \notin flags[s] /\ "WRITE_PENDING" \notin flags[s]
             /\ worker.pc = "idle" /\ user.pc = "idle"
  <2>1. edge = {} /\ batch = <<>> /\ tasks = <<>> /\ worker.pc = "idle" /\ user.pc = "idle"
    BY <1>1 DEF Quiet, InHand, Roused
  <2>2. \A t : Cardinality(At(tasks, t)) = 0
    BY <2>1, FS_EmptySet DEF At
  <2>3. ASSUME NEW s \in Sids, Open(s), NEW op \in {"read", "write"} PROVE Pending(op) \notin flags[s]
    <3>1. Cardinality(At(tasks, <<op, s>>)) = One(Pending(op) \in flags[s])
      BY <2>3 DEF NeterInvariant, Serving, Counted, Open
    <3>2. One(Pending(op) \in flags[s]) = 0
      BY <2>2, <3>1
    <3> QED BY <3>2 DEF One
  <2>4. Pending("read") = "READ_PENDING" /\ Pending("write") = "WRITE_PENDING"
    BY DEF Pending
  <2> QED BY <2>1, <2>3, <2>4 DEF Coming, Told
<1>2. ASSUME Quiet, NEW s \in Clients, Open(s)
      PROVE  socket[s].inbox = <<>> /\ (session[s].sendList # <<>> => socket[s].nospace \/ s \in raced)
  <2>0. s \in Sids /\ s # Acceptor
    BY NeterAssumption DEF Sids
  <2>1. socket[s].inbox = <<>>
    BY <1>1, <1>2, <2>0 DEF InHand, Heard, WorksAt
  <2>2. ASSUME session[s].sendList # <<>>, s \notin raced PROVE socket[s].nospace
    <3>1. Waits(s)
      BY <1>2, <2>2 DEF InHand, Awaited
    <3>2. "WRITE_ACCESS" \in flags[s]
      <4>1. socket[s].state \notin {"none", "connecting"}
        BY <2>2 DEF InHand, Begun, Unconnected
      <4> QED BY <1>1, <1>2, <4>1 DEF InHand, Roomed
    <3>3. NextRoom(s)
      BY <1>1, <1>2, <2>0, <3>1, <3>2 DEF Waits, WorksAt
    <3> QED BY <1>1, <1>2, <3>3 DEF NextRoom, Coming
  <2> QED BY <2>1, <2>2
<1>3. ASSUME Quiet, Open(Acceptor) PROVE ~ (backlog > 0)
  <2>1. Acceptor \in Sids
    BY DEF Sids
  <2> QED BY <1>1, <1>3, <2>1 DEF InHand, Welcomed
<1>4. backlog \in Nat
  BY DEF InHand, Welcomed
<1>5. resting = "asleep" /\ tasks # <<>> => overslept
  BY DEF InHand, Roused
<1> QED BY <1>2, <1>3, <1>4, <1>5 DEF NothingStranded

(***************************************************************************)
(* When nothing is left to do in this process, an open session has no      *)
(* unread input and the acceptor no connection to accept, and data is      *)
(* unsent only for want of room or because its flag was raced; and the     *)
(* thread sleeps beside a task only if it overslept.                       *)
(***************************************************************************)
THEOREM NothingEverStranded == Spec => []NothingStranded
<1>1. NeterInvariant /\ (Shapes /\ Delivered) /\ InHand /\ [Next]_vars => InHand'
  BY InHandKept
<1>2. Spec => [](NeterInvariant /\ (Shapes /\ Delivered) /\ InHand)
  BY <1>1, InHandAtStart, DeliveredAtStart, DeliveredKept, NeterAlways, PTL DEF Spec
<1> QED BY <1>2, QuietLeavesNothing, PTL

-----------------------------------------------------------------------------
(* What Generate makes of the bytes that were read *)

\* A token of the peer's.
Received == (DOMAIN Lengths) \X Nat

\* Message k, and the messages of ks, as the peer sends them.
Tokens(k) == [i \in 1..(Lengths[k] + 1) |-> <<k, i - 1>>]

Framed(ks) == FlattenSeq([i \in DOMAIN ks |-> Tokens(ks[i])])

\* What is behind the first message of data.
Behind(data) == SubSeq(data, Lengths[data[1][1]] + 2, Len(data))

\* One turn of Generate, with gen for the turns that follow.
Turn(gen, data) ==
    IF ~ Pops(data) THEN [given |-> <<>>, left |-> data]
    ELSE [given |-> <<data[1][1]>> \o gen[Behind(data)].given, left |-> gen[Behind(data)].left]

Short(n) == {data \in Seq(Received) : Len(data) <= n}

Generates(n, gen) == gen = [data \in Short(n) |-> Turn(gen, data)]

LEMMA GeneratesAt ==
    ASSUME NEW n, NEW gen, Generates(n, gen), NEW data \in Short(n)
    PROVE  gen[data] = Turn(gen, data)
  BY DEF Generates

\* A message that is popped leaves less behind.
LEMMA BehindShort ==
    ASSUME NEW data \in Seq(Received), Pops(data)
    PROVE  /\ data[1][1] \in DOMAIN Lengths /\ Lengths[data[1][1]] \in Nat
           /\ Behind(data) \in Seq(Received)
           /\ Len(Behind(data)) = Len(data) - (Lengths[data[1][1]] + 1)
           /\ Len(Behind(data)) \in Nat /\ Len(Behind(data)) < Len(data)
<1> DEFINE l == Lengths[data[1][1]]
           n == Len(data)
<1>1. n \in Nat /\ n > 1 /\ 1 \in 1..n
  BY DEF Pops
<1>2. data[1][1] \in DOMAIN Lengths
  BY <1>1 DEF Received
<1>3. l \in Nat
  BY <1>2, NeterAssumption
<1>4. n - 1 >= l
  BY DEF Pops
<1>5. \A i \in (l + 2)..n : data[i] \in Received
  BY <1>3, ElementOfSeq
<1> DEFINE b == SubSeq(data, l + 2, n)
<1> HIDE DEF l, n
<1>6. b \in Seq(Received) /\ Len(b) = IF l + 2 <= n THEN n - (l + 2) + 1 ELSE 0
  <2>1. l + 2 \in Int /\ n \in Int
    BY <1>1, <1>3
  <2> QED BY <1>5, <2>1, SubSeqProperties
<1>7. Len(b) = n - (l + 1) /\ Len(b) \in Nat /\ Len(b) < n
  BY <1>1, <1>3, <1>4, <1>6
<1> QED BY <1>2, <1>3, <1>6, <1>7 DEF l, n, Behind

\* There is such a function, and only one.
LEMMA GeneratesUnique ==
    ASSUME NEW n \in Nat, NEW m \in Nat, n <= m, NEW f, NEW g, Generates(n, f), Generates(m, g)
    PROVE  \A data \in Short(n) : f[data] = g[data]
<1> DEFINE T == {k \in Nat : \A data \in Short(n) : Len(data) <= k => f[data] = g[data]}
<1>0. ASSUME NEW data \in Short(n)
      PROVE  f[data] = Turn(f, data) /\ g[data] = Turn(g, data) /\ data \in Seq(Received) /\ Len(data) \in Nat
  <2>1. data \in Short(m)
    BY DEF Short
  <2> QED BY <2>1, GeneratesAt DEF Short
<1>1. 0 \in T
  <2> SUFFICES ASSUME NEW data \in Short(n), Len(data) <= 0 PROVE f[data] = g[data]
    OBVIOUS
  <2>1. ~ Pops(data)
    BY <1>0 DEF Pops
  <2> QED BY <1>0, <2>1 DEF Turn
<1>2. ASSUME NEW k \in Nat, k \in T PROVE k + 1 \in T
  <2> SUFFICES ASSUME NEW data \in Short(n), Len(data) <= k + 1 PROVE f[data] = g[data]
    OBVIOUS
  <2>1. CASE ~ Pops(data)
    BY <1>0, <2>1 DEF Turn
  <2>2. CASE Pops(data)
    <3> DEFINE b == Behind(data)
    <3>1. b \in Seq(Received) /\ Len(b) \in Nat /\ Len(b) < Len(data) /\ Len(data) \in Nat
      BY <1>0, <2>2, BehindShort
    <3>2. Len(data) <= n
      BY DEF Short
    <3> HIDE DEF b
    <3>3. b \in Short(n) /\ Len(b) <= k
      BY <3>1, <3>2 DEF Short
    <3>4. f[b] = g[b]
      BY <1>2, <3>3
    <3> QED BY <1>0, <2>2, <3>4 DEF Turn, b
  <2> QED BY <2>1, <2>2
<1> HIDE DEF T
<1>3. n \in T
  BY <1>1, <1>2, Inductive
<1> QED BY <1>3 DEF T, Short

LEMMA GeneratesExists ==
    ASSUME NEW n \in Nat
    PROVE  \E gen : Generates(n, gen)
<1> DEFINE T == {m \in Nat : \E gen : Generates(m, gen)}
<1>1. 0 \in T
  <2> DEFINE g == [data \in Short(0) |-> [given |-> <<>>, left |-> data]]
  <2>1. ASSUME NEW data \in Short(0) PROVE g[data] = Turn(g, data)
    <3>1. ~ Pops(data)
      BY DEF Short, Pops
    <3> QED BY <3>1 DEF Turn
  <2>2. g = [data \in Short(0) |-> g[data]]
    OBVIOUS
  <2> HIDE DEF g
  <2>3. g = [data \in Short(0) |-> Turn(g, data)]
    BY <2>1, <2>2
  <2>4. Generates(0, g)
    BY <2>3 DEF Generates
  <2> QED BY <2>4
<1>2. ASSUME NEW m \in Nat, m \in T PROVE m + 1 \in T
  <2>1. PICK f : Generates(m, f)
    BY <1>2
  <2> DEFINE g == [data \in Short(m + 1) |-> Turn(f, data)]
  <2>2. ASSUME NEW data \in Short(m) PROVE g[data] = f[data]
    <3>1. f[data] = Turn(f, data)
      BY <2>1, GeneratesAt
    <3>2. data \in Short(m + 1)
      BY DEF Short
    <3> QED BY <3>1, <3>2
  <2>3. ASSUME NEW data \in Short(m + 1) PROVE g[data] = Turn(g, data)
    <3>1. g[data] = Turn(f, data)
      OBVIOUS
    <3> HIDE DEF g
    <3>2. CASE ~ Pops(data)
      BY <3>1, <3>2 DEF Turn
    <3>3. CASE Pops(data)
      <4> DEFINE b == Behind(data)
      <4>1. data \in Seq(Received) /\ Len(data) \in Nat /\ Len(data) <= m + 1
        BY DEF Short
      <4>2. b \in Seq(Received) /\ Len(b) \in Nat /\ Len(b) < Len(data)
        BY <3>3, <4>1, BehindShort
      <4> HIDE DEF b
      <4>3. b \in Short(m)
        BY <4>1, <4>2 DEF Short
      <4>4. g[b] = f[b]
        BY <2>2, <4>3
      <4> QED BY <3>1, <3>3, <4>4 DEF Turn, b
    <3> QED BY <3>2, <3>3
  <2>4. g = [data \in Short(m + 1) |-> g[data]]
    OBVIOUS
  <2> HIDE DEF g
  <2>5. g = [data \in Short(m + 1) |-> Turn(g, data)]
    BY <2>3, <2>4
  <2>6. Generates(m + 1, g)
    BY <2>5 DEF Generates
  <2> QED BY <2>6
<1> HIDE DEF T
<1>3. n \in T
  BY <1>1, <1>2, Inductive
<1> QED BY <1>3 DEF T

\* The definition of Generate has a solution, so Generate is one.
LEMMA GenerateTurns ==
    ASSUME NEW data \in Seq(Received)
    PROVE  Generate[data] = Turn(Generate, data)
<1> DEFINE pick(d) == CHOOSE f : Generates(Len(d), f)
           g == [d \in Seq(Received) |-> pick(d)[d]]
<1>1. ASSUME NEW d \in Seq(Received) PROVE Generates(Len(d), pick(d)) /\ Len(d) \in Nat /\ g[d] = pick(d)[d]
  <2>1. Len(d) \in Nat
    OBVIOUS
  <2> QED BY <2>1, GeneratesExists
<1> HIDE DEF pick
<1>2. ASSUME NEW d \in Seq(Received) PROVE g[d] = Turn(g, d)
  <2>1. d \in Short(Len(d))
    BY <1>1 DEF Short
  <2>2. g[d] = Turn(pick(d), d)
    BY <1>1, <2>1, GeneratesAt
  <2>3. CASE ~ Pops(d)
    BY <2>2, <2>3 DEF Turn
  <2>4. CASE Pops(d)
    <3> DEFINE b == Behind(d)
    <3>1. b \in Seq(Received) /\ Len(b) \in Nat /\ Len(b) < Len(d)
      BY <2>4, BehindShort
    <3> HIDE DEF b, g
    <3>2. Generates(Len(b), pick(b)) /\ g[b] = pick(b)[b] /\ Generates(Len(d), pick(d)) /\ Len(d) \in Nat
      BY <1>1, <3>1
    <3>3. b \in Short(Len(b))
      BY <3>1 DEF Short
    <3>4. pick(b)[b] = pick(d)[b]
      <4> DEFINE n == Len(b)
                 m == Len(d)
                 f == pick(b)
                 h == pick(d)
      <4>1. n \in Nat /\ m \in Nat /\ n <= m /\ Generates(n, f) /\ Generates(m, h) /\ b \in Short(n)
        BY <3>1, <3>2, <3>3
      <4> HIDE DEF n, m, f, h
      <4>2. f[b] = h[b]
        BY <4>1, GeneratesUnique
      <4> QED BY <4>2 DEF f, h
    <3> QED BY <2>2, <2>4, <3>2, <3>4 DEF Turn, b
  <2> QED BY <2>3, <2>4
<1>3. g = [d \in Seq(Received) |-> g[d]]
  OBVIOUS
<1> HIDE DEF g
<1>4. g = [d \in Seq(Received) |-> Turn(g, d)]
  BY <1>2, <1>3
<1>5. \E f : f = [d \in Seq(Received) |-> Turn(f, d)]
  BY <1>4
<1>6. Generate = CHOOSE f : f = [d \in Seq(Received) |-> Turn(f, d)]
  BY DEF Generate, Turn, Behind, Received
<1>7. Generate = [d \in Seq(Received) |-> Turn(Generate, d)]
  BY <1>5, <1>6
<1> QED BY <1>7

-----------------------------------------------------------------------------
LEMMA TokensType ==
    ASSUME NEW k \in DOMAIN Lengths
    PROVE  /\ Tokens(k) \in Seq(Received) /\ Len(Tokens(k)) = Lengths[k] + 1 /\ Lengths[k] \in Nat
           /\ Tokens(k)[1] = <<k, 0>>
<1>1. Lengths[k] \in Nat
  BY NeterAssumption
<1>2. \A i \in 1..(Lengths[k] + 1) : <<k, i - 1>> \in Received
  BY <1>1 DEF Received
<1>3. 1 \in 1..(Lengths[k] + 1) /\ Lengths[k] + 1 \in Nat
  BY <1>1
<1> QED BY <1>1, <1>2, <1>3 DEF Tokens

Pieces(ks) == [i \in DOMAIN ks |-> Tokens(ks[i])]

LEMMA PiecesType ==
    ASSUME NEW ks \in Seq(DOMAIN Lengths)
    PROVE  Pieces(ks) \in Seq(Seq(Received)) /\ Len(Pieces(ks)) = Len(ks)
<1>1. DOMAIN ks = 1..Len(ks) /\ Len(ks) \in Nat
  OBVIOUS
<1>2. \A i \in 1..Len(ks) : Tokens(ks[i]) \in Seq(Received)
  BY TokensType
<1> DEFINE n == Len(ks)
<1> HIDE DEF n
<1>3. Pieces(ks) = [i \in 1..n |-> Tokens(ks[i])] /\ \A i \in 1..n : Tokens(ks[i]) \in Seq(Received)
  BY <1>1, <1>2 DEF Pieces, n
<1>4. Pieces(ks) \in Seq(Seq(Received)) /\ Len(Pieces(ks)) = n
  <2>1. n \in Nat
    BY <1>1 DEF n
  <2> QED BY <1>3, <2>1
<1> QED BY <1>4 DEF n

\* Messages in two parts.
LEMMA FramedJoin ==
    ASSUME NEW ks \in Seq(DOMAIN Lengths), NEW js \in Seq(DOMAIN Lengths)
    PROVE  Framed(ks \o js) = Framed(ks) \o Framed(js) /\ Framed(ks) \in Seq(Received)
<1> DEFINE hs == ks \o js
<1>1. hs \in Seq(DOMAIN Lengths) /\ Len(hs) = Len(ks) + Len(js) /\ Len(ks) \in Nat /\ Len(js) \in Nat
      /\ \A i \in 1..Len(ks) + Len(js) : hs[i] = IF i <= Len(ks) THEN ks[i] ELSE js[i - Len(ks)]
  BY ConcatProperties
<1> HIDE DEF hs
<1>2. Pieces(hs) \in Seq(Seq(Received)) /\ Pieces(ks) \in Seq(Seq(Received)) /\ Pieces(js) \in Seq(Seq(Received))
      /\ Len(Pieces(hs)) = Len(hs) /\ Len(Pieces(ks)) = Len(ks) /\ Len(Pieces(js)) = Len(js)
  BY <1>1, PiecesType
<1>3. Pieces(hs) = Pieces(ks) \o Pieces(js)
  <2>1. Joins(Pieces(hs), Pieces(ks), Pieces(js))
    <3>1. ASSUME NEW i \in 1..Len(ks) PROVE Pieces(hs)[i] = Pieces(ks)[i]
      <4>1. i \in DOMAIN hs /\ i \in DOMAIN ks /\ hs[i] = ks[i]
        BY <1>1
      <4> QED BY <4>1 DEF Pieces
    <3>2. ASSUME NEW i \in 1..Len(js) PROVE Pieces(hs)[Len(ks) + i] = Pieces(js)[i]
      <4>1. Len(ks) + i \in 1..Len(ks) + Len(js) /\ ~ (Len(ks) + i <= Len(ks)) /\ (Len(ks) + i) - Len(ks) = i
        BY <1>1
      <4>2. Len(ks) + i \in DOMAIN hs /\ i \in DOMAIN js /\ hs[Len(ks) + i] = js[i]
        BY <1>1, <4>1
      <4> QED BY <4>2 DEF Pieces
    <3> QED BY <1>1, <1>2, <3>1, <3>2 DEF Joins
  <2> QED BY <1>2, <2>1, JoinedAre
<1>4. FlattenSeq(Pieces(ks) \o Pieces(js)) = FlattenSeq(Pieces(ks)) \o FlattenSeq(Pieces(js))
      /\ FlattenSeq(Pieces(ks)) \in Seq(Received)
  BY <1>2, FlattenConcat, FlattenType
<1> QED BY <1>3, <1>4 DEF Framed, Pieces, hs

\* The first message and the others.
LEMMA FramedFirst ==
    ASSUME NEW ks \in Seq(DOMAIN Lengths), ks # <<>>
    PROVE  /\ ks[1] \in DOMAIN Lengths /\ Tail(ks) \in Seq(DOMAIN Lengths) /\ ks = <<ks[1]>> \o Tail(ks)
           /\ Framed(ks) = Tokens(ks[1]) \o Framed(Tail(ks)) /\ Framed(Tail(ks)) \in Seq(Received)
<1>1. ks[1] \in DOMAIN Lengths /\ Tail(ks) \in Seq(DOMAIN Lengths) /\ ks = <<ks[1]>> \o Tail(ks)
  <2>1. ks[1] \in DOMAIN Lengths /\ Tail(ks) \in Seq(DOMAIN Lengths)
    OBVIOUS
  <2>2. ks = <<Head(ks)>> \o Tail(ks)
    OBVIOUS
  <2> QED BY <2>1, <2>2
<1>2. <<ks[1]>> \in Seq(DOMAIN Lengths)
  BY <1>1
<1>3. Framed(<<ks[1]>> \o Tail(ks)) = Framed(<<ks[1]>>) \o Framed(Tail(ks))
      /\ Framed(Tail(ks)) \in Seq(Received)
  BY <1>1, <1>2, FramedJoin
<1>4. Framed(<<ks[1]>>) = Tokens(ks[1])
  <2> DEFINE k == ks[1]
  <2>1. k \in DOMAIN Lengths
    BY <1>1
  <2> HIDE DEF k
  <2>2. [i \in DOMAIN <<k>> |-> Tokens(<<k>>[i])] = <<Tokens(k)>>
    OBVIOUS
  <2>3. FlattenSeq(<<Tokens(k)>>) = Tokens(k)
    BY <2>1, TokensType, FlattenOne
  <2>4. Framed(<<k>>) = Tokens(k)
    BY <2>2, <2>3 DEF Framed
  <2> QED BY <2>4 DEF k
<1> QED BY <1>1, <1>3, <1>4

LEMMA FramedNone == Framed(<<>>) = <<>>
<1>1. [i \in DOMAIN <<>> |-> Tokens(<<>>[i])] = <<>>
  OBVIOUS
<1> QED BY <1>1, FlattenNone DEF Framed

\* The first token of messages is where the first of them begins.
LEMMA FramedBegins ==
    ASSUME NEW data \in Seq(Received), NEW t \in Seq(Received), NEW ks \in Seq(DOMAIN Lengths),
           data # <<>>, data \o t = Framed(ks)
    PROVE  ks # <<>> /\ data[1] = <<ks[1], 0>>
<1>1. Len(data) \in Nat /\ Len(data) >= 1 /\ Len(t) \in Nat
  OBVIOUS
<1>2. Len(data \o t) = Len(data) + Len(t) /\ (data \o t)[1] = data[1]
  <2>1. 1 \in 1..Len(data) + Len(t) /\ 1 <= Len(data)
    BY <1>1
  <2> QED BY <2>1, ConcatProperties
<1>3. ks # <<>>
  <2> SUFFICES ASSUME ks = <<>> PROVE FALSE
    OBVIOUS
  <2>1. Len(data \o t) = 0
    BY FramedNone
  <2> QED BY <1>1, <1>2, <2>1
<1>4. data[1] = <<ks[1], 0>>
  <2> DEFINE m == Tokens(ks[1])
             u == Framed(Tail(ks))
  <2>1. m \in Seq(Received) /\ u \in Seq(Received) /\ Framed(ks) = m \o u /\ Len(m) >= 1 /\ m[1] = <<ks[1], 0>>
    <3>1. ks[1] \in DOMAIN Lengths /\ Framed(ks) = m \o u /\ u \in Seq(Received)
      BY <1>3, FramedFirst
    <3>2. m \in Seq(Received) /\ Len(m) = Lengths[ks[1]] + 1 /\ Lengths[ks[1]] \in Nat /\ m[1] = <<ks[1], 0>>
      BY <3>1, TokensType
    <3> HIDE DEF m, u
    <3> QED BY <3>1, <3>2
  <2> HIDE DEF m, u
  <2>2. 1 \in 1..Len(m) + Len(u) /\ 1 <= Len(m)
    BY <2>1
  <2>3. (m \o u)[1] = m[1]
    BY <2>1, <2>2, ConcatProperties
  <2> QED BY <1>2, <2>1, <2>3
<1> QED BY <1>3, <1>4

(***************************************************************************)
(* Of data that begins messages ks, to go on with t, Generate gives whole  *)
(* messages, the first of ks, and leaves what begins the others and has no *)
(* whole one more.                                                         *)
(***************************************************************************)
Gives(result, t, ks) ==
    /\ result.given \in Seq(DOMAIN Lengths) /\ result.left \in Seq(Received) /\ ~ Pops(result.left)
    /\ \E js \in Seq(DOMAIN Lengths) : ks = result.given \o js /\ result.left \o t = Framed(js)

Begins(data, t, ks) == t \in Seq(Received) /\ ks \in Seq(DOMAIN Lengths) /\ data \o t = Framed(ks)

LEMMA GenerateGives ==
    ASSUME NEW data \in Seq(Received), NEW t, NEW ks, Begins(data, t, ks)
    PROVE  Gives(Generate[data], t, ks)
<1> DEFINE T == {n \in Nat : \A d \in Short(n) : \A x, y : Begins(d, x, y) => Gives(Generate[d], x, y)}
<1>1. ASSUME NEW d \in Seq(Received), NEW x, NEW y, Begins(d, x, y), ~ Pops(d)
      PROVE  Gives(Generate[d], x, y)
  <2> DEFINE r == Generate[d]
  <2>1. r = [given |-> <<>>, left |-> d]
    BY <1>1, GenerateTurns DEF Turn
  <2> HIDE DEF r
  <2>2. r.given = <<>> /\ r.left = d /\ <<>> \in Seq(DOMAIN Lengths)
    BY <2>1
  <2>3. y \in Seq(DOMAIN Lengths) /\ y = <<>> \o y /\ d \o x = Framed(y)
    BY <1>1 DEF Begins
  <2>4. Gives(r, x, y)
    BY <1>1, <2>2, <2>3 DEF Gives
  <2> QED BY <2>4 DEF r
<1>2. 0 \in T
  <2>1. \A d \in Short(0) : d \in Seq(Received) /\ ~ Pops(d)
    BY DEF Short, Pops
  <2> QED BY <1>1, <2>1
<1>3. ASSUME NEW n \in Nat, n \in T PROVE n + 1 \in T
  <2> SUFFICES ASSUME NEW d \in Short(n + 1), NEW x, NEW y, Begins(d, x, y) PROVE Gives(Generate[d], x, y)
    OBVIOUS
  <2>1. d \in Seq(Received) /\ Len(d) \in Nat /\ Len(d) <= n + 1
    BY DEF Short
  <2>2. CASE ~ Pops(d)
    BY <1>1, <2>1, <2>2
  <2>3. CASE Pops(d)
    <3> DEFINE k == d[1][1]
               b == Behind(d)
               m == Tokens(y[1])
               u == Framed(Tail(y))
    <3>1. k \in DOMAIN Lengths /\ Lengths[k] \in Nat /\ b \in Seq(Received) /\ Len(b) \in Nat /\ Len(b) < Len(d)
          /\ Len(b) = Len(d) - (Lengths[k] + 1)
      BY <2>1, <2>3, BehindShort
    <3>2. d # <<>> /\ x \in Seq(Received) /\ y \in Seq(DOMAIN Lengths) /\ d \o x = Framed(y)
      BY <2>1, <2>3 DEF Begins, Pops
    <3>3. y # <<>> /\ d[1] = <<y[1], 0>>
      BY <2>1, <3>2, FramedBegins
    <3>4. k = y[1]
      BY <3>3
    <3>5. /\ Tail(y) \in Seq(DOMAIN Lengths) /\ y = <<k>> \o Tail(y)
          /\ Framed(y) = m \o u /\ u \in Seq(Received)
      BY <3>2, <3>3, <3>4, FramedFirst
    <3>6. m \in Seq(Received) /\ Len(m) = Lengths[k] + 1
      BY <3>1, <3>4, TokensType
    <3>7. Len(m) <= Len(d)
      BY <2>1, <3>1, <3>6
    <3>8. b = SubSeq(d, Len(m) + 1, Len(d))
      <4>1. (Lengths[k] + 1) + 1 = Lengths[k] + 2
        BY <3>1
      <4> HIDE DEF m
      <4> QED BY <3>6, <4>1 DEF Behind
    <3>9. b \o x = u
      <4> HIDE DEF b, m, u
      <4>1. d \o x = m \o u
        BY <3>2, <3>5
      <4>2. SubSeq(d, Len(m) + 1, Len(d)) \o x = u
        BY <2>1, <3>2, <3>5, <3>6, <3>7, <4>1, FrontTaken
      <4> QED BY <3>8, <4>2
    <3> HIDE DEF b, k, m
    <3>10. Begins(b, x, Tail(y))
      BY <3>2, <3>5, <3>9 DEF Begins
    <3>11. b \in Short(n)
      BY <2>1, <3>1 DEF Short
    <3>12. Gives(Generate[b], x, Tail(y))
      BY <1>3, <3>10, <3>11
    <3> DEFINE r == Generate[d]
               q == Generate[b]
    <3>13. r = [given |-> <<k>> \o q.given, left |-> q.left]
      BY <2>1, <2>3, GenerateTurns DEF Turn, b, k
    <3> HIDE DEF r, q
    <3>14. PICK js \in Seq(DOMAIN Lengths) : Tail(y) = q.given \o js /\ q.left \o x = Framed(js)
      BY <3>12 DEF Gives, q
    <3>15. q.given \in Seq(DOMAIN Lengths) /\ q.left \in Seq(Received) /\ ~ Pops(q.left)
      BY <3>12 DEF Gives, q
    <3>16. <<k>> \o q.given \in Seq(DOMAIN Lengths) /\ y = (<<k>> \o q.given) \o js
      <4> DEFINE g == q.given
      <4>0. Tail(y) = g \o js /\ y = <<k>> \o Tail(y) /\ g \in Seq(DOMAIN Lengths)
        BY <3>5, <3>14, <3>15
      <4>a. y = <<k>> \o (g \o js)
        BY ONLY <4>0, Zenon
      <4>b. <<k>> \in Seq(DOMAIN Lengths)
        BY <3>1
      <4>1. g \in Seq(DOMAIN Lengths) /\ <<k>> \in Seq(DOMAIN Lengths) /\ y = <<k>> \o (g \o js)
        BY <4>0, <4>a, <4>b
      <4> HIDE DEF g
      <4>2. (<<k>> \o g) \o js = <<k>> \o (g \o js) /\ <<k>> \o g \in Seq(DOMAIN Lengths)
        BY <4>1, Regroup
      <4> QED BY <4>1, <4>2 DEF g
    <3>17. Gives(r, x, y)
      <4>1. r.given = <<k>> \o q.given /\ r.left = q.left
        BY <3>13
      <4> QED BY <3>14, <3>15, <3>16, <4>1 DEF Gives
    <3> QED BY <3>17 DEF r
  <2> QED BY <2>2, <2>3
<1> HIDE DEF T
<1>4. Len(data) \in Nat /\ data \in Short(Len(data))
  BY DEF Short
<1>5. Len(data) \in T
  <2>1. \A n \in Nat : n \in T
    BY <1>2, <1>3, Inductive
  <2> QED BY <1>4, <2>1
<1> QED BY <1>4, <1>5 DEF T

-----------------------------------------------------------------------------
(* What a session has read and its socket has *)

Order == [k \in DOMAIN Lengths |-> k]

\* The peer sends messages ks and, of them, t still.
Sending(c, k, ks, t) ==
    /\ c.received \o ks = Order
    /\ (c.readData \o k.inbox) \o t = Framed(ks)
    /\ k.sent + Len(t) = Len(Stream)

Whole(c, k) ==
    /\ c.received \in Seq(DOMAIN Lengths) /\ c.readData \in Seq(Received) /\ k.inbox \in Seq(Received)
    /\ k.sent \in Nat
    /\ \E ks \in Seq(DOMAIN Lengths), t \in Seq(Received) : Sending(c, k, ks, t)

\* Between two reads no message can be popped.
Popped(s) ==
    "CLOSE_READY" \notin flags[s] /\ ~ WorksAt({"read", "deserialize"}, s) => ~ Pops(session[s].readData)

Framing == \A s \in Clients : Whole(session[s], socket[s]) /\ Popped(s)

LEMMA OrderFramed == Order \in Seq(DOMAIN Lengths) /\ Stream = Framed(Order) /\ Stream \in Seq(Received)
<1>1. DOMAIN Lengths = 1..Len(Lengths) /\ Len(Lengths) \in Nat
  BY NeterAssumption
<1>2. Order \in Seq(DOMAIN Lengths)
  BY <1>1 DEF Order
<1>3. [i \in DOMAIN Order |-> Tokens(Order[i])]
        = [k \in DOMAIN Lengths |-> [i \in 1..(Lengths[k] + 1) |-> <<k, i - 1>>]]
  BY DEF Order, Tokens
<1>4. Stream = Framed(Order)
  BY <1>3 DEF Stream, Framed
<1>5. Framed(Order) \in Seq(Received)
  BY <1>2, FramedJoin
<1> QED BY <1>2, <1>4, <1>5

\* What was received and read is how the stream begins.
LEMMA StreamParts ==
    ASSUME NEW c, NEW k, Whole(c, k), NEW ks \in Seq(DOMAIN Lengths), NEW t \in Seq(Received), Sending(c, k, ks, t)
    PROVE  LET w == Framed(c.received) \o (c.readData \o k.inbox)
           IN  w \in Seq(Received) /\ Stream = w \o t /\ Len(w) = k.sent
<1> DEFINE g == Framed(c.received)
           d == c.readData \o k.inbox
           w == g \o d
<1>1. g \in Seq(Received) /\ d \in Seq(Received) /\ c.received \in Seq(DOMAIN Lengths)
  BY FramedJoin DEF Whole
<1>2. Stream = g \o Framed(ks)
  <2>1. c.received \o ks = Order
    BY DEF Sending
  <2> QED BY <1>1, <2>1, OrderFramed, FramedJoin
<1>3. Framed(ks) = d \o t
  BY DEF Sending
<1>4. k.sent + Len(t) = Len(Stream) /\ k.sent \in Nat /\ Len(t) \in Nat
  BY DEF Sending, Whole
<1> HIDE DEF g, d
<1>5. w \in Seq(Received) /\ Stream = w \o t
  <2>1. (g \o d) \o t = g \o (d \o t) /\ g \o d \in Seq(Received)
    BY <1>1, Regroup
  <2> QED BY <1>2, <1>3, <2>1
<1> HIDE DEF w
<1>6. Len(Stream) = Len(w) + Len(t) /\ Len(w) \in Nat
  BY <1>5, ConcatProperties
<1>7. Len(w) = k.sent
  BY <1>4, <1>6
<1> QED BY <1>5, <1>7 DEF w, g, d

-----------------------------------------------------------------------------
(* The ways in which it moves *)

SameInput(c, k, d, l) ==
    /\ d.received = c.received /\ d.readData = c.readData
    /\ l.inbox = k.inbox /\ l.sent = k.sent

\* A token of the peer's arrives,
Arrives(c, k, d, l) ==
    /\ d.received = c.received /\ d.readData = c.readData
    /\ k.sent < Len(Stream)
    /\ l.inbox = Append(k.inbox, Stream[k.sent + 1]) /\ l.sent = k.sent + 1

\* what arrived is read,
Drains(c, k, d, l) ==
    /\ d.received = c.received /\ d.readData = c.readData \o k.inbox
    /\ l.inbox = <<>> /\ l.sent = k.sent

\* what was read is made messages of.
Parses(c, k, d, l) ==
    /\ d.received = c.received \o Generate[c.readData].given /\ d.readData = Generate[c.readData].left
    /\ l.inbox = k.inbox /\ l.sent = k.sent

LEMMA ArrivesWhole ==
    ASSUME NEW c, NEW k, NEW d, NEW l, Whole(c, k), Arrives(c, k, d, l)
    PROVE  Whole(d, l)
<1>1. PICK ks \in Seq(DOMAIN Lengths), t \in Seq(Received) : Sending(c, k, ks, t)
  BY DEF Whole
<1> DEFINE r == c.readData
           b == k.inbox
           w == Framed(c.received) \o (r \o b)
<1>2. w \in Seq(Received) /\ Stream = w \o t /\ Len(w) = k.sent
  BY <1>1, StreamParts
<1>3. r \in Seq(Received) /\ b \in Seq(Received) /\ k.sent \in Nat /\ c.received \in Seq(DOMAIN Lengths)
  BY DEF Whole
<1>4. c.received \o ks = Order /\ (r \o b) \o t = Framed(ks) /\ k.sent + Len(t) = Len(Stream) /\ k.sent < Len(Stream)
  BY <1>1 DEF Sending, Arrives
<1> HIDE DEF w, r, b
<1>5. Len(t) \in Nat /\ Len(t) > 0 /\ t # <<>>
  BY <1>3, <1>4
<1> DEFINE h == Head(t)
           u == Tail(t)
<1>6. h \in Received /\ u \in Seq(Received) /\ Len(u) = Len(t) - 1 /\ t = <<h>> \o u /\ h = t[1]
  BY <1>5
<1>7. Stream[k.sent + 1] = h
  <2> DEFINE n == k.sent
             m == Len(t)
  <2>1. n \in Nat /\ m \in Nat /\ m > 0 /\ Len(w) = n
    BY <1>2, <1>3, <1>5
  <2>2. \A i \in 1..n + m : (w \o t)[i] = IF i <= n THEN w[i] ELSE t[i - n]
    BY <1>2, <2>1, ConcatProperties
  <2> HIDE DEF n, m
  <2>3. n + 1 \in 1..n + m /\ ~ (n + 1 <= n) /\ (n + 1) - n = 1
    BY <2>1
  <2>4. (w \o t)[n + 1] = t[1]
    BY <2>2, <2>3
  <2> QED BY <1>2, <1>6, <2>4 DEF n
<1> HIDE DEF h, u
<1>8. Append(b, h) \in Seq(Received) /\ Append(b, h) = b \o <<h>> /\ <<h>> \in Seq(Received)
  BY <1>3, <1>6, AppendIsConcat
<1>9. (r \o (b \o <<h>>)) \o u = (r \o b) \o t
  <2>1. r \o (b \o <<h>>) = (r \o b) \o <<h>>
    BY <1>3, <1>8, Regroup
  <2>2. r \o b \in Seq(Received)
    BY <1>3
  <2>3. ((r \o b) \o <<h>>) \o u = (r \o b) \o (<<h>> \o u)
    <3> DEFINE a == r \o b
               o == <<h>>
    <3>1. a \in Seq(Received) /\ o \in Seq(Received)
      BY <1>8, <2>2
    <3> HIDE DEF a, o
    <3>2. Regroups(a, o, u)
      BY <1>6, <3>1, AnyRegroups
    <3>3. (a \o o) \o u = a \o (o \o u)
      BY ONLY <3>2 DEF Regroups
    <3> QED BY <3>3 DEF a, o
  <2> QED BY <1>6, <2>1, <2>3
<1>10. d.received = c.received /\ d.readData = r /\ l.inbox = Append(b, h) /\ l.sent = k.sent + 1
  BY <1>7 DEF Arrives, r, b
<1>11. l.sent \in Nat /\ l.sent + Len(u) = Len(Stream)
  <2> DEFINE n == k.sent
             m == Len(t)
  <2>1. n \in Nat /\ m \in Nat /\ m > 0 /\ n + m = Len(Stream) /\ l.sent = n + 1 /\ Len(u) = m - 1
    BY <1>3, <1>4, <1>5, <1>6, <1>10
  <2> HIDE DEF n, m
  <2>2. n + 1 \in Nat /\ (n + 1) + (m - 1) = n + m
    BY <2>1
  <2> QED BY <2>1, <2>2
<1>12. (d.readData \o l.inbox) \o u = Framed(ks)
  BY <1>4, <1>8, <1>9, <1>10
<1>13. Sending(d, l, ks, u)
  BY <1>4, <1>10, <1>11, <1>12 DEF Sending
<1> QED BY <1>3, <1>6, <1>8, <1>10, <1>11, <1>13 DEF Whole

LEMMA DrainsWhole ==
    ASSUME NEW c, NEW k, NEW d, NEW l, Whole(c, k), Drains(c, k, d, l)
    PROVE  Whole(d, l)
<1>1. PICK ks \in Seq(DOMAIN Lengths), t \in Seq(Received) : Sending(c, k, ks, t)
  BY DEF Whole
<1>2. c.readData \o k.inbox \in Seq(Received) /\ <<>> \in Seq(Received)
  BY DEF Whole
<1>3. d.readData = c.readData \o k.inbox /\ l.inbox = <<>> /\ d.readData \o l.inbox = c.readData \o k.inbox
  BY <1>2, ConcatEmptySeq DEF Drains
<1>4. Sending(d, l, ks, t)
  BY <1>1, <1>3 DEF Sending, Drains
<1> QED BY <1>2, <1>3, <1>4 DEF Whole, Drains

LEMMA ParsesWhole ==
    ASSUME NEW c, NEW k, NEW d, NEW l, Whole(c, k), Parses(c, k, d, l)
    PROVE  Whole(d, l) /\ ~ Pops(d.readData)
<1>1. PICK ks \in Seq(DOMAIN Lengths), t \in Seq(Received) : Sending(c, k, ks, t)
  BY DEF Whole
<1> DEFINE r == c.readData
           b == k.inbox
           p == c.received
           g == Generate[r].given
           e == Generate[r].left
           x == b \o t
<1>2. r \in Seq(Received) /\ b \in Seq(Received) /\ k.sent \in Nat /\ p \in Seq(DOMAIN Lengths)
  BY DEF Whole
<1>3. p \o ks = Order /\ (r \o b) \o t = Framed(ks) /\ k.sent + Len(t) = Len(Stream)
  BY <1>1 DEF Sending
<1>4. d.received = p \o g /\ d.readData = e /\ l.inbox = b /\ l.sent = k.sent
  BY DEF Parses
<1>5. x \in Seq(Received) /\ r \o x = Framed(ks)
  <2>1. (r \o b) \o t = r \o (b \o t)
    <3> HIDE DEF r, b, p, g, e, x
    <3>1. Regroups(r, b, t)
      BY <1>2, AnyRegroups
    <3> QED BY ONLY <3>1 DEF Regroups
  <2> QED BY <1>2, <1>3, <2>1
<1>6. Gives(Generate[r], x, ks)
  <2> HIDE DEF r, x
  <2> QED BY <1>2, <1>5, GenerateGives DEF Begins
<1>7. PICK js \in Seq(DOMAIN Lengths) : ks = g \o js /\ e \o x = Framed(js)
  BY <1>6 DEF Gives
<1>8. g \in Seq(DOMAIN Lengths) /\ e \in Seq(Received) /\ ~ Pops(e)
  BY <1>6 DEF Gives
<1> HIDE DEF r, b, p, g, e
<1>9. (e \o b) \o t = Framed(js)
  <2>1. Regroups(e, b, t)
    BY <1>2, <1>8, AnyRegroups
  <2>2. e \o (b \o t) = Framed(js)
    BY <1>7
  <2> QED BY ONLY <2>1, <2>2 DEF Regroups
<1>10. p \o g \in Seq(DOMAIN Lengths) /\ (p \o g) \o js = Order
  <2>1. Regroups(p, g, js)
    BY <1>2, <1>8, AnyRegroups
  <2>2. p \o (g \o js) = Order
    BY <1>3, <1>7
  <2>3. (p \o g) \o js = Order
    BY ONLY <2>1, <2>2 DEF Regroups
  <2>4. p \o g \in Seq(DOMAIN Lengths)
    BY <1>2, <1>8, ConcatProperties
  <2> QED BY ONLY <2>3, <2>4
<1>11. Sending(d, l, js, t)
  BY <1>3, <1>4, <1>9, <1>10 DEF Sending
<1>12. Whole(d, l)
  BY <1>2, <1>4, <1>8, <1>10, <1>11 DEF Whole
<1> QED BY <1>4, <1>8, <1>12

\* The input of a session moves in one of these ways.
LEMMA InputSocket ==
    ASSUME NeterInvariant, Shapes, [Next]_vars, NEW s \in Clients, ~ (worker.s = s /\ ReadGives)
    PROVE  \/ socket'[s].inbox = socket[s].inbox /\ socket'[s].sent = socket[s].sent
           \/ PeerSends(s)
<1>0. DOMAIN socket = Clients /\ DOMAIN socket[s] = {"state", "inbox", "sent", "unread", "nospace"}
  BY DEF Shapes, Sockets
<1>1. CASE socket'[s] = socket[s]
  BY <1>1
<1>2. CASE PeerReads(s)
  BY <1>0, <1>2 DEF PeerReads
<1>3. ASSUME NEW from, NEW to, PeerActs(s, from, to)
      PROVE  socket'[s].inbox = socket[s].inbox /\ socket'[s].sent = socket[s].sent
  BY <1>0, <1>3 DEF PeerActs
<1>4. CASE Accepts(s)
  BY <1>0, <1>4 DEF Accepts
<1>5. CASE Connects(s, "open") \/ Connects(s, "connecting")
  BY <1>0, <1>5 DEF Connects
<1>6. CASE worker.s = s /\ Writes
  <2>1. PICK x : socket' = [socket EXCEPT ![worker.s].unread = x]
    BY <1>6 DEF Writes
  <2> QED BY <1>0, <1>6, <2>1
<1>7. CASE worker.s = s /\ WriteAgain
  BY <1>0, <1>7 DEF WriteAgain
<1> QED BY <1>1, <1>2, <1>3, <1>4, <1>5, <1>6, <1>7, SocketMoves

LEMMA InputSession ==
    ASSUME NeterInvariant, Shapes, [Next]_vars, NEW s \in Clients,
           ~ (worker.s = s /\ (ReadGives \/ Deserialize))
    PROVE  session'[s].received = session[s].received /\ session'[s].readData = session[s].readData
<1>0. DOMAIN session = Clients
      /\ DOMAIN session[s] = {"kind", "readData", "sendList", "cursor", "appended", "written", "received"}
  BY DEF Shapes, Buffer
<1>1. CASE session'[s] = session[s]
  BY <1>1
<1>2. ASSUME NEW x, session'[s] = [session[s] EXCEPT !.kind = x]
      PROVE  session'[s].received = session[s].received /\ session'[s].readData = session[s].readData
  BY <1>0, <1>2
<1>3. ASSUME NEW c, DOMAIN c = DOMAIN session[s], c.received = session[s].received, c.readData = session[s].readData
      PROVE  WithMessage(c).received = session[s].received /\ WithMessage(c).readData = session[s].readData
  BY <1>0, <1>3 DEF WithMessage
<1>4. CASE Appends /\ user.s = s
  <2>1. session'[s] = WithMessage(session[s])
    BY <1>0, <1>4 DEF Appends
  <2> QED BY <1>3, <2>1
<1>5. CASE Connected /\ worker.s = s
  <2> DEFINE open == [session[s] EXCEPT !.kind = "exchanger"]
  <2>1. session' = [session EXCEPT ![s] = WithMessage(open)] \/ session' = [session EXCEPT ![s] = open]
    BY <1>5 DEF Connected
  <2>2. DOMAIN open = DOMAIN session[s] /\ open.received = session[s].received /\ open.readData = session[s].readData
    BY <1>0
  <2> HIDE DEF open
  <2>3. session'[s] = WithMessage(open) \/ session'[s] = open
    BY <1>0, <2>1
  <2> QED BY <1>3, <2>2, <2>3
<1>6. CASE worker.s = s /\ Writes
  <2>1. PICK x, y : session' = [session EXCEPT ![worker.s].cursor = x, ![worker.s].written = y]
    BY <1>6 DEF Writes
  <2> QED BY <1>0, <1>6, <2>1
<1>7. CASE worker.s = s /\ (Swap \/ PutsBack)
  BY <1>0, <1>7 DEF Swap, PutsBack
<1> QED BY <1>1, <1>2, <1>4, <1>5, <1>6, <1>7, SessionMoves

LEMMA InputReads ==
    ASSUME NeterInvariant, Shapes, NEW s \in Clients, worker.s = s, ReadGives
    PROVE  Drains(session[s], socket[s], session'[s], socket'[s]) /\ WorksAt({"read", "deserialize"}, s)'
<1>1. /\ session' = [session EXCEPT ![s].readData = session[s].readData \o socket[s].inbox]
      /\ socket' = [socket EXCEPT ![s].inbox = <<>>]
      /\ worker' = [worker EXCEPT !.got = TRUE] /\ worker.pc = "read"
  BY DEF ReadGives, Shapes
<1>2. /\ DOMAIN session = Clients /\ DOMAIN socket = Clients
      /\ DOMAIN session[s] = {"kind", "readData", "sendList", "cursor", "appended", "written", "received"}
      /\ DOMAIN socket[s] = {"state", "inbox", "sent", "unread", "nospace"}
      /\ DOMAIN worker = {"pc", "s", "list", "errno", "got"}
  BY DEF Shapes, Buffer, Sockets, Hands
<1>3. worker'.pc = "read" /\ worker'.s = s
  BY <1>1, <1>2
<1>4. session'[s].received = session[s].received /\ session'[s].readData = session[s].readData \o socket[s].inbox
  BY <1>1, <1>2
<1>5. socket'[s].inbox = <<>> /\ socket'[s].sent = socket[s].sent
  BY <1>1, <1>2
<1> QED BY <1>3, <1>4, <1>5 DEF Drains, WorksAt

LEMMA InputParsed ==
    ASSUME NeterInvariant, Shapes, NEW s \in Clients, worker.s = s, Deserialize
    PROVE  Parses(session[s], socket[s], session'[s], socket'[s])
<1> DEFINE result == Generate[session[s].readData]
           read == [session[s] EXCEPT !.readData = result.left, !.received = @ \o result.given]
<1>0. /\ DOMAIN session = Clients
      /\ DOMAIN session[s] = {"kind", "readData", "sendList", "cursor", "appended", "written", "received"}
  BY DEF Shapes, Buffer
<1>1. session' = [session EXCEPT ![s] = WithMessage(read)] \/ session' = [session EXCEPT ![s] = read]
  BY DEF Deserialize
<1>2. /\ DOMAIN read = DOMAIN session[s]
      /\ read.readData = result.left /\ read.received = session[s].received \o result.given
  BY <1>0
<1> HIDE DEF read
<1>3. WithMessage(read).readData = read.readData /\ WithMessage(read).received = read.received
  BY <1>0, <1>2 DEF WithMessage
<1>4. session'[s] = WithMessage(read) \/ session'[s] = read
  BY <1>0, <1>1
<1>5. socket' = socket
  BY DEF Deserialize, kernel
<1> QED BY <1>2, <1>3, <1>4, <1>5 DEF Parses

LEMMA FramingKept ==
    ASSUME NeterInvariant, Shapes, Framing, [Next]_vars
    PROVE  Framing'
<1> SUFFICES ASSUME NEW s \in Clients PROVE Whole(session'[s], socket'[s]) /\ Popped(s)'
  BY DEF Framing
<1>0. Whole(session[s], socket[s]) /\ Popped(s)
  BY DEF Framing
<1>1. CASE worker.s = s /\ ReadGives
  <2>1. Drains(session[s], socket[s], session'[s], socket'[s]) /\ WorksAt({"read", "deserialize"}, s)'
    BY <1>1, InputReads
  <2> QED BY <1>0, <2>1, DrainsWhole DEF Popped
<1>2. CASE worker.s = s /\ Deserialize
  <2>1. Parses(session[s], socket[s], session'[s], socket'[s])
    BY <1>2, InputParsed
  <2> QED BY <1>0, <2>1, ParsesWhole DEF Popped
<1>3. CASE ~ (worker.s = s /\ (ReadGives \/ Deserialize))
  <2>1. session'[s].received = session[s].received /\ session'[s].readData = session[s].readData
    BY <1>3, InputSession
  <2>2. Whole(session'[s], socket'[s])
    <3>1. CASE socket'[s].inbox = socket[s].inbox /\ socket'[s].sent = socket[s].sent
      <4>1. \A ks, t : Sending(session[s], socket[s], ks, t) => Sending(session'[s], socket'[s], ks, t)
        BY <2>1, <3>1 DEF Sending
      <4> QED BY <1>0, <2>1, <3>1, <4>1 DEF Whole
    <3>2. CASE PeerSends(s)
      <4>1. DOMAIN socket = Clients /\ DOMAIN socket[s] = {"state", "inbox", "sent", "unread", "nospace"}
        BY DEF Shapes, Sockets
      <4>2. Arrives(session[s], socket[s], session'[s], socket'[s])
        BY <2>1, <3>2, <4>1 DEF PeerSends, Arrives
      <4> QED BY <1>0, <4>2, ArrivesWhole
    <3> QED BY <1>3, <3>1, <3>2, InputSocket
  <2>3. Popped(s)'
    <3> SUFFICES ASSUME "CLOSE_READY" \notin flags'[s], ~ WorksAt({"read", "deserialize"}, s)'
                 PROVE  ~ Pops(session[s].readData)
      BY <2>1 DEF Popped
    <3>1. s \in Sids /\ flags \in [Sids -> SUBSET Flags]
      BY DEF Sids, NeterInvariant, Serving, Types
    <3>2. "CLOSE_READY" \notin flags[s]
      BY <3>1, ClosedStays
    <3>3. ~ WorksAt({"read", "deserialize"}, s)
      <4> SUFFICES ASSUME WorksAt({"read", "deserialize"}, s) PROVE FALSE
        OBVIOUS
      <4>1. worker.pc \in {"read", "deserialize"} /\ worker.s = s
        BY DEF WorksAt
      <4>2. worker'.pc \notin {"read", "deserialize"} \/ worker'.s # s
        BY DEF WorksAt
      <4>3. ~ Close(s)
        BY <3>1 DEF Close, SetEventFlag
      <4>4. ~ ReadFails
        BY <4>1, <4>3 DEF ReadFails
      <4>5. ReadEnds => worker'.pc = "deserialize" /\ worker'.s = s
        <5>1. DOMAIN worker = {"pc", "s", "list", "errno", "got"}
          BY DEF Shapes, Hands
        <5> QED BY <4>1, <4>3, <5>1 DEF ReadEnds
      <4>6. ~ Deserialize
        BY <1>3, <4>1
      <4>7. ~ (AcceptAgain \/ AcceptFails \/ ConnectFails \/ Connected \/ WriteEnds \/ WriteFails \/ PutsBack)
        BY <4>1 DEF AcceptAgain, AcceptFails, ConnectFails, Connected, WriteEnds, WriteFails, PutsBack
      <4> QED BY <4>1, <4>2, <4>4, <4>5, <4>6, <4>7, WorkerGoes
    <3> QED BY <1>0, <3>2, <3>3 DEF Popped
  <2> QED BY <2>2, <2>3
<1> QED BY <1>1, <1>2, <1>3

LEMMA FramingAtStart == Init => Framing
<1> SUFFICES ASSUME Init, NEW s \in Clients PROVE Whole(session[s], socket[s]) /\ Popped(s)
  BY DEF Framing
<1>1. session[s].received = <<>> /\ session[s].readData = <<>> /\ socket[s].inbox = <<>> /\ socket[s].sent = 0
  BY DEF Init
<1>2. Order \in Seq(DOMAIN Lengths) /\ Stream = Framed(Order) /\ Stream \in Seq(Received)
  BY OrderFramed
<1>3. <<>> \o Order = Order /\ (<<>> \o <<>>) \o Stream = Stream /\ 0 + Len(Stream) = Len(Stream)
  <2>1. Len(Stream) \in Nat
    BY <1>2
  <2> QED BY <1>2, <2>1, ConcatEmptySeq
<1>4. Sending(session[s], socket[s], Order, Stream)
  BY <1>1, <1>2, <1>3 DEF Sending
<1>5. Whole(session[s], socket[s])
  BY <1>1, <1>2, <1>4 DEF Whole
<1>6. ~ Pops(session[s].readData)
  BY <1>1 DEF Pops
<1> QED BY <1>5, <1>6 DEF Popped

LEMMA FramingWhole == Framing => MessagesWhole
<1> SUFFICES ASSUME Framing, NEW s \in Clients, Open(s)
    PROVE  LET c == session[s]
               got == Framed(c.received)
           IN  /\ got \o c.readData \o socket[s].inbox = SubSeq(Stream, 1, socket[s].sent)
               /\ c.readData # <<>> /\ ~ (worker.s = s /\ worker.pc \in {"read", "deserialize"}) =>
                    LET k == c.readData[1][1]
                    IN  Len(c.readData) <= Lengths[k] \/ c.readData = <<<<k, 0>>>>
  BY DEF MessagesWhole, Framed, Tokens
<1> DEFINE c == session[s]
           b == socket[s].inbox
           r == c.readData
           g == Framed(c.received)
           n == socket[s].sent
<1>1. Whole(c, socket[s]) /\ Popped(s)
  BY DEF Framing
<1>2. PICK ks \in Seq(DOMAIN Lengths), t \in Seq(Received) : Sending(c, socket[s], ks, t)
  BY <1>1 DEF Whole
<1>3. r \in Seq(Received) /\ b \in Seq(Received) /\ g \in Seq(Received)
  BY <1>1, FramedJoin DEF Whole
<1>4. LET w == g \o (r \o b) IN w \in Seq(Received) /\ Stream = w \o t /\ Len(w) = n
  BY <1>1, <1>2, StreamParts
<1>5. (g \o r) \o b = SubSeq(Stream, 1, n)
  <2> HIDE DEF c, b, r, g, n
  <2>1. Regroups(g, r, b)
    BY <1>3, AnyRegroups
  <2> DEFINE w == g \o (r \o b)
  <2>2. w \in Seq(Received) /\ Stream = w \o t /\ Len(w) = n
    BY <1>4
  <2>3. (g \o r) \o b = w
    BY <2>1 DEF Regroups
  <2> HIDE DEF w
  <2>4. SubSeq(w \o t, 1, Len(w)) = w
    BY <2>2, FrontOf
  <2> QED BY <2>2, <2>3, <2>4
<1>6. ASSUME r # <<>>, ~ (worker.s = s /\ worker.pc \in {"read", "deserialize"})
      PROVE  Len(r) <= Lengths[r[1][1]] \/ r = <<<<r[1][1], 0>>>>
  <2>1. ~ Pops(r)
    BY <1>1, <1>6 DEF Popped, WorksAt, Open
  <2>2. (r \o b) \o t = Framed(ks)
    BY <1>2 DEF Sending
  <2> HIDE DEF r, b
  <2>3. r \o (b \o t) = Framed(ks) /\ b \o t \in Seq(Received)
    <3>1. Regroups(r, b, t)
      BY <1>3, AnyRegroups
    <3>2. b \o t \in Seq(Received)
      BY <1>3, ConcatProperties
    <3> QED BY <2>2, <3>1, <3>2 DEF Regroups
  <2>4. ks # <<>> /\ r[1] = <<ks[1], 0>>
    <3> DEFINE x == b \o t
    <3>1. ks \in Seq(DOMAIN Lengths) /\ r \in Seq(Received) /\ r # <<>>
      BY <1>2, <1>3, <1>6
    <3>2. x \in Seq(Received) /\ r \o x = Framed(ks)
      BY <2>3
    <3> HIDE DEF x
    <3> QED BY ONLY <3>1, <3>2, FramedBegins
  <2>5. Lengths[r[1][1]] \in Nat
    <3>1. ks[1] \in DOMAIN Lengths
      BY <2>4
    <3> QED BY <2>4, <3>1, NeterAssumption
  <2>6. Len(r) \in Nat /\ Len(r) >= 1
    BY <1>3, <1>6
  <2>7. CASE Len(r) > 1
    BY <2>1, <2>5, <2>6, <2>7 DEF Pops
  <2>8. CASE Len(r) = 1
    <3>1. r = <<r[1]>>
      BY <1>3, <2>8
    <3> QED BY <2>4, <3>1
  <2>9. Len(r) > 1 \/ Len(r) = 1
    <3>1. \A x \in Nat : x >= 1 => x > 1 \/ x = 1
      OBVIOUS
    <3> QED BY ONLY <2>6, <3>1
  <2> QED BY <2>7, <2>8, <2>9
<1> QED BY <1>5, <1>6

(***************************************************************************)
(* Whatever the peer sends and however it is cut up on the way, an open    *)
(* session's callback gets whole messages in their order, nothing read is  *)
(* lost, and a message is held back only while it is not whole.            *)
(***************************************************************************)
THEOREM MessagesAlwaysWhole == Spec => []MessagesWhole
<1>1. NeterInvariant /\ (Shapes /\ Delivered) /\ Framing /\ [Next]_vars => Framing'
  BY FramingKept
<1>2. Spec => [](NeterInvariant /\ (Shapes /\ Delivered) /\ Framing)
  BY <1>1, FramingAtStart, DeliveredAtStart, DeliveredKept, NeterAlways, PTL DEF Spec
<1> QED BY <1>2, FramingWhole, PTL
=============================================================================
