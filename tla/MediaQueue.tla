----------------------------- MODULE MediaQueue -----------------------------
(***************************************************************************)
(* Queue<T> of util/queue.h: the bounded queue between the threads of the  *)
(* player and of the recorder, at the level of its mutex m_ and its        *)
(* condition variables get_cv_ and put_cv_.                                *)
(*                                                                         *)
(* What a call does under m_ is one step: it finds its condition true and  *)
(* does its work, or begins to wait, which releases m_.  The notifications *)
(* come after m_ is released and are steps of their own, so other calls    *)
(* run between the work and its notification.  A waiting thread is woken   *)
(* by a notification, for no reason, or, in a timed call, by the clock,    *)
(* and then needs m_ again to look at its condition.                       *)
(***************************************************************************)
EXTENDS Naturals, Sequences, FiniteSets

CONSTANTS
    Producers, Consumers,
    Capacity,   \* capacity_, 0 for no limit
    MaxBatch    \* bound: elements of one Put(std::vector)

ASSUME QueueAssumption ==
    /\ IsFiniteSet(Producers) /\ IsFiniteSet(Consumers)
    /\ Producers \cap Consumers = {}
    /\ Capacity \in Nat
    /\ MaxBatch \in Nat \ {0}

Threads == Producers \cup Consumers

VARIABLES
    q,        \* q_, each element named by its producer
    pc,       \* where each thread is in its call
    timed,    \* whether that call has a timeout
    batch     \* the elements a producer's call holds

vars == <<q, pc, timed, batch>>

Waiting == {"waiting", "woken", "expired"}
Notifying == {"notifyGet", "notifyGetPut", "notifyPut"}

TypeOK ==
    /\ q \in Seq(Producers)
    /\ pc \in [Threads -> {"idle"} \cup Waiting \cup Notifying]
    /\ timed \in [Threads -> BOOLEAN]
    /\ batch \in [Producers -> 1..MaxBatch]
    /\ \A t \in Threads : pc[t] = "expired" => timed[t]

Init ==
    /\ q = <<>>
    /\ pc = [t \in Threads |-> "idle"]
    /\ timed = [t \in Threads |-> FALSE]
    /\ batch = [p \in Producers |-> 1]

-----------------------------------------------------------------------------
(* Consumers: Get, TimedGet, TryToGet *)

\* Mutant: the next consumer is not told of the elements left.
OwedAfterGetPutOnly(len) == IF len < Capacity THEN "notifyPut" ELSE "idle"

\* Mutant: producers are told when the queue is empty only.
OwedAfterGetWhenEmpty(len) == IF len > 0 THEN "notifyGet" ELSE "notifyPut"

\* The notifications a get owes once the queue has len elements left.
OwedAfterGet(len) ==
    IF len > 0
    THEN IF len < Capacity THEN "notifyGetPut" ELSE "notifyGet"
    ELSE IF len < Capacity THEN "notifyPut" ELSE "idle"

Take(c) ==
    /\ q # <<>>
    /\ q' = Tail(q)
    /\ pc' = [pc EXCEPT ![c] = OwedAfterGet(Len(q) - 1)]
    /\ UNCHANGED <<timed, batch>>

Wait(t, isTimed) ==
    /\ pc' = [pc EXCEPT ![t] = "waiting"]
    /\ timed' = [timed EXCEPT ![t] = isTimed]
    /\ UNCHANGED q

\* Get or TimedGet (isTimed) that finds the queue empty.
GetWaits(c, isTimed) ==
    /\ pc[c] = "idle"
    /\ q = <<>>
    /\ Wait(c, isTimed)
    /\ UNCHANGED batch

\* Get, TimedGet or TryToGet that finds an element.
GetNow(c) ==
    /\ pc[c] = "idle"
    /\ Take(c)

\* A waiting consumer has m_ again: it takes, or waits on, or gives up.
ResumeGet(c) ==
    \/ pc[c] \in {"woken", "expired"} /\ Take(c)
    \/ /\ q = <<>>
       /\ \/ pc[c] = "woken" /\ pc' = [pc EXCEPT ![c] = "waiting"]
          \/ pc[c] = "expired" /\ pc' = [pc EXCEPT ![c] = "idle"]
       /\ UNCHANGED <<q, timed, batch>>

-----------------------------------------------------------------------------
(* Producers: Put of one, Put of a vector, TimedPut, Clear *)

HasRoom == Capacity = 0 \/ Len(q) < Capacity

Add(p, n) ==
    /\ q' = q \o [i \in 1..n |-> p]
    /\ pc' = [pc EXCEPT ![p] = "notifyGet"]

\* A put that finds no room.
PutWaits(p, n, isTimed) ==
    /\ pc[p] = "idle"
    /\ isTimed => n = 1
    /\ ~ HasRoom
    /\ Wait(p, isTimed)
    /\ batch' = [batch EXCEPT ![p] = n]

\* A put that finds room; a vector goes in whole once there is any.
PutNow(p, n) ==
    /\ pc[p] = "idle"
    /\ HasRoom
    /\ Add(p, n)
    /\ UNCHANGED <<timed, batch>>

\* Mutant: wait without its predicate.
ResumePutBlindly(p) ==
    /\ pc[p] \in {"woken", "expired"}
    /\ Add(p, batch[p])
    /\ UNCHANGED <<timed, batch>>

ResumePut(p) ==
    \/ /\ pc[p] \in {"woken", "expired"}
       /\ HasRoom
       /\ Add(p, batch[p])
       /\ UNCHANGED <<timed, batch>>
    \/ /\ ~ HasRoom
       /\ \/ pc[p] = "woken" /\ pc' = [pc EXCEPT ![p] = "waiting"]
          \/ pc[p] = "expired" /\ pc' = [pc EXCEPT ![p] = "idle"]
       /\ UNCHANGED <<q, timed, batch>>

\* Mutant: Clear beside producers that wait.
ClearAnytime(p) ==
    /\ pc[p] = "idle"
    /\ q' = <<>>
    /\ UNCHANGED <<pc, timed, batch>>

\* Clear tells no producer of the room it makes.  Its one caller,
\* Speaker::ResetAudioDevice, is the queue's only producer, so none waits.
Clear(p) ==
    /\ pc[p] = "idle"
    /\ \A o \in Producers : pc[o] \notin Waiting
    /\ q' = <<>>
    /\ UNCHANGED <<pc, timed, batch>>

-----------------------------------------------------------------------------
(* Waking up *)

\* notify_one on the condition variable of these threads, after which the
\* caller is at rest: one of them, any, wakes up, if any waits.
NotifyOne(t, waiters, rest) ==
    /\ UNCHANGED <<q, timed, batch>>
    /\ IF \E w \in waiters : pc[w] = "waiting"
       THEN \E w \in waiters :
                /\ pc[w] = "waiting"
                /\ pc' = [pc EXCEPT ![t] = rest, ![w] = "woken"]
       ELSE pc' = [pc EXCEPT ![t] = rest]

NotifyGet(t) ==
    \/ pc[t] = "notifyGet" /\ NotifyOne(t, Consumers, "idle")
    \/ pc[t] = "notifyGetPut" /\ NotifyOne(t, Consumers, "notifyPut")

NotifyPut(t) == pc[t] = "notifyPut" /\ NotifyOne(t, Producers, "idle")

WakeSpuriously(t) ==
    /\ pc[t] = "waiting"
    /\ pc' = [pc EXCEPT ![t] = "woken"]
    /\ UNCHANGED <<q, timed, batch>>

\* Mutant: the timeout is not armed.
NeverTimeout(t) == FALSE /\ UNCHANGED vars

\* Mutant: every wait has a deadline.
TimeoutOfAny(t) ==
    /\ pc[t] \in {"waiting", "woken"}
    /\ pc' = [pc EXCEPT ![t] = "expired"]
    /\ UNCHANGED <<q, timed, batch>>

\* The deadline passes, whether the thread sleeps or was woken and has not
\* got m_ yet; wait_for then looks at the condition a last time.
Timeout(t) ==
    /\ pc[t] \in {"waiting", "woken"}
    /\ timed[t]
    /\ pc' = [pc EXCEPT ![t] = "expired"]
    /\ UNCHANGED <<q, timed, batch>>

Next ==
    \/ \E c \in Consumers :
        \/ \E b \in BOOLEAN : GetWaits(c, b)
        \/ GetNow(c)
        \/ ResumeGet(c)
    \/ \E p \in Producers :
        \/ \E n \in 1..MaxBatch, b \in BOOLEAN : PutWaits(p, n, b)
        \/ \E n \in 1..MaxBatch : PutNow(p, n)
        \/ ResumePut(p)
        \/ Clear(p)
    \/ \E t \in Threads :
        NotifyGet(t) \/ NotifyPut(t) \/ WakeSpuriously(t) \/ Timeout(t)

(***************************************************************************)
(* A thread inside a call runs on, a woken one gets m_ back, a timeout     *)
(* comes.  Nobody is obliged to make a call, and no wakeup is spurious     *)
(* because fairness asks for it.                                           *)
(***************************************************************************)
Fairness ==
    /\ \A c \in Consumers : WF_vars(ResumeGet(c))
    /\ \A p \in Producers : WF_vars(ResumePut(p))
    /\ \A t \in Threads :
        WF_vars(NotifyGet(t)) /\ WF_vars(NotifyPut(t)) /\ WF_vars(Timeout(t))

Spec == Init /\ [][Next]_vars /\ Fairness

-----------------------------------------------------------------------------
(* Properties *)

AtGet == {t \in Threads : pc[t] \in {"notifyGet", "notifyGetPut"}}
AtPut == {t \in Threads : pc[t] \in {"notifyGetPut", "notifyPut"}}
Awake(S) == {t \in S : pc[t] \in {"woken", "expired"}}
Asleep(S) == {t \in S : pc[t] = "waiting"}

(***************************************************************************)
(* No lost wakeup of a consumer: while the queue holds something and a     *)
(* consumer sleeps, some thread is about to notify get_cv_ or some other   *)
(* consumer is awake and will pass it on.                                  *)
(***************************************************************************)
GetterNotForgotten ==
    q # <<>> /\ Asleep(Consumers) # {} => AtGet # {} \/ Awake(Consumers) # {}

(***************************************************************************)
(* No lost wakeup of a producer.  A put passes no notification on, so they *)
(* are counted: while a producer sleeps, each free place has a producer    *)
(* that is awake to fill it or a consumer about to notify put_cv_.         *)
(***************************************************************************)
PutterNotForgotten ==
    Asleep(Producers) # {} =>
        Cardinality(AtPut) + Cardinality(Awake(Producers)) + Len(q) >= Capacity

(***************************************************************************)
(* The queue exceeds its capacity by one vector at most: a producer that   *)
(* was woken looks at the size again before it adds its elements.          *)
(***************************************************************************)
CapacityKept == Capacity # 0 => Len(q) < Capacity + MaxBatch

(***************************************************************************)
(* TimedGet and TimedPut return, with or without success.                  *)
(***************************************************************************)
TimedCallsReturn == \A t \in Threads : (pc[t] \in Waiting /\ timed[t]) ~> pc[t] = "idle"

(***************************************************************************)
(* The queue keeps the promise of BlockingBuffer: the operations are its   *)
(* operations, in one step each, and neither a consumer nor a producer is  *)
(* left waiting for good beside elements, respectively room.               *)
(***************************************************************************)
Asking == {c \in Consumers : pc[c] \in Waiting}

Offers == [p \in Producers |-> IF pc[p] \in Waiting THEN batch[p] ELSE 0]

Buffer == INSTANCE BlockingBuffer WITH
    items <- q, asking <- Asking, offers <- Offers

ImplementsBuffer == Buffer!Spec
=============================================================================
