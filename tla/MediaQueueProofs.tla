-------------------------- MODULE MediaQueueProofs --------------------------
(***************************************************************************)
(* The queue for any number of producers and consumers and any capacity.   *)
(***************************************************************************)
EXTENDS MediaQueue, FiniteSetTheorems, TLAPS

\* n copies of a producer's name are n elements.
LEMMA AddedElements ==
    ASSUME NEW p \in Producers, NEW n \in Nat, q \in Seq(Producers)
    PROVE  /\ q \o [i \in 1..n |-> p] \in Seq(Producers)
           /\ Len(q \o [i \in 1..n |-> p]) = Len(q) + n
<1>1. [i \in 1..n |-> p] \in Seq(Producers) /\ Len([i \in 1..n |-> p]) = n
  OBVIOUS
<1> QED BY <1>1

\* A get removes one element and leaves some of these notifications to do.
LEMMA Taken ==
    ASSUME q \in Seq(Producers), q # <<>>
    PROVE  /\ Tail(q) \in Seq(Producers)
           /\ Len(Tail(q)) = Len(q) - 1
           /\ Len(q) \in Nat \ {0}
           /\ OwedAfterGet(Len(q) - 1) \in {"idle"} \cup Notifying
           /\ Tail(q) # <<>> => OwedAfterGet(Len(q) - 1) \in {"notifyGet", "notifyGetPut"}
<1>1. Tail(q) \in Seq(Producers) /\ Len(Tail(q)) = Len(q) - 1 /\ Len(q) \in Nat \ {0}
  OBVIOUS
<1>2. Tail(q) # <<>> => Len(q) - 1 > 0
  BY <1>1
<1>3. Len(q) - 1 \in Nat /\ Capacity \in Nat
  BY <1>1, QueueAssumption
<1>4. /\ OwedAfterGet(Len(q) - 1) \in {"idle"} \cup Notifying
      /\ Len(q) - 1 > 0 => OwedAfterGet(Len(q) - 1) \in {"notifyGet", "notifyGetPut"}
  BY <1>3 DEF OwedAfterGet, Notifying
<1> QED BY <1>1, <1>2, <1>4

-----------------------------------------------------------------------------
(* Types *)

\* Every step keeps the types.
LEMMA TypeStep == TypeOK /\ [Next]_vars => TypeOK'
<1> SUFFICES ASSUME TypeOK, [Next]_vars PROVE TypeOK'
  OBVIOUS
<1> USE QueueAssumption
<1>1. ASSUME NEW c \in Consumers, NEW b \in BOOLEAN, GetWaits(c, b) PROVE TypeOK'
  BY <1>1 DEF GetWaits, Wait, TypeOK, Threads, Waiting, Notifying
<1>2. ASSUME NEW c \in Consumers, Take(c) PROVE TypeOK'
  <2>1. Tail(q) \in Seq(Producers) /\ OwedAfterGet(Len(q) - 1) \in {"idle"} \cup Notifying
    BY <1>2, Taken DEF Take, TypeOK
  <2> QED BY <1>2, <2>1 DEF Take, TypeOK, Threads, Waiting, Notifying
<1>3. ASSUME NEW c \in Consumers, ResumeGet(c) PROVE TypeOK'
  BY <1>2, <1>3 DEF ResumeGet, TypeOK, Threads, Waiting, Notifying
<1>4. ASSUME NEW p \in Producers, NEW n \in 1..MaxBatch, NEW b \in BOOLEAN, PutWaits(p, n, b)
      PROVE  TypeOK'
  BY <1>4 DEF PutWaits, Wait, TypeOK, Threads, Waiting, Notifying
<1>5. ASSUME NEW p \in Producers, NEW n \in 1..MaxBatch, Add(p, n), UNCHANGED <<timed, batch>>
      PROVE  TypeOK'
  <2>1. q \o [i \in 1..n |-> p] \in Seq(Producers)
    BY AddedElements DEF TypeOK
  <2> QED BY <1>5, <2>1 DEF Add, TypeOK, Threads, Waiting, Notifying
<1>6. ASSUME NEW p \in Producers, ResumePut(p) PROVE TypeOK'
  <2>1. batch[p] \in 1..MaxBatch
    BY DEF TypeOK
  <2> QED BY <1>5, <1>6, <2>1 DEF ResumePut, TypeOK, Threads, Waiting, Notifying
<1>7. ASSUME NEW p \in Producers, Clear(p) PROVE TypeOK'
  BY <1>7 DEF Clear, TypeOK
<1>8. ASSUME NEW t \in Threads, NotifyGet(t) \/ NotifyPut(t) PROVE TypeOK'
  BY <1>8 DEF NotifyGet, NotifyPut, NotifyOne, TypeOK, Threads, Waiting, Notifying
<1>9. ASSUME NEW t \in Threads, WakeSpuriously(t) \/ Timeout(t) PROVE TypeOK'
  BY <1>9 DEF WakeSpuriously, Timeout, TypeOK, Threads, Waiting, Notifying
<1>10. CASE UNCHANGED vars
  BY <1>10 DEF vars, TypeOK
<1> QED
  BY <1>1, <1>2, <1>3, <1>4, <1>5, <1>6, <1>7, <1>8, <1>9, <1>10 DEF Next, GetNow, PutNow

(***************************************************************************)
(* The queue holds elements of producers and every thread is at a place of *)
(* its call.                                                               *)
(***************************************************************************)
THEOREM TypeCorrect == Spec => []TypeOK
<1>1. Init => TypeOK
  BY QueueAssumption DEF Init, TypeOK, Threads, Waiting, Notifying
<1> QED BY <1>1, TypeStep, PTL DEF Spec

-----------------------------------------------------------------------------
(* No consumer is forgotten *)

\* Every step keeps the responsibility for sleeping consumers.
LEMMA GetterStep == TypeOK /\ GetterNotForgotten /\ [Next]_vars => GetterNotForgotten'
<1> SUFFICES ASSUME TypeOK, GetterNotForgotten, [Next]_vars, q' # <<>>, Asleep(Consumers)' # {}
             PROVE  AtGet' # {} \/ Awake(Consumers)' # {}
  BY DEF GetterNotForgotten
<1> USE QueueAssumption DEF AtGet, Awake, Asleep, Threads
<1>0. TypeOK'
  BY TypeStep
<1>1. ASSUME NEW c \in Consumers, NEW b \in BOOLEAN, GetWaits(c, b)
      PROVE  AtGet' # {} \/ Awake(Consumers)' # {}
  BY <1>1 DEF GetWaits, Wait
<1>2. ASSUME NEW c \in Consumers, Take(c) PROVE AtGet' # {} \/ Awake(Consumers)' # {}
  <2>1. OwedAfterGet(Len(q) - 1) \in {"notifyGet", "notifyGetPut"}
    BY <1>2, Taken DEF Take, TypeOK
  <2>2. pc'[c] \in {"notifyGet", "notifyGetPut"}
    BY <1>2, <2>1 DEF Take, TypeOK
  <2> QED BY <2>2
<1>3. ASSUME NEW c \in Consumers, ResumeGet(c) PROVE AtGet' # {} \/ Awake(Consumers)' # {}
  BY <1>2, <1>3 DEF ResumeGet
<1>4. ASSUME NEW p \in Producers, NEW n \in 1..MaxBatch, NEW b \in BOOLEAN, PutWaits(p, n, b)
      PROVE  AtGet' # {} \/ Awake(Consumers)' # {}
  BY <1>4 DEF PutWaits, Wait, TypeOK, GetterNotForgotten
<1>5. ASSUME NEW p \in Producers, NEW n, Add(p, n) PROVE AtGet' # {} \/ Awake(Consumers)' # {}
  BY <1>5 DEF Add, TypeOK
<1>6. ASSUME NEW p \in Producers, ResumePut(p) PROVE AtGet' # {} \/ Awake(Consumers)' # {}
  BY <1>5, <1>6 DEF ResumePut, TypeOK, GetterNotForgotten
<1>7. ASSUME NEW p \in Producers, Clear(p) PROVE AtGet' # {} \/ Awake(Consumers)' # {}
  BY <1>7 DEF Clear
<1>8. ASSUME NEW t \in Threads, NotifyGet(t) PROVE AtGet' # {} \/ Awake(Consumers)' # {}
  <2>1. CASE \E w \in Consumers : pc[w] = "waiting"
    <3>1. PICK w \in Consumers : pc[w] = "waiting" /\ pc'[w] = "woken"
      BY <1>8, <2>1 DEF NotifyGet, NotifyOne, TypeOK
    <3> QED BY <3>1
  <2>2. CASE ~ \E w \in Consumers : pc[w] = "waiting"
    BY <1>8, <2>2 DEF NotifyGet, NotifyOne, TypeOK
  <2> QED BY <2>1, <2>2
<1>9. ASSUME NEW t \in Threads, NotifyPut(t) PROVE AtGet' # {} \/ Awake(Consumers)' # {}
  <2>1. \A o \in Threads : pc[o] \in {"notifyGet", "notifyGetPut"} => pc'[o] = pc[o]
    BY <1>9 DEF NotifyPut, NotifyOne, TypeOK
  <2>2. \A c \in Consumers : pc[c] \in {"woken", "expired"} => pc'[c] = pc[c]
    BY <1>9 DEF NotifyPut, NotifyOne, TypeOK
  <2>3. \A c \in Consumers : pc'[c] = "waiting" => pc[c] = "waiting"
    BY <1>9 DEF NotifyPut, NotifyOne, TypeOK
  <2>4. q' = q
    BY <1>9 DEF NotifyPut, NotifyOne
  <2> QED BY <2>1, <2>2, <2>3, <2>4 DEF GetterNotForgotten
<1>10. ASSUME NEW t \in Threads, WakeSpuriously(t) \/ Timeout(t)
       PROVE  AtGet' # {} \/ Awake(Consumers)' # {}
  BY <1>10 DEF WakeSpuriously, Timeout, TypeOK, GetterNotForgotten
<1>11. CASE UNCHANGED vars
  BY <1>11 DEF vars, GetterNotForgotten
<1> QED
  BY <1>1, <1>2, <1>3, <1>4, <1>5, <1>6, <1>7, <1>8, <1>9, <1>10, <1>11 DEF Next, GetNow, PutNow

(***************************************************************************)
(* While elements are there and consumers sleep, a thread that owes them a *)
(* notification or an awake consumer exists: no wakeup is lost between the *)
(* release of m_ and notify_one, whatever the threads do in between.       *)
(***************************************************************************)
THEOREM NoLostGetter == Spec => []GetterNotForgotten
<1>1. Init => GetterNotForgotten
  BY DEF Init, GetterNotForgotten
<1> QED BY <1>1, TypeCorrect, GetterStep, PTL DEF Spec

-----------------------------------------------------------------------------
(* Capacity *)

(***************************************************************************)
(* The queue never exceeds its capacity by as much as a vector.            *)
(***************************************************************************)
THEOREM CapacityCorrect == Spec => []CapacityKept
<1>1. Init => CapacityKept
  BY QueueAssumption DEF Init, CapacityKept
<1>2. TypeOK /\ CapacityKept /\ [Next]_vars => CapacityKept'
  <2> SUFFICES ASSUME TypeOK, CapacityKept, [Next]_vars, Capacity # 0
               PROVE  Len(q') < Capacity + MaxBatch
    BY DEF CapacityKept
  <2> USE QueueAssumption
  <2>1. CASE UNCHANGED q
    BY <2>1 DEF CapacityKept
  <2>2. ASSUME NEW c \in Consumers, Take(c) PROVE Len(q') < Capacity + MaxBatch
    BY <2>2, Taken DEF Take, TypeOK, CapacityKept
  <2>3. ASSUME NEW p \in Producers, NEW n \in 1..MaxBatch, HasRoom, Add(p, n)
        PROVE  Len(q') < Capacity + MaxBatch
    <3>1. Len(q') = Len(q) + n /\ Len(q) \in Nat /\ Len(q) < Capacity
      BY <2>3, AddedElements DEF Add, HasRoom, TypeOK
    <3> QED BY <3>1
  <2>4. ASSUME NEW p \in Producers, Clear(p) PROVE Len(q') < Capacity + MaxBatch
    BY <2>4 DEF Clear
  <2>5. \A p \in Producers : batch[p] \in 1..MaxBatch
    BY DEF TypeOK
  <2> QED
    BY <2>1, <2>2, <2>3, <2>4, <2>5
       DEF Next, vars, GetWaits, Wait, GetNow, ResumeGet, PutWaits, PutNow, ResumePut,
           NotifyGet, NotifyPut, NotifyOne, WakeSpuriously, Timeout
<1> QED BY <1>1, <1>2, TypeCorrect, PTL DEF Spec

-----------------------------------------------------------------------------
(* No producer is forgotten *)

\* Both sets are finite.
LEMMA OwingFinite ==
    /\ IsFiniteSet(AtPut) /\ IsFiniteSet(Awake(Producers))
    /\ Cardinality(AtPut) \in Nat /\ Cardinality(Awake(Producers)) \in Nat
<1>1. IsFiniteSet(Threads)
  BY QueueAssumption, FS_Union DEF Threads
<1>2. AtPut \subseteq Threads /\ Awake(Producers) \subseteq Threads
  BY DEF AtPut, Awake, Threads
<1>3. IsFiniteSet(AtPut) /\ IsFiniteSet(Awake(Producers))
  BY <1>1, <1>2, FS_Subset
<1> QED BY <1>3, FS_CardinalityType

\* The same one step later.
LEMMA OwingFiniteNext ==
    /\ IsFiniteSet(AtPut') /\ IsFiniteSet(Awake(Producers)')
    /\ Cardinality(AtPut') \in Nat /\ Cardinality(Awake(Producers)') \in Nat
<1>1. IsFiniteSet(Threads)
  BY QueueAssumption, FS_Union DEF Threads
<1>2. AtPut' \subseteq Threads /\ Awake(Producers)' \subseteq Threads
  BY DEF AtPut, Awake, Threads
<1>3. IsFiniteSet(AtPut') /\ IsFiniteSet(Awake(Producers)')
  BY <1>1, <1>2, FS_Subset
<1> QED BY <1>3, FS_CardinalityType

\* Nobody who owes something is released and no element is taken.
LEMMA OwingGrows ==
    ASSUME TypeOK, TypeOK', PutterNotForgotten, Asleep(Producers) # {},
           AtPut \subseteq AtPut', Awake(Producers) \subseteq Awake(Producers)',
           Len(q) <= Len(q')
    PROVE  PutterNotForgotten'
<1>1. /\ Cardinality(AtPut) <= Cardinality(AtPut')
      /\ Cardinality(Awake(Producers)) <= Cardinality(Awake(Producers)')
  BY OwingFiniteNext, FS_Subset
<1>2. Cardinality(AtPut) + Cardinality(Awake(Producers)) + Len(q) >= Capacity
  BY DEF PutterNotForgotten
<1>3. Len(q) \in Nat /\ Len(q') \in Nat
  BY DEF TypeOK
<1>4. Cardinality(AtPut') + Cardinality(Awake(Producers)') + Len(q') >= Capacity
  BY <1>1, <1>2, <1>3, OwingFinite, OwingFiniteNext, QueueAssumption
<1> QED BY <1>4 DEF PutterNotForgotten

\* With the queue full there is nothing to wait for.
LEMMA FullIsEnough ==
    ASSUME TypeOK', Len(q') >= Capacity
    PROVE  PutterNotForgotten'
<1>1. Len(q') \in Nat /\ Capacity \in Nat
  BY QueueAssumption DEF TypeOK
<1>2. Cardinality(AtPut') + Cardinality(Awake(Producers)') + Len(q') >= Capacity
  BY <1>1, OwingFiniteNext
<1> QED BY <1>2 DEF PutterNotForgotten

\* A get takes one element and, if that leaves room, owes a notification.
LEMMA TakePaysForItsPlace ==
    ASSUME TypeOK, TypeOK', PutterNotForgotten, NEW c \in Consumers, Take(c),
           pc[c] \in {"idle", "woken", "expired"}
    PROVE  PutterNotForgotten'
<1> USE QueueAssumption
<1>1. /\ Len(q) \in Nat \ {0} /\ Len(q') = Len(q) - 1
      /\ pc' = [pc EXCEPT ![c] = OwedAfterGet(Len(q) - 1)]
  BY Taken DEF Take, TypeOK
<1>2. c \in Threads /\ c \notin Producers
  BY DEF Threads
<1>3. Awake(Producers)' = Awake(Producers) /\ Asleep(Producers)' = Asleep(Producers)
  BY <1>1, <1>2 DEF Awake, Asleep, TypeOK, Threads
<1>4. CASE Len(q') >= Capacity
  BY <1>4, FullIsEnough
<1>5. CASE Len(q') < Capacity
  <2>1. pc'[c] \in {"notifyGetPut", "notifyPut"}
    BY <1>1, <1>2, <1>5 DEF OwedAfterGet, TypeOK
  <2>2. AtPut' = AtPut \cup {c} /\ c \notin AtPut
    BY <1>1, <1>2, <2>1 DEF AtPut, TypeOK
  <2>3. Cardinality(AtPut') = Cardinality(AtPut) + 1
    BY <2>2, OwingFinite, FS_AddElement
  <2>4. Asleep(Producers) # {} => Cardinality(AtPut) + Cardinality(Awake(Producers)) + Len(q) >= Capacity
    BY DEF PutterNotForgotten
  <2>5. Asleep(Producers)' # {} =>
          Cardinality(AtPut') + Cardinality(Awake(Producers)') + Len(q') >= Capacity
    BY <1>1, <1>3, <2>3, <2>4, OwingFinite
  <2> QED BY <2>5 DEF PutterNotForgotten
<1> QED BY <1>1, <1>4, <1>5

\* An awake producer that puts fills at least the place it was woken for.
LEMMA PutFillsItsPlace ==
    ASSUME TypeOK, TypeOK', PutterNotForgotten, NEW p \in Producers, NEW n \in Nat \ {0},
           Add(p, n), pc[p] \in {"idle", "woken", "expired"}
    PROVE  PutterNotForgotten'
<1> USE QueueAssumption
<1>1. /\ Len(q) \in Nat /\ Len(q') = Len(q) + n
      /\ pc' = [pc EXCEPT ![p] = "notifyGet"]
      /\ p \in Threads
  BY AddedElements DEF Add, TypeOK, Threads
<1>2. AtPut' = AtPut /\ Asleep(Producers)' = Asleep(Producers)
  BY <1>1 DEF AtPut, Asleep, TypeOK, Threads
<1>3. Awake(Producers)' = Awake(Producers) \ {p}
  BY <1>1 DEF Awake, TypeOK, Threads
<1>4. Cardinality(Awake(Producers)') >= Cardinality(Awake(Producers)) - 1
  BY <1>3, OwingFinite, OwingFiniteNext, FS_RemoveElement
<1>5. Asleep(Producers) # {} => Cardinality(AtPut) + Cardinality(Awake(Producers)) + Len(q) >= Capacity
  BY DEF PutterNotForgotten
<1>6. Asleep(Producers)' # {} =>
        Cardinality(AtPut') + Cardinality(Awake(Producers)') + Len(q') >= Capacity
  BY <1>1, <1>2, <1>4, <1>5, OwingFinite, OwingFiniteNext
<1> QED BY <1>6 DEF PutterNotForgotten

\* A notification of put_cv_ turns one who owes into one who is awake.
LEMMA NotificationArrives ==
    ASSUME TypeOK, TypeOK', PutterNotForgotten, NEW t \in Threads, NotifyPut(t)
    PROVE  PutterNotForgotten'
<1> USE QueueAssumption
<1>0. q' = q /\ pc[t] = "notifyPut" /\ t \in AtPut /\ t \notin Asleep(Producers)
  BY DEF NotifyPut, NotifyOne, AtPut, Asleep
<1>1. CASE \E w \in Producers : pc[w] = "waiting"
  <2>1. PICK w \in Producers : pc[w] = "waiting" /\ pc' = [pc EXCEPT ![t] = "idle", ![w] = "woken"]
    BY <1>1 DEF NotifyPut, NotifyOne
  <2>2. w \in Threads /\ w # t
    BY <1>0, <2>1 DEF Threads
  <2>3. AtPut' = AtPut \ {t}
    BY <1>0, <2>1, <2>2 DEF AtPut, TypeOK
  <2>4. Awake(Producers)' = Awake(Producers) \cup {w} /\ w \notin Awake(Producers)
    BY <1>0, <2>1, <2>2 DEF Awake, TypeOK, Threads
  <2>5. /\ Cardinality(AtPut') = Cardinality(AtPut) - 1
        /\ Cardinality(Awake(Producers)') = Cardinality(Awake(Producers)) + 1
    BY <1>0, <2>3, <2>4, OwingFinite, FS_RemoveElement, FS_AddElement
  <2>6. w \in Asleep(Producers)
    BY <2>1 DEF Asleep
  <2>7. Cardinality(AtPut) + Cardinality(Awake(Producers)) + Len(q) >= Capacity
    BY <2>6 DEF PutterNotForgotten
  <2>8. Cardinality(AtPut') + Cardinality(Awake(Producers)') + Len(q') >= Capacity
    BY <1>0, <2>5, <2>7, OwingFinite DEF TypeOK
  <2> QED BY <2>8 DEF PutterNotForgotten
<1>2. CASE ~ \E w \in Producers : pc[w] = "waiting"
  <2>1. Asleep(Producers)' = {}
    BY <1>2 DEF NotifyPut, NotifyOne, Asleep, TypeOK, Threads
  <2> QED BY <2>1 DEF PutterNotForgotten
<1> QED BY <1>1, <1>2

\* Every step keeps the count.
LEMMA PutterStep == TypeOK /\ PutterNotForgotten /\ [Next]_vars => PutterNotForgotten'
<1> SUFFICES ASSUME TypeOK, PutterNotForgotten, [Next]_vars, Asleep(Producers)' # {}
             PROVE  PutterNotForgotten'
  BY DEF PutterNotForgotten
<1> USE QueueAssumption
<1>0. TypeOK' /\ Len(q) \in Nat
  BY TypeStep DEF TypeOK
<1>1. ASSUME NEW c \in Consumers, NEW b \in BOOLEAN, GetWaits(c, b) PROVE PutterNotForgotten'
  <2>1. /\ AtPut \subseteq AtPut' /\ Awake(Producers) \subseteq Awake(Producers)'
        /\ Asleep(Producers) # {} /\ q' = q
    BY <1>1 DEF GetWaits, Wait, AtPut, Awake, Asleep, TypeOK, Threads
  <2> QED BY <1>0, <2>1, OwingGrows
<1>2. ASSUME NEW c \in Consumers, GetNow(c) PROVE PutterNotForgotten'
  BY <1>0, <1>2, TakePaysForItsPlace DEF GetNow
<1>3. ASSUME NEW c \in Consumers, ResumeGet(c) PROVE PutterNotForgotten'
  <2>1. CASE Take(c) /\ pc[c] \in {"woken", "expired"}
    BY <1>0, <2>1, TakePaysForItsPlace
  <2>2. CASE ~ Take(c)
    <3>1. /\ AtPut \subseteq AtPut' /\ Awake(Producers) \subseteq Awake(Producers)'
          /\ Asleep(Producers) # {} /\ q' = q
      BY <1>3, <2>2 DEF ResumeGet, AtPut, Awake, Asleep, TypeOK, Threads
    <3> QED BY <1>0, <3>1, OwingGrows
  <2> QED BY <1>3, <2>1, <2>2 DEF ResumeGet, Take
<1>4. ASSUME NEW p \in Producers, NEW n \in 1..MaxBatch, NEW b \in BOOLEAN, PutWaits(p, n, b)
      PROVE  PutterNotForgotten'
  BY <1>0, <1>4, FullIsEnough DEF PutWaits, Wait, HasRoom
<1>5. ASSUME NEW p \in Producers, NEW n \in 1..MaxBatch, PutNow(p, n) PROVE PutterNotForgotten'
  BY <1>0, <1>5, PutFillsItsPlace DEF PutNow
<1>6. ASSUME NEW p \in Producers, ResumePut(p) PROVE PutterNotForgotten'
  <2>1. batch[p] \in Nat \ {0}
    BY DEF TypeOK
  <2>2. CASE HasRoom
    BY <1>0, <1>6, <2>1, <2>2, PutFillsItsPlace DEF ResumePut
  <2>3. CASE ~ HasRoom
    BY <1>0, <1>6, <2>3, FullIsEnough DEF ResumePut, HasRoom
  <2> QED BY <2>2, <2>3
<1>7. ASSUME NEW p \in Producers, Clear(p) PROVE PutterNotForgotten'
  BY <1>7 DEF Clear, Asleep, Waiting
<1>8. ASSUME NEW t \in Threads, NotifyGet(t) PROVE PutterNotForgotten'
  <2>1. /\ AtPut \subseteq AtPut' /\ Awake(Producers) \subseteq Awake(Producers)'
        /\ Asleep(Producers) # {} /\ q' = q
    BY <1>8 DEF NotifyGet, NotifyOne, AtPut, Awake, Asleep, TypeOK, Threads
  <2> QED BY <1>0, <2>1, OwingGrows
<1>9. ASSUME NEW t \in Threads, NotifyPut(t) PROVE PutterNotForgotten'
  BY <1>0, <1>9, NotificationArrives
<1>10. ASSUME NEW t \in Threads, WakeSpuriously(t) \/ Timeout(t) PROVE PutterNotForgotten'
  <2>1. /\ AtPut \subseteq AtPut' /\ Awake(Producers) \subseteq Awake(Producers)'
        /\ Asleep(Producers) # {} /\ q' = q
    BY <1>10 DEF WakeSpuriously, Timeout, AtPut, Awake, Asleep, TypeOK, Threads
  <2> QED BY <1>0, <2>1, OwingGrows
<1>11. CASE UNCHANGED vars
  BY <1>11 DEF vars, PutterNotForgotten, AtPut, Awake, Asleep
<1> QED
  BY <1>1, <1>2, <1>3, <1>4, <1>5, <1>6, <1>7, <1>8, <1>9, <1>10, <1>11 DEF Next

(***************************************************************************)
(* While producers sleep, every free place has a consumer about to notify  *)
(* put_cv_ or a producer that is awake, for any number of threads.         *)
(***************************************************************************)
THEOREM NoLostPutter == Spec => []PutterNotForgotten
<1>1. Init => PutterNotForgotten
  BY DEF Init, PutterNotForgotten, Asleep, Threads
<1> QED BY <1>1, TypeCorrect, PutterStep, PTL DEF Spec

-----------------------------------------------------------------------------
(* The queue implements BlockingBuffer *)

\* A step that leaves the elements and who waits with what alone is a
\* stutter of the buffer.
LEMMA BufferStutters ==
    ASSUME UNCHANGED <<q, batch>>,
           \A t \in Threads : pc'[t] \in Waiting <=> pc[t] \in Waiting
    PROVE  UNCHANGED Buffer!vars
<1>1. Asking' = Asking
  BY DEF Asking, Threads
<1>2. Offers' = Offers
  BY DEF Offers, Threads
<1> QED BY <1>1, <1>2 DEF Buffer!vars

\* What a step of one consumer does to the variables of the buffer.
LEMMA ConsumerMoves ==
    ASSUME TypeOK, NEW c \in Consumers, NEW v, pc' = [pc EXCEPT ![c] = v], UNCHANGED batch
    PROVE  /\ Asking' = IF v \in Waiting THEN Asking \cup {c} ELSE Asking \ {c}
           /\ Offers' = Offers
<1>1. \A d \in Consumers : pc'[d] = IF d = c THEN v ELSE pc[d]
  BY DEF TypeOK, Threads
<1>2. \A p \in Producers : pc'[p] = pc[p]
  BY QueueAssumption DEF TypeOK, Threads
<1> QED BY <1>1, <1>2 DEF Asking, Offers

\* And a step of one producer.
LEMMA ProducerMoves ==
    ASSUME TypeOK, NEW p \in Producers, NEW v, pc' = [pc EXCEPT ![p] = v],
           NEW n, batch' = [batch EXCEPT ![p] = n]
    PROVE  /\ Asking' = Asking
           /\ Offers' = [Offers EXCEPT ![p] = IF v \in Waiting THEN n ELSE 0]
<1>1. \A c \in Consumers : pc'[c] = pc[c]
  BY QueueAssumption DEF TypeOK, Threads
<1>2. \A o \in Producers : /\ pc'[o] = IF o = p THEN v ELSE pc[o]
                           /\ batch'[o] = IF o = p THEN n ELSE batch[o]
  BY DEF TypeOK, Threads
<1> QED BY <1>1, <1>2 DEF Asking, Offers

\* A queue that has no thread in a call is an empty buffer.
LEMMA BufferStarts == Init => Buffer!Init
  BY DEF Init, Buffer!Init, Asking, Offers, Waiting, Threads

\* Every step of the queue is one operation of the buffer, or none.
LEMMA BufferStep == TypeOK /\ [Next]_vars => [Buffer!Next]_Buffer!vars
<1> SUFFICES ASSUME TypeOK, [Next]_vars PROVE Buffer!Next \/ UNCHANGED Buffer!vars
  OBVIOUS
<1>1. ASSUME NEW c \in Consumers, NEW b \in BOOLEAN, GetWaits(c, b) PROVE Buffer!Ask(c)
  <2>1. Asking' = Asking \cup {c} /\ Offers' = Offers
    BY <1>1, ConsumerMoves DEF GetWaits, Wait, Waiting
  <2> QED BY <1>1, <2>1 DEF GetWaits, Wait, Buffer!Ask
<1>2. ASSUME NEW c \in Consumers, Take(c) PROVE Buffer!Serve(c)
  <2>1. OwedAfterGet(Len(q) - 1) \notin Waiting
    BY <1>2, Taken DEF Take, TypeOK, Waiting, Notifying
  <2>2. Asking' = Asking \ {c} /\ Offers' = Offers
    BY <1>2, <2>1, ConsumerMoves DEF Take
  <2> QED BY <1>2, <2>2 DEF Take, Buffer!Serve
<1>3. ASSUME NEW c \in Consumers, ResumeGet(c)
      PROVE  Buffer!Serve(c) \/ Buffer!StopAsking(c) \/ UNCHANGED Buffer!vars
  <2>1. CASE Take(c)
    BY <1>2, <2>1
  <2>2. CASE /\ q = <<>> /\ UNCHANGED <<q, batch>>
             /\ pc[c] = "woken" /\ pc' = [pc EXCEPT ![c] = "waiting"]
    <3>1. c \in Asking /\ Asking' = Asking \cup {c} /\ Offers' = Offers
      BY <2>2, ConsumerMoves DEF Asking, Waiting
    <3> QED BY <2>2, <3>1 DEF Buffer!vars
  <2>3. CASE /\ q = <<>> /\ UNCHANGED <<q, batch>>
             /\ pc[c] = "expired" /\ pc' = [pc EXCEPT ![c] = "idle"]
    <3>1. c \in Asking /\ Asking' = Asking \ {c} /\ Offers' = Offers
      BY <2>3, ConsumerMoves DEF Asking, Waiting
    <3> QED BY <2>3, <3>1 DEF Buffer!StopAsking
  <2> QED BY <1>3, <2>1, <2>2, <2>3 DEF ResumeGet
<1>4. ASSUME NEW p \in Producers, NEW n \in 1..MaxBatch, NEW b \in BOOLEAN, PutWaits(p, n, b)
      PROVE  Buffer!Offer(p, n)
  <2>1. Asking' = Asking /\ Offers' = [Offers EXCEPT ![p] = n]
    BY <1>4, ProducerMoves DEF PutWaits, Wait, Waiting
  <2>2. Offers[p] = 0
    BY <1>4 DEF PutWaits, Offers, Waiting
  <2> QED BY <1>4, <2>1, <2>2 DEF PutWaits, Wait, HasRoom, Buffer!Offer, Buffer!Room
<1>5. ASSUME NEW p \in Producers, NEW n, Add(p, n), HasRoom, Offers[p] \in {0, n},
             UNCHANGED batch
      PROVE  Buffer!Accept(p, n)
  <2>1. batch' = [batch EXCEPT ![p] = batch[p]]
    BY <1>5 DEF TypeOK
  <2>2. pc' = [pc EXCEPT ![p] = "notifyGet"] /\ "notifyGet" \notin Waiting
    BY <1>5 DEF Add, Waiting
  <2>3. Asking' = Asking /\ Offers' = [Offers EXCEPT ![p] = 0]
    BY <2>1, <2>2, ProducerMoves
  <2> QED BY <1>5, <2>3 DEF Add, HasRoom, Buffer!Accept, Buffer!Room, Buffer!Batch
<1>6. ASSUME NEW p \in Producers, NEW n \in 1..MaxBatch, PutNow(p, n) PROVE Buffer!Accept(p, n)
  <2>1. Offers[p] = 0
    BY <1>6 DEF PutNow, Offers, Waiting
  <2> QED BY <1>5, <1>6, <2>1 DEF PutNow
<1>7. ASSUME NEW p \in Producers, ResumePut(p)
      PROVE  Buffer!Next \/ UNCHANGED Buffer!vars
  <2>1. batch[p] \in 1..MaxBatch /\ batch' = batch /\ batch' = [batch EXCEPT ![p] = batch[p]]
    BY <1>7 DEF ResumePut, TypeOK
  <2>2. pc[p] \in {"woken", "expired"} /\ Offers[p] = batch[p]
    BY <1>7 DEF ResumePut, Offers, Waiting
  <2>3. CASE HasRoom
    <3>1. Buffer!Accept(p, batch[p])
      BY <1>5, <1>7, <2>1, <2>2, <2>3 DEF ResumePut
    <3> QED BY <2>1, <3>1 DEF Buffer!Next
  <2>4. CASE ~ HasRoom /\ pc' = [pc EXCEPT ![p] = "waiting"]
    <3>1. Asking' = Asking /\ Offers' = [Offers EXCEPT ![p] = batch[p]]
      BY <2>1, <2>4, ProducerMoves DEF Waiting
    <3>2. Offers' = Offers
      BY <2>2, <3>1 DEF Offers
    <3> QED BY <1>7, <2>4, <3>1, <3>2 DEF ResumePut, Buffer!vars
  <2>5. CASE ~ HasRoom /\ pc' = [pc EXCEPT ![p] = "idle"]
    <3>0. "idle" \notin Waiting
      BY DEF Waiting
    <3>1. Asking' = Asking /\ Offers' = [Offers EXCEPT ![p] = 0]
      BY <2>1, <2>5, <3>0, ProducerMoves
    <3>2. Offers[p] # 0 /\ q' = q
      BY <1>7, <2>1, <2>2, <2>5 DEF ResumePut
    <3>3. Buffer!Withdraw(p)
      BY <2>5, <3>1, <3>2 DEF HasRoom, Buffer!Withdraw, Buffer!Room
    <3> QED BY <3>3 DEF Buffer!Next
  <2> QED BY <1>7, <2>3, <2>4, <2>5 DEF ResumePut
<1>8. ASSUME NEW p \in Producers, Clear(p) PROVE Buffer!Clear
  <2>1. Asking' = Asking /\ Offers' = Offers /\ \A o \in Producers : Offers[o] = 0
    BY <1>8 DEF Clear, Asking, Offers
  <2> QED BY <1>8, <2>1 DEF Clear, Buffer!Clear
<1>9. ASSUME NEW t \in Threads, \/ NotifyGet(t) \/ NotifyPut(t)
                                \/ WakeSpuriously(t) \/ Timeout(t)
      PROVE  UNCHANGED Buffer!vars
  <2>1. UNCHANGED <<q, batch>> /\ \A u \in Threads : pc'[u] \in Waiting <=> pc[u] \in Waiting
    BY <1>9 DEF NotifyGet, NotifyPut, NotifyOne, WakeSpuriously, Timeout, Waiting, Threads, TypeOK
  <2> QED BY <2>1, BufferStutters
<1>10. CASE UNCHANGED vars
  BY <1>10 DEF vars, Asking, Offers, Buffer!vars
<1>11. ASSUME NEW c \in Consumers, GetNow(c) PROVE Buffer!Serve(c)
  BY <1>2, <1>11 DEF GetNow
<1> QED
  BY <1>1, <1>3, <1>4, <1>6, <1>7, <1>8, <1>9, <1>10, <1>11 DEF Next, Buffer!Next

(***************************************************************************)
(* The queue is a FIFO with the operations of BlockingBuffer, each in one  *)
(* step, and timed calls fail only where the buffer lets them: the part of *)
(* ImplementsBuffer that is about safety, for any number of threads.       *)
(***************************************************************************)
THEOREM BufferImplemented == Spec => Buffer!Safe
<1> QED BY BufferStarts, BufferStep, TypeCorrect, PTL DEF Spec, Buffer!Safe
=============================================================================
