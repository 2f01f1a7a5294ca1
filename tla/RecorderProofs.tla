--------------------------- MODULE RecorderProofs ---------------------------
(***************************************************************************)
(* For any number of frames, any limits and any delay of the encoders: the *)
(* recorder destroys its parts after their users, finishes its output with *)
(* a trailer, bounds its queues, loses no audio and keeps video in order.  *)
(*                                                                         *)
(* The order of destruction is no property of one step: it follows from    *)
(* the order of construction (InOrder), from Run, which is not reached     *)
(* before all is built (Waiting), and from Over, after which nothing is    *)
(* built and no thread begins (Ended, Gone).                               *)
(*                                                                         *)
(* What becomes of the frames is told by boundaries: from what was written *)
(* to what an encoder holds, to the muxer's queue and, for video, to the   *)
(* filter and its queue, each part lists the frames between two numbers    *)
(* and the next part begins where it ends (Muxed, Coming).                 *)
(***************************************************************************)
EXTENDS Recorder, FiniteSetTheorems, ListsProofs

Labels == {"idle", "loop", "submit", "size", "put", "get", "sink", "header", "trailer", "done"}

\* What the control of the recorder consists of.
Types ==
    /\ pc \in [Workers -> Labels]
    /\ alive \in [Workers -> BOOLEAN]
    /\ threw \in BOOLEAN

\* The five parts are built one after the other, and alive only when built.
InOrder ==
    /\ built \in {{}, {"main"}, {"main", "minor"}, {"main", "minor", "filter"},
                  {"main", "minor", "filter", "audio"}, Workers}
    /\ \A w \in Workers : alive[w] => w \in built
    /\ threw => "muxer" \notin built

\* Who waits for what: inputs for Run, filter and muxer for their constructors.
Waiting ==
    /\ \A i \in Inputs : pc[i] # "idle" => "muxer" \in built
    /\ \A w \in {"filter", "muxer"} : pc[w] = "idle" <=> w \notin built
    /\ pc["filter"] \in {"submit", "size", "put"} => "muxer" \in built

\* Destruction begins when nothing more is built and no thread begins.
Ended == closing # None \/ destroyed # {} => threw \/ Started

\* What is destroyed, or is being destroyed, had its turn.
Gone ==
    /\ closing # None => closing \in built /\ DestroyedBefore(closing) \cap built \subseteq destroyed
    /\ \A w \in destroyed :
        /\ w \in built
        /\ pc[w] \in {"done", "idle"}
        /\ DestroyedBefore(w) \cap built \subseteq destroyed

Order == Types /\ InOrder /\ Waiting /\ Ended /\ Gone

-----------------------------------------------------------------------------
\* All is built exactly if the last part is.
LEMMA BuiltLast == InOrder => (AllBuilt <=> "muxer" \in built)
  BY DEF InOrder, AllBuilt, BuildOrder, ToSet, Workers, Inputs, VideoInputs

\* The next part follows those that are there.
LEMMA BuiltNext ==
    ASSUME NEW w, Building(w), InOrder
    PROVE  /\ ~ threw /\ "muxer" \notin built /\ w \notin built /\ w \in Workers
           /\ built \cup {w} \in {{"main"}, {"main", "minor"}, {"main", "minor", "filter"},
                  {"main", "minor", "filter", "audio"}, Workers}
           /\ w = "muxer" => built = {"main", "minor", "filter", "audio"}
           /\ built \cup {w} = Workers <=> w = "muxer"
  <1> DEFINE before(k) == {BuildOrder[j] : j \in 1..(k - 1)}
  <1>1. PICK k \in 1..5 : w = BuildOrder[k] /\ built = before(k)
    BY DEF Building, BuildOrder
  <1>2. /\ before(1) = {}
        /\ before(2) = {"main"}
        /\ before(3) = {"main", "minor"}
        /\ before(4) = {"main", "minor", "filter"}
        /\ before(5) = {"main", "minor", "filter", "audio"}
    BY DEF BuildOrder
  <1>3. k = 1 \/ k = 2 \/ k = 3 \/ k = 4 \/ k = 5
    OBVIOUS
  <1> HIDE DEF before
  <1> QED
    BY <1>1, <1>2, <1>3 DEF Building, BuildOrder, Workers, Inputs, VideoInputs

\* At the start nothing is built.
LEMMA InitOrder == Init => Order
  <1> SUFFICES ASSUME Init PROVE Order
    OBVIOUS
  <1>1. Types
    BY DEF Init, Types, Labels
  <1>2. InOrder /\ Waiting
    BY DEF Init, InOrder, Waiting, Workers, Inputs, VideoInputs
  <1>3. Ended /\ Gone
    BY DEF Init, Ended, Gone
  <1> QED
    BY <1>1, <1>2, <1>3 DEF Order

-----------------------------------------------------------------------------
\* A thread that runs goes on or ends, and clears no flag but its own.
Runs(w, l) ==
    /\ pc[w] \notin {"idle", "done"}
    /\ l # "idle"
    /\ w = "filter" /\ l \in {"submit", "size", "put"} => "muxer" \in built
    /\ pc' = [pc EXCEPT ![w] = l]
    /\ alive' = alive \/ alive' = [alive EXCEPT ![w] = FALSE]
    /\ UNCHANGED <<building, closing, destroyed>>

\* A thread that runs was not destroyed, so the order stays.
LEMMA RunsInOrder ==
    ASSUME Order, NEW w \in Workers, NEW l \in Labels, Runs(w, l)
    PROVE  Order'
  <1> USE DEF Runs, building
  <1>1. Types'
    BY DEF Order, Types
  <1>2. InOrder'
    BY DEF Order, Types, InOrder
  <1>3. Waiting'
    BY DEF Order, Types, Waiting, Inputs, VideoInputs, Workers
  <1>4. Ended'
    BY DEF Order, Types, Ended, Started, AllBuilt, Inputs, VideoInputs, Workers
  <1>5. Gone'
    <2>1. w \notin destroyed
      BY DEF Order, Gone
    <2>2. \A v \in destroyed : v \in Workers /\ v # w
      BY <2>1 DEF Order, Gone, InOrder, Workers, Inputs, VideoInputs
    <2>3. \A v \in destroyed : pc'[v] = pc[v]
      BY <2>2 DEF Order, Types
    <2> QED
      BY <2>3 DEF Order, Gone, DestroyedBefore
  <1> QED
    BY <1>1, <1>2, <1>3, <1>4, <1>5 DEF Order

\* The three kinds of threads run.
LEMMA InputRuns ==
    ASSUME Order, NEW i \in Inputs, Input(i)
    PROVE  \E l \in Labels : Runs(i, l)
  <1> USE DEF Order, Types, Goto, Runs, Labels, Inputs, VideoInputs, Workers, ending
  <1>1. CASE InputEnds(i)
    BY <1>1 DEF InputEnds
  <1>2. CASE InputCaptures(i)
    BY <1>2 DEF InputCaptures
  <1>3. CASE InputFails(i)
    BY <1>3 DEF InputFails
  <1>4. CASE InputSubmits(i)
    BY <1>4 DEF InputSubmits
  <1>5. CASE InputLooksAtSize(i)
    BY <1>5 DEF InputLooksAtSize
  <1>6. CASE InputPutsVideo(i)
    BY <1>6 DEF InputPutsVideo
  <1>7. CASE i = "audio" /\ InputPutsAudio
    BY <1>7 DEF InputPutsAudio
  <1> QED
    BY <1>1, <1>2, <1>3, <1>4, <1>5, <1>6, <1>7 DEF Input

LEMMA FilterRuns ==
    ASSUME Order, Filter
    PROVE  \E l \in Labels : Runs("filter", l)
  <1> USE DEF Order, Types, InOrder, Waiting, Goto, Runs, Labels, Inputs, VideoInputs, Workers, ending
  <1>1. CASE FilterLoop
    BY <1>1 DEF FilterLoop
  <1>2. CASE FilterTimeout
    BY <1>2 DEF FilterTimeout
  <1>3. CASE FilterAdds
    BY <1>3 DEF FilterAdds
  <1>4. CASE FilterAddFails
    BY <1>4 DEF FilterAddFails
  <1>5. CASE FilterGives
    BY <1>5 DEF FilterGives
  <1>6. CASE FilterGivesNothing
    BY <1>6 DEF FilterGivesNothing
  <1>7. CASE FilterGiveFails
    BY <1>7 DEF FilterGiveFails
  <1>8. CASE FilterLooksAtSize
    BY <1>8 DEF FilterLooksAtSize
  <1>9. CASE FilterPuts
    BY <1>9 DEF FilterPuts
  <1> QED
    BY <1>1, <1>2, <1>3, <1>4, <1>5, <1>6, <1>7, <1>8, <1>9 DEF Filter

LEMMA MuxerRuns ==
    ASSUME Order, Muxer
    PROVE  \E l \in Labels : Runs("muxer", l)
  <1> USE DEF Order, Types, Goto, Runs, Labels, Inputs, VideoInputs, Workers, ending, MuxerReturns
  <1>1. CASE MuxerWritesHeader
    BY <1>1 DEF MuxerWritesHeader
  <1>2. CASE MuxerHeaderFails
    BY <1>2 DEF MuxerHeaderFails
  <1>3. CASE MuxerLoop
    BY <1>3 DEF MuxerLoop
  <1>4. CASE MuxerTimeout
    BY <1>4 DEF MuxerTimeout
  <1>5. CASE MuxerWrites
    BY <1>5 DEF MuxerWrites
  <1>6. CASE MuxerSkips
    BY <1>6 DEF MuxerSkips
  <1>7. CASE MuxerFails
    BY <1>7 DEF MuxerFails
  <1>8. CASE MuxerWritesTrailer
    BY <1>8 DEF MuxerWritesTrailer
  <1> QED
    BY <1>1, <1>2, <1>3, <1>4, <1>5, <1>6, <1>7, <1>8 DEF Muxer

-----------------------------------------------------------------------------
\* A part is built while nothing is destroyed, and the parts are in order.
LEMMA BuildInOrder ==
    ASSUME Order, NEW w, NEW l \in Labels, Build(w, l),
           w \in Inputs => l = "idle",
           w \notin Inputs => l \in {"loop", "header"}
    PROVE  Order'
  <1>1. ~ threw /\ "muxer" \notin built /\ w \notin built /\ w \in Workers
    BY BuiltNext DEF Build, Order
  <1>2. ~ AllBuilt
    BY <1>1, BuiltLast DEF Order
  <1>3. closing = None /\ destroyed = {}
    BY <1>1, <1>2 DEF Order, Ended, Started
  <1>4. Types'
    BY <1>1 DEF Build, Goto, Order, Types
  <1>5. InOrder'
    BY <1>1, BuiltNext DEF Build, Order, Types, InOrder
  <1>6. Waiting'
    <2>1. \A i \in Inputs : pc'[i] = "idle"
      BY <1>1 DEF Build, Goto, Order, Types, Waiting, Inputs, VideoInputs, Workers
    <2>2. \A v \in {"filter", "muxer"} : pc'[v] = "idle" <=> v \notin built'
      BY <1>1 DEF Build, Goto, Order, Types, Waiting, Inputs, VideoInputs, Workers
    <2>3. pc'["filter"] \notin {"submit", "size", "put"}
      BY <1>1 DEF Build, Goto, Order, Types, Waiting, Inputs, VideoInputs, Workers
    <2> QED
      BY <2>1, <2>2, <2>3 DEF Waiting
  <1>7. Ended' /\ Gone'
    BY <1>3 DEF Build, ending, Ended, Gone
  <1> QED
    BY <1>4, <1>5, <1>6, <1>7 DEF Order

\* Once a constructor has thrown, nothing more is built.
LEMMA ThrowInOrder ==
    ASSUME Order, NEW w, Throw(w)
    PROVE  Order'
  <1>1. "muxer" \notin built
    BY BuiltNext DEF Throw, Order
  <1> QED
    BY <1>1 DEF Throw, ending, Order, Types, InOrder, Waiting, Ended, Gone, DestroyedBefore

\* An input runs when all is built and, since its thread does not run yet,
\* nothing is destroyed.
LEMMA RunInOrder ==
    ASSUME Order, NEW i \in Inputs, Run(i)
    PROVE  Order'
  <1>1. "muxer" \in built /\ ~ threw
    BY BuiltLast DEF Run, Order, InOrder
  <1>2. closing = None /\ destroyed = {}
    BY <1>1 DEF Run, Order, Ended, Started
  <1>3. Types' /\ InOrder'
    BY DEF Run, Goto, building, Order, Types, InOrder, Inputs, VideoInputs, Workers, Labels
  <1>4. Waiting'
    BY <1>1 DEF Run, Goto, building, Order, Types, Waiting, Inputs, VideoInputs, Workers
  <1>5. Ended' /\ Gone'
    BY <1>2 DEF Run, ending, Ended, Gone
  <1> QED
    BY <1>3, <1>4, <1>5 DEF Order

\* Destroy gives a part its turn and Joined ends it.
LEMMA DestroyInOrder ==
    ASSUME Order, NEW w \in Workers, Destroy(w)
    PROVE  Order'
  <1> USE DEF Destroy, building
  <1>1. Types' /\ InOrder' /\ Waiting'
    BY DEF Order, Types, InOrder, Waiting
  <1>2. Ended'
    BY DEF Order, Ended, Over, Started, AllBuilt
  <1>3. Gone'
    BY DEF Order, Gone, DestroyedBefore
  <1> QED
    BY <1>1, <1>2, <1>3 DEF Order

LEMMA JoinedInOrder ==
    ASSUME Order, NEW w \in Workers, Joined(w)
    PROVE  Order'
  <1>1. w # None
    BY RecorderAssumption DEF RecorderAssumption
  <1> USE DEF Joined, building
  <1>2. Types' /\ InOrder' /\ Waiting'
    BY DEF Order, Types, InOrder, Waiting
  <1>3. Ended'
    BY <1>1 DEF Order, Ended, Started, AllBuilt
  <1>4. Gone'
    BY <1>1 DEF Order, Gone, DestroyedBefore
  <1> QED
    BY <1>2, <1>3, <1>4 DEF Order

\* Every step keeps the order.
LEMMA NextInOrder == Order /\ [Next]_vars => Order'
  <1> SUFFICES ASSUME Order, [Next]_vars
               PROVE  Order'
    OBVIOUS
  <1>1. CASE \E i \in Inputs : Input(i)
    BY <1>1, InputRuns, RunsInOrder DEF Workers
  <1>2. CASE Filter
    BY <1>2, FilterRuns, RunsInOrder DEF Workers
  <1>3. CASE Muxer
    BY <1>3, MuxerRuns, RunsInOrder DEF Workers
  <1>4. CASE Main
    <2>1. CASE \E i \in Inputs : InputOpens(i)
      BY <2>1, BuildInOrder DEF InputOpens, Labels
    <2>2. CASE \E i \in Inputs : InputThrows(i)
      BY <2>2, ThrowInOrder DEF InputThrows
    <2>3. CASE \E i \in Inputs : Run(i)
      BY <2>3, RunInOrder
    <2>4. CASE FilterStarts \/ MuxerStarts
      BY <2>4, BuildInOrder DEF FilterStarts, MuxerStarts, Labels, Inputs, VideoInputs
    <2>5. CASE FilterThrows \/ MuxerThrows
      BY <2>5, ThrowInOrder DEF FilterThrows, MuxerThrows
    <2>6. CASE \E w \in Workers : Destroy(w) \/ Joined(w)
      BY <2>6, DestroyInOrder, JoinedInOrder
    <2> QED
      BY <1>4, <2>1, <2>2, <2>3, <2>4, <2>5, <2>6 DEF Main
  <1>5. CASE Interrupt \/ UNCHANGED vars
    <2>1. UNCHANGED <<pc, alive, built, threw, closing, destroyed>>
      BY <1>5 DEF Interrupt, vars, building, ending
    <2>2. Types' /\ InOrder' /\ Waiting'
      BY <2>1 DEF Order, Types, InOrder, Waiting
    <2>3. Ended' /\ Gone'
      BY <2>1 DEF Order, Ended, Started, AllBuilt, Gone, DestroyedBefore
    <2> QED
      BY <2>2, <2>3 DEF Order
  <1> QED
    BY <1>1, <1>2, <1>3, <1>4, <1>5 DEF Next, Finished

\* The order is an invariant of the specification.
THEOREM OrderAlways == Spec => []Order
  BY InitOrder, NextInOrder, PTL DEF Spec

(***************************************************************************)
(* No thread calls a filter or a muxer that is not there yet or not there  *)
(* any more, whichever constructor throws and however the recorder ends:   *)
(* the order of Context's members (recorder/context.h) is the right one.   *)
(***************************************************************************)
THEOREM UsersFirst == Spec => []UsersGoFirst
  <1>1. Order => UsersGoFirst
    <2> SUFFICES ASSUME Order, NEW w \in Inputs \cup {"filter"}
                 PROVE  /\ Callee(w) \notin built => pc[w] \notin {"submit", "size", "put"}
                        /\ closing = Callee(w) \/ Callee(w) \in destroyed => pc[w] \in {"idle", "done"}
      BY DEF UsersGoFirst
    <2>1. Callee(w) \notin built => pc[w] \notin {"submit", "size", "put"}
      <3>1. "muxer" \in built => Callee(w) \in built
        BY DEF Order, InOrder, Callee, Inputs, VideoInputs, Workers
      <3> QED
        BY <3>1 DEF Order, Waiting
    <2>2. ASSUME closing = Callee(w) \/ Callee(w) \in destroyed
          PROVE  pc[w] \in {"idle", "done"}
      <3>1. Callee(w) # None /\ w \in DestroyedBefore(Callee(w)) /\ w # "muxer"
        BY RecorderAssumption DEF RecorderAssumption, Callee, DestroyedBefore, Inputs, VideoInputs, Workers
      <3>2. DestroyedBefore(Callee(w)) \cap built \subseteq destroyed
        BY <2>2, <3>1 DEF Order, Gone
      <3>3. w \in built => w \in destroyed
        BY <3>1, <3>2
      <3>4. w \notin built => pc[w] = "idle"
        <4>1. "muxer" \in built => w \in built
          BY DEF Order, InOrder, Inputs, VideoInputs, Workers
        <4> QED
          BY <4>1 DEF Order, Waiting
      <3> QED
        BY <3>3, <3>4 DEF Order, Gone
    <2> QED
      BY <2>1, <2>2
  <1> QED
    BY <1>1, OrderAlways, PTL

-----------------------------------------------------------------------------
\* What the muxer has done when its thread is where it is.
Finishing ==
    /\ pc["muxer"] \in {"loop", "get", "trailer"} => header
    /\ pc["muxer"] = "done" => failed \/ (header /\ trailer)

\* Only the muxer's thread, or its constructor, says where it is.
LEMMA MuxerAlone ==
    ASSUME Order, [Next]_vars, ~ Muxer, ~ MuxerStarts
    PROVE  pc'["muxer"] = pc["muxer"] /\ UNCHANGED <<header, trailer, failed>>
  <1> USE DEF muxing
  <1>1. CASE \E i \in Inputs : Input(i)
    <2>1. PICK i \in Inputs : Input(i)
      BY <1>1
    <2>2. PICK l \in Labels : Runs(i, l)
      BY <2>1, InputRuns
    <2>3. pc'["muxer"] = pc["muxer"]
      BY <2>2 DEF Runs, Order, Types, Inputs, VideoInputs, Workers
    <2>4. UNCHANGED muxing
      BY <2>1 DEF Input, InputEnds, InputCaptures, InputFails, InputSubmits, InputLooksAtSize,
                  InputPutsVideo, InputPutsAudio
    <2> QED
      BY <2>3, <2>4
  <1>2. CASE Filter
    <2>1. PICK l \in Labels : Runs("filter", l)
      BY <1>2, FilterRuns
    <2>2. pc'["muxer"] = pc["muxer"]
      BY <2>1 DEF Runs, Order, Types, Workers
    <2>3. UNCHANGED muxing
      BY <1>2 DEF Filter, FilterLoop, FilterTimeout, FilterAdds, FilterAddFails, FilterGives,
                  FilterGivesNothing, FilterGiveFails, FilterLooksAtSize, FilterPuts
    <2> QED
      BY <2>2, <2>3
  <1>3. CASE Main
    BY <1>3 DEF Main, InputOpens, InputThrows, Run, FilterStarts, FilterThrows, MuxerStarts,
                MuxerThrows, Destroy, Joined, Build, Throw, Goto, Order, Types, Inputs, VideoInputs, Workers
  <1>4. CASE Interrupt \/ UNCHANGED vars
    BY <1>4 DEF Interrupt, vars
  <1> QED
    BY <1>1, <1>2, <1>3, <1>4 DEF Next, Finished

LEMMA NextFinishing == Order /\ Finishing /\ [Next]_vars => Finishing'
  <1> SUFFICES ASSUME Order, Finishing, [Next]_vars
               PROVE  Finishing'
    OBVIOUS
  <1>1. CASE Muxer
    BY <1>1 DEF Muxer, MuxerWritesHeader, MuxerHeaderFails, MuxerLoop, MuxerTimeout, MuxerWrites, MuxerSkips,
                MuxerFails, MuxerWritesTrailer, MuxerReturns, Goto, Finishing, Order, Types, Workers, muxing
  <1>2. CASE MuxerStarts
    BY <1>2 DEF MuxerStarts, Build, Goto, Finishing, Order, Types, Workers
  <1>3. CASE ~ Muxer /\ ~ MuxerStarts
    BY <1>3, MuxerAlone DEF Finishing
  <1> QED
    BY <1>1, <1>2, <1>3

(***************************************************************************)
(* When everything was destroyed, the muxer's thread has ended, and it     *)
(* ends without a trailer only when it failed: Muxer's destructor waits    *)
(* for the whole of its Run.                                               *)
(***************************************************************************)
THEOREM TrailerAlways == Spec => []TrailerWritten
  <1>1. Init => Finishing
    BY DEF Init, Finishing, Workers
  <1>2. Order /\ Finishing => TrailerWritten
    <2> SUFFICES ASSUME Order, Finishing, destroyed = Workers, ~ failed
                 PROVE  header /\ trailer
      BY DEF TrailerWritten
    <2>1. "muxer" \in built /\ pc["muxer"] \in {"done", "idle"}
      BY DEF Order, Gone, Workers
    <2> QED
      BY <2>1 DEF Order, Waiting, Finishing
  <1> QED
    BY <1>1, <1>2, OrderAlways, NextFinishing, PTL DEF Spec

-----------------------------------------------------------------------------
\* What is counted in the queues is of these types.
Data ==
    /\ captured \in [Inputs -> Nat]
    /\ filterQ \in Seq(VideoInputs \X Nat)
    /\ graph \in Seq(Nat)
    /\ filtered \in Nat
    /\ muxerQ \in Seq(Media \X Nat)

\* A thread that has seen room and not put yet counts as a frame.
Putting(w) == IF pc[w] = "put" THEN 1 ELSE 0

VideoIn(q) == {k \in DOMAIN q : q[k][1] = "video"}

FilterCount == Len(filterQ) + Putting("main") + Putting("minor")

MuxerCount == Cardinality(VideoIn(muxerQ)) + Putting("filter")

Short == FilterCount <= FilterLimit + 2 /\ MuxerCount <= MuxerLimit + 1

\* The video in a queue is counted by its length at most,
LEMMA VideoCounted ==
    ASSUME NEW S, NEW q \in Seq(S)
    PROVE  /\ IsFiniteSet(VideoIn(q))
           /\ Cardinality(VideoIn(q)) \in Nat
           /\ Cardinality(VideoIn(q)) <= Len(q)
  <1>1. IsFiniteSet(1..Len(q)) /\ Cardinality(1..Len(q)) = Len(q)
    <2> DEFINE n == Len(q)
    <2>1. n \in Nat
      OBVIOUS
    <2> HIDE DEF n
    <2>2. IsFiniteSet(1..n) /\ Cardinality(1..n) = IF 1 > n THEN 0 ELSE n - 1 + 1
      BY <2>1, FS_Interval
    <2>3. IsFiniteSet(1..n) /\ Cardinality(1..n) = n
      BY <2>1, <2>2
    <2> QED
      BY <2>3 DEF n
  <1>2. VideoIn(q) \in SUBSET (1..Len(q))
    BY DEF VideoIn
  <1> QED
    BY <1>1, <1>2, FS_Subset, FS_CardinalityType

\* a frame that is put adds itself at most,
LEMMA VideoPut ==
    ASSUME NEW S, NEW q \in Seq(S), NEW f \in S
    PROVE  /\ Cardinality(VideoIn(Append(q, f))) <= Cardinality(VideoIn(q)) + 1
           /\ f[1] # "video" => VideoIn(Append(q, f)) = VideoIn(q)
  <1>1. VideoIn(Append(q, f)) = IF f[1] = "video" THEN VideoIn(q) \cup {Len(q) + 1} ELSE VideoIn(q)
    <2>1. Append(q, f) \in Seq(S) /\ Len(Append(q, f)) = Len(q) + 1
      OBVIOUS
    <2>2. \A k \in 1..Len(q) : Append(q, f)[k] = q[k]
      OBVIOUS
    <2>3. Append(q, f)[Len(q) + 1] = f
      OBVIOUS
    <2>4. DOMAIN Append(q, f) = 1..(Len(q) + 1) /\ DOMAIN q = 1..Len(q)
      BY <2>1
    <2>5. \A k : k \in 1..(Len(q) + 1) <=> k \in 1..Len(q) \/ k = Len(q) + 1
      OBVIOUS
    <2> QED
      BY <2>2, <2>3, <2>4, <2>5 DEF VideoIn
  <1>2. IsFiniteSet(VideoIn(q)) /\ Cardinality(VideoIn(q)) \in Nat
    BY VideoCounted
  <1>3. Cardinality(VideoIn(q) \cup {Len(q) + 1}) <= Cardinality(VideoIn(q)) + 1
    <2>1. Cardinality(VideoIn(q) \cup {Len(q) + 1})
              = IF Len(q) + 1 \in VideoIn(q) THEN Cardinality(VideoIn(q)) ELSE Cardinality(VideoIn(q)) + 1
      BY <1>2, FS_AddElement, Zenon
    <2> QED
      BY <1>2, <2>1
  <1> QED
    BY <1>1, <1>2, <1>3

\* and a frame that is taken leaves no more than before.
LEMMA VideoTaken ==
    ASSUME NEW S, NEW q \in Seq(S), q # <<>>
    PROVE  Cardinality(VideoIn(Tail(q))) <= Cardinality(VideoIn(q))
  <1> DEFINE back == [k \in VideoIn(Tail(q)) |-> k + 1]
  <1>1. \A k \in VideoIn(Tail(q)) : k \in Nat /\ k + 1 \in VideoIn(q)
    <2>1. Tail(q) \in Seq(S) /\ Len(Tail(q)) = Len(q) - 1
      OBVIOUS
    <2>2. \A k \in 1..Len(Tail(q)) : Tail(q)[k] = q[k + 1]
      OBVIOUS
    <2>3. DOMAIN Tail(q) = 1..(Len(q) - 1) /\ DOMAIN q = 1..Len(q)
      BY <2>1
    <2> QED
      BY <2>1, <2>2, <2>3 DEF VideoIn
  <1>2. back \in Injection(VideoIn(Tail(q)), VideoIn(q))
    BY <1>1 DEF Injection, IsInjective
  <1>3. IsFiniteSet(VideoIn(q))
    BY VideoCounted
  <1> HIDE DEF back
  <1> QED
    BY <1>2, <1>3, FS_Injection

\* main builds and destroys, it moves no frame.
LEMMA MainTouchesNoData == Main => UNCHANGED <<captured, filterQ, graph, filtered, muxerQ>>
  <1> SUFFICES ASSUME Main
               PROVE  UNCHANGED <<captured, filterQ, graph, filtered, muxerQ>>
    OBVIOUS
  <1> USE DEF capture, filtering
  <1>1. ASSUME NEW w, NEW l, Build(w, l) \/ Throw(w)
        PROVE  UNCHANGED <<captured, filterQ, graph, filtered, muxerQ>>
    BY <1>1 DEF Build, Throw
  <1>2. ASSUME NEW w, Run(w) \/ Destroy(w) \/ Joined(w)
        PROVE  UNCHANGED <<captured, filterQ, graph, filtered, muxerQ>>
    BY <1>2 DEF Run, Destroy, Joined
  <1> QED
    BY <1>1, <1>2 DEF Main, InputOpens, InputThrows, FilterStarts, FilterThrows, MuxerStarts, MuxerThrows

\* The muxer takes a frame of its queue at most.
LEMMA MuxerTakes ==
    ASSUME Muxer
    PROVE  /\ UNCHANGED <<captured, filterQ, graph, filtered>>
           /\ muxerQ' = muxerQ \/ (muxerQ # <<>> /\ muxerQ' = Tail(muxerQ))
  <1> USE DEF capture, filtering
  <1>1. CASE MuxerWritesHeader \/ MuxerHeaderFails \/ MuxerLoop
    BY <1>1 DEF MuxerWritesHeader, MuxerHeaderFails, MuxerLoop
  <1>2. CASE MuxerTimeout \/ MuxerWritesTrailer
    BY <1>2 DEF MuxerTimeout, MuxerWritesTrailer
  <1>3. CASE MuxerWrites
    BY <1>3 DEF MuxerWrites
  <1>4. CASE MuxerSkips \/ MuxerFails
    BY <1>4 DEF MuxerSkips, MuxerFails
  <1> QED
    BY <1>1, <1>2, <1>3, <1>4 DEF Muxer

\* What the threads put into the queues is of the right type.
LEMMA DataStep == Data /\ [Next]_vars => Data'
  <1> SUFFICES ASSUME Data, [Next]_vars
               PROVE  Data'
    OBVIOUS
  <1> USE DEF Data, capture, filtering, Inputs, VideoInputs, Media
  <1>1. ASSUME NEW i \in Inputs, Input(i)
        PROVE  Data'
    <2>1. CASE InputCaptures(i)
      BY <2>1 DEF InputCaptures
    <2>2. CASE InputPutsVideo(i)
      BY <2>2 DEF InputPutsVideo
    <2>3. CASE InputPutsAudio
      BY <2>3 DEF InputPutsAudio
    <2>4. CASE InputEnds(i) \/ InputFails(i) \/ InputSubmits(i) \/ InputLooksAtSize(i)
      BY <2>4 DEF InputEnds, InputFails, InputSubmits, InputLooksAtSize
    <2> QED
      BY <1>1, <2>1, <2>2, <2>3, <2>4 DEF Input
  <1>2. CASE Filter
    <2>1. CASE FilterAdds
      BY <2>1 DEF FilterAdds
    <2>2. CASE FilterAddFails
      BY <2>2 DEF FilterAddFails
    <2>3. CASE FilterGives
      BY <2>3 DEF FilterGives
    <2>4. CASE FilterLooksAtSize
      BY <2>4 DEF FilterLooksAtSize
    <2>5. CASE FilterPuts
      BY <2>5 DEF FilterPuts
    <2>6. CASE FilterLoop \/ FilterTimeout \/ FilterGivesNothing \/ FilterGiveFails
      BY <2>6 DEF FilterLoop, FilterTimeout, FilterGivesNothing, FilterGiveFails
    <2> QED
      BY <1>2, <2>1, <2>2, <2>3, <2>4, <2>5, <2>6 DEF Filter
  <1>3. CASE Muxer
    <2>1. muxerQ' = muxerQ \/ (muxerQ # <<>> /\ muxerQ' = Tail(muxerQ))
      BY <1>3, MuxerTakes
    <2>2. muxerQ' \in Seq(Media \X Nat)
      <3> DEFINE S == Media \X Nat
      <3>1. muxerQ \in Seq(S)
        OBVIOUS
      <3> HIDE DEF S, Data
      <3>2. muxerQ' \in Seq(S)
        BY <2>1, <3>1
      <3> QED
        BY <3>2 DEF S
    <2> QED
      BY <1>3, <2>2, MuxerTakes
  <1>4. CASE Main
    BY <1>4, MainTouchesNoData
  <1>5. CASE Interrupt \/ UNCHANGED vars
    BY <1>5 DEF Interrupt, vars
  <1> QED
    BY <1>1, <1>2, <1>3, <1>4, <1>5 DEF Next, Finished

\* All that is counted are natural numbers.
LEMMA Counts ==
    ASSUME Data
    PROVE  /\ Len(filterQ) \in Nat
           /\ Cardinality(VideoIn(muxerQ)) \in Nat
           /\ \A w : Putting(w) \in {0, 1}
           /\ FilterCount \in Nat /\ MuxerCount \in Nat
           /\ FilterLimit \in Nat /\ MuxerLimit \in Nat
  <1>1. Len(filterQ) \in Nat
    BY DEF Data
  <1>2. Cardinality(VideoIn(muxerQ)) \in Nat
    BY VideoCounted DEF Data
  <1>3. \A w : Putting(w) \in {0, 1}
    BY DEF Putting
  <1>4. FilterLimit \in Nat /\ MuxerLimit \in Nat
    BY RecorderAssumption DEF RecorderAssumption
  <1> QED
    BY <1>1, <1>2, <1>3, <1>4 DEF FilterCount, MuxerCount

LEMMA CountsNext ==
    ASSUME Data'
    PROVE  /\ Len(filterQ') \in Nat
           /\ Cardinality(VideoIn(muxerQ')) \in Nat
           /\ \A w : Putting(w)' \in {0, 1}
           /\ FilterCount' \in Nat /\ MuxerCount' \in Nat
  <1>1. Len(filterQ') \in Nat
    BY DEF Data
  <1>2. Cardinality(VideoIn(muxerQ')) \in Nat
    BY VideoCounted DEF Data
  <1>3. \A w : Putting(w)' \in {0, 1}
    BY DEF Putting
  <1> QED
    BY <1>1, <1>2, <1>3 DEF FilterCount, MuxerCount

\* A thread that did not just see room adds nothing.
Keeps ==
    /\ filterQ' = filterQ \/ (filterQ # <<>> /\ filterQ' = Tail(filterQ))
    /\ muxerQ' = muxerQ \/ (muxerQ # <<>> /\ muxerQ' = Tail(muxerQ))
    /\ \A w \in Workers : pc'[w] = "put" => pc[w] = "put"

LEMMA KeepsShort ==
    ASSUME Data, Data', Short, Keeps
    PROVE  Short'
  <1>1. Len(filterQ') <= Len(filterQ)
    BY DEF Data, Keeps
  <1>2. Cardinality(VideoIn(muxerQ')) <= Cardinality(VideoIn(muxerQ))
    <2>1. CASE muxerQ' = muxerQ
      BY <2>1, Counts
    <2>2. CASE muxerQ # <<>> /\ muxerQ' = Tail(muxerQ)
      BY <2>2, VideoTaken DEF Data
    <2> QED
      BY <2>1, <2>2 DEF Keeps
  <1>3. \A w \in {"main", "minor", "filter"} : Putting(w)' <= Putting(w)
    BY DEF Putting, Keeps, Workers, Inputs, VideoInputs
  <1>4. FilterCount' <= FilterCount
    <2>1. /\ Putting("main")' <= Putting("main") /\ Putting("minor")' <= Putting("minor")
          /\ Putting("main") \in Nat /\ Putting("minor") \in Nat
          /\ Putting("main")' \in Nat /\ Putting("minor")' \in Nat
      BY <1>3, Counts, CountsNext
    <2>2. Len(filterQ) \in Nat /\ Len(filterQ') \in Nat
      BY Counts, CountsNext
    <2> QED
      BY <1>1, <2>1, <2>2 DEF FilterCount
  <1>5. MuxerCount' <= MuxerCount
    BY <1>2, <1>3, Counts, CountsNext DEF MuxerCount
  <1> QED
    BY <1>4, <1>5, Counts, CountsNext DEF Short

\* Every step keeps the queues short.
LEMMA ShortStep == Order /\ Data /\ Short /\ [Next]_vars => Short'
  <1> SUFFICES ASSUME Order, Data, Short, [Next]_vars
               PROVE  Short'
    OBVIOUS
  <1>1. Data'
    BY DataStep
  <1>2. pc \in [Workers -> Labels]
    BY DEF Order, Types
  <1>3. ASSUME NEW i \in Inputs, Input(i)
        PROVE  Short'
    <2> USE DEF Goto, Inputs, VideoInputs, Workers, capture
    <2>1. CASE InputLooksAtSize(i)
      <3>1. Putting("main")' <= 1 /\ Putting("minor")' <= 1
        BY DEF Putting
      <3>2. Len(filterQ) <= FilterLimit \/ Keeps
        BY <1>2, <2>1, Counts DEF InputLooksAtSize, Keeps
      <3>3. filterQ' = filterQ /\ MuxerCount' = MuxerCount
        BY <1>2, <2>1 DEF InputLooksAtSize, MuxerCount, Putting
      <3>4. CASE Len(filterQ) <= FilterLimit
        <4>1. FilterCount' <= FilterLimit + 2
          BY <1>1, <3>1, <3>3, <3>4, Counts, CountsNext DEF FilterCount
        <4> QED
          BY <3>3, <4>1 DEF Short
      <3> QED
        BY <1>1, <3>2, <3>4, KeepsShort
    <2>2. CASE InputPutsVideo(i)
      <3>1. Len(filterQ') = Len(filterQ) + 1
        BY <2>2 DEF InputPutsVideo, Data
      <3>2. Putting("main")' + Putting("minor")' = Putting("main") + Putting("minor") - 1
        BY <1>2, <2>2 DEF InputPutsVideo, Putting
      <3>3. MuxerCount' = MuxerCount
        BY <1>2, <2>2 DEF InputPutsVideo, Putting, MuxerCount
      <3>4. FilterCount' = FilterCount
        BY <1>1, <3>1, <3>2, Counts, CountsNext DEF FilterCount
      <3> QED
        BY <3>3, <3>4 DEF Short
    <2>3. CASE InputPutsAudio
      <3>1. <<"audio", captured["audio"]>> \in Media \X Nat
        BY DEF Data, Media
      <3>2. VideoIn(muxerQ') = VideoIn(muxerQ)
        BY <2>3, <3>1, VideoPut DEF InputPutsAudio, Data
      <3>3. UNCHANGED <<FilterCount, MuxerCount>>
        BY <1>2, <2>3, <3>2 DEF InputPutsAudio, FilterCount, MuxerCount, Putting
      <3> QED
        BY <3>3 DEF Short
    <2>4. CASE InputEnds(i) \/ InputCaptures(i) \/ InputFails(i) \/ (InputSubmits(i) /\ i # "audio")
      <3>1. Keeps
        BY <1>2, <2>4 DEF InputEnds, InputCaptures, InputFails, InputSubmits, Keeps
      <3> QED
        BY <1>1, <3>1, KeepsShort
    <2>5. CASE InputSubmits(i) /\ i = "audio"
      <3>1. UNCHANGED <<FilterCount, MuxerCount>>
        BY <1>2, <2>5 DEF InputSubmits, FilterCount, MuxerCount, Putting
      <3> QED
        BY <3>1 DEF Short
    <2> QED
      BY <1>3, <2>1, <2>2, <2>3, <2>4, <2>5 DEF Input
  <1>4. CASE Filter
    <2> USE DEF Goto, Inputs, VideoInputs, Workers, capture
    <2>1. CASE FilterLooksAtSize
      <3>1. Cardinality(VideoIn(muxerQ)) <= Len(muxerQ) /\ Len(muxerQ) \in Nat
        BY VideoCounted DEF Data
      <3>2. Len(muxerQ) <= MuxerLimit \/ Keeps
        BY <1>2, <2>1, <3>1, Counts DEF FilterLooksAtSize, Keeps
      <3>3. muxerQ' = muxerQ /\ FilterCount' = FilterCount
        BY <1>2, <2>1 DEF FilterLooksAtSize, FilterCount, Putting
      <3>4. CASE Len(muxerQ) <= MuxerLimit
        <4>1. MuxerCount' <= MuxerLimit + 1
          BY <1>1, <3>1, <3>3, <3>4, Counts, CountsNext DEF MuxerCount
        <4> QED
          BY <3>3, <4>1 DEF Short
      <3> QED
        BY <1>1, <3>2, <3>4, KeepsShort
    <2>2. CASE FilterPuts
      <3>1. <<"video", filtered>> \in Media \X Nat
        BY DEF Data, Media
      <3>2. Cardinality(VideoIn(muxerQ')) <= Cardinality(VideoIn(muxerQ)) + 1
        BY <2>2, <3>1, VideoPut DEF FilterPuts, Data
      <3>3. Putting("filter") = 1 /\ Putting("filter")' = 0 /\ FilterCount' = FilterCount
        BY <1>2, <2>2 DEF FilterPuts, FilterCount, Putting
      <3>4. MuxerCount' <= MuxerCount
        BY <1>1, <3>2, <3>3, Counts, CountsNext DEF MuxerCount
      <3> QED
        BY <1>1, <3>3, <3>4, Counts, CountsNext DEF Short
    <2>3. CASE FilterLoop \/ FilterTimeout \/ FilterAdds \/ FilterAddFails
      <3>1. Keeps
        BY <1>2, <2>3 DEF FilterLoop, FilterTimeout, FilterAdds, FilterAddFails, Keeps
      <3> QED
        BY <1>1, <3>1, KeepsShort
    <2>4. CASE FilterGives \/ FilterGivesNothing \/ FilterGiveFails
      <3>1. Keeps
        BY <1>2, <2>4 DEF FilterGives, FilterGivesNothing, FilterGiveFails, Keeps
      <3> QED
        BY <1>1, <3>1, KeepsShort
    <2> QED
      BY <1>4, <2>1, <2>2, <2>3, <2>4 DEF Filter
  <1>5. CASE Muxer
    <2>1. PICK l \in Labels : Runs("muxer", l)
      BY <1>5, MuxerRuns
    <2>2. \A w \in {"main", "minor", "filter"} : pc'[w] = pc[w]
      BY <1>2, <2>1 DEF Runs, Workers, Inputs, VideoInputs
    <2>3. \A w \in {"main", "minor", "filter"} : Putting(w)' = Putting(w)
      BY <2>2 DEF Putting
    <2>4. FilterCount' = FilterCount
      BY <1>5, <2>3, MuxerTakes DEF FilterCount
    <2>5. Cardinality(VideoIn(muxerQ')) <= Cardinality(VideoIn(muxerQ))
      <3>1. CASE muxerQ' = muxerQ
        BY <3>1, Counts
      <3>2. CASE muxerQ # <<>> /\ muxerQ' = Tail(muxerQ)
        BY <3>2, VideoTaken DEF Data
      <3> QED
        BY <1>5, <3>1, <3>2, MuxerTakes
    <2>6. MuxerCount' <= MuxerCount
      BY <1>1, <2>3, <2>5, Counts, CountsNext DEF MuxerCount
    <2> QED
      BY <1>1, <2>4, <2>6, Counts, CountsNext DEF Short
  <1>6. CASE Main
    <2>1. \A w \in Workers : pc'[w] = "put" => pc[w] = "put"
      BY <1>2, <1>6 DEF Main, InputOpens, InputThrows, Run, FilterStarts, FilterThrows, MuxerStarts,
                        MuxerThrows, Destroy, Joined, Build, Throw, Goto
    <2>2. Keeps
      BY <1>6, <2>1, MainTouchesNoData DEF Keeps
    <2> QED
      BY <1>1, <2>2, KeepsShort
  <1>7. CASE Interrupt \/ UNCHANGED vars
    <2>1. Keeps
      BY <1>7 DEF Interrupt, vars, capture, Keeps
    <2> QED
      BY <1>1, <2>1, KeepsShort
  <1> QED
    BY <1>3, <1>4, <1>5, <1>6, <1>7 DEF Next, Finished

(***************************************************************************)
(* Neither queue grows beyond its limit and a frame for each thread that   *)
(* puts into it: Filter::Submit and Muxer::Submit look at the size and put *)
(* in two steps, and that costs no more.                                   *)
(***************************************************************************)
THEOREM QueuesAlwaysBounded == Spec => []QueuesBounded
  <1>1. Init => Data /\ Short
    <2> SUFFICES ASSUME Init
                 PROVE  Data /\ Short
      OBVIOUS
    <2>1. Data
      BY DEF Init, Data
    <2>2. VideoIn(muxerQ) = {} /\ Len(filterQ) = 0
      BY DEF Init, VideoIn
    <2>3. Putting("main") = 0 /\ Putting("minor") = 0 /\ Putting("filter") = 0
      BY DEF Init, Putting, Workers, Inputs, VideoInputs
    <2>4. FilterCount = 0 /\ MuxerCount = 0
      BY <2>2, <2>3, FS_EmptySet DEF FilterCount, MuxerCount
    <2> QED
      BY <2>1, <2>4, Counts DEF Short
  <1>2. Data /\ Short => QueuesBounded
    <2> SUFFICES ASSUME Data, Short
                 PROVE  QueuesBounded
      OBVIOUS
    <2>1. Cardinality(VideoInputs) = 2
      <3>1. IsFiniteSet({"main"}) /\ Cardinality({"main"}) = 1
        BY FS_Singleton
      <3>2. Cardinality({"main"} \cup {"minor"}) = 2
        BY <3>1, FS_AddElement
      <3>3. VideoInputs = {"main"} \cup {"minor"}
        BY DEF VideoInputs
      <3> QED
        BY <3>2, <3>3
    <2>2. Len(filterQ) <= FilterCount /\ Cardinality(VideoIn(muxerQ)) <= MuxerCount
      BY Counts DEF FilterCount, MuxerCount
    <2>3. Len(filterQ) <= FilterLimit + 2 /\ Cardinality(VideoIn(muxerQ)) <= MuxerLimit + 1
      BY <2>2, Counts DEF Short
    <2> QED
      BY <2>1, <2>3 DEF QueuesBounded, VideoIn
  <1> QED
    BY <1>1, <1>2, OrderAlways, DataStep, ShortStep, PTL DEF Spec

-----------------------------------------------------------------------------
(* What becomes of the frames *)

Histories == {held, written} \subseteq [Media -> Seq(Nat)]

\* What the muxer got of m, up to c and of P alone: it was written, is inside
\* the encoder or waits in the queue.
Muxed(m, P, c) ==
    \E a, b \in Nat :
        /\ Lists(written[m], P, 0, a)
        /\ Lists(held[m], P, a, b)
        /\ Lists(Picked(muxerQ, m), P, b, c)

\* The audio frames the input is through with.
Through == captured["audio"] - (IF pc["audio"] \in {"submit", "put"} THEN 1 ELSE 0)

\* While the muxer lives nothing is missing of what audio is through with.  A
\* frame it looked at the muxer for is put, even if the muxer ends meanwhile.
MuxesAudio ==
    \E c \in Nat :
        /\ Muxed("audio", Nat \ skipped, c)
        /\ c <= Through
        /\ alive["muxer"] \/ pc["audio"] = "put" => c = Through

Heard ==
    /\ pc["audio"] # "size"
    /\ pc["audio"] = "idle" => captured["audio"] = 0
    /\ pc["audio"] \in {"submit", "put"} => captured["audio"] > 0
    /\ skipped \subseteq 0..Through
    /\ alive["muxer"] => pc["muxer"] # "done"
    /\ \E a \in Nat : a <= captured["audio"] /\ Lists(written["audio"], Nat \ skipped, 0, a)
    /\ pc["muxer"] # "done" => MuxesAudio

\* The frame the filter's callback is called with.
InHand == IF pc["filter"] \in {"size", "put"} THEN <<filtered>> ELSE <<>>

\* Video on its way to the muxer, above c and up to what main has captured.
Coming(c) ==
    \E d, e, f \in Nat :
        /\ Rises(InHand, c, d)
        /\ Rises(graph, d, e)
        /\ Rises(Picked(filterQ, "main"), e, f)
        /\ f <= captured["main"]
        /\ pc["main"] \in {"submit", "size", "put"} => f < captured["main"]

MuxesVideo == \E P \in SUBSET Nat : \E c \in Nat : Muxed("video", P, c) /\ Coming(c)

Seen ==
    /\ \E a \in Nat : a <= captured["main"] /\ Rises(written["video"], 0, a)
    /\ pc["muxer"] # "done" => MuxesVideo

-----------------------------------------------------------------------------
(* The muxer's side *)

\* What lies in a queue are pairs of a medium, or an input, and a number.
LEMMA QueuedPairs ==
    ASSUME Data
    PROVE  muxerQ \in Pairs(Media) /\ filterQ \in Pairs(VideoInputs)
  BY DEF Data, Pairs

LEMMA InitData == Init => Data
  BY DEF Init, Data

\* The encoder keeps the last frames and gives those before them.
LEMMA EncodesInOrder ==
    ASSUME Data, Histories, NEW m \in Media, NEW P \in SUBSET Nat, NEW c \in Nat,
           Muxed(m, P, c), MuxerWrites, m = Head(muxerQ)[1]
    PROVE  Muxed(m, P, c)'
  <1> DEFINE k == Head(muxerQ)[2]
             all == Append(held[m], k)
             given == Len(all) - Min({Delay[m], Len(all)})
  <1>1. PICK a \in Nat, b \in Nat : /\ Lists(written[m], P, 0, a)
                                    /\ Lists(held[m], P, a, b)
                                    /\ Lists(Picked(muxerQ, m), P, b, c)
    BY DEF Muxed
  <1>2. muxerQ # <<>> /\ muxerQ' = Tail(muxerQ)
    BY DEF MuxerWrites
  <1>3. k \in Nat /\ Lists(<<k>>, P, b, k) /\ Lists(Picked(Tail(muxerQ), m), P, k, c)
    BY <1>1, <1>2, QueuedPairs, PickedHead
  <1>4. held[m] \in Seq(Nat) /\ written[m] \in Seq(Nat)
    BY DEF Histories
  <1>5. all \in Seq(Nat) /\ Lists(all, P, a, k)
    BY <1>1, <1>3, <1>4, ListsAppend
  <1>6. given \in 0..Len(all)
    <2> DEFINE n == Len(all)
               T == {Delay[m], n}
    <2>1. n \in Nat /\ Delay[m] \in Nat
      BY <1>5, RecorderAssumption DEF RecorderAssumption
    <2> HIDE DEF n, all
    <2>2. \E x \in T : \A y \in T : x <= y
      BY <2>1
    <2>3. Min(T) \in T /\ \A y \in T : Min(T) <= y
      BY <2>2 DEF Min
    <2>4. Min(T) \in Nat /\ Min(T) <= n
      BY <2>1, <2>3
    <2> HIDE DEF T
    <2>5. n - Min(T) \in 0..n
      BY <2>1, <2>4
    <2> QED
      BY <2>5 DEF T, n
  <1>7. /\ held' = [held EXCEPT ![m] = SubSeq(all, given + 1, Len(all))]
        /\ written' = [written EXCEPT ![m] = @ \o SubSeq(all, 1, given)]
    BY DEF MuxerWrites
  <1> HIDE DEF k, all, given
  <1>8. /\ held'[m] = SubSeq(all, given + 1, Len(all))
        /\ written'[m] = written[m] \o SubSeq(all, 1, given)
    BY <1>7 DEF Histories
  <1>9. PICK d \in Nat : /\ Lists(SubSeq(all, 1, given), P, a, d)
                         /\ Lists(SubSeq(all, given + 1, Len(all)), P, d, k)
    BY <1>3, <1>5, <1>6, ListsSplit
  <1>10. Lists(written[m] \o SubSeq(all, 1, given), P, 0, d)
    <2>1. SubSeq(all, 1, given) \in Seq(Nat)
      BY <1>5, <1>6
    <2> QED
      BY <1>1, <1>4, <1>9, <2>1, ListsJoin
  <1>11. Lists(written'[m], P, 0, d) /\ Lists(held'[m], P, d, k) /\ Lists(Picked(muxerQ', m), P, k, c)
    BY <1>2, <1>3, <1>8, <1>9, <1>10
  <1> QED
    BY <1>3, <1>11 DEF Muxed

\* A frame of the other medium makes no difference.
LEMMA OtherMedium ==
    ASSUME Data, Histories, NEW m \in Media, NEW P \in SUBSET Nat, NEW c \in Nat,
           Muxed(m, P, c), MuxerWrites \/ MuxerSkips, m # Head(muxerQ)[1]
    PROVE  Muxed(m, P, c)'
  <1>1. PICK a \in Nat, b \in Nat : /\ Lists(written[m], P, 0, a)
                                    /\ Lists(held[m], P, a, b)
                                    /\ Lists(Picked(muxerQ, m), P, b, c)
    BY DEF Muxed
  <1>2. muxerQ # <<>> /\ muxerQ' = Tail(muxerQ)
    BY DEF MuxerWrites, MuxerSkips
  <1>3. Lists(Picked(muxerQ', m), P, b, c)
    <2>1. Lists(Picked(Tail(muxerQ), m), P, b, c)
      BY <1>1, <1>2, QueuedPairs, PickedTail
    <2> QED
      BY <1>2, <2>1
  <1>4. written'[m] = written[m] /\ held'[m] = held[m]
    <2>1. CASE MuxerWrites
      BY <2>1 DEF MuxerWrites, Histories
    <2>2. CASE MuxerSkips
      BY <2>2 DEF MuxerSkips
    <2> QED
      BY <2>1, <2>2
  <1> QED
    BY <1>1, <1>3, <1>4 DEF Muxed

\* A frame that is skipped is missing, and no other is.
LEMMA SkipsOne ==
    ASSUME Data, Histories, NEW m \in Media, NEW P \in SUBSET Nat, NEW c \in Nat,
           Muxed(m, P, c), MuxerSkips, m = Head(muxerQ)[1]
    PROVE  \E k \in Nat : k = Head(muxerQ)[2] /\ k <= c /\ Muxed(m, P \ {k}, c)'
  <1> PICK k : k = Head(muxerQ)[2]
    OBVIOUS
  <1> DEFINE Q == P \ {k}
  <1>1. PICK a \in Nat, b \in Nat : /\ Lists(written[m], P, 0, a)
                                    /\ Lists(held[m], P, a, b)
                                    /\ Lists(Picked(muxerQ, m), P, b, c)
    BY DEF Muxed
  <1>2. muxerQ # <<>> /\ muxerQ' = Tail(muxerQ) /\ UNCHANGED <<held, written>>
    BY DEF MuxerSkips
  <1>3. k \in Nat /\ Lists(<<k>>, P, b, k) /\ Lists(Picked(Tail(muxerQ), m), P, k, c)
    BY <1>1, <1>2, QueuedPairs, PickedHead
  <1>4. a <= b /\ b < k /\ k <= c
    <2>1. <<k>>[1] = k /\ DOMAIN <<k>> = {1}
      OBVIOUS
    <2> QED
      BY <1>1, <1>3, <2>1 DEF Lists, Rises
  <1>5. Lists(written[m], Q, 0, a)
    BY <1>1, <1>3, <1>4, ListsWithout
  <1>6. Lists(held[m], Q, a, k)
    <2>1. Lists(held[m], Q, a, b)
      BY <1>1, <1>3, <1>4, ListsWithout
    <2>2. Lists(<<>>, Q, b, k)
      BY <1>3, ListsGap
    <2>3. held[m] \in Seq(Nat) /\ Q \in SUBSET Nat
      BY DEF Histories
    <2> HIDE DEF Q
    <2> QED
      BY <1>3, <2>1, <2>2, <2>3, ListsOn
  <1>7. Lists(Picked(Tail(muxerQ), m), Q, k, c)
    BY <1>3, ListsWithout
  <1> HIDE DEF Q
  <1>8. Muxed(m, Q, c)'
    BY <1>2, <1>3, <1>5, <1>6, <1>7 DEF Muxed
  <1> QED
    BY <1>3, <1>4, <1>8 DEF Q

\* The thread of the muxer may rest or end; then nothing new is waited for.
MuxerRests ==
    /\ UNCHANGED <<held, written, skipped>>
    /\ pc'["muxer"] # "done" => pc["muxer"] # "done" /\ muxerQ' = muxerQ

LEMMA MuxerMoves ==
    ASSUME Order, [Next]_vars
    PROVE  MuxerRests \/ FilterPuts \/ InputPutsAudio \/ MuxerWrites \/ MuxerSkips
  <1> USE DEF MuxerRests, muxing
  <1>1. ASSUME NEW i \in Inputs, Input(i)
        PROVE  MuxerRests \/ InputPutsAudio
    <2>1. PICK l \in Labels : Runs(i, l)
      BY <1>1, InputRuns
    <2>2. pc'["muxer"] = pc["muxer"]
      BY <2>1 DEF Runs, Order, Types, Inputs, VideoInputs, Workers
    <2> QED
      BY <1>1, <2>2 DEF Input, InputEnds, InputCaptures, InputFails, InputSubmits, InputLooksAtSize,
                        InputPutsVideo
  <1>2. CASE Filter
    <2>1. PICK l \in Labels : Runs("filter", l)
      BY <1>2, FilterRuns
    <2>2. pc'["muxer"] = pc["muxer"]
      BY <2>1 DEF Runs, Order, Types, Workers
    <2> QED
      BY <1>2, <2>2 DEF Filter, FilterLoop, FilterTimeout, FilterAdds, FilterAddFails, FilterGives,
                        FilterGivesNothing, FilterGiveFails, FilterLooksAtSize
  <1>3. CASE Muxer
    <2> USE DEF Goto, MuxerReturns, Order, Types, Workers
    <2>1. CASE MuxerWritesHeader \/ MuxerHeaderFails \/ MuxerLoop
      BY <2>1 DEF MuxerWritesHeader, MuxerHeaderFails, MuxerLoop
    <2>2. CASE MuxerTimeout \/ MuxerFails \/ MuxerWritesTrailer
      BY <2>2 DEF MuxerTimeout, MuxerFails, MuxerWritesTrailer
    <2> QED
      BY <1>3, <2>1, <2>2 DEF Muxer
  <1>4. CASE Main
    <2>1. ASSUME NEW w, NEW l, Build(w, l)
          PROVE  MuxerRests
      <3>1. pc["muxer"] # "done"
        <4>1. "muxer" \notin built
          BY <2>1, BuiltNext DEF Build, Order
        <4> QED
          BY <4>1 DEF Order, Waiting
      <3> QED
        BY <2>1, <3>1 DEF Build
    <2>2. ASSUME NEW w, Throw(w) \/ Destroy(w) \/ Joined(w)
          PROVE  MuxerRests
      BY <2>2 DEF Throw, Destroy, Joined
    <2>3. ASSUME NEW i \in Inputs, Run(i)
          PROVE  MuxerRests
      BY <2>3 DEF Run, Goto, Order, Types, Workers, Inputs, VideoInputs
    <2> QED
      BY <1>4, <2>1, <2>2, <2>3 DEF Main, InputOpens, InputThrows, FilterStarts, FilterThrows, MuxerStarts, MuxerThrows
  <1>5. CASE Interrupt \/ UNCHANGED vars
    BY <1>5 DEF Interrupt, vars
  <1> QED
    BY <1>1, <1>2, <1>3, <1>4, <1>5 DEF Next, Finished

\* What was written or is held are numbers.
LEMMA HistoriesStep == Order /\ Data /\ Histories /\ [Next]_vars => Histories'
  <1> SUFFICES ASSUME Order, Data, Histories, [Next]_vars
               PROVE  Histories'
    OBVIOUS
  <1>1. CASE UNCHANGED <<held, written>>
    BY <1>1 DEF Histories
  <1>2. CASE MuxerWrites
    <2> DEFINE m == Head(muxerQ)[1]
               k == Head(muxerQ)[2]
               all == Append(held[m], k)
               given == Len(all) - Min({Delay[m], Len(all)})
               front == SubSeq(all, 1, given)
               rest == SubSeq(all, given + 1, Len(all))
    <2>1. m \in Media /\ k \in Nat
      <3>1. muxerQ # <<>>
        BY <1>2 DEF MuxerWrites
      <3>2. Head(muxerQ) \in Media \X Nat
        BY <3>1 DEF Data
      <3> QED
        BY <3>2
    <2>2. held' = [held EXCEPT ![m] = rest] /\ written' = [written EXCEPT ![m] = @ \o front]
      BY <1>2 DEF MuxerWrites
    <2> HIDE DEF m, k
    <2>3. all \in Seq(Nat) /\ Delay[m] \in Nat
      BY <2>1, RecorderAssumption DEF Histories, RecorderAssumption
    <2>4. given \in 0..Len(all)
      <3> DEFINE n == Len(all)
                 T == {Delay[m], n}
      <3>1. n \in Nat
        BY <2>3
      <3> HIDE DEF n, all
      <3>2. \E x \in T : \A y \in T : x <= y
        BY <2>3, <3>1
      <3>3. Min(T) \in T /\ \A y \in T : Min(T) <= y
        BY <3>2 DEF Min
      <3>4. Min(T) \in Nat /\ Min(T) <= n
        BY <2>3, <3>1, <3>3
      <3> HIDE DEF T
      <3>5. n - Min(T) \in 0..n
        BY <3>1, <3>4
      <3> QED
        BY <3>5 DEF T, n
    <2> HIDE DEF all, given
    <2>5. front \in Seq(Nat)
      BY <2>3, <2>4
    <2>6. rest \in Seq(Nat)
      <3>1. \A i \in (given + 1)..Len(all) : all[i] \in Nat
        BY <2>3, <2>4
      <3>2. given + 1 \in Int /\ Len(all) \in Int
        BY <2>3, <2>4
      <3> QED
        BY <3>1, <3>2, SubSeqProperties
    <2> HIDE DEF front, rest
    <2>7. written[m] \o front \in Seq(Nat)
      BY <2>1, <2>5 DEF Histories
    <2> QED
      BY <2>1, <2>2, <2>6, <2>7 DEF Histories
  <1>3. UNCHANGED <<held, written>> \/ MuxerWrites
    BY MuxerMoves DEF MuxerRests, FilterPuts, InputPutsAudio, MuxerSkips, muxing
  <1> QED
    BY <1>1, <1>2, <1>3

-----------------------------------------------------------------------------
(* Audio *)

\* A step that leaves audio alone, or with which the muxer ends.
AudioRests ==
    /\ captured'["audio"] = captured["audio"]
    /\ pc'["audio"] = pc["audio"] \/ (pc["audio"] = "idle" /\ pc'["audio"] = "loop")
    /\ UNCHANGED <<held, written, skipped>>
    /\ pc'["muxer"] # "done" => pc["muxer"] # "done" /\ Picked(muxerQ, "audio")' = Picked(muxerQ, "audio")
    /\ alive'["muxer"] => alive["muxer"] /\ pc'["muxer"] # "done"

LEMMA AudioAside ==
    ASSUME Heard, AudioRests
    PROVE  Heard'
  <1>1. Through' = Through /\ (pc'["audio"] = "put" => pc["audio"] = "put")
    BY DEF AudioRests, Through
  <1>2. ASSUME pc'["muxer"] # "done"
        PROVE  MuxesAudio'
    <2>1. PICK c \in Nat : /\ Muxed("audio", Nat \ skipped, c)
                           /\ c <= Through
                           /\ alive["muxer"] \/ pc["audio"] = "put" => c = Through
      BY <1>2 DEF Heard, MuxesAudio, AudioRests
    <2>2. Muxed("audio", Nat \ skipped, c)'
      BY <1>2, <2>1 DEF Muxed, AudioRests
    <2> QED
      BY <1>1, <2>1, <2>2 DEF MuxesAudio, AudioRests
  <1>3. \E a \in Nat : a <= captured'["audio"] /\ Lists(written'["audio"], Nat \ skipped', 0, a)
    BY DEF Heard, AudioRests
  <1> QED
    BY <1>1, <1>2, <1>3 DEF Heard, AudioRests

\* The audio input captures, asks whether the muxer lives, and puts.
LEMMA AudioCaptures ==
    ASSUME Order, Data, Histories, Heard, Input("audio")
    PROVE  Heard'
  <1> USE DEF Goto, capture, filtering, muxing
  <1>1. captured \in [Inputs -> Nat] /\ pc \in [Workers -> Labels] /\ "audio" \in Inputs /\ "audio" \in Workers
    BY DEF Data, Order, Types, Inputs, Workers
  <1>2. captured["audio"] \in Nat
    BY <1>1
  <1>3. PICK a \in Nat : a <= captured["audio"] /\ Lists(written["audio"], Nat \ skipped, 0, a)
    BY DEF Heard
  <1>4. Through \in Nat /\ Through <= captured["audio"]
    BY <1>2 DEF Through, Heard
  <1>5. ASSUME NEW l \in Labels, pc' = [pc EXCEPT !["audio"] = l], l # "idle", l # "size",
               l \in {"submit", "put"} => captured'["audio"] > 0,
               captured'["audio"] \in Nat, captured["audio"] <= captured'["audio"],
               Through' \in Nat, Through <= Through',
               alive'["muxer"] => alive["muxer"],
               UNCHANGED <<held, written, skipped>>,
               pc["muxer"] # "done" => MuxesAudio'
        PROVE  Heard'
    <2>1. pc'["audio"] = l /\ pc'["muxer"] = pc["muxer"]
      BY <1>1, <1>5 DEF Workers
    <2>2. skipped' \subseteq 0..Through'
      BY <1>5, <1>4 DEF Heard
    <2>3. a <= captured'["audio"] /\ Lists(written'["audio"], Nat \ skipped', 0, a)
      BY <1>2, <1>3, <1>5
    <2> QED
      BY <1>5, <2>1, <2>2, <2>3 DEF Heard
  <1>6. CASE InputEnds("audio") \/ InputFails("audio")
    <2>1. pc' = [pc EXCEPT !["audio"] = "done"] /\ pc["audio"] = "loop"
      BY <1>6 DEF InputEnds, InputFails
    <2>2. captured' = captured /\ (alive'["muxer"] => alive["muxer"]) /\ UNCHANGED <<muxerQ, held, written, skipped>>
      BY <1>6 DEF InputEnds, InputFails, Order, Types, Workers
    <2>4. Through' = Through
      BY <1>1, <2>1, <2>2 DEF Through
    <2>5. pc["muxer"] # "done" => MuxesAudio'
      BY <1>1, <2>1, <2>2, <2>4 DEF Heard, MuxesAudio, Muxed
    <2> QED
      BY <1>2, <1>5, <1>4, <2>1, <2>2, <2>4, <2>5 DEF Labels
  <1>7. CASE InputCaptures("audio")
    <2>1. pc' = [pc EXCEPT !["audio"] = "submit"] /\ pc["audio"] = "loop" /\ captured'["audio"] = captured["audio"] + 1
      BY <1>1, <1>7 DEF InputCaptures
    <2>2. UNCHANGED <<alive, muxerQ, held, written, skipped>>
      BY <1>7 DEF InputCaptures
    <2>3. Through' = Through
      BY <1>1, <1>2, <2>1 DEF Through
    <2>4. pc["muxer"] # "done" => MuxesAudio'
      BY <1>1, <2>1, <2>2, <2>3 DEF Heard, MuxesAudio, Muxed
    <2> QED
      BY <1>2, <1>5, <1>4, <2>1, <2>2, <2>3, <2>4 DEF Labels
  <1>8. CASE InputSubmits("audio") /\ alive["muxer"]
    <2>1. pc' = [pc EXCEPT !["audio"] = "put"] /\ pc["audio"] = "submit"
      BY <1>8 DEF InputSubmits
    <2>2. UNCHANGED <<captured, alive, muxerQ, held, written, skipped>>
      BY <1>8 DEF InputSubmits
    <2>3. Through' = Through
      BY <1>1, <2>1, <2>2 DEF Through
    <2>4. pc["muxer"] # "done" => MuxesAudio'
      BY <1>1, <1>8, <2>1, <2>2, <2>3 DEF Heard, MuxesAudio, Muxed
    <2>5. captured'["audio"] > 0
      BY <2>1, <2>2 DEF Heard
    <2> QED
      BY <1>2, <1>5, <1>4, <2>1, <2>2, <2>3, <2>4, <2>5 DEF Labels
  <1>9. CASE InputSubmits("audio") /\ ~ alive["muxer"]
    <2>1. pc' = [pc EXCEPT !["audio"] = "loop"] /\ pc["audio"] = "submit"
      BY <1>9 DEF InputSubmits
    <2>2. UNCHANGED <<captured, alive, muxerQ, held, written, skipped>>
      BY <1>9 DEF InputSubmits
    <2>3. Through' = Through + 1 /\ Through \in Nat
      BY <1>1, <1>2, <1>4, <2>1, <2>2 DEF Through
    <2>4. ASSUME pc["muxer"] # "done"
          PROVE  MuxesAudio'
      <3>1. PICK c \in Nat : Muxed("audio", Nat \ skipped, c) /\ c <= Through
        BY <2>4 DEF Heard, MuxesAudio
      <3>2. Muxed("audio", Nat \ skipped, c)'
        BY <2>2, <3>1 DEF Muxed
      <3>3. c <= Through' /\ ~ alive'["muxer"] /\ pc'["audio"] # "put"
        BY <1>1, <1>9, <2>1, <2>2, <2>3, <3>1
      <3> QED
        BY <3>2, <3>3 DEF MuxesAudio
    <2>5. Through' \in Nat /\ Through <= Through'
      BY <2>3
    <2> QED
      BY <1>2, <1>5, <2>1, <2>2, <2>4, <2>5 DEF Labels
  <1>10. CASE InputPutsAudio
    <2>1. pc' = [pc EXCEPT !["audio"] = "loop"] /\ pc["audio"] = "put"
      BY <1>10 DEF InputPutsAudio
    <2>2. UNCHANGED <<captured, alive, held, written, skipped>>
      BY <1>10 DEF InputPutsAudio
    <2>3. Through' = captured["audio"] /\ Through = captured["audio"] - 1 /\ captured["audio"] > 0
      BY <1>1, <2>1, <2>2 DEF Through, Heard
    <2>4. ASSUME pc["muxer"] # "done"
          PROVE  MuxesAudio'
      <3>1. PICK n \in Nat : n = captured["audio"]
        BY <1>2
      <3>2. Muxed("audio", Nat \ skipped, n - 1) /\ n - 1 \in Nat /\ n > 0
        BY <2>1, <2>3, <2>4, <3>1, <1>2 DEF Heard, MuxesAudio
      <3>3. PICK P \in SUBSET Nat : P = Nat \ skipped
        OBVIOUS
      <3>4. PICK x \in Nat, y \in Nat : /\ Lists(written["audio"], P, 0, x)
                                        /\ Lists(held["audio"], P, x, y)
                                        /\ Lists(Picked(muxerQ, "audio"), P, y, n - 1)
        BY <3>2, <3>3 DEF Muxed
      <3>5. Lists(<<n>>, P, n - 1, n)
        <4>1. n \in P
          BY <2>3, <3>1, <3>3, <1>2 DEF Heard
        <4>2. <<n>>[1] = n /\ DOMAIN <<n>> = {1}
          OBVIOUS
        <4>3. \A k \in P : n - 1 < k /\ k <= n => k = n
          BY <3>2
        <4>4. n - 1 < n /\ n <= n /\ n - 1 <= n
          OBVIOUS
        <4> QED
          BY <4>1, <4>2, <4>3, <4>4 DEF Lists, Rises
      <3>6. muxerQ' = Append(muxerQ, <<"audio", n>>)
        BY <1>10, <3>1 DEF InputPutsAudio
      <3>7. Lists(Picked(muxerQ', "audio"), P, y, n)
        <4>1. Lists(Picked(Append(muxerQ, <<"audio", n>>), "audio"), P, y, n)
          BY <3>2, <3>4, <3>5, QueuedPairs, PickedAppend DEF Media
        <4> QED
          BY <3>6, <4>1
      <3>8. Muxed("audio", P, n)'
        BY <2>2, <3>4, <3>7 DEF Muxed
      <3>9. P = Nat \ skipped' /\ n = Through'
        BY <2>2, <2>3, <3>1, <3>3
      <3>10. n <= n
        OBVIOUS
      <3>11. \E c \in Nat : /\ Muxed("audio", P, c)'
                            /\ c <= Through'
                            /\ alive'["muxer"] \/ pc'["audio"] = "put" => c = Through'
        BY <3>8, <3>9, <3>10
      <3> QED
        BY <3>9, <3>11 DEF MuxesAudio
    <2>5. Through' \in Nat /\ Through <= Through'
      BY <1>2, <2>3
    <2> QED
      BY <1>2, <1>5, <2>1, <2>2, <2>4, <2>5 DEF Labels
  <1>11. ~ InputLooksAtSize("audio") /\ ~ InputPutsVideo("audio")
    BY DEF Heard, InputLooksAtSize, InputPutsVideo, VideoInputs
  <1> QED
    BY <1>6, <1>7, <1>8, <1>9, <1>10, <1>11 DEF Input, InputSubmits

\* The muxer writes or skips a frame and goes on.
LEMMA MuxerHears ==
    ASSUME Order, Data, Histories, Heard, MuxerWrites \/ MuxerSkips
    PROVE  Heard'
  <1> USE DEF Goto
  <1>1. pc["muxer"] = "get" /\ pc' = [pc EXCEPT !["muxer"] = "loop"] /\ UNCHANGED <<captured, alive>>
    BY DEF MuxerWrites, MuxerSkips, capture
  <1>2. pc'["muxer"] = "loop" /\ pc'["audio"] = pc["audio"] /\ Through' = Through
    BY <1>1 DEF Order, Types, Workers, Inputs, Through
  <1>3. PICK c \in Nat : /\ Muxed("audio", Nat \ skipped, c)
                         /\ c <= Through
                         /\ alive["muxer"] \/ pc["audio"] = "put" => c = Through
    BY <1>1 DEF Heard, MuxesAudio
  <1>4. PICK P \in SUBSET Nat : P = Nat \ skipped
    OBVIOUS
  <1>5. Through \in Nat /\ Through <= captured["audio"] /\ captured["audio"] \in Nat
    BY DEF Through, Heard, Data, Inputs
  <1>6. \E Q \in SUBSET Nat : Q = Nat \ skipped' /\ Muxed("audio", Q, c)' /\ skipped' \subseteq 0..Through
    <2>1. muxerQ # <<>> /\ Head(muxerQ)[1] \in Media
      <3>1. muxerQ # <<>>
        BY DEF MuxerWrites, MuxerSkips
      <3>2. Head(muxerQ) \in Media \X Nat
        BY <3>1 DEF Data
      <3> QED
        BY <3>1, <3>2
    <2>2. Muxed("audio", P, c) /\ "audio" \in Media
      BY <1>3, <1>4 DEF Media
    <2>3. CASE MuxerWrites
      <3>1. skipped' = skipped
        BY <2>3 DEF MuxerWrites
      <3>2. Muxed("audio", P, c)'
        BY <2>2, <2>3, EncodesInOrder, OtherMedium
      <3> QED
        BY <1>4, <3>1, <3>2 DEF Heard
    <2>4. CASE MuxerSkips /\ Head(muxerQ)[1] # "audio"
      <3>1. skipped' = skipped
        BY <2>4 DEF MuxerSkips
      <3>2. Muxed("audio", P, c)'
        BY <2>2, <2>4, OtherMedium
      <3> QED
        BY <1>4, <3>1, <3>2 DEF Heard
    <2>5. CASE MuxerSkips /\ Head(muxerQ)[1] = "audio"
      <3>1. PICK k \in Nat : k = Head(muxerQ)[2] /\ k <= c /\ Muxed("audio", P \ {k}, c)'
        BY <2>2, <2>5, SkipsOne
      <3>2. skipped' = skipped \cup {k}
        BY <2>5, <3>1 DEF MuxerSkips
      <3>3. P \ {k} = Nat \ skipped' /\ P \ {k} \in SUBSET Nat
        BY <1>4, <3>2
      <3>4. k \in 0..Through
        BY <1>3, <1>5, <3>1
      <3> QED
        BY <3>1, <3>2, <3>3, <3>4 DEF Heard
    <2> QED
      BY <2>3, <2>4, <2>5
  <1>7. PICK Q \in SUBSET Nat : Q = Nat \ skipped' /\ Muxed("audio", Q, c)' /\ skipped' \subseteq 0..Through
    BY <1>6
  <1>8. MuxesAudio'
    BY <1>1, <1>2, <1>3, <1>7 DEF MuxesAudio
  <1>9. \E a \in Nat : a <= captured'["audio"] /\ Lists(written'["audio"], Nat \ skipped', 0, a)
    <2>1. PICK a \in Nat, b \in Nat : /\ Lists(written'["audio"], Q, 0, a)
                                      /\ Lists(held'["audio"], Q, a, b)
                                      /\ Lists(Picked(muxerQ', "audio"), Q, b, c)
      BY <1>7 DEF Muxed
    <2>2. a <= b /\ b <= c
      BY <2>1 DEF Lists, Rises
    <2>3. a <= captured'["audio"]
      BY <1>1, <1>3, <1>5, <2>2
    <2> QED
      BY <1>7, <2>1, <2>3
  <1> QED
    BY <1>1, <1>2, <1>7, <1>8, <1>9 DEF Heard

\* When the muxer begins nothing was captured.
LEMMA MuxerBegins ==
    ASSUME Order, Data, Histories, Heard, MuxerStarts
    PROVE  Heard'
  <1>1. "muxer" \notin built
    BY BuiltNext DEF MuxerStarts, Build, Order
  <1>2. pc["audio"] = "idle" /\ pc["muxer"] = "idle" /\ captured["audio"] = 0
    BY <1>1 DEF Order, Waiting, Heard, Inputs
  <1>3. pc'["audio"] = "idle" /\ pc'["muxer"] = "header"
    BY <1>2 DEF MuxerStarts, Build, Goto, Order, Types, Workers, Inputs
  <1>4. UNCHANGED <<captured, muxerQ, held, written, skipped>>
    BY DEF MuxerStarts, Build, capture, muxing
  <1>5. Through = 0 /\ Through' = 0
    <2>1. captured'["audio"] = 0 /\ 0 - 0 = 0
      BY <1>2, <1>4
    <2> QED
      BY <1>2, <1>3, <2>1 DEF Through
  <1>6. MuxesAudio'
    <2>1. PICK c \in Nat : Muxed("audio", Nat \ skipped, c) /\ c <= Through
      BY <1>2 DEF Heard, MuxesAudio
    <2>2. Muxed("audio", Nat \ skipped, c)' /\ c = 0
      BY <1>4, <1>5, <2>1 DEF Muxed
    <2> QED
      BY <1>5, <2>2 DEF MuxesAudio
  <1> QED
    BY <1>2, <1>3, <1>4, <1>5, <1>6 DEF Heard

\* Every other step leaves audio alone.
LEMMA AudioStep == Order /\ Data /\ Histories /\ Heard /\ [Next]_vars => Heard'
  <1> SUFFICES ASSUME Order, Data, Histories, Heard, [Next]_vars
               PROVE  Heard'
    OBVIOUS
  <1> USE DEF Goto, capture, filtering, muxing
  <1>1. pc \in [Workers -> Labels] /\ alive \in [Workers -> BOOLEAN] /\ captured \in [Inputs -> Nat]
    BY DEF Order, Types, Data
  <1>2. ASSUME NEW i \in Inputs, i # "audio", Input(i)
        PROVE  AudioRests
    <2>1. PICK l \in Labels : Runs(i, l)
      BY <1>2, InputRuns
    <2>2. /\ pc'["muxer"] = pc["muxer"] /\ pc'["audio"] = pc["audio"]
          /\ alive'["muxer"] => alive["muxer"]
      BY <1>1, <1>2, <2>1 DEF Runs, Inputs, VideoInputs, Workers
    <2>3. captured'["audio"] = captured["audio"] /\ UNCHANGED <<muxerQ, held, written, skipped>>
      BY <1>1, <1>2 DEF Input, InputEnds, InputCaptures, InputFails, InputSubmits, InputLooksAtSize,
                        InputPutsVideo, Inputs
    <2> QED
      BY <2>2, <2>3 DEF AudioRests, Heard
  <1>3. CASE Filter
    <2>1. PICK l \in Labels : Runs("filter", l)
      BY <1>3, FilterRuns
    <2>2. /\ pc'["muxer"] = pc["muxer"] /\ pc'["audio"] = pc["audio"]
          /\ alive'["muxer"] => alive["muxer"]
      BY <1>1, <2>1 DEF Runs, Inputs, VideoInputs, Workers
    <2>3. captured' = captured /\ UNCHANGED <<held, written, skipped>>
      BY <1>3 DEF Filter, FilterLoop, FilterTimeout, FilterAdds, FilterAddFails, FilterGives,
                  FilterGivesNothing, FilterGiveFails, FilterLooksAtSize, FilterPuts
    <2>4. Picked(muxerQ', "audio") = Picked(muxerQ, "audio")
      <3>1. CASE FilterPuts
        <4> DEFINE p == <<"video", filtered>>
        <4>0. p \in Media \X Nat /\ p[1] = "video"
          BY DEF Data, Media
        <4> HIDE DEF p
        <4>1. PICK f \in Media \X Nat : f = p /\ f[1] # "audio"
          BY <4>0
        <4>2. muxerQ' = Append(muxerQ, f)
          BY <3>1, <4>1 DEF FilterPuts, p
        <4> QED
          BY <4>1, <4>2, QueuedPairs, PickedAside
      <3>2. CASE ~ FilterPuts
        BY <1>3, <3>2 DEF Filter, FilterLoop, FilterTimeout, FilterAdds, FilterAddFails, FilterGives,
                          FilterGivesNothing, FilterGiveFails, FilterLooksAtSize
      <3> QED
        BY <3>1, <3>2
    <2> QED
      BY <2>2, <2>3, <2>4, AudioAside DEF AudioRests, Heard
  <1>4. CASE Muxer /\ ~ MuxerWrites /\ ~ MuxerSkips
    <2>1. pc'["audio"] = pc["audio"] /\ captured' = captured
      BY <1>1, <1>4, MuxerTakes, MuxerRuns DEF Runs, Workers, Inputs
    <2>2. MuxerRests
      BY <1>4, MuxerMoves DEF FilterPuts, InputPutsAudio, Muxer, MuxerWritesHeader, MuxerHeaderFails, MuxerLoop,
            MuxerTimeout, MuxerFails, MuxerWritesTrailer, MuxerReturns
    <2>3. alive'["muxer"] => alive["muxer"] /\ pc'["muxer"] # "done"
      BY <1>1, <1>4 DEF Muxer, MuxerWritesHeader, MuxerHeaderFails, MuxerLoop, Heard,
            MuxerTimeout, MuxerFails, MuxerWritesTrailer, MuxerReturns, Workers
    <2> QED
      BY <2>1, <2>2, <2>3, AudioAside DEF AudioRests, MuxerRests
  <1>5. CASE Main /\ ~ MuxerStarts
    <2>1. ASSUME NEW w, w # "muxer", NEW l, Build(w, l), w = "audio" => l = "idle"
          PROVE  AudioRests
      <3>1. "muxer" \notin built
        BY <2>1, BuiltNext DEF Build, Order
      <3>2. pc["audio"] = "idle" /\ pc["muxer"] = "idle"
        BY <3>1 DEF Order, Waiting, Inputs
      <3>3. pc'["audio"] = "idle" /\ pc'["muxer"] = "idle" /\ alive'["muxer"] = alive["muxer"]
        BY <1>1, <2>1, <3>2 DEF Build, Workers, Inputs
      <3> QED
        BY <2>1, <3>2, <3>3 DEF Build, AudioRests
    <2>2. ASSUME NEW w, Throw(w) \/ Destroy(w) \/ Joined(w)
          PROVE  AudioRests
      <3>1. alive'["muxer"] => alive["muxer"]
        BY <1>1, <2>2 DEF Throw, Destroy, Joined, Workers
      <3> QED
        BY <2>2, <3>1 DEF Throw, Destroy, Joined, AudioRests, Heard
    <2>3. ASSUME NEW i \in Inputs, Run(i)
          PROVE  AudioRests
      <3>1. pc'["muxer"] = pc["muxer"]
        BY <1>1, <2>3 DEF Run, Workers, Inputs, VideoInputs
      <3>2. pc'["audio"] = pc["audio"] \/ (pc["audio"] = "idle" /\ pc'["audio"] = "loop")
        BY <1>1, <2>3 DEF Run, Workers, Inputs, VideoInputs
      <3> QED
        BY <2>3, <3>1, <3>2 DEF Run, AudioRests, Heard
    <2>4. AudioRests
      BY <1>5, <2>1, <2>2, <2>3 DEF Main, InputOpens, InputThrows, FilterStarts, FilterThrows, MuxerThrows,
            Inputs, VideoInputs
    <2> QED
      BY <2>4, AudioAside
  <1>6. CASE Interrupt \/ UNCHANGED vars
    <2>1. AudioRests
      BY <1>6 DEF Interrupt, vars, AudioRests, Heard
    <2> QED
      BY <2>1, AudioAside
  <1> QED
    BY <1>2, <1>3, <1>4, <1>5, <1>6, AudioAside, AudioCaptures, MuxerHears, MuxerBegins DEF Next, Finished

(***************************************************************************)
(* No audio is lost before the end, for any delay of the encoder, however  *)
(* full the queue is and whichever frames cannot be resampled.             *)
(***************************************************************************)
THEOREM AudioAlwaysComplete == Spec => []AudioComplete
  <1>1. Init => Histories /\ Heard
    <2> SUFFICES ASSUME Init
                 PROVE  Histories /\ Heard
      OBVIOUS
    <2>1. Histories
      BY DEF Init, Histories, Media
    <2>2. captured["audio"] = 0 /\ pc["audio"] = "idle" /\ pc["muxer"] = "idle" /\ skipped = {} /\ ~ alive["muxer"]
      BY DEF Init, Inputs, Workers
    <2>3. written["audio"] = <<>> /\ held["audio"] = <<>> /\ muxerQ = <<>> /\ Picked(muxerQ, "audio") = <<>>
      BY DEF Init, Media, Picked
    <2>4. Through = 0
      <3>1. 0 - 0 = 0
        OBVIOUS
      <3> QED
        BY <2>2, <3>1 DEF Through
    <2>5. Lists(<<>>, Nat \ skipped, 0, 0)
      BY ListsNone
    <2>6. Muxed("audio", Nat \ skipped, 0)
      BY <2>3, <2>5 DEF Muxed
    <2>7. MuxesAudio
      BY <2>2, <2>4, <2>6 DEF MuxesAudio
    <2> QED
      BY <2>1, <2>2, <2>3, <2>4, <2>5, <2>7 DEF Heard
  <1>2. Data /\ Heard => AudioComplete
    <2> SUFFICES ASSUME Data, Heard
                 PROVE  AudioComplete
      OBVIOUS
    <2> DEFINE n == captured["audio"]
               P == Nat \ skipped
               kept == (1..n) \ skipped
    <2>1. n \in Nat /\ Through \in Nat /\ Through <= n
      BY DEF Data, Heard, Through, Inputs
    <2>2. ASSUME NEW s, NEW a \in Nat, NEW b \in Nat, b <= n, Lists(s, P, a, b)
          PROVE  Lists(s, kept, a, b)
      <3>1. \A k \in Nat : a < k /\ k <= b => k \in 1..n
        BY <2>1, <2>2
      <3> HIDE DEF n
      <3>2. \A i \in DOMAIN s : s[i] \in kept
        BY <2>2, <3>1 DEF Lists, Rises
      <3> QED
        BY <2>2, <3>2 DEF Lists
    <2>3. PICK a \in Nat : a <= n /\ Lists(written["audio"], P, 0, a)
      BY DEF Heard
    <2>4. a \in 0..n /\ Lists(written["audio"], kept, 0, a)
      BY <2>1, <2>2, <2>3
    <2>5. ASSUME alive["muxer"]
          PROVE  \E x, y \in 0..Through :
                    /\ Lists(written["audio"], kept, 0, x)
                    /\ Lists(held["audio"], kept, x, y)
                    /\ Lists(Picked(muxerQ, "audio"), kept, y, Through)
      <3>1. Muxed("audio", P, Through)
        BY <2>5 DEF Heard, MuxesAudio
      <3>2. PICK x \in Nat, y \in Nat : /\ Lists(written["audio"], P, 0, x)
                                        /\ Lists(held["audio"], P, x, y)
                                        /\ Lists(Picked(muxerQ, "audio"), P, y, Through)
        BY <3>1 DEF Muxed
      <3>3. x <= y /\ y <= Through
        BY <3>2 DEF Lists, Rises
      <3>4. x \in 0..Through /\ y \in 0..Through /\ x <= n /\ y <= n
        BY <2>1, <3>3
      <3> HIDE DEF n, P, kept
      <3>5. /\ Lists(written["audio"], kept, 0, x)
            /\ Lists(held["audio"], kept, x, y)
            /\ Lists(Picked(muxerQ, "audio"), kept, y, Through)
        BY <2>1, <2>2, <3>2, <3>4
      <3> QED
        BY <3>4, <3>5
    <2> QED
      BY <2>4, <2>5 DEF AudioComplete, Through
  <1> QED
    BY <1>1, <1>2, InitOrder, InitData, NextInOrder, DataStep, HistoriesStep, AudioStep, PTL DEF Spec

-----------------------------------------------------------------------------
(* Video *)

\* What is in the hands of the filter's thread is a list of numbers.
LEMMA InHandTyped == Data => InHand \in Seq(Nat)
  BY DEF Data, InHand

\* A frame of main is captured, dropped or put into the queue of the filter.
LEMMA MainComes ==
    ASSUME Order, Data, NEW c \in Nat, Coming(c), NEW i \in Inputs, Input(i)
    PROVE  Coming(c)'
  <1> USE DEF Goto, capture, filtering
  <1>1. /\ pc \in [Workers -> Labels] /\ captured \in [Inputs -> Nat] /\ captured["main"] \in Nat
        /\ {"main", "filter"} \subseteq Workers /\ i \in Workers
    BY DEF Order, Types, Data, Workers, Inputs, VideoInputs
  <1>2. PICK d \in Nat, e \in Nat, f \in Nat :
            /\ Rises(InHand, c, d)
            /\ Rises(graph, d, e)
            /\ Rises(Picked(filterQ, "main"), e, f)
            /\ f <= captured["main"]
            /\ pc["main"] \in {"submit", "size", "put"} => f < captured["main"]
    BY DEF Coming
  <1>3. graph' = graph /\ InHand' = InHand
    <2>1. PICK l \in Labels : Runs(i, l)
      BY InputRuns
    <2>2. pc'["filter"] = pc["filter"]
      BY <1>1, <2>1 DEF Runs, Inputs, VideoInputs
    <2>3. UNCHANGED <<graph, filtered>>
      BY DEF Input, InputEnds, InputCaptures, InputFails, InputSubmits, InputLooksAtSize, InputPutsVideo, InputPutsAudio
    <2> QED
      BY <2>2, <2>3 DEF InHand
  <1>4. CASE InputPutsVideo(i) /\ i = "main"
    <2>1. PICK n \in Nat : n = captured["main"]
      BY <1>1
    <2>2. f < n /\ filterQ' = Append(filterQ, <<"main", n>>) /\ captured'["main"] = n /\ pc'["main"] = "loop"
      BY <1>1, <1>2, <1>4, <2>1 DEF InputPutsVideo
    <2>3. Rises(Picked(Append(filterQ, <<"main", n>>), "main"), e, n)
      BY <1>2, <2>2, QueuedPairs, PickedRises DEF VideoInputs
    <2>4. Rises(Picked(filterQ', "main"), e, n) /\ n <= captured'["main"]
      BY <2>2, <2>3
    <2> QED
      BY <1>2, <1>3, <2>2, <2>4 DEF Coming
  <1>5. CASE InputPutsVideo(i) /\ i # "main"
    <2>1. i = "minor" /\ captured[i] \in Nat
      BY <1>1, <1>5 DEF InputPutsVideo, VideoInputs
    <2>2. PICK n \in Nat : n = captured[i]
      BY <2>1
    <2>3. filterQ' = Append(filterQ, <<"minor", n>>) /\ captured' = captured /\ pc'["main"] = pc["main"]
      BY <1>1, <1>5, <2>1, <2>2 DEF InputPutsVideo
    <2>4. PICK p \in VideoInputs \X Nat : p = <<"minor", n>>
      BY DEF VideoInputs
    <2>5. p[1] # "main" /\ filterQ' = Append(filterQ, p)
      BY <2>3, <2>4
    <2>6. Picked(filterQ', "main") = Picked(filterQ, "main")
      BY <2>5, QueuedPairs, PickedAside
    <2> QED
      BY <1>2, <1>3, <2>3, <2>6 DEF Coming
  <1>6. CASE InputCaptures(i)
    <2>1. /\ filterQ' = filterQ
          /\ i = "main" => captured'["main"] = captured["main"] + 1
          /\ i # "main" => captured'["main"] = captured["main"] /\ pc'["main"] = pc["main"]
      BY <1>1, <1>6 DEF InputCaptures, Inputs, VideoInputs
    <2>2. /\ f <= captured'["main"]
          /\ pc'["main"] \in {"submit", "size", "put"} => f < captured'["main"]
      BY <1>1, <1>2, <2>1
    <2> QED
      BY <1>2, <1>3, <2>1, <2>2 DEF Coming
  <1>7. CASE InputEnds(i) \/ InputFails(i) \/ InputSubmits(i) \/ InputLooksAtSize(i) \/ InputPutsAudio
    <2>1. filterQ' = filterQ /\ captured' = captured
      BY <1>7 DEF InputEnds, InputFails, InputSubmits, InputLooksAtSize, InputPutsAudio
    <2>2. pc'["main"] \in {"submit", "size", "put"} => pc["main"] \in {"submit", "size", "put"}
      BY <1>1, <1>7 DEF InputEnds, InputFails, InputSubmits, InputLooksAtSize, InputPutsAudio
    <2> QED
      BY <1>2, <1>3, <2>1, <2>2 DEF Coming
  <1> QED
    BY <1>4, <1>5, <1>6, <1>7 DEF Input

\* The filter takes frames in order, and drops some; it puts them in order.
LEMMA FilterComes ==
    ASSUME Order, Data, NEW c \in Nat, Coming(c), Filter
    PROVE  IF FilterPuts THEN \E k \in Nat : k = filtered /\ c < k /\ Coming(k)' ELSE Coming(c)'
  <1> USE DEF Goto, capture, filtering
  <1>1. pc \in [Workers -> Labels] /\ captured["main"] \in Nat /\ {"main", "filter"} \subseteq Workers
    BY DEF Order, Types, Data, Workers, Inputs, VideoInputs
  <1>2. PICK d \in Nat, e \in Nat, f \in Nat :
            /\ Rises(InHand, c, d)
            /\ Rises(graph, d, e)
            /\ Rises(Picked(filterQ, "main"), e, f)
            /\ f <= captured["main"]
            /\ pc["main"] \in {"submit", "size", "put"} => f < captured["main"]
    BY DEF Coming
  <1>3. captured' = captured /\ pc'["main"] = pc["main"]
    <2>1. PICK l \in Labels : Runs("filter", l)
      BY FilterRuns
    <2>2. pc'["main"] = pc["main"]
      BY <1>1, <2>1 DEF Runs
    <2> QED
      BY <2>2 DEF Filter, FilterLoop, FilterTimeout, FilterAdds, FilterAddFails, FilterGives,
                  FilterGivesNothing, FilterGiveFails, FilterLooksAtSize, FilterPuts
  <1>4. c <= d /\ d <= e /\ e <= f
    BY <1>2 DEF Rises
  <1>5. graph \in Seq(Nat) /\ filtered \in Nat
    BY DEF Data
  <1>6. ASSUME NEW x \in Nat, NEW y \in Nat, Rises(InHand', c, x), Rises(graph', x, y),
               Rises(Picked(filterQ', "main"), y, f)
        PROVE  Coming(c)'
    BY <1>2, <1>3, <1>6 DEF Coming
  <1>7. ASSUME pc["filter"] \in {"size", "put"}
        PROVE  c < filtered /\ filtered <= d
    <2>1. InHand = <<filtered>> /\ InHand[1] = filtered /\ DOMAIN InHand = {1}
      BY <1>7 DEF InHand
    <2> QED
      BY <1>2, <2>1 DEF Rises
  <1>8. CASE FilterAdds
    <2>1. filterQ # <<>> /\ filterQ' = Tail(filterQ) /\ pc["filter"] = "get" /\ pc'["filter"] = "sink"
      BY <1>1, <1>8 DEF FilterAdds
    <2>2. ~ FilterPuts
      BY <2>1 DEF FilterPuts
    <2>3. Rises(InHand', c, d)
      <3>1. InHand = <<>> /\ InHand' = <<>>
        BY <2>1 DEF InHand
      <3> QED
        BY <1>2, <3>1
    <2>4. CASE Head(filterQ)[1] = "main"
      <3>1. PICK k \in Nat : k = Head(filterQ)[2] /\ e < k /\ k <= f /\ Rises(Picked(Tail(filterQ), "main"), k, f)
        BY <1>2, <2>1, <2>4, QueuedPairs, PickedRisesHead
      <3>2. graph' = Append(graph, k)
        BY <1>8, <2>4, <3>1 DEF FilterAdds
      <3>3. Rises(graph', d, k)
        BY <1>2, <1>5, <3>1, <3>2, RisesAppend
      <3>4. Rises(Picked(filterQ', "main"), k, f)
        BY <2>1, <3>1
      <3> QED
        BY <1>2, <1>6, <2>2, <2>3, <3>3, <3>4
    <2>5. CASE Head(filterQ)[1] # "main"
      <3>1. Rises(Picked(Tail(filterQ), "main"), e, f)
        BY <1>2, <2>1, <2>5, QueuedPairs, PickedRisesTail
      <3>2. graph' = graph
        BY <1>8, <2>5 DEF FilterAdds
      <3> QED
        BY <1>2, <1>6, <2>2, <2>1, <2>3, <3>1, <3>2
    <2> QED
      BY <2>4, <2>5
  <1>9. CASE FilterAddFails
    <2>1. filterQ # <<>> /\ filterQ' = Tail(filterQ) /\ pc["filter"] = "get" /\ pc'["filter"] = "done" /\ graph' = graph
      BY <1>1, <1>9 DEF FilterAddFails
    <2>2. ~ FilterPuts
      BY <2>1 DEF FilterPuts
    <2>3. Rises(InHand', c, d)
      <3>1. InHand = <<>> /\ InHand' = <<>>
        BY <2>1 DEF InHand
      <3> QED
        BY <1>2, <3>1
    <2>4. CASE Head(filterQ)[1] = "main"
      <3>1. PICK k \in Nat : k = Head(filterQ)[2] /\ e < k /\ k <= f /\ Rises(Picked(Tail(filterQ), "main"), k, f)
        BY <1>2, <2>1, <2>4, QueuedPairs, PickedRisesHead
      <3>2. Rises(graph, d, k)
        <4>1. \A x \in DOMAIN graph : graph[x] \in Nat
          BY <1>5
        <4>2. d <= d /\ e <= k
          BY <3>1
        <4> QED
          BY <1>2, <4>1, <4>2, RisesWiden
      <3> QED
        BY <1>2, <1>6, <2>2, <2>1, <2>3, <3>1, <3>2
    <2>5. CASE Head(filterQ)[1] # "main"
      <3>1. Rises(Picked(Tail(filterQ), "main"), e, f)
        BY <1>2, <2>1, <2>5, QueuedPairs, PickedRisesTail
      <3> QED
        BY <1>2, <1>6, <2>2, <2>1, <2>3, <3>1
    <2> QED
      BY <2>4, <2>5
  <1>10. CASE FilterGives
    <2>1. graph # <<>> /\ graph' = Tail(graph) /\ filterQ' = filterQ /\ pc["filter"] = "sink"
      BY <1>10 DEF FilterGives
    <2>2. PICK k \in Nat : k = Head(graph) /\ d < k /\ k <= e /\ Rises(Tail(graph), k, e)
      BY <1>2, <1>5, <2>1, RisesHead
    <2>3. InHand' = <<k>> \/ InHand' = <<>>
      BY <1>1, <1>10, <2>2 DEF FilterGives, InHand
    <2>4. Rises(InHand', c, k)
      <3>1. <<k>>[1] = k /\ DOMAIN <<k>> = {1}
        OBVIOUS
      <3>2. c < k /\ c <= k /\ k <= k
        BY <1>4, <2>2
      <3>3. Rises(<<k>>, c, k)
        BY <3>1, <3>2 DEF Rises
      <3>4. Rises(<<>>, c, k)
        BY <3>2, RisesNone
      <3> QED
        BY <2>3, <3>3, <3>4
    <2>5. Rises(graph', k, e) /\ Rises(Picked(filterQ', "main"), e, f)
      BY <1>2, <2>1, <2>2
    <2>6. ~ FilterPuts
      BY <2>1 DEF FilterPuts
    <2> QED
      BY <1>6, <2>4, <2>5, <2>6
  <1>11. CASE FilterLooksAtSize
    <2>1. pc["filter"] = "size" /\ UNCHANGED <<graph, filterQ>>
      BY <1>11 DEF FilterLooksAtSize
    <2>2. InHand' = <<filtered>> \/ InHand' = <<>>
      BY <1>1, <1>11 DEF FilterLooksAtSize, InHand
    <2>3. Rises(InHand', c, d)
      <3>1. InHand = <<filtered>>
        BY <2>1 DEF InHand
      <3>2. Rises(<<>>, c, d)
        BY <1>4, RisesNone
      <3> QED
        BY <1>2, <2>2, <3>1, <3>2
    <2>4. ~ FilterPuts
      BY <2>1 DEF FilterPuts
    <2> QED
      BY <1>2, <1>6, <2>1, <2>3, <2>4
  <1>12. CASE FilterPuts
    <2>1. pc["filter"] = "put" /\ pc'["filter"] = "sink" /\ UNCHANGED <<graph, filterQ>>
      BY <1>1, <1>12 DEF FilterPuts
    <2>2. PICK k \in Nat : k = filtered
      BY <1>5
    <2>3. c < k /\ k <= d
      BY <1>7, <2>1, <2>2
    <2>4. InHand' = <<>> /\ Rises(<<>>, k, d)
      BY <2>1, <2>3, RisesNone DEF InHand
    <2>5. Coming(k)'
      BY <1>2, <1>3, <2>1, <2>4 DEF Coming
    <2> QED
      BY <1>12, <2>2, <2>3, <2>5
  <1>13. CASE FilterLoop \/ FilterTimeout \/ FilterGivesNothing \/ FilterGiveFails
    <2>1. UNCHANGED <<graph, filterQ>> /\ pc["filter"] \notin {"size", "put"} /\ pc'["filter"] \notin {"size", "put"}
      BY <1>1, <1>13 DEF FilterLoop, FilterTimeout, FilterGivesNothing, FilterGiveFails
    <2>2. InHand' = InHand
      BY <2>1 DEF InHand
    <2>3. ~ FilterPuts
      BY <2>1 DEF FilterPuts
    <2> QED
      BY <1>2, <1>6, <2>1, <2>2, <2>3
  <1> QED
    BY <1>8, <1>9, <1>10, <1>11, <1>12, <1>13 DEF Filter

\* No other thread has to do with video on its way to the muxer.
LEMMA ComingKeeps ==
    ASSUME Order, Data, NEW c \in Nat, Coming(c), [Next]_vars, ~ FilterPuts
    PROVE  Coming(c)'
  <1> USE DEF Goto, capture, filtering
  <1>1. pc \in [Workers -> Labels] /\ {"main", "filter"} \subseteq Workers
    BY DEF Order, Types, Workers, Inputs, VideoInputs
  <1>2. ASSUME UNCHANGED <<captured, filterQ, graph, filtered>>,
               pc'["filter"] \in {"size", "put"} <=> pc["filter"] \in {"size", "put"},
               pc'["main"] \in {"submit", "size", "put"} => pc["main"] \in {"submit", "size", "put"}
        PROVE  Coming(c)'
    <2>1. InHand' = InHand
      BY <1>2 DEF InHand
    <2> QED
      BY <1>2, <2>1 DEF Coming
  <1>3. CASE \E i \in Inputs : Input(i)
    BY <1>3, MainComes
  <1>4. CASE Filter
    BY <1>4, FilterComes
  <1>5. CASE Muxer
    <2>1. PICK l \in Labels : Runs("muxer", l)
      BY <1>5, MuxerRuns
    <2>2. pc'["filter"] = pc["filter"] /\ pc'["main"] = pc["main"]
      BY <1>1, <2>1 DEF Runs
    <2> QED
      BY <1>2, <1>5, <2>2, MuxerTakes
  <1>6. CASE Main
    <2>1. /\ pc'["filter"] \in {"size", "put"} <=> pc["filter"] \in {"size", "put"}
          /\ pc'["main"] \in {"submit", "size", "put"} => pc["main"] \in {"submit", "size", "put"}
      <3>1. ASSUME NEW w, NEW l \in {"idle", "loop", "header"}, Build(w, l)
            PROVE  /\ pc'["filter"] \in {"size", "put"} <=> pc["filter"] \in {"size", "put"}
                   /\ pc'["main"] \in {"submit", "size", "put"} => pc["main"] \in {"submit", "size", "put"}
        <4>1. "muxer" \notin built
          BY <3>1, BuiltNext DEF Build, Order
        <4>2. pc["filter"] \notin {"size", "put"}
          BY <4>1 DEF Order, Waiting
        <4> QED
          BY <1>1, <3>1, <4>2 DEF Build
      <3>2. ASSUME NEW i \in Inputs, Run(i)
            PROVE  /\ pc'["filter"] \in {"size", "put"} <=> pc["filter"] \in {"size", "put"}
                   /\ pc'["main"] \in {"submit", "size", "put"} => pc["main"] \in {"submit", "size", "put"}
        BY <1>1, <3>2 DEF Run, Inputs, VideoInputs
      <3>3. ASSUME NEW w, Throw(w) \/ Destroy(w) \/ Joined(w)
            PROVE  pc' = pc
        BY <3>3 DEF Throw, Destroy, Joined
      <3> QED
        BY <1>6, <3>1, <3>2, <3>3 DEF Main, InputOpens, InputThrows, FilterStarts, FilterThrows, MuxerStarts, MuxerThrows
    <2> QED
      BY <1>2, <1>6, <2>1, MainTouchesNoData
  <1>7. CASE Interrupt \/ UNCHANGED vars
    BY <1>2, <1>7 DEF Interrupt, vars
  <1> QED
    BY <1>3, <1>4, <1>5, <1>6, <1>7 DEF Next, Finished

\* What the muxer has of video ends below what is on its way.
LEMMA VideoStep == Order /\ Data /\ Histories /\ Seen /\ [Next]_vars => Seen'
  <1> SUFFICES ASSUME Order, Data, Histories, Seen, [Next]_vars
               PROVE  Seen'
    OBVIOUS
  <1>1. captured["main"] \in Nat /\ captured'["main"] \in Nat
    BY DataStep DEF Data, Inputs, VideoInputs
  <1>2. captured["main"] <= captured'["main"]
    <2>1. captured' = captured \/ \E i \in Inputs : captured' = [captured EXCEPT ![i] = @ + 1]
      <3>1. CASE \E i \in Inputs : Input(i)
        BY <3>1 DEF Input, InputEnds, InputCaptures, InputFails, InputSubmits, InputLooksAtSize,
                    InputPutsVideo, InputPutsAudio, capture
      <3>2. CASE Filter
        BY <3>2 DEF Filter, FilterLoop, FilterTimeout, FilterAdds, FilterAddFails, FilterGives,
                  FilterGivesNothing, FilterGiveFails, FilterLooksAtSize, FilterPuts, capture
      <3>3. CASE Muxer \/ Main
        BY <3>3, MuxerTakes, MainTouchesNoData
      <3>4. CASE Interrupt \/ UNCHANGED vars
        BY <3>4 DEF Interrupt, vars, capture
      <3> QED
        BY <3>1, <3>2, <3>3, <3>4 DEF Next, Finished
    <2>2. \A n \in Nat : n <= n /\ n <= n + 1
      OBVIOUS
    <2>3. captured \in [Inputs -> Nat]
      BY DEF Data
    <2>4. CASE \E i \in Inputs : captured' = [captured EXCEPT ![i] = @ + 1]
      <3>1. PICK i \in Inputs : captured' = [captured EXCEPT ![i] = @ + 1]
        BY <2>4
      <3>2. captured'["main"] = captured["main"] \/ captured'["main"] = captured["main"] + 1
        BY <2>3, <3>1 DEF Inputs, VideoInputs
      <3> QED
        BY <1>1, <2>2, <3>2
    <2> QED
      BY <1>1, <2>1, <2>2, <2>4
  <1>3. PICK a \in Nat : a <= captured["main"] /\ Rises(written["video"], 0, a)
    BY DEF Seen
  \* Only a muxer that encodes changes what was written.
  <1>4. ASSUME NEW P \in SUBSET Nat, NEW c \in Nat, Muxed("video", P, c)', Coming(c)'
        PROVE  Seen'
    <2>1. PICK x \in Nat, y \in Nat : /\ Lists(written'["video"], P, 0, x)
                                      /\ Lists(held'["video"], P, x, y)
                                      /\ Lists(Picked(muxerQ', "video"), P, y, c)
      BY <1>4 DEF Muxed
    <2>2. x <= y /\ y <= c /\ Rises(written'["video"], 0, x)
      BY <2>1 DEF Lists, Rises
    <2>3. c <= captured'["main"]
      <3>1. PICK d \in Nat, e \in Nat, f \in Nat :
                /\ Rises(InHand', c, d)
                /\ Rises(graph', d, e)
                /\ Rises(Picked(filterQ', "main"), e, f)
                /\ f <= captured'["main"]
        BY <1>4 DEF Coming
      <3>2. c <= d /\ d <= e /\ e <= f
        BY <3>1 DEF Rises
      <3> QED
        BY <1>1, <3>1, <3>2
    <2>4. x <= captured'["main"]
      BY <1>1, <2>2, <2>3
    <2>5. MuxesVideo'
      BY <1>4 DEF MuxesVideo
    <2> QED
      BY <2>2, <2>4, <2>5 DEF Seen
  <1>5. ASSUME pc["muxer"] # "done"
        PROVE  \E P \in SUBSET Nat : \E c \in Nat : Muxed("video", P, c) /\ Coming(c)
    BY <1>5 DEF Seen, MuxesVideo
  <1>6. CASE MuxerRests
    <2>1. CASE pc'["muxer"] = "done"
      <3>1. Rises(written'["video"], 0, a) /\ a <= captured'["main"]
        BY <1>1, <1>2, <1>3, <1>6 DEF MuxerRests
      <3> QED
        BY <2>1, <3>1 DEF Seen
    <2>2. CASE pc'["muxer"] # "done" /\ ~ FilterPuts
      <3>1. PICK P \in SUBSET Nat, c \in Nat : Muxed("video", P, c) /\ Coming(c)
        BY <1>5, <1>6, <2>2 DEF MuxerRests
      <3>2. Muxed("video", P, c)'
        BY <1>6, <2>2, <3>1 DEF MuxerRests, Muxed
      <3>3. Coming(c)'
        BY <2>2, <3>1, ComingKeeps
      <3> QED
        BY <1>4, <3>2, <3>3
    <2>3. CASE pc'["muxer"] # "done" /\ FilterPuts
      <3>1. muxerQ' # muxerQ
        BY <2>3 DEF FilterPuts, Data
      <3> QED
        BY <1>6, <2>3, <3>1 DEF MuxerRests
    <2> QED
      BY <2>1, <2>2, <2>3
  <1>7. CASE FilterPuts
    <2>1. pc'["muxer"] = pc["muxer"] /\ UNCHANGED <<held, written>>
      BY <1>7 DEF FilterPuts, Goto, Order, Types, Workers, muxing
    <2>2. CASE pc["muxer"] = "done"
      <3>1. Rises(written'["video"], 0, a) /\ a <= captured'["main"]
        BY <1>1, <1>2, <1>3, <2>1
      <3> QED
        BY <2>1, <2>2, <3>1 DEF Seen
    <2>3. CASE pc["muxer"] # "done"
      <3>1. PICK P \in SUBSET Nat, c \in Nat : Muxed("video", P, c) /\ Coming(c)
        BY <1>5, <2>3
      <3>2. PICK k \in Nat : k = filtered /\ c < k /\ Coming(k)'
        BY <1>7, <3>1, FilterComes DEF Filter
      <3>3. PICK x \in Nat, y \in Nat : /\ Lists(written["video"], P, 0, x)
                                        /\ Lists(held["video"], P, x, y)
                                        /\ Lists(Picked(muxerQ, "video"), P, y, c)
        BY <3>1 DEF Muxed
      <3>4. x <= y /\ y <= c
        BY <3>3 DEF Lists, Rises
      <3> DEFINE Q == {j \in P : j <= c} \cup {k}
                 s == written["video"]
                 t == held["video"]
                 q == Picked(muxerQ, "video")
      <3>5. /\ \A i \in DOMAIN s : s[i] \in Nat
            /\ \A i \in DOMAIN t : t[i] \in Nat
        BY DEF Histories, Media
      <3>6. \A i \in DOMAIN q : q[i] \in Nat
        BY QueuedPairs, PickedNumbers
      <3>7. Q \in SUBSET Nat
        OBVIOUS
      <3>8. Lists(s, Q, 0, x) /\ Lists(t, Q, x, y) /\ Lists(q, Q, y, c)
        <4>1. x <= c /\ c <= c
          BY <3>4
        <4>2. Lists(s, P, 0, x) /\ Lists(t, P, x, y) /\ Lists(q, P, y, c)
          BY <3>3
        <4> HIDE DEF s, t, q
        <4> QED
          BY <3>2, <3>4, <3>5, <3>6, <4>1, <4>2, ListsBelow
      <3>9. Lists(<<k>>, Q, c, k)
        BY <3>2, ListsOne
      <3> HIDE DEF Q
      <3>10. muxerQ' = Append(muxerQ, <<"video", k>>)
        BY <1>7, <3>2 DEF FilterPuts
      <3>11. Lists(Picked(Append(muxerQ, <<"video", k>>), "video"), Q, y, k)
        BY <3>7, <3>8, <3>9, QueuedPairs, PickedAppend DEF Media
      <3>12. PICK R \in SUBSET Nat : R = Q
        BY <3>7
      <3>13. Muxed("video", R, k)'
        BY <2>1, <3>8, <3>10, <3>11, <3>12 DEF Muxed
      <3> QED
        BY <1>4, <3>2, <3>13
    <2> QED
      BY <2>2, <2>3
  <1>8. CASE InputPutsAudio
    <2>1. pc'["muxer"] = pc["muxer"] /\ UNCHANGED <<held, written>>
      BY <1>8 DEF InputPutsAudio, Goto, Order, Types, Workers, Inputs, muxing
    <2>2. CASE pc["muxer"] = "done"
      <3>1. Rises(written'["video"], 0, a) /\ a <= captured'["main"]
        BY <1>1, <1>2, <1>3, <2>1
      <3> QED
        BY <2>1, <2>2, <3>1 DEF Seen
    <2>3. CASE pc["muxer"] # "done"
      <3>1. PICK P \in SUBSET Nat, c \in Nat : Muxed("video", P, c) /\ Coming(c)
        BY <1>5, <2>3
      <3> DEFINE p == <<"audio", captured["audio"]>>
      <3>2. p \in Media \X Nat /\ p[1] # "video"
        BY DEF Data, Media, Inputs
      <3>3. muxerQ' = Append(muxerQ, p)
        BY <1>8 DEF InputPutsAudio
      <3> HIDE DEF p
      <3>4. Picked(Append(muxerQ, p), "video") = Picked(muxerQ, "video")
        BY <3>2, QueuedPairs, PickedAside
      <3>5. Muxed("video", P, c)'
        BY <2>1, <3>1, <3>3, <3>4 DEF Muxed
      <3>6. ~ FilterPuts
        <4>1. pc["audio"] = "put" /\ pc'["audio"] = "loop"
          BY <1>8 DEF InputPutsAudio, Goto, Order, Types, Workers, Inputs
        <4> QED
          BY <4>1 DEF FilterPuts, Goto, Order, Types, Workers, Inputs
      <3>7. Coming(c)'
        BY <3>1, <3>6, ComingKeeps
      <3> QED
        BY <1>4, <3>5, <3>7
    <2> QED
      BY <2>2, <2>3
  <1>9. CASE MuxerWrites \/ MuxerSkips
    <2>1. pc["muxer"] = "get" /\ pc'["muxer"] = "loop"
      BY <1>9 DEF MuxerWrites, MuxerSkips, Goto, Order, Types, Workers
    <2>2. PICK P \in SUBSET Nat, c \in Nat : Muxed("video", P, c) /\ Coming(c)
      BY <1>5, <2>1
    <2>3. ~ FilterPuts
      BY <2>1 DEF FilterPuts, Goto, Order, Types, Workers
    <2>4. Coming(c)' /\ "video" \in Media
      BY <2>2, <2>3, ComingKeeps DEF Media
    <2>5. CASE MuxerWrites \/ Head(muxerQ)[1] # "video"
      <3>1. Muxed("video", P, c)'
        BY <1>9, <2>2, <2>4, <2>5, EncodesInOrder, OtherMedium
      <3> QED
        BY <1>4, <2>4, <3>1
    <2>6. CASE MuxerSkips /\ Head(muxerQ)[1] = "video"
      <3>1. PICK k \in Nat : k = Head(muxerQ)[2] /\ k <= c /\ Muxed("video", P \ {k}, c)'
        BY <2>2, <2>4, <2>6, SkipsOne
      <3>2. P \ {k} \in SUBSET Nat
        OBVIOUS
      <3> QED
        BY <1>4, <2>4, <3>1, <3>2
    <2> QED
      BY <1>9, <2>5, <2>6
  <1> QED
    BY <1>6, <1>7, <1>8, <1>9, MuxerMoves

(***************************************************************************)
(* Video is dropped at either queue, by the filter or by the muxer, and    *)
(* yet what is written are captured frames, in order and none twice.       *)
(***************************************************************************)
THEOREM VideoAlwaysInOrder == Spec => []VideoInOrder
  <1>1. Init => Histories /\ Seen
    <2> SUFFICES ASSUME Init
                 PROVE  Histories /\ Seen
      OBVIOUS
    <2>1. Histories
      BY DEF Init, Histories, Media
    <2>2. /\ captured["main"] = 0 /\ pc["main"] = "idle" /\ pc["filter"] = "idle"
          /\ graph = <<>> /\ muxerQ = <<>> /\ filterQ = <<>> /\ written["video"] = <<>> /\ held["video"] = <<>>
      BY DEF Init, Inputs, VideoInputs, Workers, Media
    <2>3. Picked(<<>>, "video") = <<>> /\ Picked(<<>>, "main") = <<>> /\ InHand = <<>>
      BY <2>2 DEF Picked, InHand
    <2>4. Lists(<<>>, Nat, 0, 0) /\ Rises(<<>>, 0, 0)
      BY ListsNone, RisesNone
    <2>5. Muxed("video", Nat, 0) /\ Coming(0)
      BY <2>2, <2>3, <2>4 DEF Muxed, Coming
    <2>6. MuxesVideo
      BY <2>5 DEF MuxesVideo
    <2> QED
      BY <2>1, <2>2, <2>4, <2>6 DEF Seen
  <1>2. Data /\ Histories /\ Seen => VideoInOrder
    <2> SUFFICES ASSUME Data, Histories, Seen
                 PROVE  VideoInOrder
      OBVIOUS
    <2>1. PICK a \in Nat : a <= captured["main"] /\ Rises(written["video"], 0, a)
      BY DEF Seen
    <2>2. captured["main"] \in Nat /\ \A i \in DOMAIN written["video"] : written["video"][i] \in Nat
      BY DEF Data, Histories, Inputs, VideoInputs, Media
    <2> QED
      BY <2>1, <2>2, RisesWiden DEF VideoInOrder
  <1> QED
    BY <1>1, <1>2, InitOrder, InitData, NextInOrder, DataStep, HistoriesStep, VideoStep, PTL DEF Spec
=============================================================================
