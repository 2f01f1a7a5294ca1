------------------------------ MODULE Recorder ------------------------------
(***************************************************************************)
(* The recorder: two video inputs and one audio input (recorder/base.cc)   *)
(* that capture in a thread each, the thread of Filter (util/filter.cc)    *)
(* that lays one video over the other, the thread of Muxer (util/muxer.cc) *)
(* that encodes and writes, and main, which builds them all in the         *)
(* constructor of Context and destroys what was built.                     *)
(*                                                                         *)
(* Video goes from the inputs to Filter and on to Muxer, audio to Muxer    *)
(* alone.  A call of Queue<T> is one step, as MediaQueue shows; Submit is  *)
(* several, since it looks at is_alive_ and at the size before it puts.    *)
(*                                                                         *)
(* A frame is named by its number in its input, a video frame that leaves  *)
(* the filter by the number of the main input's frame under it.  The       *)
(* debugging renderer and speaker are off, as they are by default.         *)
(***************************************************************************)
EXTENDS Naturals, Sequences, FiniteSets, SequencesExt, Lists

CONSTANTS
    None,         \* no object
    MaxFrames,    \* bound: frames captured by the inputs together
    FilterLimit,  \* Filter::Submit drops above this size, 5 in the code
    MuxerLimit,   \* Muxer::Submit drops video above this size, 16 in the code
    Delay         \* frames each encoder holds back

VideoInputs == {"main", "minor"}
Inputs == VideoInputs \cup {"audio"}
Workers == Inputs \cup {"filter", "muxer"}
Media == {"video", "audio"}

ASSUME RecorderAssumption ==
    /\ None \notin Workers
    /\ MaxFrames \in Nat
    /\ {FilterLimit, MuxerLimit} \subseteq Nat
    /\ Delay \in [Media -> Nat]

VARIABLES
    pc,           \* where the thread of each worker is
    alive,        \* its is_alive_
    captured,     \* frames each input has captured
    filterQ,      \* Filter::input_queue_
    graph,        \* main frames inside the filter graph
    filtered,     \* the frame the filter's callback is called with
    muxerQ,       \* Muxer::queue_
    held,         \* frames inside each encoder
    written,      \* frames of each medium written to the output
    header,       \* the header was written
    trailer,      \* the trailer was written
    interrupted,  \* is_alive of main.cc is false
    built,        \* the workers whose constructor has returned
    threw,        \* a constructor threw an exception
    closing,      \* the worker whose destructor runs
    destroyed,    \* the workers that were destroyed
    skipped,      \* ghost: audio frames that could not be resampled
    failed        \* ghost: encoding or writing failed

capture == <<captured, filterQ>>
filtering == <<graph, filtered>>
muxing == <<held, written, header, trailer, skipped, failed>>
building == <<built, threw>>
ending == <<interrupted, closing, destroyed>>

vars == <<pc, alive, capture, filtering, muxerQ, muxing, building, ending>>

Goto(w, label) == pc' = [pc EXCEPT ![w] = label]

Init ==
    /\ pc = [w \in Workers |-> "idle"]
    /\ alive = [w \in Workers |-> FALSE]
    /\ captured = [i \in Inputs |-> 0]
    /\ filterQ = <<>>
    /\ graph = <<>>
    /\ filtered = 0
    /\ muxerQ = <<>>
    /\ held = [m \in Media |-> <<>>]
    /\ written = [m \in Media |-> <<>>]
    /\ header = FALSE
    /\ trailer = FALSE
    /\ built = {}
    /\ threw = FALSE
    /\ interrupted = FALSE
    /\ closing = None
    /\ destroyed = {}
    /\ skipped = {}
    /\ failed = FALSE

-----------------------------------------------------------------------------
(* Input::Decode, with the receivers Context gives the inputs *)

\* The loop of Input ends with is_alive_.  What follows the test, up to
\* Submit, is the input's own: each outcome of it is one step with the test.
InputEnds(i) ==
    /\ pc[i] = "loop"
    /\ ~ alive[i]
    /\ Goto(i, "done")
    /\ UNCHANGED <<alive, capture, filtering, muxerQ, muxing, building, ending>>

\* A packet is read and decoded, to the one frame a device's packet holds.
\* (EAGAIN, or a packet of another stream, changes nothing.)
InputCaptures(i) ==
    /\ pc[i] = "loop"
    /\ alive[i]
    /\ captured["main"] + captured["minor"] + captured["audio"] < MaxFrames
    /\ captured' = [captured EXCEPT ![i] = @ + 1]
    /\ Goto(i, "submit")
    /\ UNCHANGED <<alive, filterQ, filtering, muxerQ, muxing, building, ending>>

\* av_read_frame or the decoder fails; the scope guard clears is_alive_.
InputFails(i) ==
    /\ pc[i] = "loop"
    /\ alive[i]
    /\ alive' = [alive EXCEPT ![i] = FALSE]
    /\ Goto(i, "done")
    /\ UNCHANGED <<capture, filtering, muxerQ, muxing, building, ending>>

\* Submit looks at is_alive_ of the filter, or of the muxer for audio.
InputSubmits(i) ==
    /\ pc[i] = "submit"
    /\ IF i = "audio" THEN Goto(i, IF alive["muxer"] THEN "put" ELSE "loop")
       ELSE Goto(i, IF alive["filter"] THEN "size" ELSE "loop")
    /\ UNCHANGED <<alive, capture, filtering, muxerQ, muxing, building, ending>>

\* Mutant: video is queued whatever the size.
InputNeverDrops(i) ==
    /\ pc[i] = "size"
    /\ Goto(i, "put")
    /\ UNCHANGED <<alive, capture, filtering, muxerQ, muxing, building, ending>>

\* Filter::Submit drops a frame if the queue is long.
InputLooksAtSize(i) ==
    /\ pc[i] = "size"
    /\ Goto(i, IF Len(filterQ) > FilterLimit THEN "loop" ELSE "put")
    /\ UNCHANGED <<alive, capture, filtering, muxerQ, muxing, building, ending>>

InputPutsVideo(i) ==
    /\ i \in VideoInputs
    /\ pc[i] = "put"
    /\ filterQ' = Append(filterQ, <<i, captured[i]>>)
    /\ Goto(i, "loop")
    /\ UNCHANGED <<alive, captured, filtering, muxerQ, muxing, building, ending>>

\* Mutant: Muxer::Submit drops audio as it drops video.
InputPutsAudioIfShort ==
    /\ pc["audio"] = "put"
    /\ muxerQ' = IF Len(muxerQ) > MuxerLimit THEN muxerQ
                 ELSE Append(muxerQ, <<"audio", captured["audio"]>>)
    /\ Goto("audio", "loop")
    /\ UNCHANGED <<alive, capture, filtering, muxing, building, ending>>

\* Muxer::Submit never drops a frame without a width, which audio has not.
InputPutsAudio ==
    /\ pc["audio"] = "put"
    /\ muxerQ' = Append(muxerQ, <<"audio", captured["audio"]>>)
    /\ Goto("audio", "loop")
    /\ UNCHANGED <<alive, capture, filtering, muxing, building, ending>>

Input(i) ==
    \/ InputEnds(i)
    \/ InputCaptures(i)
    \/ InputFails(i)
    \/ InputSubmits(i)
    \/ InputLooksAtSize(i)
    \/ InputPutsVideo(i)
    \/ i = "audio" /\ InputPutsAudio

-----------------------------------------------------------------------------
(* The thread of Filter *)

\* A loop that ends because is_alive_ is false ends the thread.
FilterLoop ==
    /\ pc["filter"] = "loop"
    /\ Goto("filter", IF alive["filter"] THEN "get" ELSE "done")
    /\ UNCHANGED <<alive, capture, filtering, muxerQ, muxing, building, ending>>

FilterTimeout ==
    /\ pc["filter"] = "get"
    /\ filterQ = <<>>
    /\ Goto("filter", "loop")
    /\ UNCHANGED <<alive, capture, filtering, muxerQ, muxing, building, ending>>

\* A frame enters the graph; those of the minor input bear no number there.
FilterAdds ==
    /\ pc["filter"] = "get"
    /\ filterQ # <<>>
    /\ filterQ' = Tail(filterQ)
    /\ graph' = IF Head(filterQ)[1] = "main" THEN Append(graph, Head(filterQ)[2]) ELSE graph
    /\ Goto("filter", "sink")
    /\ UNCHANGED <<alive, captured, filtered, muxerQ, muxing, building, ending>>

\* The graph refuses a frame: the thread ends and is_alive_ stays true.
FilterAddFails ==
    /\ pc["filter"] = "get"
    /\ filterQ # <<>>
    /\ filterQ' = Tail(filterQ)
    /\ Goto("filter", "done")
    /\ UNCHANGED <<alive, captured, filtering, muxerQ, muxing, building, ending>>

\* Mutant: the sink is not emptied of the frame it gave.
FilterGivesAgain ==
    /\ pc["filter"] = "sink"
    /\ graph # <<>>
    /\ filtered' = Head(graph)
    /\ graph' \in {graph, Tail(graph)}
    /\ Goto("filter", IF alive["muxer"] THEN "size" ELSE "sink")
    /\ UNCHANGED <<alive, capture, muxerQ, muxing, building, ending>>

\* av_buffersink_get_frame gives a frame to the callback, whose Submit looks
\* at is_alive_ of the muxer.
FilterGives ==
    /\ pc["filter"] = "sink"
    /\ graph # <<>>
    /\ filtered' = IF alive["muxer"] THEN Head(graph) ELSE 0
    /\ graph' = Tail(graph)
    /\ Goto("filter", IF alive["muxer"] THEN "size" ELSE "sink")
    /\ UNCHANGED <<alive, capture, muxerQ, muxing, building, ending>>

\* Or EAGAIN: it waits for a frame of the other input.
FilterGivesNothing ==
    /\ pc["filter"] = "sink"
    /\ Goto("filter", "loop")
    /\ UNCHANGED <<alive, capture, filtering, muxerQ, muxing, building, ending>>

\* Or an error, which ends the outer loop through is_alive_.
FilterGiveFails ==
    /\ pc["filter"] = "sink"
    /\ alive' = [alive EXCEPT !["filter"] = FALSE]
    /\ Goto("filter", "loop")
    /\ UNCHANGED <<capture, filtering, muxerQ, muxing, building, ending>>

FilterLooksAtSize ==
    /\ pc["filter"] = "size"
    /\ Goto("filter", IF Len(muxerQ) > MuxerLimit THEN "sink" ELSE "put")
    /\ filtered' = IF Len(muxerQ) > MuxerLimit THEN 0 ELSE filtered
    /\ UNCHANGED <<alive, capture, graph, muxerQ, muxing, building, ending>>

FilterPuts ==
    /\ pc["filter"] = "put"
    /\ muxerQ' = Append(muxerQ, <<"video", filtered>>)
    /\ filtered' = 0
    /\ Goto("filter", "sink")
    /\ UNCHANGED <<alive, capture, graph, muxing, building, ending>>

Filter ==
    \/ FilterLoop
    \/ FilterTimeout
    \/ FilterAdds
    \/ FilterAddFails
    \/ FilterGives
    \/ FilterGivesNothing
    \/ FilterGiveFails
    \/ FilterLooksAtSize
    \/ FilterPuts

-----------------------------------------------------------------------------
(* The thread of Muxer *)

\* The thread returns; the scope guard clears is_alive_.
MuxerReturns ==
    /\ alive' = [alive EXCEPT !["muxer"] = FALSE]
    /\ Goto("muxer", "done")

MuxerWritesHeader ==
    /\ pc["muxer"] = "header"
    /\ header' = TRUE
    /\ Goto("muxer", "loop")
    /\ UNCHANGED <<alive, capture, filtering, muxerQ, held, written, trailer, skipped, failed, building, ending>>

MuxerHeaderFails ==
    /\ pc["muxer"] = "header"
    /\ failed' = TRUE
    /\ MuxerReturns
    /\ UNCHANGED <<capture, filtering, muxerQ, held, written, header, trailer, skipped, building, ending>>

\* Mutant: the thread returns from its loop.
MuxerLoopReturns ==
    /\ pc["muxer"] = "loop"
    /\ Goto("muxer", IF alive["muxer"] THEN "get" ELSE "done")
    /\ UNCHANGED <<alive, capture, filtering, muxerQ, muxing, building, ending>>

MuxerLoop ==
    /\ pc["muxer"] = "loop"
    /\ Goto("muxer", IF alive["muxer"] THEN "get" ELSE "trailer")
    /\ UNCHANGED <<alive, capture, filtering, muxerQ, muxing, building, ending>>

MuxerTimeout ==
    /\ pc["muxer"] = "get"
    /\ muxerQ = <<>>
    /\ Goto("muxer", "loop")
    /\ UNCHANGED <<alive, capture, filtering, muxerQ, muxing, building, ending>>

\* A frame is encoded; the encoder gives packets for what it holds beyond
\* Delay[m] frames, and they are written.  A packet counts as the frame that
\* was encoded first: the order of an encoder with B-frames is its own.
MuxerWrites ==
    /\ pc["muxer"] = "get"
    /\ muxerQ # <<>>
    /\ muxerQ' = Tail(muxerQ)
    /\ LET m == Head(muxerQ)[1]
           all == Append(held[m], Head(muxerQ)[2])
           given == Len(all) - Min({Delay[m], Len(all)})
       IN  /\ held' = [held EXCEPT ![m] = SubSeq(all, given + 1, Len(all))]
           /\ written' = [written EXCEPT ![m] = @ \o SubSeq(all, 1, given)]
    /\ Goto("muxer", "loop")
    /\ UNCHANGED <<alive, capture, filtering, header, trailer, skipped, failed, building, ending>>

\* The frame cannot be resampled or scaled.
MuxerSkips ==
    /\ pc["muxer"] = "get"
    /\ muxerQ # <<>>
    /\ muxerQ' = Tail(muxerQ)
    /\ skipped' = skipped \cup (IF Head(muxerQ)[1] = "audio" THEN {Head(muxerQ)[2]} ELSE {})
    /\ Goto("muxer", "loop")
    /\ UNCHANGED <<alive, capture, filtering, held, written, header, trailer, failed, building, ending>>

\* Encoding or writing fails: the thread returns, without a trailer.
MuxerFails ==
    /\ pc["muxer"] = "get"
    /\ muxerQ # <<>>
    /\ muxerQ' = Tail(muxerQ)
    /\ failed' = TRUE
    /\ MuxerReturns
    /\ UNCHANGED <<capture, filtering, held, written, header, trailer, skipped, building, ending>>

MuxerWritesTrailer ==
    /\ pc["muxer"] = "trailer"
    /\ trailer' = TRUE
    /\ MuxerReturns
    /\ UNCHANGED <<capture, filtering, muxerQ, held, written, header, skipped, failed, building, ending>>

Muxer ==
    \/ MuxerWritesHeader
    \/ MuxerHeaderFails
    \/ MuxerLoop
    \/ MuxerTimeout
    \/ MuxerWrites
    \/ MuxerSkips
    \/ MuxerFails
    \/ MuxerWritesTrailer

-----------------------------------------------------------------------------
(* The constructor of Context *)

BuildOrder == <<"main", "minor", "filter", "audio", "muxer">>

RunOrder == <<"main", "minor", "audio">>

AllBuilt == ToSet(BuildOrder) \subseteq built

\* w is the next to be constructed.
Building(w) ==
    /\ ~ threw
    /\ w \notin built
    /\ \E k \in DOMAIN BuildOrder :
        w = BuildOrder[k] /\ built = {BuildOrder[j] : j \in 1..(k - 1)}

Build(w, label) ==
    /\ Building(w)
    /\ built' = built \cup {w}
    /\ alive' = [alive EXCEPT ![w] = TRUE]
    /\ Goto(w, label)
    /\ UNCHANGED <<capture, filtering, muxerQ, muxing, threw, ending>>

Throw(w) ==
    /\ Building(w)
    /\ threw' = TRUE
    /\ UNCHANGED <<pc, alive, capture, filtering, muxerQ, muxing, built, ending>>

\* The device is opened; its thread does not run yet.
InputOpens(i) == i \in Inputs /\ Build(i, "idle")

\* No such device, stream or decoder.
InputThrows(i) == i \in Inputs /\ Throw(i)

\* The constructors of Filter and Muxer start their threads.
FilterStarts == Build("filter", "loop")
FilterThrows == Throw("filter")
MuxerStarts == Build("muxer", "header")
MuxerThrows == Throw("muxer")

\* Input::Run for one input after the other.
Run(i) ==
    /\ pc[i] = "idle"
    /\ AllBuilt
    /\ \E k \in DOMAIN RunOrder :
        i = RunOrder[k] /\ \A j \in 1..(k - 1) : pc[RunOrder[j]] # "idle"
    /\ Goto(i, "loop")
    /\ UNCHANGED <<alive, capture, filtering, muxerQ, muxing, building, ending>>

\* The constructor of Context has returned.
Started == AllBuilt /\ \A i \in Inputs : pc[i] # "idle"

-----------------------------------------------------------------------------
(* main and the destruction of Context *)

\* Context::IsAlive
IsAlive == alive["filter"] /\ \E i \in Inputs : alive[i]

\* Mutant: the members of Context in the opposite order.
DestroyedBeforeSwapped(w) ==
    CASE w = "audio" -> {}
      [] w \in VideoInputs -> {"audio"}
      [] w = "muxer" -> Inputs
      [] w = "filter" -> Inputs \cup {"muxer"}

\* The event loop has ended, or there is none.
Over == threw \/ (Started /\ (interrupted \/ ~ IsAlive))

\* The members of Context are destroyed in the opposite order of their
\* declarations: input_audios_, input_videos_, filter_, muxer_.
DestroyedBefore(w) ==
    CASE w = "audio" -> {}
      [] w \in VideoInputs -> {"audio"}
      [] w = "filter" -> Inputs
      [] w = "muxer" -> Inputs \cup {"filter"}

\* Mutant: the destructor waits and does not clear is_alive_.
DestroyWaitsOnly(w) ==
    /\ closing = None
    /\ w \in built \ destroyed
    /\ DestroyedBefore(w) \cap built \subseteq destroyed
    /\ Over
    /\ closing' = w
    /\ UNCHANGED <<pc, alive, capture, filtering, muxerQ, muxing, building, interrupted, destroyed>>

\* Each destructor clears is_alive_ and waits for its thread, if there is one.
Destroy(w) ==
    /\ closing = None
    /\ w \in built \ destroyed
    /\ DestroyedBefore(w) \cap built \subseteq destroyed
    /\ Over
    /\ closing' = w
    /\ alive' = [alive EXCEPT ![w] = FALSE]
    /\ UNCHANGED <<pc, capture, filtering, muxerQ, muxing, building, interrupted, destroyed>>

Joined(w) ==
    /\ closing = w
    /\ pc[w] \in {"done", "idle"}
    /\ closing' = None
    /\ destroyed' = destroyed \cup {w}
    /\ UNCHANGED <<pc, alive, capture, filtering, muxerQ, muxing, building, interrupted>>

Main ==
    \/ \E i \in Inputs : InputOpens(i) \/ InputThrows(i) \/ Run(i)
    \/ FilterStarts \/ FilterThrows
    \/ MuxerStarts \/ MuxerThrows
    \/ \E w \in Workers : Destroy(w) \/ Joined(w)

\* main returns.
Returned == Over /\ destroyed = built

\* SIGINT, once main has set a handler for it
Interrupt ==
    /\ Started
    /\ ~ interrupted
    /\ interrupted' = TRUE
    /\ UNCHANGED <<pc, alive, capture, filtering, muxerQ, muxing, building, closing, destroyed>>

Finished == Returned /\ UNCHANGED vars

Next ==
    \/ \E i \in Inputs : Input(i)
    \/ Filter
    \/ Muxer
    \/ Main
    \/ Interrupt
    \/ Finished

(***************************************************************************)
(* The scheduler lets every thread run, and the calls of FFmpeg return.    *)
(* The user need not do anything, and an input need not capture anything.  *)
(***************************************************************************)
Fairness ==
    /\ \A i \in Inputs : WF_vars(Input(i))
    /\ WF_vars(Filter)
    /\ WF_vars(Muxer)
    /\ WF_vars(Main)

Spec == Init /\ [][Next]_vars /\ Fairness

-----------------------------------------------------------------------------
(* Properties *)

(***************************************************************************)
(* Though Submit looks at the size and puts in two steps, the queue of the *)
(* filter passes its limit by one frame for each input at most, and video  *)
(* in the queue of the muxer by one: its only producer is the filter.  It  *)
(* holds beside a thread that has ended with is_alive_ still true.         *)
(***************************************************************************)
QueuesBounded ==
    /\ Len(filterQ) <= FilterLimit + Cardinality(VideoInputs)
    /\ Cardinality({k \in DOMAIN muxerQ : muxerQ[k][1] = "video"}) <= MuxerLimit + 1

(***************************************************************************)
(* No audio is lost before the end: what was written is, in order and      *)
(* without a gap, what was captured from the first frame on, but for       *)
(* frames that could not be resampled; and while the muxer lives, every    *)
(* frame the input is through with was written, is inside the encoder or   *)
(* waits in the queue.                                                     *)
(***************************************************************************)
AudioComplete ==
    LET kept == (1..captured["audio"]) \ skipped
        through == captured["audio"] - (IF pc["audio"] \in {"submit", "put"} THEN 1 ELSE 0)
    IN  /\ \E b \in 0..captured["audio"] : Lists(written["audio"], kept, 0, b)
        /\ alive["muxer"] =>
            \E a, b \in 0..through :
                /\ Lists(written["audio"], kept, 0, a)
                /\ Lists(held["audio"], kept, a, b)
                /\ Lists(Picked(muxerQ, "audio"), kept, b, through)

(***************************************************************************)
(* Video may be dropped on its way, at either queue, but no frame is       *)
(* encoded twice or after a later one.                                     *)
(***************************************************************************)
VideoInOrder == Rises(written["video"], 0, captured["main"])

(***************************************************************************)
(* A filter or a muxer is called only between its constructor, also when   *)
(* the next one throws, and its destructor, which begins after the threads *)
(* that call it have ended: no receiver of an input, and no callback of    *)
(* the filter, meets one that is not there.                                *)
(***************************************************************************)
Callee(w) == IF w \in VideoInputs THEN "filter" ELSE "muxer"

UsersGoFirst ==
    \A w \in Inputs \cup {"filter"} :
        /\ Callee(w) \notin built => pc[w] \notin {"submit", "size", "put"}
        /\ closing = Callee(w) \/ Callee(w) \in destroyed => pc[w] \in {"idle", "done"}

(***************************************************************************)
(* Unless encoding or writing failed, the output is finished with a        *)
(* trailer by the time main returns, however the recorder was ended.       *)
(***************************************************************************)
TrailerWritten == destroyed = Workers /\ ~ failed => header /\ trailer

(***************************************************************************)
(* Once a constructor throws, the user interrupts it, the filter fails or  *)
(* all inputs have ended, the recorder returns from main.                  *)
(***************************************************************************)
RecorderExits == Over ~> Returned
=============================================================================
