------------------------------- MODULE Player -------------------------------
(***************************************************************************)
(* The player: the threads of player/main.cc (reading, video decoding,     *)
(* audio decoding, main), the rendering thread of Renderer, the Speak      *)
(* thread of Speaker and the audio callback that SDL calls, from the first *)
(* packet to the return of main.                                           *)
(*                                                                         *)
(* The queues between the threads are Queue<T>; MediaQueue shows that one  *)
(* of its calls is one step of a FIFO, so here it is one step.  A timed    *)
(* call that finds the queue empty, or full, may time out at any moment.   *)
(*                                                                         *)
(* A packet, and the frame or the sample that is decoded from it, is       *)
(* named by its position in the input; 0 is the null packet.  quit_flag    *)
(* and is_alive_ are read and written in single steps.  What a thread does *)
(* between two accesses to shared state belongs to the step before it.     *)
(***************************************************************************)
EXTENDS Naturals, Sequences, FiniteSets, SequencesExt, Lists

CONSTANTS
    Packets,        \* the medium of each packet of the input
    Format,         \* the sample parameters of each audio packet
    Convertible,    \* those ConvertPlanarSampleToPacked can convert
    NoDevice,       \* audio_device_id_ = -1
    Delay,          \* frames a codec holds back until it is flushed
    RenderCapacity  \* capacity of Renderer::submit_queue_, 100 in the code

Media == {"video", "audio"}

ASSUME PlayerAssumption ==
    /\ Packets \in Seq(Media \cup {"other"})
    /\ \A k \in DOMAIN Packets : Packets[k] = "audio" => Format[k] # NoDevice
    /\ Delay \in Nat
    /\ RenderCapacity \in Nat \ {0}

VARIABLES
    pc,        \* where each thread is
    quit,      \* quit_flag
    pos,       \* the packet av_read_frame returns next
    packetQ,   \* video_packet_q_ and audio_packet_q_
    held,      \* frames inside the codec of each medium
    out,       \* decoded frames a decoding thread has still to submit
    renderer,  \* is_alive_, submit_queue_ and window_ of Renderer
    speaker,   \* is_alive_, the queues and the open device of Speaker
    sample,    \* the sample the Speak thread holds
    rendered,  \* ghost: frames shown, in order
    played,    \* ghost: samples handed to SDL, in order
    disturbed  \* ghost: the user quit, or something failed

input == <<pos, packetQ>>
decoding == <<held, out>>
showing == <<renderer, rendered>>
sounding == <<speaker, sample, played>>

vars == <<pc, quit, input, decoding, showing, sounding, disturbed>>

Threads == {"reader", "video", "audio", "render", "speak", "main"}

Goto(t, label) == pc' = [pc EXCEPT ![t] = label]

Init ==
    /\ pc = [t \in Threads |-> "loop"]
    /\ quit = FALSE
    /\ pos = 1
    /\ packetQ = [m \in Media |-> <<>>]
    /\ held = [m \in Media |-> <<>>]
    /\ out = [m \in Media |-> <<>>]
    /\ renderer = [alive |-> TRUE, queue |-> <<>>, window |-> TRUE]
    /\ speaker = [alive |-> TRUE, submitQ |-> <<>>, sampleQ |-> <<>>, device |-> NoDevice]
    /\ sample = 0
    /\ rendered = <<>>
    /\ played = <<>>
    /\ disturbed = FALSE

-----------------------------------------------------------------------------
(* read_func *)

ReaderLoop ==
    /\ pc["reader"] = "loop"
    /\ Goto("reader", IF quit THEN "endVideo" ELSE "read")
    /\ UNCHANGED <<quit, input, decoding, showing, sounding, disturbed>>

\* av_read_frame gives a packet, which goes to the queue of its medium.
ReadPacket ==
    /\ pc["reader"] = "read"
    /\ pos <= Len(Packets)
    /\ pos' = pos + 1
    /\ packetQ' = [m \in Media |-> IF Packets[pos] = m THEN Append(packetQ[m], pos)
                                   ELSE packetQ[m]]
    /\ Goto("reader", "loop")
    /\ UNCHANGED <<quit, decoding, showing, sounding, disturbed>>

\* av_read_frame fails, at the end of the input or before.
ReadFails ==
    /\ pc["reader"] = "read"
    /\ disturbed' = (disturbed \/ pos <= Len(Packets))
    /\ Goto("reader", "endVideo")
    /\ UNCHANGED <<quit, input, decoding, showing, sounding>>

\* The null packets after the loop.
PutNull(m, label, following) ==
    /\ pc["reader"] = label
    /\ packetQ' = [packetQ EXCEPT ![m] = Append(@, 0)]
    /\ Goto("reader", following)
    /\ UNCHANGED <<quit, pos, decoding, showing, sounding, disturbed>>

ReaderQuits ==
    /\ pc["reader"] = "setQuit"
    /\ quit' = TRUE
    /\ Goto("reader", "done")
    /\ UNCHANGED <<input, decoding, showing, sounding, disturbed>>

Reader ==
    \/ ReaderLoop
    \/ ReadPacket
    \/ ReadFails
    \/ PutNull("video", "endVideo", "endAudio")
    \/ PutNull("audio", "endAudio", "setQuit")
    \/ ReaderQuits

-----------------------------------------------------------------------------
(* decode_video_packet_func and decode_audio_packet_func *)

DecoderLoop(m) ==
    /\ pc[m] = "loop"
    /\ Goto(m, IF quit THEN "done" ELSE "get")
    /\ UNCHANGED <<quit, input, decoding, showing, sounding, disturbed>>

DecoderTimeout(m) ==
    /\ pc[m] = "get"
    /\ packetQ[m] = <<>>
    /\ Goto(m, "loop")
    /\ UNCHANGED <<quit, input, decoding, showing, sounding, disturbed>>

\* Packet2AVFrame: the codec gives what it holds beyond Delay frames, and
\* everything when the null packet flushes it.
Decode(m) ==
    /\ pc[m] = "get"
    /\ packetQ[m] # <<>>
    /\ packetQ' = [packetQ EXCEPT ![m] = Tail(@)]
    /\ LET k == Head(packetQ[m])
           all == IF k = 0 THEN held[m] ELSE Append(held[m], k)
           kept == IF k = 0 THEN 0 ELSE Min({Delay, Len(all)})
       IN  /\ out' = [out EXCEPT ![m] = SubSeq(all, 1, Len(all) - kept)]
           /\ held' = [held EXCEPT ![m] = SubSeq(all, Len(all) - kept + 1, Len(all))]
    /\ Goto(m, IF out'[m] = <<>> THEN "loop" ELSE "submit")
    /\ UNCHANGED <<quit, pos, showing, sounding, disturbed>>

\* The codec refuses a packet: the thread returns and tells nobody.
DecodeFails(m) ==
    /\ pc[m] = "get"
    /\ packetQ[m] # <<>> /\ Head(packetQ[m]) # 0
    /\ packetQ' = [packetQ EXCEPT ![m] = Tail(@)]
    /\ disturbed' = TRUE
    /\ Goto(m, "done")
    /\ UNCHANGED <<quit, pos, decoding, showing, sounding>>

\* The decoding thread is through with its first frame.
NextFrame(m) ==
    /\ out' = [out EXCEPT ![m] = Tail(@)]
    /\ Goto(m, IF Len(out[m]) = 1 THEN "loop" ELSE "submit")

\* Submit puts a frame only while the thread that takes it is alive, and a
\* sample only if it could be converted.
IsWanted(m, k) ==
    IF m = "video" THEN renderer.alive
    ELSE Format[k] \in Convertible /\ speaker.alive

Drop(m) ==
    /\ pc[m] = "submit"
    /\ ~ IsWanted(m, Head(out[m]))
    /\ NextFrame(m)
    /\ UNCHANGED <<quit, input, held, showing, sounding, disturbed>>

Submit(m) ==
    /\ pc[m] = "submit"
    /\ IsWanted(m, Head(out[m]))
    /\ Goto(m, "put")
    /\ UNCHANGED <<quit, input, decoding, showing, sounding, disturbed>>

\* TimedPut finds room in the queue.
PutFrame ==
    /\ pc["video"] = "put"
    /\ Len(renderer.queue) < RenderCapacity
    /\ renderer' = [renderer EXCEPT !.queue = Append(@, Head(out["video"]))]
    /\ NextFrame("video")
    /\ UNCHANGED <<quit, input, held, rendered, sounding, disturbed>>

\* TimedPut times out: Submit tries the same frame again.
PutFrameTimeout ==
    /\ pc["video"] = "put"
    /\ Len(renderer.queue) >= RenderCapacity
    /\ Goto("video", "submit")
    /\ UNCHANGED <<quit, input, decoding, showing, sounding, disturbed>>

\* Speaker::submit_queue_ has no limit.
PutSample ==
    /\ pc["audio"] = "put"
    /\ speaker' = [speaker EXCEPT !.submitQ = Append(@, Head(out["audio"]))]
    /\ NextFrame("audio")
    /\ UNCHANGED <<quit, input, held, showing, sample, played, disturbed>>

Decoder(m) ==
    \/ DecoderLoop(m)
    \/ DecoderTimeout(m)
    \/ Decode(m)
    \/ DecodeFails(m)
    \/ Drop(m)
    \/ Submit(m)
    \/ m = "video" /\ (PutFrame \/ PutFrameTimeout)
    \/ m = "audio" /\ PutSample

-----------------------------------------------------------------------------
(* Renderer::Render *)

\* A loop that ends leaves is_alive_ false.
RenderLoop ==
    /\ pc["render"] = "loop"
    /\ Goto("render", IF renderer.alive THEN "get" ELSE "done")
    /\ UNCHANGED <<quit, input, decoding, showing, sounding, disturbed>>

RenderTimeout ==
    /\ pc["render"] = "get"
    /\ renderer.queue = <<>>
    /\ Goto("render", "loop")
    /\ UNCHANGED <<quit, input, decoding, showing, sounding, disturbed>>

\* TimedGet gives a frame; it is converted, waits for its time and is shown.
Draw ==
    /\ pc["render"] = "get"
    /\ renderer.queue # <<>>
    /\ renderer' = [renderer EXCEPT !.queue = Tail(@)]
    /\ rendered' = Append(rendered, Head(renderer.queue))
    /\ Goto("render", "loop")
    /\ UNCHANGED <<quit, input, decoding, sounding, disturbed>>

\* Mutant: a frame that cannot be drawn is skipped.
DrawSkips ==
    /\ pc["render"] = "get"
    /\ renderer.queue # <<>>
    /\ renderer' = [renderer EXCEPT !.queue = Tail(@)]
    /\ disturbed' = TRUE
    /\ Goto("render", "loop")
    /\ UNCHANGED <<quit, input, decoding, rendered, sounding>>

\* ConvertToYUYV422 or ResetTexture fails: the thread ends.
DrawFails ==
    /\ pc["render"] = "get"
    /\ renderer.queue # <<>>
    /\ renderer' = [renderer EXCEPT !.queue = Tail(@), !.alive = FALSE]
    /\ disturbed' = TRUE
    /\ Goto("render", "done")
    /\ UNCHANGED <<quit, input, decoding, rendered, sounding>>

Render == RenderLoop \/ RenderTimeout \/ Draw \/ DrawFails

-----------------------------------------------------------------------------
(* Speaker::Speak and the audio callback *)

SpeakLoop ==
    /\ pc["speak"] = "loop"
    /\ Goto("speak", IF speaker.alive THEN "get" ELSE "done")
    /\ UNCHANGED <<quit, input, decoding, showing, sounding, disturbed>>

SpeakTimeout ==
    /\ pc["speak"] = "get"
    /\ speaker.submitQ = <<>>
    /\ Goto("speak", "loop")
    /\ UNCHANGED <<quit, input, decoding, showing, sounding, disturbed>>

\* Mutant: the samples for the device that was closed stay in the queue.
ReopenedUncleared(format) == [speaker EXCEPT !.device = format]

\* Speaker once ResetAudioDevice has opened a device for these parameters.
Reopened(format) == [speaker EXCEPT !.device = format, !.sampleQ = <<>>]

\* TimedGet gives a sample.  ResetAudioDevice leaves a device with its
\* parameters alone and replaces any other.
ResetAudioDevice ==
    /\ pc["speak"] = "get"
    /\ speaker.submitQ # <<>>
    /\ LET next == Head(speaker.submitQ)
           device == IF speaker.device = Format[next] THEN speaker ELSE Reopened(Format[next])
       IN  /\ sample' = next
           /\ speaker' = [device EXCEPT !.submitQ = Tail(@)]
    /\ Goto("speak", "put")
    /\ UNCHANGED <<quit, input, decoding, showing, played, disturbed>>

\* Mutant: the old device is closed only once the new one is open.
ResetFailsWithDevice ==
    /\ pc["speak"] = "get"
    /\ speaker.submitQ # <<>>
    /\ speaker.device # Format[Head(speaker.submitQ)]
    /\ speaker' = [speaker EXCEPT !.submitQ = Tail(@), !.alive = FALSE]
    /\ disturbed' = TRUE
    /\ Goto("speak", "done")
    /\ UNCHANGED <<quit, input, decoding, showing, sample, played>>

\* SDL_OpenAudioDevice fails after the old device was closed: the thread ends.
ResetFails ==
    /\ pc["speak"] = "get"
    /\ speaker.submitQ # <<>>
    /\ speaker.device # Format[Head(speaker.submitQ)]
    /\ speaker' = [speaker EXCEPT !.submitQ = Tail(@), !.device = NoDevice, !.alive = FALSE]
    /\ disturbed' = TRUE
    /\ Goto("speak", "done")
    /\ UNCHANGED <<quit, input, decoding, showing, sample, played>>

\* Mutant: the new sample takes the place of the one that waits.
SpeakPutLatest ==
    /\ pc["speak"] = "put"
    /\ speaker' = [speaker EXCEPT !.sampleQ = <<sample>>]
    /\ sample' = 0
    /\ Goto("speak", "loop")
    /\ UNCHANGED <<quit, input, decoding, showing, played, disturbed>>

\* sample_queue_ holds one sample; Put waits while it is there.
SpeakPut ==
    /\ pc["speak"] = "put"
    /\ speaker.sampleQ = <<>>
    /\ speaker' = [speaker EXCEPT !.sampleQ = <<sample>>]
    /\ sample' = 0
    /\ Goto("speak", "loop")
    /\ UNCHANGED <<quit, input, decoding, showing, played, disturbed>>

Speak ==
    \/ SpeakLoop
    \/ SpeakTimeout
    \/ ResetAudioDevice
    \/ ResetFails
    \/ SpeakPut

\* SDL calls SDLAudioDeviceCallback for as long as a device is open.
AudioCallback ==
    /\ speaker.device # NoDevice
    /\ speaker.sampleQ # <<>>
    /\ played' = Append(played, Head(speaker.sampleQ))
    /\ speaker' = [speaker EXCEPT !.sampleQ = Tail(@)]
    /\ UNCHANGED <<pc, quit, input, decoding, showing, sample, disturbed>>

-----------------------------------------------------------------------------
(* main, once the threads run *)

\* The checker of WaitSDLEventUntilCheckerReturnFalse returns false and main
\* sets quit_flag.  Until then a round of the loop changes nothing, whether
\* SDL_WaitEventTimeout gives an event or none.
MainQuits ==
    /\ pc["main"] = "loop"
    /\ quit \/ ~ renderer.alive \/ ~ speaker.alive
    /\ quit' = TRUE
    /\ Goto("main", "killSpeaker")
    /\ UNCHANGED <<input, decoding, showing, sounding, disturbed>>

\* Renderer::Kill up to its wait; after it, or if there is nothing to kill,
\* main goes on at following.
KillRenderer(waits, following) ==
    /\ Goto("main", IF renderer.alive THEN waits ELSE following)
    /\ renderer' = [renderer EXCEPT !.alive = FALSE]

\* Mutant: Kill destroys the window without waiting for the thread.
RendererJoinedAtOnce(waits, following) ==
    /\ pc["main"] = waits
    /\ renderer' = [renderer EXCEPT !.window = FALSE]
    /\ Goto("main", following)
    /\ UNCHANGED <<quit, input, decoding, rendered, sounding, disturbed>>

\* The rest of Renderer::Kill: the thread has ended, the window goes.
RendererJoined(waits, following) ==
    /\ pc["main"] = waits
    /\ pc["render"] = "done"
    /\ renderer' = [renderer EXCEPT !.window = FALSE]
    /\ Goto("main", following)
    /\ UNCHANGED <<quit, input, decoding, rendered, sounding, disturbed>>

\* The user closes the window: the event watch kills the renderer.  The last
\* test of the checker may be older than what it would find now.
CloseWindow ==
    /\ pc["main"] = "loop"
    /\ renderer.window
    /\ KillRenderer("closing", "loop")
    /\ disturbed' = TRUE
    /\ UNCHANGED <<quit, input, decoding, rendered, sounding>>

\* Mutant: Kill waits for the thread and does not end it.
KillSpeakerWaits ==
    /\ pc["main"] = "killSpeaker"
    /\ Goto("main", IF speaker.alive THEN "joinSpeak" ELSE "killRenderer")
    /\ UNCHANGED <<quit, input, decoding, showing, sounding, disturbed>>

KillSpeaker ==
    /\ pc["main"] = "killSpeaker"
    /\ Goto("main", IF speaker.alive THEN "joinSpeak" ELSE "killRenderer")
    /\ speaker' = [speaker EXCEPT !.alive = FALSE]
    /\ UNCHANGED <<quit, input, decoding, showing, sample, played, disturbed>>

SpeakerJoined ==
    /\ pc["main"] = "joinSpeak"
    /\ pc["speak"] = "done"
    /\ speaker' = [speaker EXCEPT !.device = NoDevice]
    /\ Goto("main", "killRenderer")
    /\ UNCHANGED <<quit, input, decoding, showing, sample, played, disturbed>>

MainKillsRenderer ==
    /\ pc["main"] = "killRenderer"
    /\ KillRenderer("joinRender", "join")
    /\ UNCHANGED <<quit, input, decoding, rendered, sounding, disturbed>>

\* main has waited for its three threads, and the destructors of Renderer
\* and Speaker for theirs.
MainReturns ==
    /\ pc["main"] = "join"
    /\ \A t \in Threads \ {"main"} : pc[t] = "done"
    /\ Goto("main", "done")
    /\ UNCHANGED <<quit, input, decoding, showing, sounding, disturbed>>

Main ==
    \/ RendererJoined("closing", "loop")
    \/ MainQuits
    \/ KillSpeaker
    \/ SpeakerJoined
    \/ MainKillsRenderer
    \/ RendererJoined("joinRender", "join")
    \/ MainReturns

\* SIGINT: signal_handler sets quit_flag.
Interrupt ==
    /\ ~ quit
    /\ quit' = TRUE
    /\ disturbed' = TRUE
    /\ UNCHANGED <<pc, input, decoding, showing, sounding>>

Finished == pc["main"] = "done" /\ UNCHANGED vars

Next ==
    \/ Reader
    \/ \E m \in Media : Decoder(m)
    \/ Render
    \/ Speak
    \/ AudioCallback
    \/ Main
    \/ CloseWindow
    \/ Interrupt
    \/ Finished

(***************************************************************************)
(* The scheduler lets every thread run, SDL goes on calling the audio      *)
(* callback while a device is open, and av_read_frame returns.  The user   *)
(* need not do anything.                                                   *)
(***************************************************************************)
Fairness ==
    /\ WF_vars(Reader)
    /\ \A m \in Media : WF_vars(Decoder(m))
    /\ WF_vars(Render)
    /\ WF_vars(Speak)
    /\ WF_vars(AudioCallback)
    /\ WF_vars(Main)

Spec == Init /\ [][Next]_vars /\ Fairness

-----------------------------------------------------------------------------
(* Properties *)

\* The packets of a medium, and those that become samples.
Of(m) == {k \in DOMAIN Packets : Packets[k] = m}

Samples == {k \in Of("audio") : Format[k] \in Convertible}

(***************************************************************************)
(* The frames are shown in the order of the input and none is left out in  *)
(* between, however full the renderer's queue is and whatever dies first.  *)
(***************************************************************************)
FramesInOrder == \E b \in 0..Len(Packets) : Lists(rendered, Of("video"), 0, b)

(***************************************************************************)
(* Every sample that waits for the audio callback has the parameters the   *)
(* open device was opened with: SDL never plays one format as another.     *)
(***************************************************************************)
SamplesFitDevice ==
    speaker.device # NoDevice =>
        \A i \in DOMAIN speaker.sampleQ : Format[speaker.sampleQ[i]] = speaker.device

\* The sample after k has other parameters.
BeforeReset(k) ==
    \E n \in Samples :
        /\ k < n /\ Format[k] # Format[n]
        /\ \A j \in Samples : j <= k \/ n <= j

(***************************************************************************)
(* Samples are played in the order of the input, and a convertible one is  *)
(* left out only right before the device is opened with other parameters.  *)
(***************************************************************************)
SamplesLostAtResetOnly ==
    \E lost \in SUBSET {k \in Samples : BeforeReset(k)}, b \in 0..Len(Packets) :
        Lists(played, Samples \ lost, 0, b)

(***************************************************************************)
(* The window and its SDL_Renderer are destroyed only once the thread that *)
(* draws into them has ended.                                              *)
(***************************************************************************)
WindowOutlivesRendering == ~ renderer.window => pc["render"] = "done"

(***************************************************************************)
(* When main returns no audio device is open, whether Kill closed it or    *)
(* the Speak thread had ended by itself, in which case Kill does nothing.  *)
(***************************************************************************)
DeviceClosedAtEnd == pc["main"] = "done" => speaker.device = NoDevice

(***************************************************************************)
(* Once the user quits, the input ends, or the renderer or the speaker     *)
(* dies, main returns: no thread is left in a loop or at a full queue.     *)
(***************************************************************************)
PlayerExits == (quit \/ ~ renderer.alive \/ ~ speaker.alive) ~> pc["main"] = "done"

(***************************************************************************)
(* README.md says that the player plays a local file: if nobody quits and  *)
(* nothing fails, every frame of the input has been shown when it returns. *)
(***************************************************************************)
FilePlayedToEnd == pc["main"] = "done" /\ ~ disturbed => Lists(rendered, Of("video"), 0, Len(Packets))
=============================================================================
