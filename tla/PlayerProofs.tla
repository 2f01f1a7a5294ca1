---------------------------- MODULE PlayerProofs ----------------------------
(***************************************************************************)
(* For any input, any delay of the codecs and any capacity of the          *)
(* renderer's queue: the window outlives the thread that draws, a sample   *)
(* is played only by a device opened for it, and no device is left open;   *)
(* frames are shown and samples played in order, and only those are left   *)
(* out that a failure, the end or a change of parameters costs.            *)
(*                                                                         *)
(* Main's Kill does nothing to a speaker that is dead already.  That this  *)
(* is right needs an argument over three threads (Closing): before main    *)
(* gets there, only the Speak thread can have cleared is_alive_, and then  *)
(* it has closed its device and ended; afterwards nobody opens one.        *)
(*                                                                         *)
(* Order follows from where each packet of a medium is (Order): each stage *)
(* from the input to the screen or the device lists the packets between    *)
(* two positions, and where one stage ends the one behind it begins        *)
(* (Lists).  A stage whose thread has ended is bound to nothing more.      *)
(***************************************************************************)
EXTENDS Player, AVSync, ListsProofs

Labels ==
    {"loop", "read", "endVideo", "endAudio", "setQuit", "get", "submit", "put", "done", "closing",
     "killSpeaker", "joinSpeak", "killRenderer", "joinRender", "join"}

Devices == {NoDevice} \cup {Format[k] : k \in Of("audio")}

\* Each packet goes the way of its medium.
Types ==
    /\ pc \in [Threads -> Labels]
    /\ pos \in Nat \ {0}
    /\ packetQ \in [Media -> Seq(Nat)]
    /\ \A m \in Media : packetQ[m] \in Seq(Of(m) \cup {0})
    /\ held \in [Media -> Seq(Nat)]
    /\ \A m \in Media : held[m] \in Seq(Of(m))
    /\ out \in [Media -> Seq(Nat)]
    /\ \A m \in Media : out[m] \in Seq(Of(m))
    /\ renderer \in [alive : BOOLEAN, queue : Seq(Of("video")), window : BOOLEAN]
    /\ speaker \in [alive : BOOLEAN, submitQ : Seq(Of("audio")), sampleQ : Seq(Of("audio")), device : Devices]
    /\ sample \in Of("audio") \cup {0}

\* A decoding thread at its submission has a frame to submit.
HasFrame == \A m \in Media : pc[m] \in {"submit", "put"} => out[m] # <<>>

\* The Speak thread puts a sample only for the device that is open.
Fitting ==
    /\ pc["speak"] = "put" => sample \in Of("audio") /\ speaker.device = Format[sample]
    /\ SamplesFitDevice

\* Who has ended, and closed the device, by the time main is where it is.
Closing ==
    /\ pc["main"] \in {"loop", "closing", "killSpeaker"} /\ ~ speaker.alive =>
        pc["speak"] = "done" /\ speaker.device = NoDevice
    /\ pc["main"] \in {"killRenderer", "joinRender", "join", "done"} =>
        pc["speak"] = "done" /\ speaker.device = NoDevice

Invariant == Types /\ HasFrame /\ Fitting /\ Closing /\ WindowOutlivesRendering

\* The smaller of two numbers is one of them and no larger than the second.
LEMMA MinOfTwo ==
    ASSUME NEW a \in Nat, NEW b \in Nat
    PROVE  Min({a, b}) \in {a, b} /\ Min({a, b}) <= b
  <1>1. CASE a <= b
    <2>1. a \in {a, b} /\ \A y \in {a, b} : a <= y
      BY <1>1
    <2> QED
      BY <2>1 DEF Min
  <1>2. CASE ~ (a <= b)
    <2>1. b \in {a, b} /\ \A y \in {a, b} : b <= y
      BY <1>2
    <2> QED
      BY <2>1 DEF Min
  <1> QED
    BY <1>1, <1>2

-----------------------------------------------------------------------------
\* Packets are numbered from 1, and their format is no missing device.
LEMMA PacketsOf ==
    /\ \A m \in Media : Of(m) \subseteq Nat \ {0}
    /\ \A k \in Of("audio") : Format[k] \in Devices /\ Format[k] # NoDevice
    /\ \A k \in Nat \ {0} : k <= Len(Packets) => k \in DOMAIN Packets
  <1>1. DOMAIN Packets = 1..Len(Packets) /\ Len(Packets) \in Nat
    BY PlayerAssumption DEF PlayerAssumption
  <1> QED
    BY <1>1, PlayerAssumption DEF PlayerAssumption, Of, Devices

\* At the start all queues are empty and no device is open.
LEMMA InitInvariant == Init => Invariant
  <1> SUFFICES ASSUME Init PROVE Invariant
    OBVIOUS
  <1>1. Types
    BY DEF Init, Types, Labels, Threads, Media, Devices
  <1>2. HasFrame /\ Fitting /\ Closing /\ WindowOutlivesRendering
    BY DEF Init, HasFrame, Fitting, SamplesFitDevice, Closing, WindowOutlivesRendering, Threads, Media
  <1> QED
    BY <1>1, <1>2 DEF Invariant

-----------------------------------------------------------------------------
\* The reading thread: a packet goes to the queue of its medium.
LEMMA ReaderKeeps ==
    ASSUME Invariant, Reader
    PROVE  Invariant'
  <1> USE DEF Invariant, Types, Goto, decoding, showing, sounding, Threads
  <1>1. UNCHANGED <<held, out, renderer, speaker, sample>>
    BY DEF Reader, ReaderLoop, ReadPacket, ReadFails, PutNull, ReaderQuits
  <1>2. /\ pc' \in [Threads -> Labels]
        /\ \A t \in Threads \ {"reader"} : pc'[t] = pc[t]
    BY DEF Reader, ReaderLoop, ReadPacket, ReadFails, PutNull, ReaderQuits, Labels
  <1>3. /\ pos' \in Nat \ {0}
        /\ packetQ' \in [Media -> Seq(Nat)]
        /\ \A m \in Media : packetQ'[m] \in Seq(Of(m) \cup {0})
    <2>1. CASE ReadPacket
      <3>1. pos \in DOMAIN Packets /\ pos' \in Nat \ {0} /\ pos \in Nat
        BY <2>1, PacketsOf DEF ReadPacket
      <3>2. \A m \in Media : Packets[pos] = m => pos \in Of(m)
        BY <3>1 DEF Of
      <3>3. packetQ' = [m \in Media |-> IF Packets[pos] = m THEN Append(packetQ[m], pos) ELSE packetQ[m]]
        BY <2>1 DEF ReadPacket
      <3>4. \A m \in Media : packetQ'[m] \in Seq(Nat)
        BY <3>1, <3>3
      <3>5. \A m \in Media : packetQ'[m] \in Seq(Of(m) \cup {0})
        BY <3>2, <3>3
      <3> QED
        BY <3>1, <3>3, <3>4, <3>5
    <2>2. ASSUME NEW n \in Media, NEW l, NEW f, PutNull(n, l, f)
          PROVE  /\ pos' \in Nat \ {0}
                 /\ packetQ' \in [Media -> Seq(Nat)]
                 /\ \A m \in Media : packetQ'[m] \in Seq(Of(m) \cup {0})
      <3>1. pos' = pos /\ packetQ' = [packetQ EXCEPT ![n] = Append(@, 0)]
        BY <2>2 DEF PutNull
      <3>2. \A m \in Media : Append(packetQ[m], 0) \in Seq(Nat)
        OBVIOUS
      <3>3. \A m \in Media : Append(packetQ[m], 0) \in Seq(Of(m) \cup {0})
        OBVIOUS
      <3> QED
        BY <3>1, <3>2, <3>3
    <2>3. CASE ReaderLoop \/ ReadFails \/ ReaderQuits
      BY <2>3 DEF ReaderLoop, ReadFails, ReaderQuits, input
    <2> QED
      BY <2>1, <2>2, <2>3 DEF Reader, Media
  <1>4. Types'
    BY <1>1, <1>2, <1>3
  <1>5. (HasFrame /\ Fitting /\ Closing /\ WindowOutlivesRendering)'
    BY <1>1, <1>2 DEF HasFrame, Fitting, SamplesFitDevice, Closing, WindowOutlivesRendering, Media
  <1> QED
    BY <1>4, <1>5

\* What the codec gives and what it keeps are packets of the medium.
LEMMA DecodeGives ==
    ASSUME Types, NEW m \in Media, Decode(m)
    PROVE  /\ packetQ' \in [Media -> Seq(Nat)]
           /\ \A n \in Media : packetQ'[n] \in Seq(Of(n) \cup {0})
           /\ held' \in [Media -> Seq(Nat)]
           /\ \A n \in Media : held'[n] \in Seq(Of(n))
           /\ out' \in [Media -> Seq(Nat)]
           /\ \A n \in Media : out'[n] \in Seq(Of(n))
           /\ \A n \in Media \ {m} : out'[n] = out[n]
  <1> DEFINE k == Head(packetQ[m])
             all == IF k = 0 THEN held[m] ELSE Append(held[m], k)
             kept == IF k = 0 THEN 0 ELSE Min({Delay, Len(all)})
  <1>1. /\ packetQ[m] # <<>>
        /\ packetQ' = [packetQ EXCEPT ![m] = Tail(@)]
        /\ out' = [out EXCEPT ![m] = SubSeq(all, 1, Len(all) - kept)]
        /\ held' = [held EXCEPT ![m] = SubSeq(all, Len(all) - kept + 1, Len(all))]
    BY DEF Decode
  <1>2. k \in Of(m) \cup {0}
    <2> DEFINE S == Of(m) \cup {0}
    <2>1. packetQ[m] \in Seq(S)
      BY DEF Types
    <2> HIDE DEF S
    <2>2. Head(packetQ[m]) \in S
      BY <1>1, <2>1
    <2> QED
      BY <2>2 DEF S
  <1>3. all \in Seq(Of(m))
    BY <1>2 DEF Types
  <1>4. kept \in Nat /\ kept <= Len(all)
    <2>1. Len(all) \in Nat
      BY <1>3
    <2>2. Min({Delay, Len(all)}) \in {Delay, Len(all)} /\ Min({Delay, Len(all)}) <= Len(all)
      BY <2>1, MinOfTwo, PlayerAssumption DEF PlayerAssumption
    <2>3. Delay \in Nat
      BY PlayerAssumption DEF PlayerAssumption
    <2> DEFINE less == Min({Delay, Len(all)})
    <2>4. less \in Nat /\ less <= Len(all)
      BY <2>1, <2>2, <2>3
    <2>5. kept = 0 \/ kept = less
      OBVIOUS
    <2> HIDE DEF less, kept, all
    <2> QED
      BY <2>1, <2>4, <2>5
  <1> HIDE DEF k, all, kept
  <1>5. /\ SubSeq(all, 1, Len(all) - kept) \in Seq(Of(m))
        /\ SubSeq(all, Len(all) - kept + 1, Len(all)) \in Seq(Of(m))
    BY <1>3, <1>4
  <1>6. Of(m) \subseteq Nat
    BY PacketsOf
  <1>7. \A q : q \in Seq(Of(m)) => q \in Seq(Nat)
    BY <1>6
  <1>8. Tail(packetQ[m]) \in Seq(Nat) /\ Tail(packetQ[m]) \in Seq(Of(m) \cup {0})
    BY <1>1 DEF Types
  <1> QED
    BY <1>1, <1>5, <1>7, <1>8 DEF Types

\* The first frame is dealt with; what is left are frames still.
LEMMA NextFrameKeeps ==
    ASSUME Types, HasFrame, NEW m \in Media, pc[m] \in {"submit", "put"}, NextFrame(m)
    PROVE  /\ Head(out[m]) \in Of(m)
           /\ out' \in [Media -> Seq(Nat)]
           /\ \A n \in Media : out'[n] \in Seq(Of(n))
           /\ pc' \in [Threads -> Labels]
           /\ \A t \in Threads \ {m} : pc'[t] = pc[t]
           /\ HasFrame'
  <1>1. out[m] # <<>> /\ out[m] \in Seq(Of(m)) /\ out[m] \in Seq(Nat)
    BY DEF HasFrame, Types
  <1>2. Head(out[m]) \in Of(m) /\ Tail(out[m]) \in Seq(Of(m)) /\ Tail(out[m]) \in Seq(Nat)
    BY <1>1
  <1>3. Len(out[m]) # 1 => Tail(out[m]) # <<>>
    <2>1. Len(out[m]) \in Nat /\ Len(Tail(out[m])) = Len(out[m]) - 1
      BY <1>1
    <2>2. \A q \in Seq(Nat) : q = <<>> => Len(q) = 0
      OBVIOUS
    <2>3. Tail(out[m]) = <<>> => Len(Tail(out[m])) = 0
      BY <1>2, <2>2
    <2> QED
      BY <2>1, <2>3
  <1>4. /\ out' = [out EXCEPT ![m] = Tail(@)]
        /\ pc' = [pc EXCEPT ![m] = IF Len(out[m]) = 1 THEN "loop" ELSE "submit"]
    BY DEF NextFrame, Goto
  <1>5. m \in Threads
    BY DEF Threads, Media
  <1>6. out' \in [Media -> Seq(Nat)] /\ \A n \in Media : out'[n] \in Seq(Of(n))
    BY <1>2, <1>4 DEF Types
  <1>7. pc' \in [Threads -> Labels] /\ \A t \in Threads \ {m} : pc'[t] = pc[t]
    BY <1>4, <1>5 DEF Types, Labels
  <1>8. HasFrame'
    BY <1>3, <1>4, <1>5 DEF HasFrame, Types, Threads, Media
  <1> QED
    BY <1>2, <1>6, <1>7, <1>8

\* A decoding thread disturbs neither main nor the two threads it feeds.
LEMMA DecoderKeeps ==
    ASSUME Invariant, NEW m \in Media, Decoder(m)
    PROVE  Invariant'
  <1>1. m \in Threads /\ m \notin {"reader", "render", "speak", "main"}
    BY DEF Threads, Media
  <1>2. ASSUME UNCHANGED <<speaker, sample, renderer>>,
               pc' \in [Threads -> Labels], \A t \in Threads \ {m} : pc'[t] = pc[t]
        PROVE  (Fitting /\ Closing /\ WindowOutlivesRendering)'
    BY <1>1, <1>2
       DEF Invariant, Fitting, SamplesFitDevice, Closing, WindowOutlivesRendering, Threads
  <1>3. CASE DecoderLoop(m) \/ DecoderTimeout(m)
    <2>1. /\ UNCHANGED <<pos, packetQ, held, out, renderer, speaker, sample>>
          /\ pc' \in [Threads -> Labels] /\ \A t \in Threads \ {m} : pc'[t] = pc[t]
          /\ pc'[m] \in {"loop", "get", "done"}
      <3>1. pc \in [Threads -> Labels] /\ {"loop", "get", "done"} \subseteq Labels
        BY DEF Invariant, Types, Labels
      <3>2. CASE DecoderLoop(m)
        BY <1>1, <3>1, <3>2 DEF DecoderLoop, Goto, input, decoding, showing, sounding
      <3>3. CASE DecoderTimeout(m)
        BY <1>1, <3>1, <3>3 DEF DecoderTimeout, Goto, input, decoding, showing, sounding
      <3> QED
        BY <1>3, <3>2, <3>3
    <2>2. Types'
      BY <2>1 DEF Invariant, Types
    <2>3. HasFrame'
      BY <1>1, <2>1 DEF Invariant, HasFrame, Media, Threads
    <2> QED
      BY <1>2, <2>1, <2>2, <2>3 DEF Invariant
  <1>4. CASE Decode(m)
    <2>1. /\ UNCHANGED <<pos, renderer, speaker, sample>>
          /\ pc' \in [Threads -> Labels] /\ \A t \in Threads \ {m} : pc'[t] = pc[t]
          /\ pc'[m] \in {"submit", "put"} => out'[m] # <<>>
      BY <1>1, <1>4 DEF Decode, Goto, Invariant, Types, Labels, showing, sounding
    <2>2. Types'
      BY <1>4, <2>1, DecodeGives DEF Invariant, Types
    <2>3. HasFrame'
      BY <1>1, <1>4, <2>1, DecodeGives DEF Invariant, HasFrame, Media, Threads
    <2> QED
      BY <1>2, <2>1, <2>2, <2>3 DEF Invariant
  <1>5. CASE DecodeFails(m)
    <2>1. /\ UNCHANGED <<pos, held, out, renderer, speaker, sample>>
          /\ pc' \in [Threads -> Labels] /\ \A t \in Threads \ {m} : pc'[t] = pc[t]
          /\ pc'[m] = "done"
      BY <1>1, <1>5 DEF DecodeFails, Goto, Invariant, Types, Labels, decoding, showing, sounding
    <2>2. packetQ' = [packetQ EXCEPT ![m] = Tail(@)] /\ packetQ[m] # <<>>
      BY <1>5 DEF DecodeFails
    <2>3. Tail(packetQ[m]) \in Seq(Nat) /\ Tail(packetQ[m]) \in Seq(Of(m) \cup {0})
      BY <2>2 DEF Invariant, Types
    <2>4. Types'
      BY <2>1, <2>2, <2>3 DEF Invariant, Types
    <2>5. HasFrame'
      BY <1>1, <2>1 DEF Invariant, HasFrame, Media, Threads
    <2> QED
      BY <1>2, <2>1, <2>4, <2>5 DEF Invariant
  <1>6. CASE Drop(m)
    <2>1. UNCHANGED <<pos, packetQ, held, renderer, speaker, sample>> /\ pc[m] = "submit" /\ NextFrame(m)
      BY <1>6 DEF Drop, input, showing, sounding
    <2>2. Types' /\ HasFrame'
      BY <2>1, NextFrameKeeps DEF Invariant, Types
    <2> QED
      BY <1>2, <2>1, <2>2, NextFrameKeeps DEF Invariant
  <1>7. CASE Submit(m) \/ (m = "video" /\ PutFrameTimeout)
    <2>1. /\ UNCHANGED <<pos, packetQ, held, out, renderer, speaker, sample>>
          /\ pc' \in [Threads -> Labels] /\ \A t \in Threads \ {m} : pc'[t] = pc[t]
          /\ pc[m] \in {"submit", "put"}
      <3>1. pc \in [Threads -> Labels] /\ {"submit", "put"} \subseteq Labels
        BY DEF Invariant, Types, Labels
      <3>2. CASE Submit(m)
        BY <1>1, <3>1, <3>2 DEF Submit, Goto, input, decoding, showing, sounding
      <3>3. CASE m = "video" /\ PutFrameTimeout
        BY <1>1, <3>1, <3>3 DEF PutFrameTimeout, Goto, input, decoding, showing, sounding
      <3> QED
        BY <1>7, <3>2, <3>3
    <2>2. Types'
      BY <2>1 DEF Invariant, Types
    <2>3. HasFrame'
      BY <1>1, <2>1 DEF Invariant, HasFrame, Media, Threads
    <2> QED
      BY <1>2, <2>1, <2>2, <2>3 DEF Invariant
  <1>8. CASE m = "video" /\ PutFrame
    <2>1. /\ UNCHANGED <<pos, packetQ, held, speaker, sample>>
          /\ renderer' = [renderer EXCEPT !.queue = Append(@, Head(out["video"]))]
          /\ pc["video"] = "put" /\ NextFrame("video")
      BY <1>8 DEF PutFrame, input, sounding
    <2>2. Head(out["video"]) \in Of("video")
      BY <1>8, <2>1, NextFrameKeeps DEF Invariant
    <2>3. renderer' \in [alive : BOOLEAN, queue : Seq(Of("video")), window : BOOLEAN]
      <3>1. renderer.queue \in Seq(Of("video"))
        BY DEF Invariant, Types
      <3>2. Append(renderer.queue, Head(out["video"])) \in Seq(Of("video"))
        BY <2>2, <3>1
      <3> QED
        BY <2>1, <3>2 DEF Invariant, Types
    <2>4. Types' /\ HasFrame'
      BY <1>8, <2>1, <2>3, NextFrameKeeps DEF Invariant, Types
    <2>5. renderer'.window = renderer.window
      BY <2>1 DEF Invariant, Types
    <2>6. \A t \in {"render", "speak", "main"} : pc'[t] = pc[t]
      BY <1>8, <2>1, NextFrameKeeps DEF Invariant, Threads
    <2>7. (Fitting /\ Closing /\ WindowOutlivesRendering)'
      BY <2>1, <2>5, <2>6 DEF Invariant, Fitting, SamplesFitDevice, Closing, WindowOutlivesRendering
    <2> QED
      BY <2>4, <2>7 DEF Invariant
  <1>9. CASE m = "audio" /\ PutSample
    <2>1. /\ UNCHANGED <<pos, packetQ, held, renderer, sample>>
          /\ speaker' = [speaker EXCEPT !.submitQ = Append(@, Head(out["audio"]))]
          /\ pc["audio"] = "put" /\ NextFrame("audio")
      BY <1>9 DEF PutSample, input, showing
    <2>2. Head(out["audio"]) \in Of("audio")
      BY <1>9, <2>1, NextFrameKeeps DEF Invariant
    <2>3. speaker' \in [alive : BOOLEAN, submitQ : Seq(Of("audio")), sampleQ : Seq(Of("audio")), device : Devices]
      <3>1. speaker.submitQ \in Seq(Of("audio"))
        BY DEF Invariant, Types
      <3>2. Append(speaker.submitQ, Head(out["audio"])) \in Seq(Of("audio"))
        BY <2>2, <3>1
      <3> QED
        BY <2>1, <3>2 DEF Invariant, Types
    <2>4. Types' /\ HasFrame'
      BY <1>9, <2>1, <2>3, NextFrameKeeps DEF Invariant, Types
    <2>5. /\ speaker'.alive = speaker.alive
          /\ speaker'.device = speaker.device
          /\ speaker'.sampleQ = speaker.sampleQ
      BY <2>1 DEF Invariant, Types
    <2>6. \A t \in {"render", "speak", "main"} : pc'[t] = pc[t]
      BY <1>9, <2>1, NextFrameKeeps DEF Invariant, Threads
    <2>7. (Fitting /\ Closing /\ WindowOutlivesRendering)'
      BY <2>1, <2>5, <2>6 DEF Invariant, Fitting, SamplesFitDevice, Closing, WindowOutlivesRendering
    <2> QED
      BY <2>4, <2>7 DEF Invariant
  <1> QED
    BY <1>3, <1>4, <1>5, <1>6, <1>7, <1>8, <1>9 DEF Decoder

\* What the other actors leave alone.
Apart ==
    /\ UNCHANGED <<pos, packetQ, held, out>>
    /\ pc' \in [Threads -> Labels]
    /\ \A m \in Media : pc'[m] = pc[m]

LEMMA ApartKeeps ==
    ASSUME Types, HasFrame, Apart,
           renderer' \in [alive : BOOLEAN, queue : Seq(Of("video")), window : BOOLEAN],
           speaker' \in [alive : BOOLEAN, submitQ : Seq(Of("audio")), sampleQ : Seq(Of("audio")), device : Devices],
           sample' \in Of("audio") \cup {0}
    PROVE  Types' /\ HasFrame'
  <1>1. Types'
    BY DEF Types, Apart
  <1>2. HasFrame'
    BY DEF HasFrame, Apart
  <1> QED
    BY <1>1, <1>2

\* The rendering thread, once it has ended, does not begin again.
LEMMA RenderKeeps ==
    ASSUME Invariant, Render
    PROVE  Invariant'
  <1>1. Apart /\ \A t \in {"speak", "main"} : pc'[t] = pc[t]
    BY SMTT(40) DEF Render, RenderLoop, RenderTimeout, Draw, DrawFails, Goto, Apart, Invariant, Types, Labels,
           Threads, Media, input, decoding
  <1>2. UNCHANGED <<speaker, sample>> /\ pc["render"] # "done"
    BY DEF Render, RenderLoop, RenderTimeout, Draw, DrawFails, sounding
  <1>3. /\ renderer' \in [alive : BOOLEAN, queue : Seq(Of("video")), window : BOOLEAN]
        /\ renderer'.window = renderer.window
    <2>1. CASE RenderLoop \/ RenderTimeout
      BY <2>1 DEF RenderLoop, RenderTimeout, showing, Invariant, Types
    <2>2. CASE Draw \/ DrawFails
      <3>1. renderer.queue \in Seq(Of("video")) /\ renderer.queue # <<>>
        BY <2>2 DEF Draw, DrawFails, Invariant, Types
      <3>2. Tail(renderer.queue) \in Seq(Of("video"))
        BY <3>1
      <3> QED
        BY <2>2, <3>2 DEF Draw, DrawFails, Invariant, Types
    <2> QED
      BY <2>1, <2>2 DEF Render
  <1>4. Types' /\ HasFrame'
    BY <1>1, <1>2, <1>3, ApartKeeps DEF Invariant, Types
  <1>5. (Fitting /\ Closing /\ WindowOutlivesRendering)'
    BY <1>1, <1>2, <1>3 DEF Invariant, Fitting, SamplesFitDevice, Closing, WindowOutlivesRendering
  <1> QED
    BY <1>4, <1>5 DEF Invariant

\* The Speak thread: a sample it holds is for the device it left open, and
\* when it ends by itself it leaves none.
LEMMA SpeakKeeps ==
    ASSUME Invariant, Speak
    PROVE  Invariant'
  <1>1. Apart /\ \A t \in {"render", "main"} : pc'[t] = pc[t]
    BY DEF Speak, SpeakLoop, SpeakTimeout, ResetAudioDevice, ResetFails, SpeakPut, Goto, Apart, Invariant,
           Types, Labels, Threads, Media, input, decoding
  <1>2. UNCHANGED renderer /\ pc["speak"] # "done"
    BY DEF Speak, SpeakLoop, SpeakTimeout, ResetAudioDevice, ResetFails, SpeakPut, showing
  <1>3. /\ speaker \in [alive : BOOLEAN, submitQ : Seq(Of("audio")), sampleQ : Seq(Of("audio")), device : Devices]
        /\ pc \in [Threads -> Labels] /\ "speak" \in Threads
    BY DEF Invariant, Types, Threads
  <1>4. /\ speaker' \in [alive : BOOLEAN, submitQ : Seq(Of("audio")), sampleQ : Seq(Of("audio")), device : Devices]
        /\ sample' \in Of("audio") \cup {0}
        /\ Fitting'
        /\ speaker'.alive = speaker.alive \/ (pc'["speak"] = "done" /\ speaker'.device = NoDevice)
    <2>1. CASE SpeakLoop \/ SpeakTimeout
      <3>1. UNCHANGED <<speaker, sample>> /\ pc'["speak"] # "put"
        BY <1>3, <2>1 DEF SpeakLoop, SpeakTimeout, Goto, sounding
      <3> QED
        BY <1>3, <3>1 DEF Invariant, Types, Fitting, SamplesFitDevice
    <2>2. CASE ResetAudioDevice
      <3> DEFINE next == Head(speaker.submitQ)
                 device == IF speaker.device = Format[next] THEN speaker ELSE Reopened(Format[next])
      <3>1. /\ speaker.submitQ # <<>>
            /\ sample' = next
            /\ speaker' = [device EXCEPT !.submitQ = Tail(@)]
            /\ pc' = [pc EXCEPT !["speak"] = "put"]
        BY <2>2 DEF ResetAudioDevice, Goto
      <3>2. next \in Of("audio") /\ Tail(speaker.submitQ) \in Seq(Of("audio"))
        BY <1>3, <3>1
      <3>3. Format[next] \in Devices
        BY <3>2, PacketsOf
      <3> HIDE DEF next
      <3>4. CASE speaker.device = Format[next]
        <4>1. speaker' = [speaker EXCEPT !.submitQ = Tail(@)]
          BY <3>1, <3>4
        <4> QED
          BY <1>3, <3>1, <3>2, <3>4, <4>1 DEF Invariant, Fitting, SamplesFitDevice
      <3>5. CASE speaker.device # Format[next]
        <4>1. speaker' = [[speaker EXCEPT !.device = Format[next], !.sampleQ = <<>>] EXCEPT !.submitQ = Tail(@)]
          BY <3>1, <3>5 DEF Reopened
        <4>2. /\ speaker'.alive = speaker.alive
              /\ speaker'.submitQ = Tail(speaker.submitQ)
              /\ speaker'.sampleQ = <<>>
              /\ speaker'.device = Format[next]
          BY <1>3, <4>1
        <4>3. speaker' \in [alive : BOOLEAN, submitQ : Seq(Of("audio")), sampleQ : Seq(Of("audio")), device : Devices]
          <5>1. speaker' = [alive |-> speaker.alive, submitQ |-> Tail(speaker.submitQ), sampleQ |-> <<>>,
                            device |-> Format[next]]
            BY <1>3, <4>1
          <5>2. <<>> \in Seq(Of("audio"))
            OBVIOUS
          <5> QED
            BY <1>3, <3>2, <3>3, <5>1, <5>2
        <4> QED
          BY <3>1, <3>2, <4>2, <4>3 DEF Fitting, SamplesFitDevice
      <3> QED
        BY <3>4, <3>5
    <2>3. CASE ResetFails
      <3>1. /\ speaker.submitQ # <<>>
            /\ speaker' = [speaker EXCEPT !.submitQ = Tail(@), !.device = NoDevice, !.alive = FALSE]
            /\ pc' = [pc EXCEPT !["speak"] = "done"]
            /\ sample' = sample
        BY <2>3 DEF ResetFails, Goto
      <3>2. Tail(speaker.submitQ) \in Seq(Of("audio")) /\ NoDevice \in Devices
        BY <1>3, <3>1 DEF Devices
      <3>3. speaker' \in [alive : BOOLEAN, submitQ : Seq(Of("audio")), sampleQ : Seq(Of("audio")), device : Devices]
        BY <1>3, <3>1, <3>2
      <3>4. speaker'.device = NoDevice /\ pc'["speak"] = "done"
        BY <1>3, <3>1
      <3> QED
        BY <3>1, <3>3, <3>4 DEF Invariant, Types, Fitting, SamplesFitDevice
    <2>4. CASE SpeakPut
      <3>1. /\ pc["speak"] = "put"
            /\ speaker' = [speaker EXCEPT !.sampleQ = <<sample>>]
            /\ sample' = 0
            /\ pc' = [pc EXCEPT !["speak"] = "loop"]
        BY <2>4 DEF SpeakPut, Goto
      <3>2. sample \in Of("audio") /\ speaker.device = Format[sample]
        BY <3>1 DEF Invariant, Fitting
      <3>3. <<sample>> \in Seq(Of("audio"))
        BY <3>2
      <3>4. speaker' \in [alive : BOOLEAN, submitQ : Seq(Of("audio")), sampleQ : Seq(Of("audio")), device : Devices]
        BY <1>3, <3>1, <3>3
      <3>5. speaker'.alive = speaker.alive /\ speaker'.device = speaker.device /\ speaker'.sampleQ = <<sample>>
        BY <1>3, <3>1
      <3>6. pc'["speak"] = "loop"
        BY <1>3, <3>1
      <3>7. Fitting'
        BY <3>2, <3>5, <3>6 DEF Fitting, SamplesFitDevice
      <3> QED
        BY <3>1, <3>4, <3>5, <3>7
    <2> QED
      BY <2>1, <2>2, <2>3, <2>4 DEF Speak
  <1>5. Types' /\ HasFrame'
    BY <1>1, <1>2, <1>4, ApartKeeps DEF Invariant, Types
  <1>6. Closing'
    BY <1>1, <1>2, <1>4 DEF Invariant, Closing
  <1>7. WindowOutlivesRendering'
    BY <1>1, <1>2 DEF Invariant, WindowOutlivesRendering
  <1> QED
    BY <1>4, <1>5, <1>6, <1>7 DEF Invariant

\* The audio callback takes a sample.
LEMMA CallbackKeeps ==
    ASSUME Invariant, AudioCallback
    PROVE  Invariant'
  <1>1. /\ speaker.sampleQ # <<>>
        /\ speaker' = [speaker EXCEPT !.sampleQ = Tail(@)]
        /\ UNCHANGED <<pc, pos, packetQ, held, out, renderer, sample>>
    BY DEF AudioCallback, input, decoding, showing
  <1>2. speaker \in [alive : BOOLEAN, submitQ : Seq(Of("audio")), sampleQ : Seq(Of("audio")), device : Devices]
    BY DEF Invariant, Types
  <1>3. /\ Tail(speaker.sampleQ) \in Seq(Of("audio"))
        /\ \A i \in DOMAIN Tail(speaker.sampleQ) :
               i + 1 \in DOMAIN speaker.sampleQ /\ Tail(speaker.sampleQ)[i] = speaker.sampleQ[i + 1]
    BY <1>1, <1>2
  <1>4. speaker' \in [alive : BOOLEAN, submitQ : Seq(Of("audio")), sampleQ : Seq(Of("audio")), device : Devices]
    BY <1>1, <1>2, <1>3
  <1>5. /\ speaker'.alive = speaker.alive
        /\ speaker'.device = speaker.device
        /\ speaker'.sampleQ = Tail(speaker.sampleQ)
    BY <1>1, <1>2
  <1>6. Apart
    BY <1>1 DEF Apart, Invariant, Types
  <1>7. Types' /\ HasFrame'
    BY <1>1, <1>4, <1>6, ApartKeeps DEF Invariant, Types
  <1>8. (Fitting /\ Closing /\ WindowOutlivesRendering)'
    BY <1>1, <1>3, <1>5 DEF Invariant, Fitting, SamplesFitDevice, Closing, WindowOutlivesRendering
  <1> QED
    BY <1>7, <1>8 DEF Invariant

\* main, or the event watch on its behalf, moves on.
Moves(l) == pc' = [pc EXCEPT !["main"] = l]

LEMMA MovesApart ==
    ASSUME Types, NEW l \in Labels, Moves(l), UNCHANGED <<pos, packetQ, held, out>>
    PROVE  /\ Apart
           /\ pc'["main"] = l
           /\ \A t \in {"render", "speak"} : pc'[t] = pc[t]
  BY DEF Moves, Types, Apart, Threads, Media

\* Kill of the renderer: the window goes when the thread has ended.
LEMMA KillRendererKeeps ==
    ASSUME Invariant, NEW l \in Labels, Moves(l),
           UNCHANGED <<pos, packetQ, held, out, speaker, sample>>,
           \/ renderer' = [renderer EXCEPT !.alive = FALSE]
           \/ renderer' = [renderer EXCEPT !.window = FALSE] /\ pc["render"] = "done",
           l \in {"loop", "closing"} => pc["main"] \in {"loop", "closing"},
           l \in {"joinRender", "join"} => pc["main"] \in {"killRenderer", "joinRender", "join"},
           l \in {"loop", "closing", "joinRender", "join"}
    PROVE  Invariant'
  <1>1. /\ Apart
        /\ pc'["main"] = l
        /\ \A t \in {"render", "speak"} : pc'[t] = pc[t]
    BY MovesApart DEF Invariant
  <1>2. renderer' \in [alive : BOOLEAN, queue : Seq(Of("video")), window : BOOLEAN]
    BY DEF Invariant, Types
  <1>3. ~ renderer'.window => ~ renderer.window \/ pc["render"] = "done"
    BY DEF Invariant, Types
  <1>4. Types' /\ HasFrame'
    BY <1>1, <1>2, ApartKeeps DEF Invariant, Types
  <1>5. (Fitting /\ Closing /\ WindowOutlivesRendering)'
    BY <1>1, <1>3 DEF Invariant, Fitting, SamplesFitDevice, Closing, WindowOutlivesRendering
  <1> QED
    BY <1>4, <1>5 DEF Invariant

\* main goes through its shutdown: it waits for a Speak thread it has
\* killed, and passes by one that had ended.
LEMMA MainKeeps ==
    ASSUME Invariant, Main \/ CloseWindow
    PROVE  Invariant'
  <1> USE DEF Goto, input, decoding, showing, sounding
  <1>1. CASE CloseWindow
    <2>1. PICK l \in {"closing", "loop"} : Moves(l)
      BY <1>1 DEF CloseWindow, KillRenderer, Moves
    <2> QED
      BY <1>1, <2>1, KillRendererKeeps DEF CloseWindow, KillRenderer, Labels
  <1>2. CASE MainKillsRenderer
    <2>1. PICK l \in {"joinRender", "join"} : Moves(l)
      BY <1>2 DEF MainKillsRenderer, KillRenderer, Moves
    <2> QED
      BY <1>2, <2>1, KillRendererKeeps DEF MainKillsRenderer, KillRenderer, Labels
  <1>3. CASE RendererJoined("closing", "loop")
    BY <1>3, KillRendererKeeps DEF RendererJoined, Moves, Labels
  <1>4. CASE RendererJoined("joinRender", "join")
    BY <1>4, KillRendererKeeps DEF RendererJoined, Moves, Labels
  <1>5. CASE MainQuits \/ MainReturns
    <2>1. /\ UNCHANGED <<pos, packetQ, held, out, renderer, speaker, sample>>
          /\ \/ Moves("killSpeaker") /\ pc["main"] = "loop"
             \/ Moves("done") /\ pc["main"] = "join"
      BY <1>5 DEF MainQuits, MainReturns, Moves
    <2>2. /\ Apart
          /\ \A t \in {"render", "speak"} : pc'[t] = pc[t]
          /\ \/ pc'["main"] = "killSpeaker" /\ pc["main"] = "loop"
             \/ pc'["main"] = "done" /\ pc["main"] = "join"
      BY <2>1, MovesApart DEF Invariant, Labels
    <2>3. Types' /\ HasFrame'
      BY <2>1, <2>2, ApartKeeps DEF Invariant, Types
    <2>4. (Fitting /\ Closing /\ WindowOutlivesRendering)'
      BY <2>1, <2>2 DEF Invariant, Fitting, SamplesFitDevice, Closing, WindowOutlivesRendering
    <2> QED
      BY <2>3, <2>4 DEF Invariant
  <1>6. CASE KillSpeaker
    <2>1. /\ UNCHANGED <<pos, packetQ, held, out, renderer, sample>>
          /\ pc["main"] = "killSpeaker"
          /\ Moves(IF speaker.alive THEN "joinSpeak" ELSE "killRenderer")
          /\ speaker' = [speaker EXCEPT !.alive = FALSE]
      BY <1>6 DEF KillSpeaker, Moves
    <2>2. /\ Apart
          /\ \A t \in {"render", "speak"} : pc'[t] = pc[t]
          /\ pc'["main"] = IF speaker.alive THEN "joinSpeak" ELSE "killRenderer"
      BY <2>1, MovesApart DEF Invariant, Labels
    <2>3. /\ speaker' \in [alive : BOOLEAN, submitQ : Seq(Of("audio")), sampleQ : Seq(Of("audio")), device : Devices]
          /\ speaker'.device = speaker.device
          /\ speaker'.sampleQ = speaker.sampleQ
      BY <2>1 DEF Invariant, Types
    <2>4. Types' /\ HasFrame'
      BY <2>1, <2>2, <2>3, ApartKeeps DEF Invariant, Types
    <2>5. (Fitting /\ Closing /\ WindowOutlivesRendering)'
      BY <2>1, <2>2, <2>3 DEF Invariant, Fitting, SamplesFitDevice, Closing, WindowOutlivesRendering
    <2> QED
      BY <2>4, <2>5 DEF Invariant
  <1>7. CASE SpeakerJoined
    <2>1. /\ UNCHANGED <<pos, packetQ, held, out, renderer, sample>>
          /\ pc["main"] = "joinSpeak" /\ pc["speak"] = "done"
          /\ Moves("killRenderer")
          /\ speaker' = [speaker EXCEPT !.device = NoDevice]
      BY <1>7 DEF SpeakerJoined, Moves
    <2>2. /\ Apart
          /\ \A t \in {"render", "speak"} : pc'[t] = pc[t]
          /\ pc'["main"] = "killRenderer"
      BY <2>1, MovesApart DEF Invariant, Labels
    <2>3. /\ speaker' \in [alive : BOOLEAN, submitQ : Seq(Of("audio")), sampleQ : Seq(Of("audio")), device : Devices]
          /\ speaker'.device = NoDevice
      BY <2>1 DEF Invariant, Types, Devices
    <2>4. Types' /\ HasFrame'
      BY <2>1, <2>2, <2>3, ApartKeeps DEF Invariant, Types
    <2>5. (Fitting /\ Closing /\ WindowOutlivesRendering)'
      BY <2>1, <2>2, <2>3 DEF Invariant, Fitting, SamplesFitDevice, Closing, WindowOutlivesRendering
    <2> QED
      BY <2>4, <2>5 DEF Invariant
  <1> QED
    BY <1>1, <1>2, <1>3, <1>4, <1>5, <1>6, <1>7 DEF Main

LEMMA NextInvariant == Invariant /\ [Next]_vars => Invariant'
  <1> SUFFICES ASSUME Invariant, [Next]_vars
               PROVE  Invariant'
    OBVIOUS
  <1>1. CASE Interrupt \/ UNCHANGED vars
    <2>1. UNCHANGED <<pc, pos, packetQ, held, out, renderer, speaker, sample>>
      BY <1>1 DEF Interrupt, vars, input, decoding, showing, sounding
    <2>2. Types' /\ HasFrame'
      BY <2>1 DEF Invariant, Types, HasFrame
    <2>3. (Fitting /\ Closing /\ WindowOutlivesRendering)'
      BY <2>1 DEF Invariant, Fitting, SamplesFitDevice, Closing, WindowOutlivesRendering
    <2> QED
      BY <2>2, <2>3 DEF Invariant
  <1> QED
    BY <1>1, ReaderKeeps, DecoderKeeps, RenderKeeps, SpeakKeeps, CallbackKeeps, MainKeeps
       DEF Next, Finished

\* The invariant is one of the specification: each packet goes the way of
\* its medium, and the shutdown closes what is open.
THEOREM PlayerAlways == Spec => []Invariant
  BY InitInvariant, NextInvariant, PTL DEF Spec

(***************************************************************************)
(* The window goes only when the rendering thread has ended, whether the   *)
(* user closes it, main kills the renderer or the thread failed before.    *)
(***************************************************************************)
THEOREM WindowOutlives == Spec => []WindowOutlivesRendering
  BY PlayerAlways, PTL DEF Invariant

(***************************************************************************)
(* A sample that waits for the audio callback was converted for the device *)
(* that is open, whatever formats follow each other.                       *)
(***************************************************************************)
THEOREM SamplesAlwaysFit == Spec => []SamplesFitDevice
  <1>1. Invariant => SamplesFitDevice
    BY DEF Invariant, Fitting
  <1> QED
    BY <1>1, PlayerAlways, PTL

(***************************************************************************)
(* No audio device is open when main returns, though Speaker::Kill does    *)
(* nothing to a speaker that is dead already.                              *)
(***************************************************************************)
THEOREM DeviceAlwaysClosed == Spec => []DeviceClosedAtEnd
  <1>1. Invariant => DeviceClosedAtEnd
    BY DEF Invariant, Closing, DeviceClosedAtEnd
  <1> QED
    BY <1>1, PlayerAlways, PTL

-----------------------------------------------------------------------------
(* Frames and samples on their way *)

\* Where the reading thread has not put the null packet of a medium yet.
BeforeNull(m) == {"loop", "read", "endVideo"} \cup (IF m = "audio" THEN {"endAudio"} ELSE {})

\* The packets after g wait for their decoder.
Queued(m, g) ==
    \E q \in Seq(Nat) :
        /\ Lists(q, Of(m), g, pos - 1)
        /\ \/ packetQ[m] = q
           \/ packetQ[m] = Append(q, 0) /\ pc["reader"] \notin BeforeNull(m)

\* A decoding thread has to submit what comes after e.
OnTheWay(m, e) ==
    \E f, g \in Nat :
        /\ Lists(out[m], Of(m), e, f)
        /\ Lists(held[m], Of(m), f, g)
        /\ Queued(m, g)

\* The thread its frames go to.
Alive(m) == IF m = "video" THEN renderer.alive ELSE speaker.alive

\* It will submit more, or is about to.
Feeds(m) == pc[m] # "done" /\ (Alive(m) \/ pc[m] = "put")

\* A thread that looks for a packet has nothing to submit, and at the put
\* of a sample there is one.
Submitting ==
    /\ \A m \in Media : pc[m] \in {"loop", "get"} => out[m] = <<>>
    /\ pc["audio"] = "put" => Head(out["audio"]) \in Samples

ShownUpTo(b) ==
    /\ Lists(rendered, Of("video"), 0, b)
    /\ pc["render"] # "done" =>
        \E c \in Nat :
            /\ Lists(renderer.queue, Of("video"), b, c)
            /\ (Feeds("video") => OnTheWay("video", c))

Shown == \E b \in Nat : ShownUpTo(b)

\* The sample the Speak thread holds.
InHand == IF pc["speak"] = "put" THEN <<sample>> ELSE <<>>

\* What comes after c goes to the audio callback.
SpeaksAfter(c) ==
    pc["speak"] # "done" =>
        \E d, e \in Nat :
            /\ Lists(InHand, Samples, c, d)
            /\ Lists(speaker.submitQ, Samples, d, e)
            /\ (Feeds("audio") => OnTheWay("audio", e))

\* Samples that ResetAudioDevice took out of the queue.
LostUpTo(lost, b) == lost \subseteq {k \in Samples : BeforeReset(k)} /\ \A k \in lost : k <= b

PlayedUpTo(lost, b, c) ==
    /\ LostUpTo(lost, b)
    /\ Lists(played, Samples \ lost, 0, b)
    /\ Lists(speaker.sampleQ, Samples, b, c)

Played == \E lost \in SUBSET Samples : \E b, c \in Nat : PlayedUpTo(lost, b, c) /\ SpeaksAfter(c)

\* One sample waits at most, and none without a device.
Waiting ==
    /\ \A i \in DOMAIN speaker.sampleQ : i = 1
    /\ pc["speak"] # "done" /\ speaker.device = NoDevice => speaker.sampleQ = <<>>

Order ==
    /\ rendered \in Seq(Nat)
    /\ played \in Seq(Nat)
    /\ Submitting
    /\ Waiting
    /\ Shown
    /\ Played

LEMMA MediaPackets == Samples \in SUBSET Nat /\ \A m \in Media : Of(m) \in SUBSET Nat
  BY PacketsOf DEF Samples, Media

\* The reading thread adds behind what waits.
LEMMA ReaderAdds ==
    ASSUME Types, Reader, NEW m \in Media, NEW g \in Nat, Queued(m, g)
    PROVE  Queued(m, g)'
  <1>1. PICK q \in Seq(Nat) :
            /\ Lists(q, Of(m), g, pos - 1)
            /\ \/ packetQ[m] = q
               \/ packetQ[m] = Append(q, 0) /\ pc["reader"] \notin BeforeNull(m)
    BY DEF Queued
  <1>2. "reader" \in Threads /\ pos \in Nat \ {0} /\ pos - 1 \in Nat /\ pc \in [Threads -> Labels]
    BY DEF Types, Threads
  <1>3. Of(m) \in SUBSET Nat
    BY MediaPackets
  <1>4. CASE ReadPacket
    <2>1. /\ pc["reader"] = "read" /\ pos' = pos + 1
          /\ packetQ'[m] = IF Packets[pos] = m THEN Append(packetQ[m], pos) ELSE packetQ[m]
          /\ pos \in DOMAIN Packets
      BY <1>2, <1>4, PacketsOf DEF ReadPacket
    <2>2. packetQ[m] = q
      BY <1>1, <2>1 DEF BeforeNull
    <2>3. pos' - 1 = pos
      BY <1>2, <2>1
    <2>4. CASE Packets[pos] = m
      <3>1. Lists(<<pos>>, Of(m), pos - 1, pos)
        <4>1. pos \in Of(m)
          BY <2>1, <2>4 DEF Of
        <4>2. \A k \in Nat : pos - 1 < k /\ k <= pos => k = pos
          BY <1>2
        <4>3. DOMAIN <<pos>> = {1} /\ <<pos>>[1] = pos
          OBVIOUS
        <4>4. pos - 1 <= pos /\ pos - 1 < pos /\ pos <= pos
          BY <1>2
        <4> QED
          BY <1>3, <4>1, <4>2, <4>3, <4>4 DEF Lists, Rises
      <3>2. Lists(Append(q, pos), Of(m), g, pos)
        BY <1>1, <1>2, <1>3, <3>1, ListsAppend
      <3>3. Append(q, pos) \in Seq(Nat) /\ packetQ'[m] = Append(q, pos)
        BY <1>2, <2>1, <2>2, <2>4
      <3> QED
        BY <2>3, <3>2, <3>3 DEF Queued, Of
    <2>5. CASE Packets[pos] # m
      <3>1. Lists(<<>>, Of(m), pos - 1, pos)
        <4>1. pos \notin Of(m)
          BY <2>5 DEF Of
        <4>2. \A k \in Nat : pos - 1 < k /\ k <= pos => k = pos
          BY <1>2
        <4>3. DOMAIN <<>> = {} /\ pos - 1 <= pos
          BY <1>2
        <4> QED
          BY <1>3, <4>1, <4>2, <4>3 DEF Lists, Rises
      <3>2. Lists(q, Of(m), g, pos)
        BY <1>1, <1>2, <1>3, <3>1, ListsOn
      <3>3. packetQ'[m] = q
        BY <2>1, <2>2, <2>5
      <3> QED
        BY <1>1, <2>3, <3>2, <3>3 DEF Queued, Of
    <2> QED
      BY <2>4, <2>5
  <1>5. ASSUME NEW n \in Media, NEW l \in BeforeNull(n), NEW f \in Labels,
               PutNull(n, l, f), f \notin BeforeNull(n),
               n = "video" => l \in BeforeNull("audio"),
               n = "audio" => f \notin BeforeNull("video")
        PROVE  Queued(m, g)'
    <2>1. /\ pc["reader"] = l /\ pos' = pos /\ pc' = [pc EXCEPT !["reader"] = f]
          /\ packetQ' = [packetQ EXCEPT ![n] = Append(@, 0)]
      BY <1>5 DEF PutNull, Goto
    <2>2. pc'["reader"] = f
      BY <1>2, <2>1
    <2>3. CASE n = m
      <3>1. packetQ[m] = q
        BY <1>1, <1>5, <2>1, <2>3
      <3>2. packetQ'[m] = Append(q, 0)
        BY <2>1, <2>3, <3>1 DEF Types
      <3> QED
        BY <1>1, <1>5, <2>1, <2>2, <2>3, <3>2 DEF Queued, Of
    <2>4. CASE n # m
      <3>1. packetQ'[m] = packetQ[m]
        BY <2>1, <2>4 DEF Types
      <3>2. packetQ[m] = q \/ f \notin BeforeNull(m)
        BY <1>1, <1>5, <2>1, <2>4 DEF Media
      <3> QED
        BY <1>1, <2>1, <2>2, <3>1, <3>2 DEF Queued, Of
    <2> QED
      BY <2>3, <2>4
  <1>6. CASE PutNull("video", "endVideo", "endAudio") \/ PutNull("audio", "endAudio", "setQuit")
    BY <1>5, <1>6 DEF BeforeNull, Labels, Media
  <1>7. CASE ReaderLoop \/ ReadFails \/ ReaderQuits
    <2>1. /\ pos' = pos /\ packetQ' = packetQ
          /\ pc["reader"] \in {"loop", "read"} \/ pc'["reader"] = "done"
      BY <1>2, <1>7 DEF ReaderLoop, ReadFails, ReaderQuits, Goto, input
    <2>2. packetQ[m] = q \/ pc'["reader"] \notin BeforeNull(m)
      BY <1>1, <2>1 DEF BeforeNull
    <2> QED
      BY <1>1, <2>1, <2>2 DEF Queued, Of
  <1> QED
    BY <1>4, <1>6, <1>7 DEF Reader

\* Nobody else disturbs what is on the way to a decoding thread.
LEMMA WayKept ==
    ASSUME Types, NEW m \in Media, NEW e \in Nat, OnTheWay(m, e),
           out'[m] = out[m], held'[m] = held[m],
           \/ Reader
           \/ packetQ'[m] = packetQ[m] /\ pos' = pos /\ pc'["reader"] = pc["reader"]
    PROVE  OnTheWay(m, e)'
  <1>1. PICK f, g \in Nat : /\ Lists(out[m], Of(m), e, f)
                           /\ Lists(held[m], Of(m), f, g)
                           /\ Queued(m, g)
    BY DEF OnTheWay
  <1>2. Queued(m, g)'
    <2>1. CASE Reader
      BY <1>1, <2>1, ReaderAdds
    <2>2. CASE packetQ'[m] = packetQ[m] /\ pos' = pos /\ pc'["reader"] = pc["reader"]
      BY <1>1, <2>2 DEF Queued, Of
    <2> QED
      BY <2>1, <2>2
  <1> QED
    BY <1>1, <1>2 DEF OnTheWay, Of

\* The codec gives the first of what it was given and keeps the others.
LEMMA DecodeGoesOn ==
    ASSUME Types, NEW m \in Media, Decode(m), out[m] = <<>>, NEW e \in Nat, OnTheWay(m, e)
    PROVE  OnTheWay(m, e)'
  <1> DEFINE k == Head(packetQ[m])
             all == IF k = 0 THEN held[m] ELSE Append(held[m], k)
             kept == IF k = 0 THEN 0 ELSE Min({Delay, Len(all)})
  <1>1. /\ packetQ[m] # <<>>
        /\ packetQ' = [packetQ EXCEPT ![m] = Tail(@)]
        /\ out' = [out EXCEPT ![m] = SubSeq(all, 1, Len(all) - kept)]
        /\ held' = [held EXCEPT ![m] = SubSeq(all, Len(all) - kept + 1, Len(all))]
        /\ pc' = [pc EXCEPT ![m] = IF out'[m] = <<>> THEN "loop" ELSE "submit"]
        /\ pos' = pos
    BY DEF Decode, Goto
  <1>2. Of(m) \in SUBSET Nat /\ pos - 1 \in Nat /\ held[m] \in Seq(Nat)
    BY MediaPackets DEF Types
  <1>3. PICK f, g \in Nat : /\ Lists(out[m], Of(m), e, f)
                           /\ Lists(held[m], Of(m), f, g)
                           /\ Queued(m, g)
    BY DEF OnTheWay
  <1>4. PICK q \in Seq(Nat) :
            /\ Lists(q, Of(m), g, pos - 1)
            /\ \/ packetQ[m] = q
               \/ packetQ[m] = Append(q, 0) /\ pc["reader"] \notin BeforeNull(m)
    BY <1>3 DEF Queued
  <1>5. Lists(held[m], Of(m), e, g)
    BY <1>2, <1>3, ListsPass
  <1>6. pc'["reader"] = pc["reader"]
    BY <1>1 DEF Media
  <1>7. packetQ'[m] = Tail(packetQ[m])
    BY <1>1 DEF Types
  <1>8. /\ all \in Seq(Nat)
        /\ \E h \in Nat : Lists(all, Of(m), e, h) /\ Queued(m, h)'
    <2>1. CASE q = <<>>
      <3>1. packetQ[m] = <<0>> /\ pc["reader"] \notin BeforeNull(m)
        BY <1>1, <1>4, <2>1
      <3>2. k = 0 /\ packetQ'[m] = <<>>
        BY <1>7, <3>1
      <3>3. Queued(m, g)'
        BY <1>1, <1>4, <2>1, <3>2 DEF Queued, Of
      <3> QED
        BY <1>2, <1>5, <3>2, <3>3
    <2>2. CASE q # <<>>
      <3>1. /\ Head(q) \in Nat
            /\ Lists(<<Head(q)>>, Of(m), g, Head(q))
            /\ Lists(Tail(q), Of(m), Head(q), pos - 1)
        BY <1>2, <1>4, <2>2, ListsHead
      <3>2. k = Head(q)
        <4>1. Head(Append(q, 0)) = Head(q)
          BY <2>2, HeadTailAppend
        <4> QED
          BY <1>4, <4>1
      <3>3. Head(q) # 0
        <4>1. DOMAIN <<Head(q)>> = {1} /\ <<Head(q)>>[1] = Head(q)
          OBVIOUS
        <4> QED
          BY <3>1, <4>1 DEF Lists, Rises
      <3>4. Tail(q) \in Seq(Nat)
        BY <2>2
      <3>5. \/ packetQ'[m] = Tail(q)
            \/ packetQ'[m] = Append(Tail(q), 0) /\ pc["reader"] \notin BeforeNull(m)
        <4>1. Tail(Append(q, 0)) = Append(Tail(q), 0)
          BY <2>2, HeadTailAppend
        <4> QED
          BY <1>4, <1>7, <4>1
      <3>6. Queued(m, Head(q))'
        BY <1>1, <1>6, <3>1, <3>4, <3>5 DEF Queued, Of
      <3>7. all = Append(held[m], Head(q))
        BY <3>2, <3>3
      <3>8. Lists(Append(held[m], Head(q)), Of(m), e, Head(q))
        BY <1>2, <1>5, <3>1, ListsAppend
      <3>9. Append(held[m], Head(q)) \in Seq(Nat)
        BY <1>2, <3>1
      <3> QED
        BY <3>1, <3>6, <3>7, <3>8, <3>9
    <2> QED
      BY <2>1, <2>2
  <1>9. kept \in Nat /\ kept <= Len(all)
    <2>1. Len(all) \in Nat
      BY <1>8
    <2>2. Min({Delay, Len(all)}) \in {Delay, Len(all)} /\ Min({Delay, Len(all)}) <= Len(all)
      BY <2>1, MinOfTwo, PlayerAssumption DEF PlayerAssumption
    <2>3. Delay \in Nat
      BY PlayerAssumption DEF PlayerAssumption
    <2> DEFINE less == Min({Delay, Len(all)})
    <2>4. less \in Nat /\ less <= Len(all)
      BY <2>1, <2>2, <2>3
    <2>5. kept = 0 \/ kept = less
      OBVIOUS
    <2> HIDE DEF less, kept, all
    <2> QED
      BY <2>1, <2>4, <2>5
  <1>10. out'[m] = SubSeq(all, 1, Len(all) - kept) /\ held'[m] = SubSeq(all, Len(all) - kept + 1, Len(all))
    BY <1>1 DEF Types
  <1> HIDE DEF k, all, kept
  <1>11. PICK h \in Nat : Lists(all, Of(m), e, h) /\ Queued(m, h)'
    BY <1>8
  <1>12. Len(all) - kept \in 0..Len(all)
    BY <1>8, <1>9
  <1>13. \E c \in Nat : Lists(out'[m], Of(m), e, c) /\ Lists(held'[m], Of(m), c, h)
    <2> DEFINE n == Len(all) - kept
    <2>1. n \in 0..Len(all)
      BY <1>12
    <2>2. out'[m] = SubSeq(all, 1, n) /\ held'[m] = SubSeq(all, n + 1, Len(all))
      BY <1>10
    <2> HIDE DEF n
    <2>3. PICK w \in Seq(Nat) : w = all
      BY <1>8
    <2>4. PICK l \in 0..Len(w) : l = n
      BY <2>1, <2>3
    <2>5. Lists(w, Of(m), e, h)
      BY <1>11, <2>3
    <2>6. \E c \in Nat : Lists(SubSeq(w, 1, l), Of(m), e, c) /\ Lists(SubSeq(w, l + 1, Len(w)), Of(m), c, h)
      BY <1>2, <2>5, ListsSplit
    <2> QED
      BY <2>2, <2>3, <2>4, <2>6
  <1> QED
    BY <1>11, <1>13 DEF OnTheWay, Of

\* The first frame leaves the decoding thread.
LEMMA FrameLeaves ==
    ASSUME Types, HasFrame, NEW m \in Media, pc[m] \in {"submit", "put"}, NextFrame(m),
           UNCHANGED <<pos, packetQ, held>>, NEW e \in Nat, OnTheWay(m, e)
    PROVE  \E h \in Of(m) : /\ h = Head(out[m])
                            /\ Lists(<<h>>, Of(m), e, h)
                            /\ OnTheWay(m, h)'
  <1>1. PICK f, g \in Nat : /\ Lists(out[m], Of(m), e, f)
                           /\ Lists(held[m], Of(m), f, g)
                           /\ Queued(m, g)
    BY DEF OnTheWay
  <1>2. out[m] # <<>> /\ out[m] \in Seq(Nat) /\ Of(m) \in SUBSET Nat
    BY MediaPackets DEF HasFrame, Types
  <1>3. /\ Lists(<<Head(out[m])>>, Of(m), e, Head(out[m]))
        /\ Lists(Tail(out[m]), Of(m), Head(out[m]), f)
    BY <1>1, <1>2, ListsHead
  <1>4. /\ pc' = [pc EXCEPT ![m] = IF Len(out[m]) = 1 THEN "loop" ELSE "submit"]
        /\ out'[m] = Tail(out[m])
    BY DEF NextFrame, Goto, Types
  <1>5. pc'["reader"] = pc["reader"]
    BY <1>4 DEF Media
  <1>6. Queued(m, g)'
    BY <1>1, <1>5 DEF Queued, Of
  <1>7. Head(out[m]) \in Of(m)
    BY NextFrameKeeps
  <1> QED
    BY <1>1, <1>3, <1>4, <1>6, <1>7 DEF OnTheWay, Of

\* What is on the way stays so, or nobody waits for it any more.
GoesOn(m) == Feeds(m)' => Feeds(m) /\ \A e \in Nat : OnTheWay(m, e) => OnTheWay(m, e)'

\* The steps with which a frame leaves a decoding thread that goes on.
Leaves(m) ==
    \/ m = "video" /\ PutFrame
    \/ m = "audio" /\ PutSample
    \/ Drop(m) /\ Alive(m)

LEMMA OthersGoOn ==
    ASSUME Types, NEW m \in Media, out'[m] = out[m], held'[m] = held[m],
           pc[m] = "done" => pc'[m] = "done", pc'[m] = "put" => pc[m] = "put", Alive(m)' => Alive(m),
           \/ Reader
           \/ packetQ'[m] = packetQ[m] /\ pos' = pos /\ pc'["reader"] = pc["reader"]
    PROVE  GoesOn(m)
  <1>1. Feeds(m)' => Feeds(m)
    BY DEF Feeds
  <1>2. \A e \in Nat : OnTheWay(m, e) => OnTheWay(m, e)'
    BY WayKept
  <1> QED
    BY <1>1, <1>2 DEF GoesOn

LEMMA DecoderGoesOn ==
    ASSUME Invariant, Submitting, NEW m \in Media, Decoder(m), ~ Leaves(m)
    PROVE  GoesOn(m)
  <1> USE DEF Invariant
  <1>1. m \in Threads /\ m # "reader" /\ pc \in [Threads -> Labels]
    BY DEF Types, Threads, Media
  <1>2. CASE DecoderLoop(m) \/ DecoderTimeout(m) \/ (m = "video" /\ PutFrameTimeout)
    <2>0. /\ UNCHANGED <<pos, packetQ, held, out, renderer, speaker>>
          /\ pc[m] # "done"
          /\ \E l \in {"loop", "get", "submit", "done"} : pc' = [pc EXCEPT ![m] = l]
      BY <1>1, <1>2 DEF DecoderLoop, DecoderTimeout, PutFrameTimeout, Goto, input, decoding, showing, sounding
    <2>1. pc'["reader"] = pc["reader"] /\ pc'[m] # "put"
      BY <1>1, <2>0
    <2>2. Alive(m)' = Alive(m)
      BY <2>0 DEF Alive
    <2> QED
      BY <2>0, <2>1, <2>2, OthersGoOn
  <1>3. CASE Submit(m)
    <2>1. /\ UNCHANGED <<pos, packetQ, held, out, renderer, speaker>>
          /\ pc'["reader"] = pc["reader"]
          /\ pc[m] = "submit" /\ pc'[m] = "put"
          /\ IsWanted(m, Head(out[m]))
      BY <1>1, <1>3 DEF Submit, Goto, input, decoding, showing, sounding
    <2>2. Feeds(m)
      BY <2>1 DEF Feeds, Alive, IsWanted
    <2>3. \A e \in Nat : OnTheWay(m, e) => OnTheWay(m, e)'
      BY <2>1, WayKept
    <2> QED
      BY <2>2, <2>3 DEF GoesOn
  <1>4. CASE Decode(m)
    <2>1. pc[m] = "get" /\ UNCHANGED <<renderer, speaker>> /\ pc'[m] # "put"
      BY <1>1, <1>4 DEF Decode, Goto, showing, sounding
    <2>2. out[m] = <<>>
      BY <2>1 DEF Submitting
    <2>3. Feeds(m)' => Feeds(m)
      BY <2>1 DEF Feeds, Alive
    <2> QED
      BY <1>4, <2>2, <2>3, DecodeGoesOn DEF GoesOn
  <1>5. CASE DecodeFails(m)
    <2>1. pc'[m] = "done"
      BY <1>1, <1>5 DEF DecodeFails, Goto
    <2> QED
      BY <2>1 DEF GoesOn, Feeds
  <1>6. CASE Drop(m)
    <2>1. ~ Alive(m) /\ UNCHANGED <<renderer, speaker>>
      BY <1>6 DEF Leaves, Drop, showing, sounding
    <2>2. pc'[m] # "put"
      BY <1>1, <1>6 DEF Drop, NextFrame, Goto
    <2>3. Alive(m)' = Alive(m)
      BY <2>1 DEF Alive
    <2> QED
      BY <2>1, <2>2, <2>3 DEF GoesOn, Feeds
  <1> QED
    BY <1>2, <1>3, <1>4, <1>5, <1>6 DEF Decoder, Leaves

\* Each step lets what is on the way go on, but those that take a frame.
LEMMA AllGoOn ==
    ASSUME Invariant, Submitting, NEW m \in Media, [Next]_vars, ~ Leaves(m)
    PROVE  GoesOn(m)
  <1> USE DEF Invariant
  <1>1. m \in Threads /\ m \notin {"reader", "render", "speak", "main"} /\ pc \in [Threads -> Labels]
    BY DEF Types, Threads, Media
  <1>2. CASE Reader
    <2>1. UNCHANGED <<held, out, renderer, speaker>> /\ pc'[m] = pc[m]
      BY <1>1, <1>2 DEF Reader, ReaderLoop, ReadPacket, ReadFails, PutNull, ReaderQuits,
                        Goto, decoding, showing, sounding
    <2> QED
      BY <1>2, <2>1, OthersGoOn DEF Alive
  <1>3. CASE \E n \in Media : Decoder(n)
    <2>1. PICK n \in Media : Decoder(n)
      BY <1>3
    <2>2. CASE n = m
      BY <2>1, <2>2, DecoderGoesOn
    <2>3. CASE n # m
      <3>1. /\ out'[m] = out[m] /\ held'[m] = held[m] /\ packetQ'[m] = packetQ[m] /\ pos' = pos
            /\ pc'["reader"] = pc["reader"] /\ pc'[m] = pc[m]
        <4>1. \E l : pc' = [pc EXCEPT ![n] = l]
          BY <2>1 DEF Decoder, DecoderLoop, DecoderTimeout, Decode, DecodeFails, Drop, Submit,
             PutFrame, PutFrameTimeout, PutSample, NextFrame, Goto
        <4>2. pc'["reader"] = pc["reader"] /\ pc'[m] = pc[m]
          BY <1>1, <2>1, <2>3, <4>1 DEF Media
        <4>3. /\ pos' = pos
              /\ packetQ' = packetQ \/ packetQ' = [packetQ EXCEPT ![n] = Tail(@)]
          BY <2>1 DEF Decoder, DecoderLoop, DecoderTimeout, Decode, DecodeFails, Drop, Submit,
             PutFrame, PutFrameTimeout, PutSample, input
        <4>4. /\ \/ held' = held
                 \/ \E q : held' = [held EXCEPT ![n] = q]
              /\ \/ out' = out
                 \/ \E q : out' = [out EXCEPT ![n] = q]
          BY <2>1 DEF Decoder, DecoderLoop, DecoderTimeout, Decode, DecodeFails, Drop, Submit,
             PutFrame, PutFrameTimeout, PutSample, NextFrame, decoding
        <4> QED
          BY <2>3, <4>2, <4>3, <4>4 DEF Types
      <3>2. Alive(m)' = Alive(m)
        BY <2>1 DEF Decoder, DecoderLoop, DecoderTimeout, Decode, DecodeFails, Drop, Submit,
           PutFrame, PutFrameTimeout, PutSample, Types, Alive, showing, sounding
      <3> QED
        BY <3>1, <3>2, OthersGoOn
    <2> QED
      BY <2>2, <2>3
  <1>4. CASE \/ Render \/ Speak \/ AudioCallback \/ Main \/ CloseWindow \/ Interrupt
            \/ Finished \/ UNCHANGED vars
    <2>1. /\ UNCHANGED <<pos, packetQ, held, out>>
          /\ \/ pc' = pc
             \/ \E t \in {"render", "speak", "main"} : \E l : pc' = [pc EXCEPT ![t] = l]
      BY <1>1, <1>4 DEF Render, RenderLoop, RenderTimeout, Draw, DrawFails, Speak, SpeakLoop, SpeakTimeout,
         ResetAudioDevice, ResetFails, SpeakPut, AudioCallback, Main, RendererJoined, MainQuits, KillSpeaker,
         SpeakerJoined, MainKillsRenderer, MainReturns, CloseWindow, KillRenderer, Interrupt, Finished, vars,
         Goto, input, decoding
    <2>2. renderer'.alive => renderer.alive
      BY <1>4 DEF Render, RenderLoop, RenderTimeout, Draw, DrawFails, Speak, SpeakLoop, SpeakTimeout,
         ResetAudioDevice, ResetFails, SpeakPut, AudioCallback, Main, RendererJoined, MainQuits, KillSpeaker,
         SpeakerJoined, MainKillsRenderer, MainReturns, CloseWindow, KillRenderer, Interrupt, Finished, vars,
         Types, showing
    <2>3. speaker'.alive => speaker.alive
      BY <1>4 DEF Render, RenderLoop, RenderTimeout, Draw, DrawFails, Speak, SpeakLoop, SpeakTimeout,
         ResetAudioDevice, ResetFails, SpeakPut, AudioCallback, Main, RendererJoined, MainQuits, KillSpeaker,
         SpeakerJoined, MainKillsRenderer, MainReturns, CloseWindow, KillRenderer, Interrupt, Finished, vars,
         Types, sounding, Reopened
    <2>4. pc'["reader"] = pc["reader"] /\ pc'[m] = pc[m]
      <3>1. ASSUME NEW t \in {"render", "speak", "main"}, NEW l, pc' = [pc EXCEPT ![t] = l]
            PROVE  pc'["reader"] = pc["reader"] /\ pc'[m] = pc[m]
        <4>1. "reader" # t /\ m # t /\ "reader" \in Threads
          BY <1>1 DEF Threads
        <4> QED
          BY <1>1, <3>1, <4>1
      <3> QED
        BY <2>1, <3>1
    <2> QED
      BY <2>1, <2>2, <2>3, <2>4, OthersGoOn DEF Alive
  <1> QED
    BY <1>2, <1>3, <1>4 DEF Next

-----------------------------------------------------------------------------
(* Frames *)

\* A thread that has ended does not begin again.
LEMMA EndsForGood ==
    ASSUME Types, [Next]_vars, NEW e \in Threads, pc[e] = "done"
    PROVE  pc'[e] = "done"
  <1>1. \/ pc' = pc
        \/ \E t \in Threads : \E l : pc[t] # "done" /\ pc' = [pc EXCEPT ![t] = l]
    BY DEF Next, vars, Reader, ReaderLoop, ReadPacket, ReadFails, PutNull, ReaderQuits, Decoder,
       DecoderLoop, DecoderTimeout, Decode, DecodeFails, Drop, Submit, PutFrame, PutFrameTimeout, PutSample,
       Render, RenderLoop, RenderTimeout, Draw, DrawFails, Speak, SpeakLoop, SpeakTimeout, ResetAudioDevice,
       ResetFails, SpeakPut, AudioCallback, Main, RendererJoined, MainQuits, KillSpeaker, SpeakerJoined,
       MainKillsRenderer, MainReturns, CloseWindow, KillRenderer, Interrupt, Finished,
       NextFrame, Goto, Threads, Media
  <1>2. ASSUME NEW t \in Threads, NEW l, pc[t] # "done", pc' = [pc EXCEPT ![t] = l]
        PROVE  pc'[e] = "done"
    BY <1>2 DEF Types
  <1> QED
    BY <1>1, <1>2

LEMMA ShownAside ==
    ASSUME Shown, GoesOn("video"), rendered' = rendered, renderer'.queue = renderer.queue,
           pc["render"] = "done" => pc'["render"] = "done"
    PROVE  Shown'
  <1>1. PICK b \in Nat : ShownUpTo(b)
    BY DEF Shown
  <1>2. Lists(rendered, Of("video"), 0, b)'
    BY <1>1 DEF ShownUpTo, Of
  <1>3. ASSUME pc'["render"] # "done"
        PROVE  \E c \in Nat : Lists(renderer.queue, Of("video"), b, c)' /\ (Feeds("video")' => OnTheWay("video", c)')
    <2>1. PICK c \in Nat : Lists(renderer.queue, Of("video"), b, c) /\ (Feeds("video") => OnTheWay("video", c))
      BY <1>1, <1>3 DEF ShownUpTo
    <2> QED
      BY <2>1 DEF GoesOn, Of
  <1>4. ShownUpTo(b)'
    BY <1>2, <1>3 DEF ShownUpTo
  <1> QED
    BY <1>4 DEF Shown

\* A frame is put behind those that wait.
LEMMA PutShown ==
    ASSUME Invariant, Shown, PutFrame
    PROVE  Shown'
  <1> USE DEF Invariant
  <1>1. PICK b \in Nat : ShownUpTo(b)
    BY DEF Shown
  <1>2. /\ pc["video"] = "put" /\ NextFrame("video") /\ UNCHANGED <<pos, packetQ, held, rendered>>
        /\ renderer' = [renderer EXCEPT !.queue = Append(@, Head(out["video"]))]
    BY DEF PutFrame, input
  <1>3. "video" \in Media /\ Of("video") \in SUBSET Nat
    BY MediaPackets DEF Media
  <1>4. renderer.queue \in Seq(Of("video")) /\ renderer'.queue = Append(renderer.queue, Head(out["video"]))
    BY <1>2 DEF Types
  <1>5. pc'["render"] = pc["render"]
    BY <1>2, <1>3, NextFrameKeeps DEF Threads
  <1>6. ASSUME pc'["render"] # "done"
        PROVE  \E c \in Nat : Lists(renderer.queue, Of("video"), b, c)' /\ OnTheWay("video", c)'
    <2>1. PICK c \in Nat : Lists(renderer.queue, Of("video"), b, c) /\ (Feeds("video") => OnTheWay("video", c))
      BY <1>1, <1>5, <1>6 DEF ShownUpTo
    <2>2. OnTheWay("video", c)
      BY <1>2, <2>1 DEF Feeds
    <2>3. PICK h \in Of("video") : /\ h = Head(out["video"])
                                  /\ Lists(<<h>>, Of("video"), c, h)
                                  /\ OnTheWay("video", h)'
      BY <1>2, <1>3, <2>2, FrameLeaves
    <2>4. h \in Nat /\ renderer.queue \in Seq(Nat)
      BY <1>3, <1>4
    <2>5. Lists(Append(renderer.queue, h), Of("video"), b, h)
      BY <1>3, <2>1, <2>3, <2>4, ListsAppend
    <2> QED
      BY <1>4, <2>3, <2>4, <2>5 DEF Of
  <1>7. Lists(rendered, Of("video"), 0, b)'
    BY <1>1, <1>2 DEF ShownUpTo, Of
  <1>8. ShownUpTo(b)'
    BY <1>6, <1>7 DEF ShownUpTo
  <1> QED
    BY <1>8 DEF Shown

\* The first of those that wait is shown.
LEMMA DrawShown ==
    ASSUME Invariant, Shown, rendered \in Seq(Nat), Draw, GoesOn("video")
    PROVE  Shown' /\ rendered' \in Seq(Nat)
  <1> USE DEF Invariant
  <1>1. PICK b \in Nat : ShownUpTo(b)
    BY DEF Shown
  <1>2. /\ pc["render"] = "get" /\ renderer.queue # <<>>
        /\ renderer' = [renderer EXCEPT !.queue = Tail(@)]
        /\ rendered' = Append(rendered, Head(renderer.queue))
    BY DEF Draw
  <1>3. Of("video") \in SUBSET Nat
    BY MediaPackets DEF Media
  <1>4. /\ renderer.queue \in Seq(Nat)
        /\ renderer'.queue = Tail(renderer.queue)
    BY <1>2, <1>3 DEF Types
  <1>5. PICK c \in Nat : Lists(renderer.queue, Of("video"), b, c) /\ (Feeds("video") => OnTheWay("video", c))
    BY <1>1, <1>2 DEF ShownUpTo
  <1>6. /\ Head(renderer.queue) \in Nat
        /\ Lists(<<Head(renderer.queue)>>, Of("video"), b, Head(renderer.queue))
        /\ Lists(Tail(renderer.queue), Of("video"), Head(renderer.queue), c)
    BY <1>2, <1>3, <1>4, <1>5, ListsHead
  <1>7. Lists(Append(rendered, Head(renderer.queue)), Of("video"), 0, Head(renderer.queue))
    <2>1. Lists(rendered, Of("video"), 0, b) /\ 0 \in Nat
      BY <1>1 DEF ShownUpTo
    <2> QED
      BY <1>3, <1>6, <2>1, ListsAppend
  <1>8. PICK h \in Nat : h = Head(renderer.queue)
    BY <1>6
  <1>9. Lists(rendered, Of("video"), 0, h)'
    BY <1>2, <1>7, <1>8 DEF Of
  <1>10. Lists(renderer.queue, Of("video"), h, c)'
    BY <1>4, <1>6, <1>8 DEF Of
  <1>11. ShownUpTo(h)'
    BY <1>5, <1>9, <1>10 DEF ShownUpTo, GoesOn
  <1> QED
    BY <1>2, <1>6, <1>11 DEF Shown

LEMMA ShownKeeps ==
    ASSUME Invariant, Order, [Next]_vars
    PROVE  Shown' /\ rendered' \in Seq(Nat)
  <1> USE DEF Invariant
  <1>1. Shown /\ rendered \in Seq(Nat) /\ Submitting
    BY DEF Order
  <1>2. CASE PutFrame
    BY <1>1, <1>2, PutShown DEF PutFrame
  <1>3. ASSUME ~ PutFrame
        PROVE  GoesOn("video")
    <2>1. ~ Leaves("video")
      BY <1>3 DEF Leaves, Drop, IsWanted, Alive
    <2> QED
      BY <1>1, <2>1, AllGoOn DEF Media
  <1>4. CASE ~ PutFrame /\ Draw
    BY <1>1, <1>3, <1>4, DrawShown
  <1>5. CASE DrawFails
    <2>1. /\ rendered' = rendered
          /\ pc' = [pc EXCEPT !["render"] = "done"]
      BY <1>5 DEF DrawFails, Goto
    <2>2. pc'["render"] = "done"
      BY <2>1 DEF Types, Threads
    <2>3. PICK b \in Nat : ShownUpTo(b)
      BY <1>1 DEF Shown
    <2>4. ShownUpTo(b)'
      BY <2>1, <2>2, <2>3 DEF ShownUpTo, Of
    <2> QED
      BY <1>1, <2>1, <2>4 DEF Shown
  <1>6. CASE ~ PutFrame /\ ~ Draw /\ ~ DrawFails
    <2>1. rendered' = rendered /\ renderer'.queue = renderer.queue
      BY <1>6 DEF Next, vars, Reader, ReaderLoop, ReadPacket, ReadFails, PutNull, ReaderQuits, Decoder,
         DecoderLoop, DecoderTimeout, Decode, DecodeFails, Drop, Submit, PutFrameTimeout, PutSample,
         Render, RenderLoop, RenderTimeout, Speak, SpeakLoop, SpeakTimeout, ResetAudioDevice, ResetFails,
         SpeakPut, AudioCallback, Main, RendererJoined, MainQuits, KillSpeaker, SpeakerJoined,
         MainKillsRenderer, MainReturns, CloseWindow, KillRenderer, Interrupt, Finished, Types, showing
    <2> QED
      BY <1>1, <1>3, <1>6, <2>1, EndsForGood, ShownAside DEF Threads
  <1> QED
    BY <1>2, <1>4, <1>5, <1>6

-----------------------------------------------------------------------------
(* Samples *)

LEMMA PlayedAside ==
    ASSUME Played, GoesOn("audio"), played' = played, speaker'.sampleQ = speaker.sampleQ,
           \/ pc'["speak"] = "done"
           \/ /\ pc["speak"] # "done"
              /\ InHand' = InHand
              /\ speaker'.submitQ = speaker.submitQ
    PROVE  Played'
  <1>1. PICK lost \in SUBSET Samples, b \in Nat, c \in Nat : PlayedUpTo(lost, b, c) /\ SpeaksAfter(c)
    BY DEF Played
  <1>2. PlayedUpTo(lost, b, c)'
    BY <1>1 DEF PlayedUpTo, LostUpTo, BeforeReset, Samples, Of
  <1>3. SpeaksAfter(c)'
    <2>1. CASE pc'["speak"] = "done"
      BY <2>1 DEF SpeaksAfter
    <2>2. CASE pc'["speak"] # "done"
      <3>1. PICK d \in Nat, e \in Nat : /\ Lists(InHand, Samples, c, d)
                                       /\ Lists(speaker.submitQ, Samples, d, e)
                                       /\ (Feeds("audio") => OnTheWay("audio", e))
        BY <1>1, <2>2 DEF SpeaksAfter
      <3>2. Lists(InHand, Samples, c, d)' /\ Lists(speaker.submitQ, Samples, d, e)'
        BY <2>2, <3>1 DEF Samples, Of
      <3>3. Feeds("audio")' => OnTheWay("audio", e)'
        BY <3>1 DEF GoesOn
      <3> QED
        BY <3>2, <3>3 DEF SpeaksAfter
    <2> QED
      BY <2>1, <2>2
  <1> QED
    BY <1>1, <1>2, <1>3 DEF Played, Samples, Of

\* The sample that a decoding thread puts, or drops if it cannot be
\* converted, is the next.
LEMMA SampleLeaves ==
    ASSUME Invariant, Submitting, Played, PutSample \/ (Drop("audio") /\ Alive("audio"))
    PROVE  Played'
  <1> USE DEF Invariant
  <1>1. PICK lost \in SUBSET Samples, b \in Nat, c \in Nat : PlayedUpTo(lost, b, c) /\ SpeaksAfter(c)
    BY DEF Played
  <1>2. /\ NextFrame("audio") /\ UNCHANGED <<pos, packetQ, held, sample, played>>
        /\ pc["audio"] \in {"submit", "put"} /\ Feeds("audio")
        /\ speaker'.sampleQ = speaker.sampleQ
    BY DEF PutSample, Drop, Feeds, input, sounding, Types
  <1>3. /\ "audio" \in Media /\ Of("audio") \in SUBSET Nat
        /\ Samples \in SUBSET Nat /\ Samples \subseteq Of("audio")
    BY MediaPackets DEF Media, Samples
  <1>4. pc'["speak"] = pc["speak"]
    BY <1>2, <1>3, NextFrameKeeps DEF Threads
  <1>5. PlayedUpTo(lost, b, c)'
    BY <1>1, <1>2 DEF PlayedUpTo, LostUpTo, BeforeReset, Samples, Of
  <1>6. ASSUME pc'["speak"] # "done"
        PROVE  \E d, e \in Nat : /\ Lists(InHand, Samples, c, d)'
                                 /\ Lists(speaker.submitQ, Samples, d, e)'
                                 /\ OnTheWay("audio", e)'
    <2>1. PICK d \in Nat, e \in Nat : /\ Lists(InHand, Samples, c, d)
                                     /\ Lists(speaker.submitQ, Samples, d, e)
                                     /\ (Feeds("audio") => OnTheWay("audio", e))
      BY <1>1, <1>4, <1>6 DEF SpeaksAfter
    <2>2. PICK h \in Of("audio") : /\ h = Head(out["audio"])
                                  /\ Lists(<<h>>, Of("audio"), e, h)
                                  /\ OnTheWay("audio", h)'
      BY <1>2, <1>3, <2>1, FrameLeaves
    <2>3. Lists(InHand, Samples, c, d)'
      BY <1>2, <1>4, <2>1 DEF InHand, Samples, Of
    <2>4. speaker.submitQ \in Seq(Nat) /\ h \in Nat
      BY <1>3 DEF Types
    <2>5. DOMAIN <<h>> = {1} /\ <<h>>[1] = h
      OBVIOUS
    <2>6. Lists(speaker.submitQ, Samples, d, h)'
      <3>1. CASE h \in Samples
        <4>1. Lists(<<h>>, Samples, e, h)
          BY <1>3, <2>2, <2>5, <3>1 DEF Lists, Rises
        <4>2. Lists(Append(speaker.submitQ, h), Samples, d, h)
          BY <1>3, <2>1, <2>4, <4>1, ListsAppend
        <4>3. speaker'.submitQ = Append(speaker.submitQ, h)
          <5>1. PutSample
            BY <2>2, <3>1 DEF Drop, IsWanted, Alive, Samples
          <5> QED
            BY <2>2, <5>1 DEF PutSample, Types
        <4> QED
          BY <4>2, <4>3 DEF Samples, Of
      <3>2. CASE h \notin Samples
        <4>1. Lists(<<>>, Samples, e, h)
          <5>1. \A k \in Samples : ~ (e < k /\ k <= h)
            <6>1. \A k \in Of("audio") : e < k /\ k <= h => k = h
              BY <2>2, <2>5 DEF Lists, Rises
            <6> QED
              BY <1>3, <3>2, <6>1
          <5>2. e <= h /\ DOMAIN <<>> = {}
            BY <2>2 DEF Lists, Rises
          <5> QED
            BY <5>1, <5>2 DEF Lists, Rises
        <4>2. Lists(speaker.submitQ, Samples, d, h)
          BY <1>3, <2>1, <2>4, <4>1, ListsOn
        <4>3. speaker' = speaker
          <5>1. ~ PutSample
            <6>1. pc["audio"] = "put" => Head(out["audio"]) \in Samples
              BY DEF Submitting
            <6> QED
              BY <2>2, <3>2, <6>1 DEF PutSample
          <5> QED
            BY <5>1 DEF Drop, sounding
        <4> QED
          BY <4>2, <4>3 DEF Samples, Of
      <3> QED
        BY <3>1, <3>2
    <2> QED
      BY <2>2, <2>3, <2>4, <2>6
  <1>7. SpeaksAfter(c)'
    BY <1>6 DEF SpeaksAfter
  <1> QED
    BY <1>1, <1>5, <1>7 DEF Played, Samples, Of

\* The Speak thread hands its sample to the audio callback.
LEMMA HandedOver ==
    ASSUME Invariant, Played, SpeakPut, GoesOn("audio")
    PROVE  Played'
  <1> USE DEF Invariant
  <1>1. PICK lost \in SUBSET Samples, b \in Nat, c \in Nat : PlayedUpTo(lost, b, c) /\ SpeaksAfter(c)
    BY DEF Played
  <1>2. /\ pc["speak"] = "put" /\ speaker.sampleQ = <<>> /\ played' = played
        /\ speaker' = [speaker EXCEPT !.sampleQ = <<sample>>]
        /\ pc' = [pc EXCEPT !["speak"] = "loop"]
    BY DEF SpeakPut, Goto
  <1>3. speaker'.sampleQ = <<sample>> /\ speaker'.submitQ = speaker.submitQ /\ pc'["speak"] = "loop"
    BY <1>2 DEF Types, Threads
  <1>4. PICK d \in Nat, e \in Nat : /\ Lists(InHand, Samples, c, d)
                                   /\ Lists(speaker.submitQ, Samples, d, e)
                                   /\ (Feeds("audio") => OnTheWay("audio", e))
    BY <1>1, <1>2 DEF SpeaksAfter
  <1>5. InHand = <<sample>> /\ InHand' = <<>> /\ <<sample>> \in Seq(Nat)
    BY <1>2, <1>3, PacketsOf DEF InHand, Types, Media
  <1>6. Lists(<<sample>>, Samples, b, d)
    BY <1>1, <1>2, <1>4, <1>5, MediaPackets, ListsPass DEF PlayedUpTo
  <1>7. PlayedUpTo(lost, b, d)'
    BY <1>1, <1>2, <1>3, <1>6 DEF PlayedUpTo, LostUpTo, BeforeReset, Samples, Of
  <1>8. Lists(InHand, Samples, d, d)'
    <2>1. Lists(<<>>, Samples, d, d)
      BY MediaPackets, ListsNone
    <2> QED
      BY <1>5, <2>1 DEF Samples, Of
  <1>9. SpeaksAfter(d)'
    BY <1>3, <1>4, <1>8 DEF SpeaksAfter, GoesOn, Samples, Of
  <1> QED
    BY <1>1, <1>7, <1>9 DEF Played, Samples, Of

\* The audio callback plays the sample that waits.
LEMMA CallbackPlays ==
    ASSUME Invariant, Played, played \in Seq(Nat), AudioCallback, GoesOn("audio")
    PROVE  Played' /\ played' \in Seq(Nat)
  <1> USE DEF Invariant
  <1>1. PICK lost \in SUBSET Samples, b \in Nat, c \in Nat : PlayedUpTo(lost, b, c) /\ SpeaksAfter(c)
    BY DEF Played
  <1>2. /\ speaker.sampleQ # <<>> /\ played' = Append(played, Head(speaker.sampleQ))
        /\ speaker' = [speaker EXCEPT !.sampleQ = Tail(@)]
        /\ pc' = pc /\ sample' = sample
    BY DEF AudioCallback
  <1>3. /\ Samples \in SUBSET Nat /\ Samples \ lost \in SUBSET Nat
        /\ "audio" \in Media /\ Of("audio") \in SUBSET Nat
    BY MediaPackets DEF Media
  <1>4. /\ speaker'.sampleQ = Tail(speaker.sampleQ) /\ speaker'.submitQ = speaker.submitQ
        /\ speaker.sampleQ \in Seq(Nat)
    BY <1>2, <1>3 DEF Types
  <1>5. /\ Lists(speaker.sampleQ, Samples, b, c) /\ LostUpTo(lost, b)
        /\ Lists(played, Samples \ lost, 0, b)
    BY <1>1 DEF PlayedUpTo
  <1>6. PICK h \in Nat : /\ h = Head(speaker.sampleQ)
                        /\ Lists(<<h>>, Samples, b, h)
                        /\ Lists(Tail(speaker.sampleQ), Samples, h, c)
    BY <1>2, <1>3, <1>4, <1>5, ListsHead
  <1>7. \A k \in Nat : b < k => k \notin lost
    BY <1>3, <1>5 DEF LostUpTo
  <1>8. Lists(<<h>>, Samples \ lost, b, h)
    <2>1. DOMAIN <<h>> = {1} /\ <<h>>[1] = h
      OBVIOUS
    <2> QED
      BY <1>3, <1>6, <1>7, <2>1 DEF Lists, Rises
  <1>9. Lists(Append(played, h), Samples \ lost, 0, h)
    BY <1>3, <1>5, <1>8, ListsAppend
  <1>10. b <= h
    BY <1>6 DEF Lists, Rises
  <1>11. LostUpTo(lost, h)
    BY <1>3, <1>5, <1>10 DEF LostUpTo
  <1>12. PlayedUpTo(lost, h, c)'
    BY <1>2, <1>4, <1>6, <1>9, <1>11 DEF PlayedUpTo, LostUpTo, BeforeReset, Samples, Of
  <1>13. SpeaksAfter(c)'
    BY <1>1, <1>2, <1>4 DEF SpeaksAfter, GoesOn, InHand, Samples, Of
  <1>14. played' \in Seq(Nat)
    BY <1>2, <1>6
  <1> QED
    BY <1>1, <1>12, <1>13, <1>14 DEF Played, Samples, Of

\* The next sample is taken; if the device has to be opened again, the one
\* that waits for the old one is lost.
LEMMA ResetLoses ==
    ASSUME Invariant, Played, Waiting, ResetAudioDevice, GoesOn("audio")
    PROVE  Played'
  <1> USE DEF Invariant
  <1>1. PICK lost \in SUBSET Samples, b \in Nat, c \in Nat : PlayedUpTo(lost, b, c) /\ SpeaksAfter(c)
    BY DEF Played
  <1> DEFINE h == Head(speaker.submitQ)
  <1>2. /\ pc["speak"] = "get" /\ speaker.submitQ # <<>> /\ sample' = h /\ played' = played
        /\ pc' = [pc EXCEPT !["speak"] = "put"]
        /\ \/ /\ speaker.device = Format[h]
              /\ speaker' = [speaker EXCEPT !.submitQ = Tail(@)]
           \/ /\ speaker.device # Format[h]
              /\ speaker' = [Reopened(Format[h]) EXCEPT !.submitQ = Tail(@)]
    BY DEF ResetAudioDevice, Goto
  <1>3. Samples \in SUBSET Nat /\ "audio" \in Media /\ Of("audio") \in SUBSET Nat
    BY MediaPackets DEF Media
  <1>4. /\ speaker'.submitQ = Tail(speaker.submitQ)
        /\ speaker.submitQ \in Seq(Nat) /\ speaker.sampleQ \in Seq(Nat)
        /\ pc'["speak"] = "put"
    <2>1. speaker'.submitQ = Tail(speaker.submitQ)
      BY <1>2 DEF Types, Reopened
    <2>2. speaker.submitQ \in Seq(Nat) /\ speaker.sampleQ \in Seq(Nat)
      BY <1>3 DEF Types
    <2>3. pc'["speak"] = "put"
      BY <1>2 DEF Types, Threads
    <2> QED
      BY <2>1, <2>2, <2>3
  <1>5. PICK d \in Nat, e \in Nat : /\ Lists(InHand, Samples, c, d)
                                   /\ Lists(speaker.submitQ, Samples, d, e)
                                   /\ (Feeds("audio") => OnTheWay("audio", e))
    BY <1>1, <1>2 DEF SpeaksAfter
  <1>6. h \in Nat /\ Lists(<<h>>, Samples, d, h) /\ Lists(Tail(speaker.submitQ), Samples, h, e)
    BY <1>2, <1>3, <1>4, <1>5, ListsHead
  <1> HIDE DEF h
  <1>7. InHand = <<>> /\ InHand' = <<h>> /\ <<h>> \in Seq(Nat)
    BY <1>2, <1>4, <1>6 DEF InHand
  <1>8. Lists(<<h>>, Samples, c, h)
    BY <1>3, <1>5, <1>6, <1>7, ListsPass
  <1>9. SpeaksAfter(c)'
    BY <1>4, <1>5, <1>6, <1>7, <1>8 DEF SpeaksAfter, GoesOn, Samples, Of
  <1>10. CASE speaker'.sampleQ = speaker.sampleQ
    BY <1>1, <1>2, <1>9, <1>10 DEF Played, PlayedUpTo, LostUpTo, BeforeReset, Samples, Of
  <1>11. CASE speaker'.sampleQ # speaker.sampleQ
    <2>1. speaker.device # Format[h] /\ speaker'.sampleQ = <<>> /\ speaker.sampleQ # <<>>
      BY <1>2, <1>11 DEF Reopened, Types
    <2>2. /\ 1 \in DOMAIN speaker.sampleQ
          /\ \A i \in DOMAIN speaker.sampleQ : i = 1
      BY <1>4, <2>1 DEF Waiting
    <2> DEFINE k == speaker.sampleQ[1]
    <2>3. Format[k] # Format[h]
      <3>1. speaker.device # NoDevice
        BY <1>2, <2>1 DEF Waiting
      <3> QED
        BY <2>1, <2>2, <3>1 DEF Fitting, SamplesFitDevice
    <2>4. /\ Lists(speaker.sampleQ, Samples, b, c) /\ LostUpTo(lost, b)
          /\ Lists(played, Samples \ lost, 0, b)
      BY <1>1 DEF PlayedUpTo
    <2>5. k \in Samples /\ b < k /\ k <= c /\ k \in Nat
      BY <1>3, <2>2, <2>4 DEF Lists, Rises
    <2>6. \A j \in Samples : b < j /\ j <= c => j = k
      BY <2>2, <2>4 DEF Lists, Rises
    <2>7. h \in Samples /\ c < h /\ \A j \in Samples : c < j /\ j <= h => j = h
      <3>1. DOMAIN <<h>> = {1} /\ <<h>>[1] = h
        OBVIOUS
      <3> QED
        BY <1>8, <3>1 DEF Lists, Rises
    <2> HIDE DEF k
    <2>8. BeforeReset(k)
      <3>1. k < h
        BY <1>6, <2>5, <2>7
      <3>2. \A j \in Samples : j <= k \/ h <= j
        <4> SUFFICES ASSUME NEW j \in Samples, ~ (j <= k), ~ (h <= j)
                     PROVE  FALSE
          OBVIOUS
        <4>1. j \in Nat /\ b < j
          BY <1>3, <2>5
        <4>2. CASE j <= c
          BY <2>5, <2>6, <4>1, <4>2
        <4>3. CASE c < j
          BY <1>6, <2>7, <4>1, <4>3
        <4> QED
          BY <4>1, <4>2, <4>3
      <3> QED
        BY <2>3, <2>7, <3>1, <3>2 DEF BeforeReset
    <2>9. PICK more \in SUBSET Samples : more = lost \cup {k}
      BY <2>5
    <2>10. LostUpTo(more, c)
      <3>1. \A j \in lost : j <= c
        BY <1>3, <2>4, <2>5 DEF LostUpTo
      <3> QED
        BY <2>4, <2>5, <2>8, <2>9, <3>1 DEF LostUpTo
    <2>11. Lists(played, Samples \ more, 0, c)
      <3>1. 0 <= c
        OBVIOUS
      <3>2. \A i \in DOMAIN played : played[i] \in Samples \ lost /\ 0 < played[i] /\ played[i] <= b
        BY <2>4 DEF Lists, Rises
      <3>3. \A i \in DOMAIN played : played[i] \in Samples \ more /\ 0 < played[i] /\ played[i] <= c
        <4> SUFFICES ASSUME NEW i \in DOMAIN played
                     PROVE  played[i] \in Samples \ more /\ 0 < played[i] /\ played[i] <= c
          OBVIOUS
        <4>1. PICK x \in Nat : x = played[i]
          BY <1>3, <3>2
        <4> QED
          BY <2>5, <2>9, <3>2, <4>1
      <3>4. ASSUME NEW j \in Samples \ more, 0 < j, j <= c
            PROVE  \E i \in DOMAIN played : played[i] = j
        <4>1. j \in Samples \ lost /\ j # k /\ j \in Nat
          BY <1>3, <2>9, <3>4
        <4>2. j <= b
          BY <2>6, <3>4, <4>1
        <4> QED
          BY <2>4, <3>4, <4>1, <4>2 DEF Lists, Rises
      <3>5. \A i, j \in DOMAIN played : i < j => played[i] < played[j]
        BY <2>4 DEF Lists, Rises
      <3> QED
        BY <3>1, <3>3, <3>4, <3>5 DEF Lists, Rises
    <2>12. Lists(<<>>, Samples, c, c)
      BY <1>3, ListsNone
    <2>13. PlayedUpTo(more, c, c)'
      BY <1>2, <2>1, <2>10, <2>11, <2>12 DEF PlayedUpTo, LostUpTo, BeforeReset, Samples, Of
    <2> QED
      BY <1>9, <2>9, <2>13 DEF Played, Samples, Of
  <1> QED
    BY <1>10, <1>11

LEMMA PlayedKeeps ==
    ASSUME Invariant, Order, [Next]_vars
    PROVE  Played' /\ played' \in Seq(Nat)
  <1> USE DEF Invariant
  <1>1. Played /\ played \in Seq(Nat) /\ Submitting /\ Waiting
    BY DEF Order
  <1>2. CASE Leaves("audio")
    BY <1>1, <1>2, SampleLeaves DEF Leaves, PutSample, Drop, sounding
  <1>3. ASSUME ~ Leaves("audio")
        PROVE  GoesOn("audio")
    BY <1>1, <1>3, AllGoOn DEF Media
  <1>4. CASE ~ Leaves("audio") /\ SpeakPut
    BY <1>1, <1>3, <1>4, HandedOver DEF SpeakPut
  <1>5. CASE ~ Leaves("audio") /\ AudioCallback
    BY <1>1, <1>3, <1>5, CallbackPlays
  <1>6. CASE ~ Leaves("audio") /\ ResetAudioDevice
    BY <1>1, <1>3, <1>6, ResetLoses DEF ResetAudioDevice
  <1>7. CASE ~ Leaves("audio") /\ ResetFails
    <2>1. /\ pc' = [pc EXCEPT !["speak"] = "done"] /\ played' = played
          /\ speaker'.sampleQ = speaker.sampleQ
      BY <1>7 DEF ResetFails, Goto, Types
    <2>2. pc'["speak"] = "done"
      BY <2>1 DEF Types, Threads
    <2> QED
      BY <1>1, <1>3, <1>7, <2>1, <2>2, PlayedAside
  <1>8. CASE /\ ~ Leaves("audio") /\ ~ SpeakPut /\ ~ AudioCallback
             /\ ~ ResetAudioDevice /\ ~ ResetFails
    <2>1. /\ played' = played /\ sample' = sample
          /\ speaker'.sampleQ = speaker.sampleQ /\ speaker'.submitQ = speaker.submitQ
      BY <1>8 DEF Leaves, Next, vars, Reader, ReaderLoop, ReadPacket, ReadFails, PutNull, ReaderQuits, Decoder,
         DecoderLoop, DecoderTimeout, Decode, DecodeFails, Drop, Submit, PutFrame, PutFrameTimeout,
         Render, RenderLoop, RenderTimeout, Draw, DrawFails, Speak, SpeakLoop, SpeakTimeout,
         Main, RendererJoined, MainQuits, KillSpeaker, SpeakerJoined,
         MainKillsRenderer, MainReturns, CloseWindow, Interrupt, Finished, Types, sounding
    <2>2. \/ pc'["speak"] = pc["speak"]
          \/ pc["speak"] \in {"loop", "get"} /\ pc'["speak"] \in {"loop", "get", "done"}
      <3>1. CASE SpeakLoop \/ SpeakTimeout
        <4>1. pc["speak"] \in {"loop", "get"}
          BY <3>1 DEF SpeakLoop, SpeakTimeout
        <4>2. \E l \in {"loop", "get", "done"} : pc' = [pc EXCEPT !["speak"] = l]
          BY <3>1 DEF SpeakLoop, SpeakTimeout, Goto
        <4>3. pc'["speak"] \in {"loop", "get", "done"}
          BY <4>2 DEF Types, Threads
        <4> QED
          BY <4>1, <4>3
      <3>2. CASE ~ SpeakLoop /\ ~ SpeakTimeout
        <4>1. \/ pc' = pc
              \/ \E t \in Threads \ {"speak"} : \E l : pc' = [pc EXCEPT ![t] = l]
          BY <1>8, <3>2 DEF Next, vars, Reader, ReaderLoop, ReadPacket, ReadFails, PutNull, ReaderQuits, Decoder,
             DecoderLoop, DecoderTimeout, Decode, DecodeFails, Drop, Submit, PutFrame, PutFrameTimeout, PutSample,
             Render, RenderLoop, RenderTimeout, Draw, DrawFails, Speak, Main, RendererJoined, MainQuits,
             KillSpeaker, SpeakerJoined, MainKillsRenderer, MainReturns, CloseWindow, KillRenderer, Interrupt,
             Finished, NextFrame, Goto, Threads, Media
        <4>2. ASSUME NEW t \in Threads \ {"speak"}, NEW l, pc' = [pc EXCEPT ![t] = l]
              PROVE  pc'["speak"] = pc["speak"]
          BY <4>2 DEF Types, Threads
        <4> QED
          BY <4>1, <4>2
      <3> QED
        BY <3>1, <3>2
    <2>3. \/ pc'["speak"] = "done"
          \/ pc["speak"] # "done" /\ InHand' = InHand
      BY <2>1, <2>2 DEF InHand
    <2> QED
      BY <1>1, <1>3, <1>8, <2>1, <2>3, PlayedAside
  <1> QED
    BY <1>2, <1>4, <1>5, <1>6, <1>7, <1>8

\* The queue to the audio callback has room for one sample.
LEMMA WaitingKeeps ==
    ASSUME Invariant, Waiting, [Next]_vars
    PROVE  Waiting'
  <1> USE DEF Invariant
  <1>1. CASE SpeakPut
    <2>1. speaker'.sampleQ = <<sample>> /\ speaker'.device = speaker.device /\ pc["speak"] = "put"
      BY <1>1 DEF SpeakPut, Types
    <2>2. speaker.device # NoDevice
      BY <2>1, PacketsOf DEF Fitting
    <2> QED
      BY <2>1, <2>2 DEF Waiting
  <1>2. CASE AudioCallback
    <2>1. /\ speaker.sampleQ # <<>> /\ speaker.sampleQ \in Seq(Of("audio"))
          /\ speaker'.sampleQ = Tail(speaker.sampleQ)
      BY <1>2 DEF AudioCallback, Types
    <2>2. \A i \in DOMAIN Tail(speaker.sampleQ) : i \in Nat /\ i # 0 /\ i + 1 \in DOMAIN speaker.sampleQ
      BY <2>1
    <2>3. \A i \in DOMAIN Tail(speaker.sampleQ) : FALSE
      BY <2>2 DEF Waiting
    <2>4. Tail(speaker.sampleQ) = <<>>
      <3>1. Tail(speaker.sampleQ) \in Seq(Of("audio"))
        BY <2>1
      <3>2. \A q \in Seq(Of("audio")) : q # <<>> => 1 \in DOMAIN q
        OBVIOUS
      <3> QED
        BY <2>3, <3>1, <3>2
    <2> QED
      BY <2>1, <2>4 DEF Waiting
  <1>3. CASE ResetAudioDevice
    <2> DEFINE h == Head(speaker.submitQ)
    <2>1. h \in Of("audio")
      <3>1. speaker.submitQ \in Seq(Of("audio")) /\ speaker.submitQ # <<>>
        BY <1>3 DEF ResetAudioDevice, Types
      <3> QED
        BY <3>1
    <2>2. \/ speaker.device = Format[h] /\ speaker' = [speaker EXCEPT !.submitQ = Tail(@)]
          \/ speaker' = [Reopened(Format[h]) EXCEPT !.submitQ = Tail(@)]
      BY <1>3 DEF ResetAudioDevice
    <2> HIDE DEF h
    <2>3. speaker'.device = Format[h] /\ (speaker'.sampleQ = speaker.sampleQ \/ speaker'.sampleQ = <<>>)
      BY <2>2 DEF Types, Reopened
    <2>4. Format[h] # NoDevice
      BY <2>1, PacketsOf
    <2> QED
      BY <2>3, <2>4 DEF Waiting
  <1>4. CASE ResetFails
    <2>1. /\ pc' = [pc EXCEPT !["speak"] = "done"]
          /\ speaker'.sampleQ = speaker.sampleQ
      BY <1>4 DEF ResetFails, Goto, Types
    <2>2. pc'["speak"] = "done"
      BY <2>1 DEF Types, Threads
    <2> QED
      BY <2>1, <2>2 DEF Waiting
  <1>5. CASE SpeakerJoined
    <2>1. pc["speak"] = "done" /\ speaker'.sampleQ = speaker.sampleQ
      BY <1>5 DEF SpeakerJoined, Types
    <2>2. pc'["speak"] = "done"
      BY <2>1, EndsForGood DEF Threads
    <2> QED
      BY <2>1, <2>2 DEF Waiting
  <1>6. CASE ~ SpeakPut /\ ~ AudioCallback /\ ~ ResetAudioDevice /\ ~ ResetFails /\ ~ SpeakerJoined
    <2>1. speaker'.sampleQ = speaker.sampleQ /\ speaker'.device = speaker.device
      BY <1>6 DEF Next, vars, Reader, ReaderLoop, ReadPacket, ReadFails, PutNull, ReaderQuits, Decoder,
         DecoderLoop, DecoderTimeout, Decode, DecodeFails, Drop, Submit, PutFrame, PutFrameTimeout, PutSample,
         Render, RenderLoop, RenderTimeout, Draw, DrawFails, Speak, SpeakLoop, SpeakTimeout,
         Main, RendererJoined, MainQuits, KillSpeaker,
         MainKillsRenderer, MainReturns, CloseWindow, Interrupt, Finished, Types, sounding
    <2>2. pc'["speak"] # "done" => pc["speak"] # "done"
      BY EndsForGood DEF Threads
    <2> QED
      BY <2>1, <2>2 DEF Waiting
  <1> QED
    BY <1>1, <1>2, <1>3, <1>4, <1>5, <1>6

\* A decoding thread looks for a packet when it has submitted all it had.
LEMMA SubmittingKeeps ==
    ASSUME Invariant, Submitting, [Next]_vars
    PROVE  Submitting'
  <1> USE DEF Invariant
  <1>1. ASSUME NEW m \in Media, Decoder(m)
        PROVE  /\ pc'[m] \in {"loop", "get"} => out'[m] = <<>>
               /\ m = "audio" /\ pc'[m] = "put" => Head(out'[m]) \in Samples
    <2>1. m \in Threads /\ pc[m] \in Labels
      BY DEF Threads, Media, Types
    <2>2. CASE DecoderLoop(m) \/ DecoderTimeout(m)
      <3>1. pc[m] \in {"loop", "get"} /\ out' = out /\ \E l \in {"loop", "get", "done"} : pc' = [pc EXCEPT ![m] = l]
        BY <2>2 DEF DecoderLoop, DecoderTimeout, Goto, decoding
      <3>2. pc'[m] # "put"
        BY <2>1, <3>1 DEF Types
      <3> QED
        BY <3>1, <3>2 DEF Submitting
    <2>3. CASE Decode(m)
      <3>1. pc' = [pc EXCEPT ![m] = IF out'[m] = <<>> THEN "loop" ELSE "submit"]
        BY <2>3 DEF Decode, Goto
      <3> QED
        BY <2>1, <3>1 DEF Types
    <2>4. CASE DecodeFails(m)
      BY <2>1, <2>4 DEF DecodeFails, Goto, Types
    <2>5. CASE NextFrame(m) /\ pc[m] \in {"submit", "put"}
      <3>1. out[m] # <<>> /\ out[m] \in Seq(Nat)
        BY <2>5 DEF HasFrame, Types
      <3>2. pc' = [pc EXCEPT ![m] = IF Len(out[m]) = 1 THEN "loop" ELSE "submit"] /\ out'[m] = Tail(out[m])
        BY <2>5 DEF NextFrame, Goto, Types
      <3>3. CASE Len(out[m]) = 1
        <4>1. Tail(out[m]) = <<>>
          <5>1. Tail(out[m]) \in Seq(Nat) /\ Len(Tail(out[m])) = 0
            BY <3>1, <3>3
          <5>2. \A q \in Seq(Nat) : Len(q) = 0 => q = <<>>
            OBVIOUS
          <5> QED
            BY <5>1, <5>2
        <4>2. pc'[m] = "loop"
          BY <2>1, <3>2, <3>3 DEF Types
        <4> QED
          BY <3>2, <4>1, <4>2
      <3>4. CASE Len(out[m]) # 1
        BY <2>1, <3>2, <3>4 DEF Types
      <3> QED
        BY <3>3, <3>4
    <2>6. CASE Submit(m)
      <3>1. pc' = [pc EXCEPT ![m] = "put"] /\ out' = out /\ IsWanted(m, Head(out[m])) /\ pc[m] = "submit"
        BY <2>6 DEF Submit, Goto, decoding
      <3>2. pc'[m] = "put"
        BY <2>1, <3>1 DEF Types
      <3>3. m = "audio" => Head(out[m]) \in Samples
        <4>1. Head(out[m]) \in Of(m)
          <5>1. out[m] # <<>> /\ out[m] \in Seq(Of(m))
            BY <3>1 DEF HasFrame, Types
          <5> QED
            BY <5>1
        <4> QED
          BY <3>1, <4>1 DEF IsWanted, Samples
      <3> QED
        BY <3>1, <3>2, <3>3
    <2>7. CASE m = "video" /\ PutFrameTimeout
      <3>1. pc' = [pc EXCEPT ![m] = "submit"]
        BY <2>7 DEF PutFrameTimeout, Goto
      <3>2. pc'[m] = "submit"
        BY <2>1, <3>1 DEF Types
      <3> QED
        BY <3>2
    <2> QED
      BY <1>1, <2>2, <2>3, <2>4, <2>5, <2>6, <2>7 DEF Decoder, Drop, PutFrame, PutSample
  <1>2. ASSUME NEW m \in Media, ~ Decoder(m)
        PROVE  pc'[m] = pc[m] /\ out'[m] = out[m]
    <2>1. m \in Threads /\ m \notin {"reader", "render", "speak", "main"}
      BY DEF Threads, Media
    <2>2. CASE \E n \in Media : Decoder(n)
      <3>1. PICK n \in Media : Decoder(n)
        BY <2>2
      <3>2. n # m
        BY <1>2, <3>1
      <3>3. \E l : pc' = [pc EXCEPT ![n] = l]
        BY <3>1 DEF Decoder, DecoderLoop, DecoderTimeout, Decode, DecodeFails, Drop, Submit,
           PutFrame, PutFrameTimeout, PutSample, NextFrame, Goto
      <3>4. \/ out' = out
            \/ \E q : out' = [out EXCEPT ![n] = q]
        BY <3>1 DEF Decoder, DecoderLoop, DecoderTimeout, Decode, DecodeFails, Drop, Submit,
           PutFrame, PutFrameTimeout, PutSample, NextFrame, decoding
      <3> QED
        BY <2>1, <3>2, <3>3, <3>4 DEF Types
    <2>3. CASE ~ \E n \in Media : Decoder(n)
      <3>1. /\ out' = out
            /\ \/ pc' = pc
               \/ \E t \in Threads \ Media : \E l : pc' = [pc EXCEPT ![t] = l]
        BY <2>3 DEF Next, vars, Reader, ReaderLoop, ReadPacket, ReadFails, PutNull, ReaderQuits,
           Render, RenderLoop, RenderTimeout, Draw, DrawFails, Speak, SpeakLoop, SpeakTimeout, ResetAudioDevice,
           ResetFails, SpeakPut, AudioCallback, Main, RendererJoined, MainQuits, KillSpeaker, SpeakerJoined,
           MainKillsRenderer, MainReturns, CloseWindow, KillRenderer, Interrupt, Finished,
           Goto, decoding, Threads, Media
      <3>2. ASSUME NEW t \in Threads \ Media, NEW l, pc' = [pc EXCEPT ![t] = l]
            PROVE  pc'[m] = pc[m]
        BY <2>1, <3>2 DEF Types
      <3> QED
        BY <3>1, <3>2
    <2> QED
      BY <2>2, <2>3
  <1>3. \A m \in Media : pc'[m] \in {"loop", "get"} => out'[m] = <<>>
    BY <1>1, <1>2 DEF Submitting
  <1>4. pc'["audio"] = "put" => Head(out'["audio"]) \in Samples
    BY <1>1, <1>2 DEF Submitting, Media
  <1> QED
    BY <1>3, <1>4 DEF Submitting, Samples, Of

\* At the start everything is still to be read.
LEMMA InitOrder == Init => Order
  <1> SUFFICES ASSUME Init PROVE Order
    OBVIOUS
  <1>1. Submitting /\ Waiting /\ rendered \in Seq(Nat) /\ played \in Seq(Nat)
    BY DEF Init, Submitting, Waiting, Threads, Media
  <1>2. \A m \in Media : Lists(<<>>, Of(m), 0, 0)
    BY MediaPackets, ListsNone
  <1>3. \A m \in Media : OnTheWay(m, 0)
    <2> SUFFICES ASSUME NEW m \in Media PROVE OnTheWay(m, 0)
      OBVIOUS
    <2>1. packetQ[m] = <<>> /\ held[m] = <<>> /\ out[m] = <<>> /\ pos - 1 = 0
      BY DEF Init
    <2>2. Queued(m, 0)
      <3>1. Lists(<<>>, Of(m), 0, pos - 1) /\ <<>> \in Seq(Nat)
        BY <1>2, <2>1
      <3> QED
        BY <2>1, <3>1 DEF Queued
    <2> QED
      BY <1>2, <2>1, <2>2 DEF OnTheWay
  <1>4. /\ rendered = <<>> /\ renderer.queue = <<>> /\ played = <<>>
        /\ speaker.sampleQ = <<>> /\ speaker.submitQ = <<>> /\ InHand = <<>>
    BY DEF Init, InHand, Threads
  <1>5. Shown
    <2>1. ShownUpTo(0)
      BY <1>2, <1>3, <1>4 DEF ShownUpTo, Media
    <2> QED
      BY <2>1 DEF Shown
  <1>6. Played
    <2>1. Lists(<<>>, Samples, 0, 0) /\ Lists(<<>>, Samples \ {}, 0, 0)
      BY MediaPackets, ListsNone
    <2>2. PlayedUpTo({}, 0, 0)
      BY <1>4, <2>1 DEF PlayedUpTo, LostUpTo
    <2>3. SpeaksAfter(0)
      BY <1>3, <1>4, <2>1 DEF SpeaksAfter, Media
    <2> QED
      BY <2>2, <2>3 DEF Played
  <1> QED
    BY <1>1, <1>5, <1>6 DEF Order

\* Each frame and each sample stays in its place, whoever dies first.
LEMMA OrderAlways == Spec => [](Invariant /\ Order)
  <1>1. Init => Invariant /\ Order
    BY InitInvariant, InitOrder
  <1>2. Invariant /\ Order /\ [Next]_vars => (Invariant /\ Order)'
    <2> SUFFICES ASSUME Invariant, Order, [Next]_vars PROVE Invariant' /\ Order'
      OBVIOUS
    <2>1. Submitting' /\ Waiting'
      BY SubmittingKeeps, WaitingKeeps DEF Order
    <2> QED
      BY <2>1, NextInvariant, ShownKeeps, PlayedKeeps DEF Order
  <1> QED
    BY <1>1, <1>2, PTL DEF Spec

\* A list of packets ends within the input.
LEMMA ListsWithin ==
    ASSUME NEW P \in SUBSET (DOMAIN Packets), NEW s, NEW b \in Nat, Lists(s, P, 0, b)
    PROVE  \E c \in 0..Len(Packets) : Lists(s, P, 0, c)
  <1>1. Len(Packets) \in Nat /\ P \subseteq 1..Len(Packets)
    BY PlayerAssumption DEF PlayerAssumption
  <1>2. CASE b <= Len(Packets)
    BY <1>1, <1>2
  <1>3. CASE ~ (b <= Len(Packets))
    <2>1. Lists(s, P, 0, Len(Packets))
      BY <1>1, <1>3 DEF Lists, Rises
    <2> QED
      BY <1>1, <2>1
  <1> QED
    BY <1>2, <1>3

(***************************************************************************)
(* Frames are shown in the order of the input and none is left out in      *)
(* between, for any input, any delay of the codec and any capacity of the  *)
(* queue, whether it is full, a decoder fails or the renderer dies.        *)
(***************************************************************************)
THEOREM FramesAlwaysInOrder == Spec => []FramesInOrder
  <1>1. Order => FramesInOrder
    <2> SUFFICES ASSUME Order PROVE FramesInOrder
      OBVIOUS
    <2>1. PICK b \in Nat : Lists(rendered, Of("video"), 0, b)
      BY DEF Order, Shown, ShownUpTo
    <2>2. Of("video") \in SUBSET (DOMAIN Packets)
      BY DEF Of
    <2> QED
      BY <2>1, <2>2, ListsWithin DEF FramesInOrder
  <1> QED
    BY <1>1, OrderAlways, PTL

(***************************************************************************)
(* A sample is lost only when the device is opened again for the next one, *)
(* which has other parameters; all others are played in order.             *)
(***************************************************************************)
THEOREM SamplesLostOnlyAtReset == Spec => []SamplesLostAtResetOnly
  <1>1. Order => SamplesLostAtResetOnly
    <2> SUFFICES ASSUME Order PROVE SamplesLostAtResetOnly
      OBVIOUS
    <2>1. PICK lost \in SUBSET Samples, b \in Nat : LostUpTo(lost, b) /\ Lists(played, Samples \ lost, 0, b)
      BY DEF Order, Played, PlayedUpTo
    <2>2. Samples \ lost \in SUBSET (DOMAIN Packets)
      BY DEF Samples, Of
    <2>3. PICK c \in 0..Len(Packets) : Lists(played, Samples \ lost, 0, c)
      BY <2>1, <2>2, ListsWithin
    <2>4. lost \in SUBSET {k \in Samples : BeforeReset(k)}
      BY <2>1 DEF LostUpTo
    <2> QED
      BY <2>3, <2>4 DEF SamplesLostAtResetOnly
  <1> QED
    BY <1>1, OrderAlways, PTL

-----------------------------------------------------------------------------
(***************************************************************************)
(* Video in step with audio: the property is about one instant.  What      *)
(* carries it there is that a stored interval is never further from the    *)
(* clock than a beat (Stored), that the renderer's copy stays so however   *)
(* many samples begin after it was loaded (Copied), and that a sleep was   *)
(* computed to end when the frame is due or has its lead (Planned), which  *)
(* is none for a frame near the sample, no duration being below the        *)
(* initial -1 (Measured).                                                  *)
(***************************************************************************)
Interval == [start : Int, duration : Int, corresponding : Int]

SyncTypes ==
    /\ clock \in Int /\ alive \in Int /\ began \in Int
    /\ interval \in Interval /\ loaded \in Interval
    /\ point \in Int /\ heard \in Int /\ asked \in Int /\ until \in Int

Measured == interval.duration >= -1 /\ loaded.duration >= -1

Beats == alive <= clock /\ clock <= alive + Beat

Stored == interval.corresponding <= began /\ began <= interval.corresponding + Beat

Copied == loaded.corresponding <= heard /\ heard <= loaded.corresponding + Beat

Planned ==
    stage = "sleeping" =>
        /\ clock <= until + Late
        /\ point > loaded.start /\ loaded.start # 0 =>
            /\ until >= Due - Beat
            /\ \/ until <= asked
               \/ until <= Due + Lead(point, loaded) + Beat

SyncInvariant == SyncTypes /\ Measured /\ Beats /\ Stored /\ Copied /\ Planned

-----------------------------------------------------------------------------
\* The lead is a number: what a frame is held back once more.
LEMMA LeadInt ==
    ASSUME NEW p \in Int, NEW i \in Interval
    PROVE  Lead(p, i) \in Int
  BY DEF Lead, Interval, Hundred

\* A frame less than 100 ms ahead of a sample's beginning has no lead, any other
\* at most as much as it is ahead.
LEMMA LeadBounded ==
    ASSUME NEW p \in Int, NEW i \in Interval, i.duration >= -1, p > i.start
    PROVE  Lead(p, i) = 0 \/ (p >= i.start + Hundred /\ Lead(p, i) = p - i.start)
  BY DEF Lead, Interval, Hundred

\* The delay, unless it is none, ends when the frame is due, but for a beat.
LEMMA DelayMeetsDue ==
    ASSUME SyncInvariant, point > loaded.start, loaded.start # 0,
           Beat \in Nat
    PROVE  /\ CalcDelayTime(point, loaded) \in Int
           /\ clock + CalcDelayTime(point, loaded) >= Due - Beat
           /\ clock + CalcDelayTime(point, loaded) <= Due + Lead(point, loaded) + Beat
  <1>1. Lead(point, loaded) \in Int
    BY LeadInt DEF SyncInvariant, SyncTypes
  <1>2. Lead(point, loaded) >= 0
    BY DEF Lead, SyncInvariant, SyncTypes, Interval, Hundred
  <1>3. CalcDelayTime(point, loaded)
            = (point - loaded.start) - (alive - loaded.corresponding) + Lead(point, loaded)
    BY DEF CalcDelayTime, SyncInvariant, SyncTypes, Interval
  <1> QED
    BY <1>1, <1>2, <1>3 DEF SyncInvariant, SyncTypes, Interval, Beats, Copied, Due

\* The delay of any frame is a number.
LEMMA DelayInt ==
    ASSUME SyncInvariant
    PROVE  CalcDelayTime(point, loaded) \in Int
  BY LeadInt DEF CalcDelayTime, SyncInvariant, SyncTypes, Interval, Hundred

-----------------------------------------------------------------------------
\* At the start nothing sleeps and all clocks are 0.
LEMMA InitSync == SyncInit => SyncInvariant
  BY AVSyncAssumption
     DEF SyncInit, SyncInvariant, SyncTypes, Measured, Beats, Stored, Copied, Planned, Interval, AVSyncAssumption

\* Every step of the heart, the device and the renderer keeps the invariant.
LEMMA NextSync == SyncInvariant /\ [SyncNext]_syncVars => SyncInvariant'
  <1> SUFFICES ASSUME SyncInvariant, [SyncNext]_syncVars
               PROVE  SyncInvariant'
    OBVIOUS
  <1> USE AVSyncAssumption DEF AVSyncAssumption
  <1>1. CASE Tick
    BY <1>1 DEF Tick, SyncInvariant, SyncTypes, Measured, Beats, Stored, Copied, Planned, Due, Lead
  <1>2. CASE Heart
    BY <1>2 DEF Heart, SyncInvariant, SyncTypes, Measured, Beats, Stored, Copied, Planned, Due, Lead
  <1>3. CASE Plays
    <2>1. PICK start \in SamplePoints, length \in Lengths :
              /\ interval' = [start |-> start, duration |-> length \div 1000, corresponding |-> alive]
              /\ began' = clock
              /\ UNCHANGED <<clock, alive, stage, point, loaded, heard, asked, until>>
      BY <1>3 DEF Plays, UpdatePlayingTimeInterval
    <2>2. start \in Int /\ length \div 1000 \in Int /\ length \div 1000 >= -1
      OBVIOUS
    <2>3. SyncTypes' /\ Measured'
      BY <2>1, <2>2 DEF SyncInvariant, SyncTypes, Measured, Interval
    <2>4. Beats' /\ Stored'
      BY <2>1 DEF SyncInvariant, SyncTypes, Beats, Stored
    <2>5. Copied' /\ Planned'
      BY <2>1 DEF SyncInvariant, Copied, Planned, Due, Lead
    <2> QED
      BY <2>3, <2>4, <2>5 DEF SyncInvariant
  <1>4. CASE Loads
    BY <1>4 DEF Loads, SyncInvariant, SyncTypes, Measured, Beats, Stored, Copied, Planned
  <1>5. CASE Computes
    <2>1. CalcDelayTime(point, loaded) \in Int
      BY DelayInt
    <2>2. SyncTypes' /\ Measured'
      BY <1>5, <2>1 DEF Computes, SyncInvariant, SyncTypes, Measured
    <2>3. Beats' /\ Stored' /\ Copied'
      BY <1>5 DEF Computes, SyncInvariant, Beats, Stored, Copied
    <2>4. clock' <= until' + Late
      BY <1>5, <2>1 DEF Computes, SyncInvariant, SyncTypes
    <2>5. ASSUME point > loaded.start, loaded.start # 0
          PROVE  /\ until' >= Due - Beat
                 /\ until' <= asked' \/ until' <= Due + Lead(point, loaded) + Beat
      <3>1. CASE CalcDelayTime(point, loaded) > 0
        BY <1>5, <2>1, <2>5, <3>1, DelayMeetsDue DEF Computes
      <3>2. CASE ~ (CalcDelayTime(point, loaded) > 0)
        <4>1. until' = clock /\ asked' = clock
          BY <1>5, <3>2 DEF Computes
        <4>2. clock >= clock + CalcDelayTime(point, loaded)
          BY <2>1, <3>2 DEF SyncInvariant, SyncTypes
        <4>3. clock >= Due - Beat
          BY <2>1, <2>5, <4>2, DelayMeetsDue DEF SyncInvariant, SyncTypes, Interval, Due
        <4> QED
          BY <4>1, <4>3 DEF SyncInvariant, SyncTypes
      <3> QED
        BY <3>1, <3>2
    <2>6. Planned'
      BY <1>5, <2>4, <2>5 DEF Computes, Planned, Due, Lead
    <2> QED
      BY <2>2, <2>3, <2>6 DEF SyncInvariant
  <1>6. CASE Shows
    BY <1>6 DEF Shows, SyncInvariant, SyncTypes, Measured, Beats, Stored, Copied, Planned
  <1>7. CASE UNCHANGED syncVars
    BY <1>7 DEF syncVars, SyncInvariant, SyncTypes, Measured, Beats, Stored, Copied, Planned, Due, Lead
  <1> QED
    BY <1>1, <1>2, <1>3, <1>4, <1>5, <1>6, <1>7 DEF SyncNext

\* The invariant is one of the specification: the stored interval and the
\* renderer's copy of it are never further from the clock than a beat.
THEOREM SyncAlways == SyncSpec => []SyncInvariant
  BY InitSync, NextSync, PTL DEF SyncSpec

(***************************************************************************)
(* Every frame is shown in step with the audio its delay was computed      *)
(* from: CalcDelayTimeInMicroSecond and UpdatePlayingTimeInterval need no  *)
(* lock between the three threads.                                         *)
(***************************************************************************)
THEOREM FramesInStep == SyncSpec => ShownInStep
  <1>1. SyncInvariant /\ [SyncNext]_syncVars => [stage = "sleeping" /\ stage' = "shown" => InTime]_syncVars
    <2> SUFFICES ASSUME SyncInvariant, SyncNext, stage = "sleeping", stage' = "shown"
                 PROVE  InTime
      BY DEF syncVars
    <2>1. clock >= until
      BY DEF SyncNext, Tick, Heart, Plays, Loads, Computes, Shows
    <2> SUFFICES ASSUME point > loaded.start, loaded.start # 0
                 PROVE  NotEarly /\ (NotLate \/ HeldBackTwice)
      BY DEF InTime
    <2>2. Lead(point, loaded) = 0 \/ (point >= loaded.start + Hundred /\ Lead(point, loaded) = point - loaded.start)
      BY LeadBounded DEF SyncInvariant, SyncTypes, Measured
    <2>3. NotEarly
      BY <2>1, AVSyncAssumption
         DEF NotEarly, SyncInvariant, SyncTypes, Interval, Planned, Due, AVSyncAssumption
    <2>4. NotLate \/ HeldBackTwice
      BY <2>2, AVSyncAssumption
         DEF NotLate, HeldBackTwice, SyncInvariant, SyncTypes, Interval, Planned, Due, AVSyncAssumption
    <2> QED
      BY <2>3, <2>4
  <1> QED
    BY <1>1, SyncAlways, PTL DEF SyncSpec, ShownInStep
=============================================================================
