------------------------------- MODULE AVSync -------------------------------
(***************************************************************************)
(* How the player keeps video in step with audio (player/context.h).       *)
(*                                                                         *)
(* The heart thread copies the clock to alive_micro_seconds_, the callback *)
(* of the audio device notes which sample begins and at what value of      *)
(* alive_micro_seconds_, and the renderer computes from both how long it   *)
(* sleeps before it shows a frame.  All of them run at their own pace, and *)
(* none of them holds a lock: the interval is loaded and stored as a whole *)
(* and alive_micro_seconds_ is read apart from it.                         *)
(*                                                                         *)
(* All times are microseconds but the duration of the interval, which the  *)
(* code stores in milliseconds and adds to microseconds.  The clock of the *)
(* computer is taken to run forward; whether the renderer and the speaker  *)
(* are alive is the matter of Player, and no name here is one of Player's: *)
(* they are one program.                                                   *)
(***************************************************************************)
EXTENDS Integers

CONSTANTS
    FramePoints,   \* time points of the frames
    SamplePoints,  \* time points of the samples
    Lengths,       \* playing times of a sample
    Steps,         \* what may pass of the clock in a step
    Beat,          \* alive_micro_seconds_ is at most so old
    Late,          \* a sleep is at most so much too long
    MaxClock       \* bound: the clock runs so far

ASSUME AVSyncAssumption ==
    /\ FramePoints \subseteq Nat
    /\ SamplePoints \subseteq Nat
    /\ Lengths \subseteq Nat
    /\ Steps \subseteq Nat
    /\ Beat \in Nat
    /\ Late \in Nat
    /\ MaxClock \in Nat

Hundred == 100 * 1000

VARIABLES
    clock,     \* since the Context was made
    alive,     \* alive_micro_seconds_
    interval,  \* playing_time_interval_
    began,     \* ghost: the clock when the sample of the interval began
    stage,     \* the renderer has shown a frame, has loaded the interval or sleeps
    point,     \* time point of its frame
    loaded,    \* the interval it loaded
    heard,     \* ghost: the clock when the sample of that interval began
    asked,     \* the clock when the delay was computed
    until      \* the clock when the sleep is over

syncVars == <<clock, alive, interval, began, stage, point, loaded, heard, asked, until>>

SyncInit ==
    /\ clock = 0
    /\ alive = 0
    /\ interval = [start |-> -1, duration |-> -1, corresponding |-> 0]
    /\ began = 0
    /\ stage = "shown"
    /\ point = 0
    /\ loaded = interval
    /\ heard = 0
    /\ asked = 0
    /\ until = 0

-----------------------------------------------------------------------------
\* Time passes: the heart beats in time and a sleep ends in time.
Tick ==
    \E d \in Steps :
        /\ clock' = clock + d
        /\ clock' <= MaxClock
        /\ clock' - alive <= Beat
        /\ stage = "sleeping" => clock' <= until + Late
        /\ UNCHANGED <<alive, interval, began, stage, point, loaded, heard, asked, until>>

Heart ==
    /\ alive' = clock
    /\ UNCHANGED <<clock, interval, began, stage, point, loaded, heard, asked, until>>

\* Mutant: the value of alive_micro_seconds_ is not stored with the sample.
UpdatePlayingTimeIntervalOnly(start, length) ==
    [start |-> start, duration |-> length \div 1000, corresponding |-> interval.corresponding]

\* The duration comes out in milliseconds, the time points are microseconds.
UpdatePlayingTimeInterval(start, length) ==
    [start |-> start, duration |-> length \div 1000, corresponding |-> alive]

\* The device takes the next sample: when, it decides.
Plays ==
    \E start \in SamplePoints, length \in Lengths :
        /\ start > interval.start
        /\ interval' = UpdatePlayingTimeInterval(start, length)
        /\ began' = clock
        /\ UNCHANGED <<clock, alive, stage, point, loaded, heard, asked, until>>

-----------------------------------------------------------------------------
\* A frame this far ahead of the sample is held back once more.  The duration is
\* added as it was stored: a sample of 40 ms counts for 40 microseconds.
Lead(p, i) == IF p > i.start + i.duration + Hundred THEN p - i.start ELSE 0

\* CalcDelayTimeInMicroSecond, after the interval was loaded.
CalcDelayTime(p, i) ==
    IF p <= i.start THEN 0
    ELSE IF i.start = 0 THEN Hundred
    ELSE (p - i.start) - (alive - i.corresponding) + Lead(p, i)

Loads ==
    \E p \in FramePoints :
        /\ stage = "shown"
        /\ stage' = "loaded"
        /\ point' = p
        /\ loaded' = interval
        /\ heard' = began
        /\ UNCHANGED <<clock, alive, interval, began, asked, until>>

\* alive_micro_seconds_ is read and the renderer sleeps, unless it is late.
Computes ==
    /\ stage = "loaded"
    /\ stage' = "sleeping"
    /\ asked' = clock
    /\ until' = IF CalcDelayTime(point, loaded) > 0 THEN clock + CalcDelayTime(point, loaded) ELSE clock
    /\ UNCHANGED <<clock, alive, interval, began, point, loaded, heard>>

Shows ==
    /\ stage = "sleeping"
    /\ clock >= until
    /\ stage' = "shown"
    /\ UNCHANGED <<clock, alive, interval, began, point, loaded, heard, asked, until>>

SyncNext == Tick \/ Heart \/ Plays \/ Loads \/ Computes \/ Shows

SyncSpec == SyncInit /\ [][SyncNext]_syncVars

-----------------------------------------------------------------------------
(***************************************************************************)
(* A frame is shown in step with the audio its delay was computed from,    *)
(* whatever the three threads did meanwhile: at most a Beat before the     *)
(* device reaches its time point and, unless it was late already, at most  *)
(* a Beat and a Late after it.  The code makes three exceptions: a frame   *)
(* 100 ms or more ahead of the sample's beginning may be held back once    *)
(* more, by as much as it is ahead (which of these may not, says           *)
(* HeldBackBeyondSampleOnly); while a sample at 0 plays, a frame comes     *)
(* 100 ms after it was asked for; and before the first sample the audio is *)
(* taken to have been at -1 when the Context was made.                     *)
(***************************************************************************)
Due == heard + (point - loaded.start)

NotEarly == clock >= Due - Beat

NotLate == clock <= asked + Late \/ clock <= Due + Beat + Late

HeldBackTwice ==
    /\ point >= loaded.start + Hundred
    /\ clock <= Due + (point - loaded.start) + Beat + Late

InTime == point > loaded.start /\ loaded.start # 0 => NotEarly /\ (NotLate \/ HeldBackTwice)

ShownInStep == [][stage = "sleeping" /\ stage' = "shown" => InTime]_syncVars

(***************************************************************************)
(* What the documentation of the interval says: its start and its duration *)
(* are microseconds (context.h:86-87), so that a frame is held back once   *)
(* more only if it is over 100 ms behind the end of the sample             *)
(* (context.h:143).  The stored duration is in milliseconds                *)
(* (context.h:161): a thousand times it is the sample's playing time, or   *)
(* less than that by the fraction of a millisecond that was cut off.       *)
(***************************************************************************)
WithinSample == point <= loaded.start + 1000 * loaded.duration + Hundred

HeldBackBeyondSampleOnly ==
    [][stage = "sleeping" /\ stage' = "shown" =>
        (point > loaded.start /\ loaded.start # 0 /\ WithinSample => NotLate)]_syncVars
=============================================================================
