----------------------------- MODULE MCRecorder -----------------------------
\* Recorder for TLC, with limits small enough that both queues drop frames.
EXTENDS Recorder

MCDelay == [m \in Media |-> IF m = "video" THEN 1 ELSE 0]
=============================================================================
