------------------------------ MODULE MCAVSync ------------------------------
\* AVSync for TLC: samples of 40 ms, frames between and far ahead of them, and
\* a clock of 20 ms a step.
EXTENDS AVSync

MCFramePoints == {0, 60000, 120000, 180000}
MCSamplePoints == {0, 40000, 80000}
MCLengths == {40000}
MCSteps == {20000}
=============================================================================
