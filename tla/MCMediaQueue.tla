---------------------------- MODULE MCMediaQueue ----------------------------
\* MediaQueue for TLC, without symmetry: liveness is checked.
EXTENDS MediaQueue
=============================================================================
