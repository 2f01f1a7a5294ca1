------------------------------ MODULE MCNeter ------------------------------
\* Neter for TLC: two messages of the peer, the second without payload.
EXTENDS Neter

MCLengths == <<1, 0>>
=============================================================================
