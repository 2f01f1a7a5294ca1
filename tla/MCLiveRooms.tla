----------------------------- MODULE MCLiveRooms -----------------------------
\* LiveRooms for TLC: session addresses and room ids are interchangeable.
EXTENDS LiveRooms, TLC

Symmetry == Permutations(Sessions) \cup Permutations(RoomIds)
=============================================================================
