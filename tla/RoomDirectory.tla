--------------------------- MODULE RoomDirectory ---------------------------
(***************************************************************************)
(* What the rooms of the live server promise its clients, without id pool, *)
(* Room objects, caches and flags: a client hosts a room or listens in     *)
(* one, and hears only what that room's host said.                         *)
(***************************************************************************)
EXTENDS Naturals

CONSTANTS
    Sessions,
    RoomIds

VARIABLES
    host,       \* who speaks in each room: nobody or one client
    audience,   \* who listens in each room
    said,       \* the numbers of the payloads its present host said there
    heard,      \* the numbers of the payloads each client was sent
    count       \* payloads so far, over all rooms

vars == <<host, audience, said, heard, count>>

Init ==
    /\ host = [r \in RoomIds |-> {}]
    /\ audience = [r \in RoomIds |-> {}]
    /\ said = [r \in RoomIds |-> {}]
    /\ heard = [s \in Sessions |-> {}]
    /\ count = 0

\* A client that hosts, listens or still holds what a closed room sent it.
Busy(s) == heard[s] # {} \/ \E r \in RoomIds : s \in host[r] \cup audience[r]

\* A room without a host opens, and nobody is in it.
Open(s, r) ==
    /\ ~ Busy(s)
    /\ host[r] = {}
    /\ host' = [host EXCEPT ![r] = {s}]
    /\ UNCHANGED <<audience, said, heard, count>>

\* A newcomer may be told some of what was said before.
Join(s, r) ==
    /\ ~ Busy(s)
    /\ host[r] # {}
    /\ audience' = [audience EXCEPT ![r] = @ \cup {s}]
    /\ \E replay \in SUBSET said[r] : heard' = [heard EXCEPT ![s] = replay]
    /\ UNCHANGED <<host, said, count>>

\* What the host says, some of the room's audience and nobody else hears.
Say(s, r) ==
    /\ s \in host[r]
    /\ count' = count + 1
    /\ said' = [said EXCEPT ![r] = @ \cup {count'}]
    /\ \E hearers \in SUBSET audience[r] :
        heard' = [v \in Sessions |->
                     IF v \in hearers THEN heard[v] \cup {count'} ELSE heard[v]]
    /\ UNCHANGED <<host, audience>>

\* A client that does not host goes, from its room or from a closed one.
Leave(s) ==
    /\ \A r \in RoomIds : s \notin host[r]
    /\ audience' = [r \in RoomIds |-> audience[r] \ {s}]
    /\ heard' = [heard EXCEPT ![s] = {}]
    /\ UNCHANGED <<host, said, count>>

\* The host goes: the room is empty at once and nothing said there remains.
Close(s, r) ==
    /\ s \in host[r]
    /\ host' = [host EXCEPT ![r] = {}]
    /\ audience' = [audience EXCEPT ![r] = {}]
    /\ said' = [said EXCEPT ![r] = {}]
    /\ UNCHANGED <<heard, count>>

Next ==
    \E s \in Sessions :
        \/ Leave(s)
        \/ \E r \in RoomIds : Open(s, r) \/ Join(s, r) \/ Say(s, r) \/ Close(s, r)

Spec == Init /\ [][Next]_vars
=============================================================================
