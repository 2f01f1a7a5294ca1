--------------------------- MODULE BlockingBuffer ---------------------------
(***************************************************************************)
(* What Queue<T> (util/queue.h) promises its callers, without its mutex,   *)
(* condition variables and notifications: a FIFO whose Get waits for an    *)
(* element and whose Put waits for room, where nobody waits in vain.       *)
(***************************************************************************)
EXTENDS Naturals, Sequences

CONSTANTS
    Producers, Consumers,
    Capacity,   \* 0: no limit
    MaxBatch    \* bound: elements of one Put

VARIABLES
    items,    \* the elements, each named by its producer
    asking,   \* consumers whose Get or TimedGet waits
    offers    \* for each producer, the elements its waiting Put holds, 0 if none

vars == <<items, asking, offers>>

Room == Capacity = 0 \/ Len(items) < Capacity

Batch(p, n) == [i \in 1..n |-> p]

Init ==
    /\ items = <<>>
    /\ asking = {}
    /\ offers = [p \in Producers |-> 0]

Ask(c) ==
    /\ items = <<>>
    /\ asking' = asking \cup {c}
    /\ UNCHANGED <<items, offers>>

\* c, waiting or not, gets the oldest element.
Serve(c) ==
    /\ items # <<>>
    /\ items' = Tail(items)
    /\ asking' = asking \ {c}
    /\ UNCHANGED offers

\* A timed get fails only if the buffer is empty at that moment.
StopAsking(c) ==
    /\ c \in asking
    /\ items = <<>>
    /\ asking' = asking \ {c}
    /\ UNCHANGED <<items, offers>>

Offer(p, n) ==
    /\ offers[p] = 0
    /\ ~ Room
    /\ offers' = [offers EXCEPT ![p] = n]
    /\ UNCHANGED <<items, asking>>

\* A put is taken when there is room, whole even if it exceeds it.
Accept(p, n) ==
    /\ offers[p] \in {0, n}
    /\ Room
    /\ items' = items \o Batch(p, n)
    /\ offers' = [offers EXCEPT ![p] = 0]
    /\ UNCHANGED asking

\* A timed put fails only if there is no room at that moment.
Withdraw(p) ==
    /\ offers[p] # 0
    /\ ~ Room
    /\ offers' = [offers EXCEPT ![p] = 0]
    /\ UNCHANGED <<items, asking>>

\* Clear, while no Put waits.
Clear ==
    /\ \A p \in Producers : offers[p] = 0
    /\ items' = <<>>
    /\ UNCHANGED <<asking, offers>>

Next ==
    \/ \E c \in Consumers : Ask(c) \/ Serve(c) \/ StopAsking(c)
    \/ \E p \in Producers :
        \/ \E n \in 1..MaxBatch : Offer(p, n) \/ Accept(p, n)
        \/ Withdraw(p)
    \/ Clear

\* The promise without that nobody waits in vain.
Safe == Init /\ [][Next]_vars

ServeSomeone == \E c \in asking : Serve(c)

AcceptSomeone == \E p \in Producers : offers[p] # 0 /\ Accept(p, offers[p])

(***************************************************************************)
(* While there are elements and consumers wait, one of them gets one;      *)
(* while there is room and producers wait, one of them puts.               *)
(***************************************************************************)
Spec == Safe /\ WF_vars(ServeSomeone) /\ WF_vars(AcceptSomeone)
=============================================================================
