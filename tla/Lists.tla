-------------------------------- MODULE Lists --------------------------------
(***************************************************************************)
(* How a history of numbered packets or frames is compared with what it is *)
(* a history of: by the numbers it bears, the boundaries they are between  *)
(* and the order they have.  The histories of Player and Recorder, and the *)
(* queues on the way to them, are put together at such boundaries.         *)
(***************************************************************************)
EXTENDS Naturals, Sequences

\* The numbers in s are above a, not above b, and in order.
Rises(s, a, b) ==
    /\ a <= b
    /\ \A i \in DOMAIN s : a < s[i] /\ s[i] <= b
    /\ \A i, j \in DOMAIN s : i < j => s[i] < s[j]

\* s lists, in order, the members of P that are above a and not above b.
Lists(s, P, a, b) ==
    /\ Rises(s, a, b)
    /\ \A i \in DOMAIN s : s[i] \in P
    /\ \A k \in P : a < k /\ k <= b => \E i \in DOMAIN s : s[i] = k

\* The numbers of m in a queue of pairs.
Picked(q, m) == [k \in {k \in DOMAIN q : q[k][1] = m} |-> q[k][2]]
=============================================================================
