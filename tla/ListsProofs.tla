----------------------------- MODULE ListsProofs -----------------------------
(***************************************************************************)
(* How lists of numbers, queues of pairs and sequences of sequences are    *)
(* put together and taken apart, and induction over numbers and sequences  *)
(* for it, for the proofs about the other modules.                         *)
(***************************************************************************)
EXTENDS Lists, Integers, SequencesExt, FiniteSetTheorems, SequenceTheorems, TLAPS

\* Nothing is listed where nothing is.
LEMMA ListsNone ==
    ASSUME NEW P \in SUBSET Nat, NEW a \in Nat
    PROVE  Lists(<<>>, P, a, a)
  BY DEF Lists, Rises

\* Where one list ends another may go on.
LEMMA ListsJoin ==
    ASSUME NEW P \in SUBSET Nat, NEW a \in Nat, NEW b \in Nat, NEW c \in Nat,
           NEW s \in Seq(Nat), NEW t \in Seq(Nat), Lists(s, P, a, b), Lists(t, P, b, c)
    PROVE  Lists(s \o t, P, a, c)
  <1> DEFINE u == s \o t
  <1>1. u \in Seq(Nat) /\ Len(u) = Len(s) + Len(t) /\ Len(s) \in Nat /\ Len(t) \in Nat
    OBVIOUS
  <1>2. \A i \in DOMAIN s : i \in DOMAIN u /\ u[i] = s[i]
    OBVIOUS
  <1>3. \A i \in DOMAIN t : i + Len(s) \in DOMAIN u /\ u[i + Len(s)] = t[i]
    OBVIOUS
  <1>4. \A i \in DOMAIN u : \/ i \in DOMAIN s
                            \/ i > Len(s) /\ i - Len(s) \in DOMAIN t /\ u[i] = t[i - Len(s)]
    OBVIOUS
  <1>5. \A i \in DOMAIN s : s[i] \in P /\ a < s[i] /\ s[i] <= b
    BY DEF Lists, Rises
  <1>6. \A i \in DOMAIN t : t[i] \in P /\ b < t[i] /\ t[i] <= c
    BY DEF Lists, Rises
  <1>7. a <= b /\ b <= c
    BY DEF Lists, Rises
  <1>8. \A i \in DOMAIN u : u[i] \in Nat
    BY <1>1
  <1>a. DOMAIN s = 1..Len(s) /\ DOMAIN t = 1..Len(t) /\ DOMAIN u = 1..Len(u)
    BY <1>1
  <1>b. \A i \in DOMAIN s : s[i] \in Nat
    OBVIOUS
  <1>c. \A i \in DOMAIN t : t[i] \in Nat
    OBVIOUS
  <1> HIDE DEF u
  <1>9. \A i \in DOMAIN u : u[i] \in P /\ a < u[i] /\ u[i] <= c
    <2> SUFFICES ASSUME NEW i \in DOMAIN u
                 PROVE  u[i] \in P /\ a < u[i] /\ u[i] <= c
      OBVIOUS
    <2>1. CASE i \in DOMAIN s
      <3>1. s[i] \in P /\ a < s[i] /\ s[i] <= b /\ s[i] \in Nat
        BY <1>5, <1>b, <2>1
      <3> QED
        BY <1>2, <1>7, <2>1, <3>1
    <2>2. CASE i \notin DOMAIN s
      <3> DEFINE x == t[i - Len(s)]
      <3>1. x \in P /\ b < x /\ x <= c /\ x \in Nat /\ u[i] = x
        BY <1>4, <1>6, <1>c, <2>2
      <3> HIDE DEF x
      <3> QED
        BY <1>7, <3>1
    <2> QED
      BY <2>1, <2>2
  <1>10. ASSUME NEW i \in DOMAIN u, NEW j \in DOMAIN u, i < j
         PROVE  u[i] < u[j]
    <2>1. CASE i \in DOMAIN s /\ j \in DOMAIN s
      BY <1>2, <1>10, <2>1 DEF Lists, Rises
    <2>2. CASE i \in DOMAIN s /\ j \notin DOMAIN s
      BY <1>2, <1>4, <1>5, <1>6, <1>b, <1>c, <2>2
    <2>3. CASE i \notin DOMAIN s /\ j \notin DOMAIN s
      <3>1. i - Len(s) \in DOMAIN t /\ j - Len(s) \in DOMAIN t /\ i - Len(s) < j - Len(s)
        BY <1>1, <1>4, <1>10, <1>a, <2>3
      <3> QED
        BY <1>4, <2>3, <3>1 DEF Lists, Rises
    <2>4. j \in DOMAIN s => i \in DOMAIN s
      BY <1>1, <1>10, <1>a
    <2> QED
      BY <2>1, <2>2, <2>3, <2>4
  <1>11. ASSUME NEW k \in P, a < k, k <= c
         PROVE  \E i \in DOMAIN u : u[i] = k
    <2>1. CASE k <= b
      BY <1>2, <1>11, <2>1 DEF Lists, Rises
    <2>2. CASE b < k
      BY <1>3, <1>11, <2>2 DEF Lists, Rises
    <2> QED
      BY <2>1, <2>2
  <1>12. Lists(u, P, a, c)
    BY <1>7, <1>9, <1>10, <1>11 DEF Lists, Rises
  <1> QED
    BY <1>12 DEF u

\* One more at the end.
LEMMA ListsAppend ==
    ASSUME NEW P \in SUBSET Nat, NEW a \in Nat, NEW b \in Nat, NEW c \in Nat,
           NEW s \in Seq(Nat), NEW k \in Nat, Lists(s, P, a, b), Lists(<<k>>, P, b, c)
    PROVE  Lists(Append(s, k), P, a, c)
  <1>1. Append(s, k) = s \o <<k>> /\ <<k>> \in Seq(Nat)
    OBVIOUS
  <1> QED
    BY <1>1, ListsJoin

\* A list in two parts.
LEMMA ListsSplit ==
    ASSUME NEW P \in SUBSET Nat, NEW a \in Nat, NEW b \in Nat,
           NEW s \in Seq(Nat), Lists(s, P, a, b), NEW n \in 0..Len(s)
    PROVE  \E c \in Nat : /\ Lists(SubSeq(s, 1, n), P, a, c)
                          /\ Lists(SubSeq(s, n + 1, Len(s)), P, c, b)
                          /\ (n # 0 => c = s[n])
  <1> DEFINE c == IF n = 0 THEN a ELSE s[n]
             u == SubSeq(s, 1, n)
             v == SubSeq(s, n + 1, Len(s))
  <1>1. Len(s) \in Nat /\ n \in Nat /\ n <= Len(s) /\ DOMAIN s = 1..Len(s)
    OBVIOUS
  <1>2. DOMAIN u = 1..n /\ \A i \in 1..n : u[i] = s[i]
    BY <1>1
  <1>3. DOMAIN v = 1..(Len(s) - n) /\ \A i \in 1..(Len(s) - n) : v[i] = s[n + i]
    <2>1. n + 1 \in 1..(Len(s) + 1) /\ Len(s) \in n..Len(s)
      BY <1>1
    <2>2. Len(v) = Len(s) - n /\ v \in Seq(Nat)
      <3>1. \A i \in (n + 1)..Len(s) : s[i] \in Nat
        BY <1>1
      <3>2. n + 1 \in Int /\ Len(s) \in Int
        BY <1>1
      <3>3. Len(v) = (IF n + 1 <= Len(s) THEN Len(s) - (n + 1) + 1 ELSE 0) /\ v \in Seq(Nat)
        BY <3>1, <3>2, SubSeqProperties
      <3>4. (IF n + 1 <= Len(s) THEN Len(s) - (n + 1) + 1 ELSE 0) = Len(s) - n
        <4>1. \A x, y \in Nat : x <= y => (IF x + 1 <= y THEN y - (x + 1) + 1 ELSE 0) = y - x
          OBVIOUS
        <4> QED
          BY <1>1, <4>1
      <3> QED
        BY ONLY <3>3, <3>4
    <2>3. \A i \in 1..(Len(s) - n) : v[i] = s[n + i]
      <3>1. \A i \in (n + 1)..Len(s) : s[i] \in Nat
        BY <1>1
      <3>2. n + 1 \in Int /\ Len(s) \in Int
        BY <1>1
      <3>3. \A i \in 1..(Len(s) - (n + 1) + 1) : v[i] = s[(n + 1) + i - 1]
        BY <3>1, <3>2, SubSeqProperties
      <3>4. \A i \in 1..(Len(s) - n) : i \in 1..(Len(s) - (n + 1) + 1) /\ (n + 1) + i - 1 = n + i
        BY <1>1
      <3> HIDE DEF v
      <3> QED
        BY <3>3, <3>4
    <2> QED
      BY <2>2, <2>3
  <1>4. \A i \in DOMAIN s : s[i] \in Nat /\ s[i] \in P /\ a < s[i] /\ s[i] <= b
    BY DEF Lists, Rises
  <1>5. \A i, j \in DOMAIN s : i < j => s[i] < s[j]
    BY DEF Lists, Rises
  <1>6. \A k \in P : a < k /\ k <= b => \E i \in DOMAIN s : s[i] = k
    BY DEF Lists, Rises
  <1>7. a <= b
    BY DEF Lists, Rises
  <1>8. n # 0 => n \in DOMAIN s
    BY <1>1
  <1>9. c \in Nat /\ a <= c /\ c <= b
    BY <1>4, <1>7, <1>8
  <1>10. \A i \in DOMAIN s : i <= n => s[i] <= c
    BY <1>1, <1>4, <1>5, <1>8
  <1>11. \A i \in DOMAIN s : i > n => c < s[i]
    BY <1>1, <1>4, <1>5, <1>8
  <1> HIDE DEF c, u, v
  <1>12. Lists(u, P, a, c)
    <2>1. \A i \in 1..n : i \in DOMAIN s
      BY <1>1
    <2>2. \A i \in DOMAIN u : u[i] \in P /\ a < u[i] /\ u[i] <= c
      BY <1>2, <1>4, <1>10, <2>1
    <2>3. \A i, j \in DOMAIN u : i < j => u[i] < u[j]
      BY <1>2, <1>5, <2>1
    <2>4. ASSUME NEW k \in P, a < k, k <= c
          PROVE  \E i \in DOMAIN u : u[i] = k
      <3>1. PICK i \in DOMAIN s : s[i] = k
        BY <1>6, <1>7, <1>9, <2>4
      <3>2. i <= n
        BY <1>1, <1>9, <1>11, <2>4, <3>1
      <3> QED
        BY <1>1, <1>2, <3>1, <3>2
    <2> QED
      BY <1>9, <2>2, <2>3, <2>4 DEF Lists, Rises
  <1>13. Lists(v, P, c, b)
    <2>1. \A i \in 1..(Len(s) - n) : n + i \in DOMAIN s /\ n + i > n
      BY <1>1
    <2>2. \A i \in DOMAIN v : v[i] \in P /\ c < v[i] /\ v[i] <= b
      BY <1>3, <1>4, <1>11, <2>1
    <2>3. \A i, j \in DOMAIN v : i < j => v[i] < v[j]
      <3>1. \A i, j \in 1..(Len(s) - n) : i < j => n + i < n + j
        BY <1>1
      <3> QED
        BY <1>3, <1>5, <2>1, <3>1
    <2>4. ASSUME NEW k \in P, c < k, k <= b
          PROVE  \E i \in DOMAIN v : v[i] = k
      <3>1. PICK i \in DOMAIN s : s[i] = k
        BY <1>6, <1>9, <2>4
      <3>2. ~ (i <= n)
        BY <1>9, <1>10, <2>4, <3>1, <1>4
      <3>3. i - n \in 1..(Len(s) - n) /\ n + (i - n) = i
        BY <1>1, <3>1, <3>2
      <3> QED
        BY <1>3, <3>1, <3>3
    <2> QED
      BY <1>9, <2>2, <2>3, <2>4 DEF Lists, Rises
  <1>14. n # 0 => c = s[n]
    BY DEF c
  <1> QED
    BY <1>9, <1>12, <1>13, <1>14 DEF u, v

\* The first of a list and the others.
LEMMA ListsHead ==
    ASSUME NEW P \in SUBSET Nat, NEW a \in Nat, NEW b \in Nat,
           NEW s \in Seq(Nat), s # <<>>, Lists(s, P, a, b)
    PROVE  /\ Head(s) \in Nat
           /\ Lists(<<Head(s)>>, P, a, Head(s))
           /\ Lists(Tail(s), P, Head(s), b)
  <1>1. 1 \in 0..Len(s) /\ Len(s) \in Nat
    OBVIOUS
  <1>2. SubSeq(s, 1, 1) = <<Head(s)>>
    <2>1. 1 \in 1..Len(s) /\ 1 \in 1..1 /\ Len(s) \in 1..Len(s)
      BY <1>1
    <2>2. SubSeq(s, 1, 1) = <<s[1]>> \o SubSeq(s, 1 + 1, 1)
      BY <2>1, SubSeqRecursiveFirst
    <2>3. SubSeq(s, 1 + 1, 1) = <<>>
      BY SubSeqEmpty
    <2>4. Head(s) = s[1]
      OBVIOUS
    <2>5. <<s[1]>> \o <<>> = <<s[1]>>
      OBVIOUS
    <2> QED
      BY ONLY <2>2, <2>3, <2>4, <2>5
  <1>3. SubSeq(s, 1 + 1, Len(s)) = Tail(s)
    BY TailIsSubSeq
  <1>4. s[1] = Head(s)
    OBVIOUS
  <1>5. PICK c \in Nat : /\ Lists(SubSeq(s, 1, 1), P, a, c)
                        /\ Lists(SubSeq(s, 1 + 1, Len(s)), P, c, b)
                        /\ (1 # 0 => c = s[1])
    BY <1>1, ListsSplit
  <1>6. c = Head(s)
    <2>1. c = s[1]
      BY <1>5
    <2> QED
      BY <1>4, <2>1
  <1>7. Lists(<<Head(s)>>, P, a, Head(s))
    BY ONLY <1>2, <1>5, <1>6
  <1>8. Lists(Tail(s), P, Head(s), b)
    BY ONLY <1>3, <1>5, <1>6
  <1> QED
    BY <1>6, <1>7, <1>8

\* A part that lists nothing may be passed by.
LEMMA ListsPass ==
    ASSUME NEW P \in SUBSET Nat, NEW a \in Nat, NEW b \in Nat, NEW c \in Nat,
           NEW s \in Seq(Nat), Lists(<<>>, P, a, b), Lists(s, P, b, c)
    PROVE  Lists(s, P, a, c)
  <1>1. <<>> \o s = s /\ <<>> \in Seq(Nat)
    OBVIOUS
  <1> QED
    BY <1>1, ListsJoin

\* A list goes on where there is nothing.
LEMMA ListsOn ==
    ASSUME NEW P \in SUBSET Nat, NEW a \in Nat, NEW b \in Nat, NEW c \in Nat,
           NEW s \in Seq(Nat), Lists(s, P, a, b), Lists(<<>>, P, b, c)
    PROVE  Lists(s, P, a, c)
  <1>1. s \o <<>> = s /\ <<>> \in Seq(Nat)
    OBVIOUS
  <1> QED
    BY <1>1, ListsJoin

-----------------------------------------------------------------------------
(* Without a number *)

\* What is not listed between two boundaries may be left out there.
LEMMA ListsWithout ==
    ASSUME NEW P \in SUBSET Nat, NEW a \in Nat, NEW b \in Nat, NEW k \in Nat,
           NEW s, Lists(s, P, a, b), k <= a \/ b < k
    PROVE  Lists(s, P \ {k}, a, b)
  <1>1. \A i \in DOMAIN s : s[i] # k
    BY DEF Lists, Rises
  <1> QED
    BY <1>1 DEF Lists, Rises

\* Without its one number a list is empty.
LEMMA ListsGap ==
    ASSUME NEW P \in SUBSET Nat, NEW a \in Nat, NEW k \in Nat, Lists(<<k>>, P, a, k)
    PROVE  Lists(<<>>, P \ {k}, a, k)
  <1>1. <<k>>[1] = k /\ DOMAIN <<k>> = {1}
    OBVIOUS
  <1> QED
    BY <1>1 DEF Lists, Rises

-----------------------------------------------------------------------------
(* Numbers picked from a queue of pairs *)

Pairs(S) == Seq(S \X Nat)

\* What is picked is a number.
LEMMA PickedNumbers ==
    ASSUME NEW S, NEW q \in Pairs(S), NEW m
    PROVE  /\ \A k : k \in DOMAIN Picked(q, m) <=> k \in 1..Len(q) /\ q[k][1] = m
           /\ \A k \in DOMAIN Picked(q, m) : Picked(q, m)[k] = q[k][2] /\ q[k][2] \in Nat
  <1>1. DOMAIN q = 1..Len(q) /\ \A k \in 1..Len(q) : q[k] \in S \X Nat
    BY DEF Pairs
  <1> QED
    BY <1>1 DEF Picked

\* A pair of m at the end of the queue is picked last.
LEMMA PickedAppend ==
    ASSUME NEW S, NEW q \in Pairs(S), NEW m \in S, NEW k \in Nat,
           NEW P \in SUBSET Nat, NEW a \in Nat, NEW b \in Nat, NEW c \in Nat,
           Lists(Picked(q, m), P, a, b), Lists(<<k>>, P, b, c)
    PROVE  Lists(Picked(Append(q, <<m, k>>), m), P, a, c)
  <1> DEFINE u == Append(q, <<m, k>>)
             n == Len(q)
             f == Picked(q, m)
             g == Picked(u, m)
  <1>1. n \in Nat /\ u \in Pairs(S) /\ Len(u) = n + 1
    BY DEF Pairs
  <1>2. (\A i \in 1..n : u[i] = q[i]) /\ u[n + 1] = <<m, k>>
    BY DEF Pairs
  <1>3. /\ \A i : i \in DOMAIN f <=> i \in 1..n /\ q[i][1] = m
        /\ \A i \in DOMAIN f : f[i] = q[i][2] /\ q[i][2] \in Nat
    BY PickedNumbers
  <1>4. /\ \A i : i \in DOMAIN g <=> i \in 1..(n + 1) /\ u[i][1] = m
        /\ \A i \in DOMAIN g : g[i] = u[i][2] /\ u[i][2] \in Nat
    <2> HIDE DEF u
    <2> QED
      BY <1>1, PickedNumbers
  <1> HIDE DEF u, f, g, n
  <1>5. \A i : i \in 1..(n + 1) <=> i \in 1..n \/ i = n + 1
    BY <1>1
  <1>6. \A i \in DOMAIN g : (i \in DOMAIN f /\ g[i] = f[i]) \/ (i = n + 1 /\ g[i] = k)
    BY <1>2, <1>3, <1>4, <1>5
  <1>7. \A i \in DOMAIN f : i \in DOMAIN g /\ g[i] = f[i] /\ i \in 1..n /\ f[i] \in Nat
    BY <1>2, <1>3, <1>4, <1>5
  <1>8. n + 1 \in DOMAIN g /\ g[n + 1] = k
    BY <1>2, <1>4, <1>5
  <1>9. b < k /\ k <= c /\ k \in P /\ \A j \in P : b < j /\ j <= c => j = k
    <2>1. <<k>>[1] = k /\ DOMAIN <<k>> = {1}
      OBVIOUS
    <2> QED
      BY <2>1 DEF Lists, Rises
  <1>10. /\ a <= b
         /\ \A i \in DOMAIN f : a < f[i] /\ f[i] <= b /\ f[i] \in P
         /\ \A i, j \in DOMAIN f : i < j => f[i] < f[j]
         /\ \A j \in P : a < j /\ j <= b => \E i \in DOMAIN f : f[i] = j
    BY DEF Lists, Rises, f
  <1>11. a <= c
    BY <1>9, <1>10
  <1>12. \A i \in DOMAIN g : a < g[i] /\ g[i] <= c /\ g[i] \in P
    <2>1. \A i \in DOMAIN f : a < f[i] /\ f[i] <= c /\ f[i] \in P
      BY <1>7, <1>9, <1>10
    <2>2. a < k
      BY <1>9, <1>10
    <2> QED
      BY <1>6, <1>9, <2>1, <2>2
  <1>13. \A i, j \in DOMAIN g : i < j => g[i] < g[j]
    <2> SUFFICES ASSUME NEW i \in DOMAIN g, NEW j \in DOMAIN g, i < j
                 PROVE  g[i] < g[j]
      OBVIOUS
    <2>1. CASE j \in DOMAIN f
      <3>1. i # n + 1
        BY <1>1, <1>7, <2>1
      <3> QED
        BY <1>6, <1>10, <2>1, <3>1, <1>7
    <2>2. CASE j = n + 1
      <3>1. i \in DOMAIN f /\ g[i] = f[i]
        BY <1>1, <1>6, <2>2
      <3> QED
        BY <1>7, <1>8, <1>9, <1>10, <2>2, <3>1
    <2> QED
      BY <1>6, <2>1, <2>2
  <1>14. \A j \in P : a < j /\ j <= c => \E i \in DOMAIN g : g[i] = j
    <2> SUFFICES ASSUME NEW j \in P, a < j, j <= c
                 PROVE  \E i \in DOMAIN g : g[i] = j
      OBVIOUS
    <2>1. CASE j <= b
      BY <1>7, <1>10, <2>1
    <2>2. CASE b < j
      BY <1>8, <1>9, <2>2
    <2> QED
      BY <2>1, <2>2
  <1> QED
    BY <1>11, <1>12, <1>13, <1>14 DEF Lists, Rises, u, g

\* One of another is not picked.
LEMMA PickedAside ==
    ASSUME NEW S, NEW q \in Pairs(S), NEW m, NEW f \in S \X Nat, f[1] # m
    PROVE  Picked(Append(q, f), m) = Picked(q, m)
  <1> DEFINE u == Append(q, f)
             n == Len(q)
  <1>1. n \in Nat /\ u \in Pairs(S) /\ Len(u) = n + 1 /\ (\A i \in 1..n : u[i] = q[i]) /\ u[n + 1] = f
    BY DEF Pairs
  <1>2. DOMAIN u = 1..(n + 1) /\ DOMAIN q = 1..n
    BY <1>1 DEF Pairs
  <1>3. \A i : i \in 1..(n + 1) <=> i \in 1..n \/ i = n + 1
    BY <1>1
  <1> HIDE DEF u, n
  <1>4. {i \in DOMAIN u : u[i][1] = m} = {i \in DOMAIN q : q[i][1] = m}
    BY <1>1, <1>2, <1>3
  <1>5. \A i \in {i \in DOMAIN q : q[i][1] = m} : u[i][2] = q[i][2]
    BY <1>1, <1>2
  <1> QED
    BY <1>4, <1>5 DEF Picked, u

\* Where the pairs of a queue are when the first is taken.
LEMMA PickedShift ==
    ASSUME NEW S, NEW q \in Pairs(S), q # <<>>, NEW m
    PROVE  /\ 1 \in 1..Len(q) /\ Head(q) = q[1] /\ Head(q)[2] \in Nat /\ Head(q)[1] \in S
           /\ \A i \in DOMAIN Picked(Tail(q), m) :
                /\ i \in Nat /\ i + 1 \in DOMAIN Picked(q, m)
                /\ Picked(Tail(q), m)[i] = Picked(q, m)[i + 1]
           /\ \A i \in DOMAIN Picked(q, m) :
                /\ i \in Nat
                /\ i # 1 => /\ i - 1 \in DOMAIN Picked(Tail(q), m)
                            /\ Picked(Tail(q), m)[i - 1] = Picked(q, m)[i]
  <1> DEFINE t == Tail(q)
             n == Len(q)
  <1>1. n \in Nat /\ n >= 1 /\ t \in Pairs(S) /\ Len(t) = n - 1 /\ \A i \in 1..(n - 1) : t[i] = q[i + 1]
    BY DEF Pairs
  <1>2. Head(q) = q[1] /\ q[1] \in S \X Nat
    BY <1>1 DEF Pairs
  <1>3. /\ \A k : k \in DOMAIN Picked(q, m) <=> k \in 1..n /\ q[k][1] = m
        /\ \A k \in DOMAIN Picked(q, m) : Picked(q, m)[k] = q[k][2]
    BY PickedNumbers
  <1>4. /\ \A k : k \in DOMAIN Picked(t, m) <=> k \in 1..(n - 1) /\ t[k][1] = m
        /\ \A k \in DOMAIN Picked(t, m) : Picked(t, m)[k] = t[k][2]
    <2> HIDE DEF t
    <2> QED
      BY <1>1, PickedNumbers
  <1> HIDE DEF t, n
  <1>5. \A i \in 1..(n - 1) : i \in Nat /\ i + 1 \in 1..n
    BY <1>1
  <1>6. \A i \in 1..n : i \in Nat /\ (i # 1 => i - 1 \in 1..(n - 1) /\ (i - 1) + 1 = i)
    BY <1>1
  <1>7. \A i \in DOMAIN Picked(t, m) :
          i \in Nat /\ i + 1 \in DOMAIN Picked(q, m) /\ Picked(t, m)[i] = Picked(q, m)[i + 1]
    BY <1>1, <1>3, <1>4, <1>5
  <1>8. \A i \in DOMAIN Picked(q, m) :
          i \in Nat /\ (i # 1 => i - 1 \in DOMAIN Picked(t, m) /\ Picked(t, m)[i - 1] = Picked(q, m)[i])
    <2> SUFFICES ASSUME NEW i \in DOMAIN Picked(q, m)
                 PROVE  i \in Nat /\ (i # 1 => i - 1 \in DOMAIN Picked(t, m) /\ Picked(t, m)[i - 1] = Picked(q, m)[i])
      OBVIOUS
    <2>1. i \in 1..n /\ q[i][1] = m /\ Picked(q, m)[i] = q[i][2]
      BY <1>3
    <2>2. ASSUME i # 1
          PROVE  i - 1 \in DOMAIN Picked(t, m) /\ Picked(t, m)[i - 1] = q[i][2]
      <3>1. i - 1 \in 1..(n - 1) /\ (i - 1) + 1 = i
        BY <1>6, <2>1, <2>2
      <3>2. t[i - 1] = q[i]
        BY <1>1, <3>1
      <3> QED
        BY <1>4, <2>1, <3>1, <3>2
    <2> QED
      BY <1>6, <2>1, <2>2
  <1> QED
    BY <1>1, <1>2, <1>7, <1>8 DEF t, n

\* What is picked first is the first of the queue, if it is of m,
LEMMA PickedHead ==
    ASSUME NEW S, NEW q \in Pairs(S), q # <<>>,
           NEW P \in SUBSET Nat, NEW a \in Nat, NEW b \in Nat,
           Lists(Picked(q, Head(q)[1]), P, a, b)
    PROVE  /\ Head(q)[2] \in Nat
           /\ Lists(<<Head(q)[2]>>, P, a, Head(q)[2])
           /\ Lists(Picked(Tail(q), Head(q)[1]), P, Head(q)[2], b)
  <1> DEFINE m == Head(q)[1]
             h == Head(q)[2]
             f == Picked(q, m)
             g == Picked(Tail(q), m)
  <1>1. h \in Nat /\ 1 \in DOMAIN f /\ f[1] = h
    <2>1. 1 \in 1..Len(q) /\ Head(q) = q[1] /\ Head(q)[2] \in Nat
      BY PickedShift
    <2> QED
      BY <2>1, PickedNumbers
  <1>2. \A i \in DOMAIN g : i \in Nat /\ i + 1 \in DOMAIN f /\ g[i] = f[i + 1]
    BY PickedShift
  <1>3. \A i \in DOMAIN f : i \in Nat /\ i > 0 /\ (i # 1 => i - 1 \in DOMAIN g /\ g[i - 1] = f[i])
    <2>1. \A i \in DOMAIN f : i > 0
      BY PickedNumbers
    <2>2. \A i \in DOMAIN f : i \in Nat /\ (i # 1 => i - 1 \in DOMAIN g /\ g[i - 1] = f[i])
      BY PickedShift
    <2> QED
      BY <2>1, <2>2
  <1>4. \A i \in DOMAIN f : f[i] \in Nat
    BY PickedNumbers
  <1>5. /\ a <= b
        /\ \A i \in DOMAIN f : a < f[i] /\ f[i] <= b /\ f[i] \in P
        /\ \A i, j \in DOMAIN f : i < j => f[i] < f[j]
        /\ \A j \in P : a < j /\ j <= b => \E i \in DOMAIN f : f[i] = j
    BY DEF Lists, Rises
  <1> HIDE DEF m, h, f, g
  <1>6. \A i \in DOMAIN f : i # 1 => h < f[i]
    <2>1. \A i \in DOMAIN f : i # 1 => 1 < i
      BY <1>3
    <2> QED
      BY <1>1, <1>5, <2>1
  <1>7. Lists(<<h>>, P, a, h)
    <2>1. <<h>>[1] = h /\ DOMAIN <<h>> = {1}
      BY <1>1
    <2>2. \A j \in P : a < j /\ j <= h => j = h
      <3> SUFFICES ASSUME NEW j \in P, a < j, j <= h
                   PROVE  j = h
        OBVIOUS
      <3>1. j <= b
        BY <1>1, <1>5
      <3>2. PICK i \in DOMAIN f : f[i] = j
        BY <1>5, <3>1
      <3> QED
        BY <1>1, <1>6, <3>2
    <2>3. a < h /\ h \in P
      BY <1>1, <1>5
    <2>4. a <= h /\ h <= h
      BY <1>1, <2>3
    <2> QED
      BY <2>1, <2>2, <2>3, <2>4 DEF Lists, Rises
  <1>8. Lists(g, P, h, b)
    <2>1. h <= b
      BY <1>1, <1>5
    <2>2. \A i \in DOMAIN g : h < g[i] /\ g[i] <= b /\ g[i] \in P
      <3>1. \A i \in DOMAIN g : i + 1 # 1
        BY <1>2
      <3> QED
        BY <1>2, <1>5, <1>6, <3>1
    <2>3. \A i, j \in DOMAIN g : i < j => g[i] < g[j]
      <3>1. \A i, j \in DOMAIN g : i < j => i + 1 < j + 1
        BY <1>2
      <3> QED
        BY <1>2, <1>5, <3>1
    <2>4. \A j \in P : h < j /\ j <= b => \E i \in DOMAIN g : g[i] = j
      <3> SUFFICES ASSUME NEW j \in P, h < j, j <= b
                   PROVE  \E i \in DOMAIN g : g[i] = j
        OBVIOUS
      <3>1. a < j
        BY <1>1, <1>5
      <3>2. PICK i \in DOMAIN f : f[i] = j
        BY <1>5, <3>1
      <3>3. i # 1
        BY <1>1, <3>2
      <3> QED
        BY <1>3, <3>2, <3>3
    <2> QED
      BY <2>1, <2>2, <2>3, <2>4 DEF Lists, Rises
  <1> QED
    BY <1>1, <1>7, <1>8 DEF m, h, g

\* and if it is not, nothing picked is taken with it.
LEMMA PickedTail ==
    ASSUME NEW S, NEW q \in Pairs(S), q # <<>>, NEW m, Head(q)[1] # m,
           NEW P \in SUBSET Nat, NEW a \in Nat, NEW b \in Nat,
           Lists(Picked(q, m), P, a, b)
    PROVE  Lists(Picked(Tail(q), m), P, a, b)
  <1> DEFINE f == Picked(q, m)
             g == Picked(Tail(q), m)
  <1>1. 1 \notin DOMAIN f
    <2>1. Head(q) = q[1]
      BY PickedShift
    <2> QED
      BY <2>1, PickedNumbers
  <1>2. \A i \in DOMAIN g : i \in Nat /\ i + 1 \in DOMAIN f /\ g[i] = f[i + 1]
    BY PickedShift
  <1>3. \A i \in DOMAIN f : i \in Nat /\ (i # 1 => i - 1 \in DOMAIN g /\ g[i - 1] = f[i])
    BY PickedShift
  <1>4. \A i, j \in DOMAIN g : i < j => i + 1 < j + 1
    BY <1>2
  <1> HIDE DEF g
  <1>5. /\ a <= b
        /\ \A i \in DOMAIN f : a < f[i] /\ f[i] <= b /\ f[i] \in P
        /\ \A i, j \in DOMAIN f : i < j => f[i] < f[j]
        /\ \A j \in P : a < j /\ j <= b => \E i \in DOMAIN f : f[i] = j
    BY DEF Lists, Rises
  <1> HIDE DEF f
  <1>6. \A i \in DOMAIN g : a < g[i] /\ g[i] <= b /\ g[i] \in P
    BY <1>2, <1>5
  <1>7. \A i, j \in DOMAIN g : i < j => g[i] < g[j]
    BY <1>2, <1>4, <1>5
  <1>8. \A j \in P : a < j /\ j <= b => \E i \in DOMAIN g : g[i] = j
    BY <1>1, <1>3, <1>5
  <1>9. Lists(g, P, a, b)
    BY <1>5, <1>6, <1>7, <1>8 DEF Lists, Rises
  <1> QED
    BY <1>9 DEF g

-----------------------------------------------------------------------------
(* Numbers that rise *)

\* The boundaries may be further out.
LEMMA RisesWiden ==
    ASSUME NEW s, \A i \in DOMAIN s : s[i] \in Nat, NEW a \in Nat, NEW b \in Nat, NEW c \in Nat, NEW d \in Nat,
           Rises(s, b, c), a <= b, c <= d
    PROVE  Rises(s, a, d)
  BY DEF Rises

\* Nothing rises between any boundaries.
LEMMA RisesNone ==
    ASSUME NEW a \in Nat, NEW b \in Nat, a <= b
    PROVE  Rises(<<>>, a, b)
  BY DEF Rises

\* What rises lists itself.
LEMMA RisesLists ==
    ASSUME NEW s, \A i \in DOMAIN s : s[i] \in Nat, NEW a \in Nat, NEW b \in Nat, Rises(s, a, b)
    PROVE  {s[i] : i \in DOMAIN s} \in SUBSET Nat /\ Lists(s, {s[i] : i \in DOMAIN s}, a, b)
  BY DEF Lists

\* What a list is of may be cut above it, and go on elsewhere.
LEMMA ListsBelow ==
    ASSUME NEW P \in SUBSET Nat, NEW a \in Nat, NEW b \in Nat, NEW c \in Nat, NEW k \in Nat,
           NEW s, \A i \in DOMAIN s : s[i] \in Nat, Lists(s, P, a, b), b <= c, c < k
    PROVE  Lists(s, {j \in P : j <= c} \cup {k}, a, b)
  <1>1. \A i \in DOMAIN s : s[i] \in P /\ s[i] <= c
    BY DEF Lists, Rises
  <1>2. \A j \in {j \in P : j <= c} \cup {k} : j <= b => j \in P
    OBVIOUS
  <1> QED
    BY <1>1, <1>2 DEF Lists

LEMMA ListsOne ==
    ASSUME NEW P \in SUBSET Nat, NEW c \in Nat, NEW k \in Nat, c < k
    PROVE  Lists(<<k>>, {j \in P : j <= c} \cup {k}, c, k)
  <1>1. <<k>>[1] = k /\ DOMAIN <<k>> = {1}
    OBVIOUS
  <1>2. Rises(<<k>>, c, k)
    BY <1>1 DEF Rises
  <1>3. \A j \in {j \in P : j <= c} \cup {k} : c < j => j = k
    OBVIOUS
  <1> QED
    BY <1>1, <1>2, <1>3 DEF Lists

\* A larger number at the end.
LEMMA RisesAppend ==
    ASSUME NEW s \in Seq(Nat), NEW a \in Nat, NEW b \in Nat, NEW k \in Nat, Rises(s, a, b), b < k
    PROVE  Rises(Append(s, k), a, k)
  <1>1. \A i \in DOMAIN s : s[i] \in Nat
    OBVIOUS
  <1>2. PICK P \in SUBSET Nat : Lists(s, P, a, b)
    BY <1>1, RisesLists
  <1>3. PICK Q \in SUBSET Nat : Lists(s, Q, a, b) /\ Lists(<<k>>, Q, b, k)
    <2>1. Lists(s, {j \in P : j <= b} \cup {k}, a, b)
      BY <1>1, <1>2, ListsBelow
    <2>2. Lists(<<k>>, {j \in P : j <= b} \cup {k}, b, k)
      BY ListsOne
    <2> QED
      BY <2>1, <2>2
  <1>4. Lists(Append(s, k), Q, a, k)
    BY <1>3, ListsAppend
  <1> QED
    BY <1>4 DEF Lists

\* The first number and the others.
LEMMA RisesHead ==
    ASSUME NEW s \in Seq(Nat), s # <<>>, NEW a \in Nat, NEW b \in Nat, Rises(s, a, b)
    PROVE  Head(s) \in Nat /\ a < Head(s) /\ Head(s) <= b /\ Rises(Tail(s), Head(s), b)
  <1>1. \A i \in DOMAIN s : s[i] \in Nat
    OBVIOUS
  <1>2. PICK P \in SUBSET Nat : Lists(s, P, a, b)
    BY <1>1, RisesLists
  <1>3. Head(s) \in Nat /\ Lists(Tail(s), P, Head(s), b)
    BY <1>2, ListsHead
  <1>4. 1 \in DOMAIN s /\ Head(s) = s[1]
    OBVIOUS
  <1> QED
    BY <1>3, <1>4 DEF Lists, Rises

\* The same of what is picked from a queue.
LEMMA PickedRises ==
    ASSUME NEW S, NEW q \in Pairs(S), NEW m \in S, NEW a \in Nat, NEW b \in Nat, NEW k \in Nat,
           Rises(Picked(q, m), a, b), b < k
    PROVE  Rises(Picked(Append(q, <<m, k>>), m), a, k)
  <1> DEFINE f == Picked(q, m)
  <1>1. \A i \in DOMAIN f : f[i] \in Nat
    BY PickedNumbers
  <1>2. PICK P \in SUBSET Nat : Lists(f, P, a, b)
    <2> HIDE DEF f
    <2>1. Rises(f, a, b)
      BY DEF f
    <2> QED
      BY <1>1, <2>1, RisesLists
  <1>3. PICK Q \in SUBSET Nat : Lists(f, Q, a, b) /\ Lists(<<k>>, Q, b, k)
    <2> HIDE DEF f
    <2>1. Lists(f, {j \in P : j <= b} \cup {k}, a, b)
      BY <1>1, <1>2, ListsBelow
    <2>2. Lists(<<k>>, {j \in P : j <= b} \cup {k}, b, k)
      BY ListsOne
    <2> QED
      BY <2>1, <2>2
  <1>4. Lists(Picked(Append(q, <<m, k>>), m), Q, a, k)
    BY <1>3, PickedAppend
  <1> QED
    BY <1>4 DEF Lists

LEMMA PickedRisesHead ==
    ASSUME NEW S, NEW q \in Pairs(S), q # <<>>, NEW a \in Nat, NEW b \in Nat,
           Rises(Picked(q, Head(q)[1]), a, b)
    PROVE  /\ Head(q)[2] \in Nat /\ a < Head(q)[2] /\ Head(q)[2] <= b
           /\ Rises(Picked(Tail(q), Head(q)[1]), Head(q)[2], b)
  <1> DEFINE m == Head(q)[1]
             f == Picked(q, m)
             h == Head(q)[2]
  <1>1. \A i \in DOMAIN f : f[i] \in Nat
    BY PickedNumbers
  <1>2. PICK P \in SUBSET Nat : Lists(f, P, a, b)
    <2> HIDE DEF f
    <2>1. Rises(f, a, b)
      BY DEF f
    <2> QED
      BY <1>1, <2>1, RisesLists
  <1>3. h \in Nat /\ Lists(<<h>>, P, a, h) /\ Lists(Picked(Tail(q), m), P, h, b)
    BY <1>2, PickedHead
  <1> HIDE DEF h
  <1>4. a < h
    <2>1. <<h>>[1] = h /\ DOMAIN <<h>> = {1}
      OBVIOUS
    <2> QED
      BY <1>3, <2>1 DEF Lists, Rises
  <1>5. h <= b /\ Rises(Picked(Tail(q), m), h, b)
    BY <1>3 DEF Lists, Rises
  <1> QED
    BY <1>3, <1>4, <1>5 DEF h

LEMMA PickedRisesTail ==
    ASSUME NEW S, NEW q \in Pairs(S), q # <<>>, NEW m, Head(q)[1] # m, NEW a \in Nat, NEW b \in Nat,
           Rises(Picked(q, m), a, b)
    PROVE  Rises(Picked(Tail(q), m), a, b)
  <1> DEFINE f == Picked(q, m)
  <1>1. \A i \in DOMAIN f : f[i] \in Nat
    BY PickedNumbers
  <1>2. PICK P \in SUBSET Nat : Lists(f, P, a, b)
    <2> HIDE DEF f
    <2>1. Rises(f, a, b)
      BY DEF f
    <2> QED
      BY <1>1, <2>1, RisesLists
  <1>3. Lists(Picked(Tail(q), m), P, a, b)
    BY <1>2, PickedTail
  <1> QED
    BY <1>3 DEF Lists

-----------------------------------------------------------------------------
(***************************************************************************)
(* Induction.  The theorems of NaturalsInduction take what is shown as an  *)
(* operator; here it is a set of numbers or of sequences, and that it is   *)
(* all of them follows from the strict subsets of a finite set being well  *)
(* founded.                                                                *)
(***************************************************************************)

\* A set of numbers has a least one: of its lower parts one is in no other.
LEMMA LeastOf ==
    ASSUME NEW T, T \subseteq Nat, T # {}
    PROVE  \E x \in T : \A y \in T : x <= y
<1>1. PICK t : t \in T
  OBVIOUS
<1> DEFINE S == 0..t
           U == {A \in SUBSET S : \E x \in T : A = 0..x}
<1>2. IsFiniteSet(S) /\ t \in Nat
  BY <1>1, FS_Interval
<1>3. IsWellFoundedOn(StrictSubsetOrdering(S), FiniteSubsetsOf(S))
  BY <1>2, FS_StrictSubsetOrderingWellFounded
<1>4. U \subseteq FiniteSubsetsOf(S) /\ U # {}
  <2>1. S \in U
    BY <1>1
  <2>2. \A A \in U : IsFiniteSet(A) /\ A \subseteq S
    BY <1>2, FS_Subset
  <2> QED BY <2>1, <2>2 DEF FiniteSubsetsOf
<1>5. PICK A \in U : \A B \in U : ~ (<<B, A>> \in StrictSubsetOrdering(S))
  <2> HIDE DEF U, S
  <2> QED BY <1>3, <1>4, WFMin
<1>6. PICK x \in T : A = 0..x /\ A \subseteq S
  BY <1>5
<1>7. \A y \in T : x <= y
  <2> SUFFICES ASSUME NEW y \in T, ~ (x <= y) PROVE FALSE
    OBVIOUS
  <2>1. x \in Nat /\ y \in Nat /\ y < x
    BY <1>6
  <2>2. 0..y \subseteq 0..x /\ x \notin 0..y /\ x \in 0..x
    BY <2>1
  <2>3. 0..y \in U
    BY <1>6, <2>2
  <2>4. <<0..y, A>> \in StrictSubsetOrdering(S)
    BY <1>6, <2>2 DEF StrictSubsetOrdering
  <2> QED BY <1>5, <2>3, <2>4
<1> QED BY <1>6, <1>7

\* What holds of 0, and of the next of each, holds of every number.
LEMMA Inductive ==
    ASSUME NEW S, 0 \in S, \A n \in Nat : n \in S => n + 1 \in S
    PROVE  \A n \in Nat : n \in S
<1> SUFFICES ASSUME Nat \ S # {} PROVE FALSE
  OBVIOUS
<1>1. PICK x \in Nat \ S : \A y \in Nat \ S : x <= y
  BY LeastOf
<1>2. x # 0 /\ x - 1 \in Nat /\ (x - 1) + 1 = x /\ x - 1 < x
  BY <1>1
<1>3. x - 1 \in S
  BY <1>1, <1>2
<1> QED BY <1>1, <1>2, <1>3

\* What holds of no elements, and of one more, holds of every sequence.
LEMMA Sequential ==
    ASSUME NEW S, NEW T, <<>> \in T, \A q \in Seq(S) : \A x \in S : q \in T => Append(q, x) \in T
    PROVE  \A q \in Seq(S) : q \in T
<1> DEFINE N == {n \in Nat : \A q \in Seq(S) : Len(q) = n => q \in T}
<1>1. 0 \in N
  <2>1. \A q \in Seq(S) : Len(q) = 0 => q = <<>>
    OBVIOUS
  <2> QED BY <2>1
<1>2. ASSUME NEW n \in Nat, n \in N PROVE n + 1 \in N
  <2> SUFFICES ASSUME NEW q \in Seq(S), Len(q) = n + 1 PROVE q \in T
    OBVIOUS
  <2> DEFINE p == SubSeq(q, 1, n)
             x == q[n + 1]
  <2>1. p \in Seq(S) /\ x \in S /\ Len(p) = n
    OBVIOUS
  <2>2. q = Append(p, x)
    <3>1. q = Append(SubSeq(q, 1, Len(q) - 1), q[Len(q)])
      <4>1. q # <<>>
        OBVIOUS
      <4> QED BY <4>1, AppendProperties, SubSeqProperties
    <3> QED BY <3>1
  <2>3. p \in T
    BY <1>2, <2>1
  <2> HIDE DEF p, x
  <2> QED BY <2>1, <2>2, <2>3
<1> HIDE DEF N
<1>3. \A n \in Nat : n \in N
  BY <1>1, <1>2, Inductive
<1> QED
  <2> SUFFICES ASSUME NEW q \in Seq(S) PROVE q \in T
    OBVIOUS
  <2>1. Len(q) \in Nat
    OBVIOUS
  <2> QED BY <1>3, <2>1 DEF N

-----------------------------------------------------------------------------
(* Sequences of sequences, flattened *)

\* What FlattenSeq has put together after each of the sequences ss.
Partial(ss, n, f) == f = [i \in 1..n |-> IF i = 1 THEN ss[i] ELSE f[i - 1] \o ss[i]]

\* One of its values.
LEMMA PartialAt ==
    ASSUME NEW ss, NEW n, NEW f, Partial(ss, n, f), NEW i \in 1..n
    PROVE  f[i] = IF i = 1 THEN ss[i] ELSE f[i - 1] \o ss[i]
  BY DEF Partial

\* There is such a function, and only one.
LEMMA PartialExists ==
    ASSUME NEW ss, NEW n \in Nat
    PROVE  \E f : Partial(ss, n, f)
<1> DEFINE T == {m \in Nat : \E f : Partial(ss, m, f)}
<1>1. 0 \in T
  <2>1. Partial(ss, 0, [i \in 1..0 |-> 0])
    BY DEF Partial
  <2> QED BY <2>1
<1>2. ASSUME NEW m \in Nat, m \in T PROVE m + 1 \in T
  <2>1. PICK f : Partial(ss, m, f)
    BY <1>2
  <2> DEFINE g == [i \in 1..(m + 1) |-> IF i = 1 THEN ss[i] ELSE f[i - 1] \o ss[i]]
  <2>2. ASSUME NEW i \in 1..m PROVE g[i] = f[i]
    <3>1. f[i] = IF i = 1 THEN ss[i] ELSE f[i - 1] \o ss[i]
      BY <2>1, PartialAt
    <3>2. i \in 1..(m + 1)
      OBVIOUS
    <3> QED BY <3>1, <3>2
  <2>3. ASSUME NEW i \in 1..(m + 1), i # 1 PROVE g[i - 1] = f[i - 1]
    <3>1. i - 1 \in 1..m
      BY <2>3
    <3> QED BY <2>2, <3>1
  <2>4. g = [i \in 1..(m + 1) |-> IF i = 1 THEN ss[i] ELSE g[i - 1] \o ss[i]]
    <3> DEFINE h == [i \in 1..(m + 1) |-> IF i = 1 THEN ss[i] ELSE g[i - 1] \o ss[i]]
    <3>1. ASSUME NEW i \in 1..(m + 1) PROVE g[i] = h[i]
      <4>1. CASE i = 1
        BY <4>1
      <4>2. CASE i # 1
        <5>1. g[i] = f[i - 1] \o ss[i] /\ h[i] = g[i - 1] \o ss[i]
          BY <4>2
        <5> HIDE DEF g, h
        <5> QED BY <2>3, <4>2, <5>1
      <4> QED BY <4>1, <4>2
    <3> QED BY <3>1
  <2> HIDE DEF g
  <2>5. Partial(ss, m + 1, g)
    BY <2>4 DEF Partial
  <2> QED BY <2>5
<1> HIDE DEF T
<1>3. n \in T
  BY <1>1, <1>2, Inductive
<1> QED BY <1>3 DEF T

\* The first n are the same.
SameUpTo(ss, tt, n) == \A i \in 1..n : tt[i] = ss[i]

\* It is the same for both as far as they are the same.
LEMMA PartialUnique ==
    ASSUME NEW ss, NEW tt, NEW n \in Nat, NEW m \in Nat, n <= m, NEW f, NEW g,
           Partial(ss, n, f), Partial(tt, m, g), SameUpTo(ss, tt, n)
    PROVE  \A i \in 1..n : f[i] = g[i]
<1> DEFINE T == {k \in Nat : k + 1 <= n => f[k + 1] = g[k + 1]}
<1>1. 0 \in T
  <2> SUFFICES ASSUME 1 <= n PROVE f[1] = g[1]
    OBVIOUS
  <2>1. 1 \in 1..n /\ 1 \in 1..m
    OBVIOUS
  <2>2. f[1] = ss[1] /\ g[1] = tt[1]
    BY <2>1 DEF Partial
  <2> QED BY <2>1, <2>2 DEF SameUpTo
<1>2. ASSUME NEW k \in Nat, k \in T PROVE k + 1 \in T
  <2> SUFFICES ASSUME (k + 1) + 1 <= n PROVE f[(k + 1) + 1] = g[(k + 1) + 1]
    OBVIOUS
  <2> DEFINE j == (k + 1) + 1
  <2>1. j \in 1..n /\ j \in 1..m /\ j # 1 /\ j - 1 = k + 1 /\ k + 1 <= n
    OBVIOUS
  <2> HIDE DEF j
  <2>2. f[j] = f[j - 1] \o ss[j] /\ g[j] = g[j - 1] \o tt[j]
    BY <2>1 DEF Partial
  <2>3. f[j - 1] = g[j - 1]
    BY <1>2, <2>1
  <2>4. f[j] = g[j]
    BY <2>1, <2>2, <2>3 DEF SameUpTo
  <2> QED BY <2>4 DEF j
<1> HIDE DEF T
<1>3. \A k \in Nat : k \in T
  BY <1>1, <1>2, Inductive
<1> QED
  <2> SUFFICES ASSUME NEW i \in 1..n PROVE f[i] = g[i]
    OBVIOUS
  <2>1. i - 1 \in Nat /\ (i - 1) + 1 = i /\ i <= n
    OBVIOUS
  <2> QED BY <1>3, <2>1 DEF T

\* FlattenSeq is the last that has been put together.
LEMMA FlattenPartial ==
    ASSUME NEW S, NEW ss \in Seq(Seq(S)), ss # <<>>
    PROVE  \E f : Partial(ss, Len(ss), f) /\ FlattenSeq(ss) = f[Len(ss)]
<1> DEFINE g == CHOOSE f : f = [i \in 1..Len(ss) |-> IF i = 1 THEN ss[i] ELSE f[i - 1] \o ss[i]]
<1>1. Len(ss) \in Nat /\ Len(ss) # 0
  OBVIOUS
<1>2. FlattenSeq(ss) = g[Len(ss)]
  BY <1>1 DEF FlattenSeq
<1>3. Partial(ss, Len(ss), g)
  <2>1. \E f : Partial(ss, Len(ss), f)
    BY <1>1, PartialExists
  <2> QED BY <2>1 DEF Partial
<1> QED BY <1>2, <1>3

\* To flatten nothing leaves nothing.
LEMMA FlattenNone == FlattenSeq(<<>>) = <<>>
  BY DEF FlattenSeq

\* One more sequence is flattened onto the end.
LEMMA FlattenAppend ==
    ASSUME NEW S, NEW ss \in Seq(Seq(S)), NEW s \in Seq(S)
    PROVE  FlattenSeq(Append(ss, s)) = FlattenSeq(ss) \o s
<1> DEFINE tt == Append(ss, s)
           n == Len(ss)
<1>1. tt \in Seq(Seq(S)) /\ tt # <<>> /\ n \in Nat /\ Len(tt) = n + 1 /\ tt[n + 1] = s
      /\ \A i \in 1..n : tt[i] = ss[i]
  <2>1. s \in Seq(S) /\ n \in Nat
    OBVIOUS
  <2> QED BY <2>1, AppendProperties
<1> HIDE DEF tt
<1>2. PICK g : Partial(tt, n + 1, g) /\ FlattenSeq(tt) = g[n + 1]
  BY <1>1, FlattenPartial
<1>3. g[n + 1] = IF n + 1 = 1 THEN tt[n + 1] ELSE g[(n + 1) - 1] \o tt[n + 1]
  <2>1. n + 1 \in 1..(n + 1)
    BY <1>1
  <2> QED BY <1>2, <2>1 DEF Partial
<1>4. CASE ss = <<>>
  <2>1. FlattenSeq(tt) = s
    BY <1>1, <1>2, <1>3, <1>4
  <2>2. <<>> \o s = s
    OBVIOUS
  <2> QED BY <1>4, <2>1, <2>2, FlattenNone DEF tt
<1>5. CASE ss # <<>>
  <2>1. n # 0 /\ (n + 1) - 1 = n /\ n + 1 # 1 /\ n <= n + 1 /\ n \in 1..n
    BY <1>1, <1>5
  <2>2. PICK f : Partial(ss, n, f) /\ FlattenSeq(ss) = f[n]
    BY <1>5, FlattenPartial
  <2>3. f[n] = g[n]
    <3> DEFINE m == n + 1
    <3>1. m \in Nat /\ n <= m /\ n \in Nat /\ Partial(tt, m, g) /\ Partial(ss, n, f)
          /\ SameUpTo(ss, tt, n)
      BY <1>1, <1>2, <2>1, <2>2 DEF SameUpTo
    <3> HIDE DEF n, m
    <3>2. \A i \in 1..n : f[i] = g[i]
      BY <3>1, PartialUnique
    <3> QED BY <2>1, <3>2
  <2> HIDE DEF n
  <2>4. g[n + 1] = g[n] \o s
    BY <1>1, <1>3, <2>1
  <2> QED BY <1>2, <2>2, <2>3, <2>4 DEF tt
<1> QED BY <1>4, <1>5

\* Three sequences put together.
LEMMA Regroup ==
    ASSUME NEW S, NEW a \in Seq(S), NEW b \in Seq(S), NEW c \in Seq(S)
    PROVE  (a \o b) \o c = a \o (b \o c)
  BY ConcatAssociative

\* What is flattened is of the elements of what it is flattened from.
LEMMA FlattenType ==
    ASSUME NEW S, NEW ss \in Seq(Seq(S))
    PROVE  FlattenSeq(ss) \in Seq(S)
<1> DEFINE T == {tt \in Seq(Seq(S)) : FlattenSeq(tt) \in Seq(S)}
<1>1. <<>> \in T
  <2>1. <<>> \in Seq(Seq(S)) /\ <<>> \in Seq(S)
    OBVIOUS
  <2> QED BY <2>1, FlattenNone
<1>2. ASSUME NEW tt \in Seq(Seq(S)), NEW s \in Seq(S), tt \in T PROVE Append(tt, s) \in T
  <2>1. Append(tt, s) \in Seq(Seq(S)) /\ FlattenSeq(Append(tt, s)) = FlattenSeq(tt) \o s
    BY FlattenAppend
  <2>2. FlattenSeq(tt) \o s \in Seq(S)
    BY <1>2
  <2> QED BY <2>1, <2>2
<1> HIDE DEF T
<1>3. ss \in T
  <2>1. \A tt \in Seq(Seq(S)) : tt \in T
    BY <1>1, <1>2, Sequential
  <2> QED BY <2>1
<1> QED BY <1>3 DEF T

\* Three sequences are the same however they are put together.
Regroups(a, b, c) == (a \o b) \o c = a \o (b \o c)

LEMMA AnyRegroups ==
    ASSUME NEW S, NEW a \in Seq(S), NEW b \in Seq(S), NEW c \in Seq(S)
    PROVE  Regroups(a, b, c)
  BY Regroup DEF Regroups

\* The same, of what is flattened.
LEMMA FlattenRegroup ==
    ASSUME NEW S, NEW ss, NEW uu, NEW s \in Seq(S), FlattenSeq(ss) \in Seq(S), FlattenSeq(uu) \in Seq(S)
    PROVE  (FlattenSeq(ss) \o FlattenSeq(uu)) \o s = FlattenSeq(ss) \o (FlattenSeq(uu) \o s)
  BY Regroup

\* Two parts are flattened one after the other.
LEMMA FlattenConcat ==
    ASSUME NEW S, NEW ss \in Seq(Seq(S)), NEW tt \in Seq(Seq(S))
    PROVE  FlattenSeq(ss \o tt) = FlattenSeq(ss) \o FlattenSeq(tt)
<1> DEFINE T == {uu \in Seq(Seq(S)) : FlattenSeq(ss \o uu) = FlattenSeq(ss) \o FlattenSeq(uu)}
<1>0. FlattenSeq(ss) \in Seq(S)
  BY FlattenType
<1>1. <<>> \in T
  <2>1. ss \o <<>> = ss /\ FlattenSeq(ss) \o <<>> = FlattenSeq(ss)
    BY <1>0, ConcatEmptySeq
  <2>2. <<>> \in Seq(Seq(S))
    OBVIOUS
  <2>3. FlattenSeq(ss \o <<>>) = FlattenSeq(ss) \o FlattenSeq(<<>>)
    BY <2>1, FlattenNone
  <2> QED BY <2>2, <2>3
<1>2. ASSUME NEW uu \in Seq(Seq(S)), NEW s \in Seq(S), uu \in T PROVE Append(uu, s) \in T
  <2>1. Append(uu, s) \in Seq(Seq(S)) /\ FlattenSeq(Append(uu, s)) = FlattenSeq(uu) \o s
        /\ FlattenSeq(uu) \in Seq(S)
    BY FlattenAppend, FlattenType
  <2>2. ss \o Append(uu, s) = Append(ss \o uu, s) /\ ss \o uu \in Seq(Seq(S))
    BY AppendIsConcat, ConcatAssociative
  <2>3. FlattenSeq(ss \o Append(uu, s)) = FlattenSeq(ss \o uu) \o s
    BY <2>2, FlattenAppend
  <2>4. (FlattenSeq(ss) \o FlattenSeq(uu)) \o s = FlattenSeq(ss) \o (FlattenSeq(uu) \o s)
    BY <1>0, <2>1, FlattenRegroup
  <2> QED BY <1>2, <2>1, <2>3, <2>4
<1> HIDE DEF T
<1>3. tt \in T
  <2>1. \A uu \in Seq(Seq(S)) : uu \in T
    BY <1>1, <1>2, Sequential
  <2> QED BY <2>1
<1> QED BY <1>3 DEF T

\* One sequence is flattened to itself.
LEMMA FlattenOne ==
    ASSUME NEW S, NEW s \in Seq(S)
    PROVE  FlattenSeq(<<s>>) = s
<1>1. <<>> \in Seq(Seq(S)) /\ Append(<<>>, s) = <<s>> /\ <<>> \o s = s
  BY ConcatEmptySeq
<1> QED BY <1>1, FlattenAppend, FlattenNone

-----------------------------------------------------------------------------
(* Parts of sequences *)

\* Two sequences with the same elements are the same.
LEMMA SequencesSame ==
    ASSUME NEW S, NEW s \in Seq(S), NEW t \in Seq(S), NEW n, Len(s) = n, Len(t) = n, SameUpTo(s, t, n)
    PROVE  s = t
<1>1. s = [i \in 1..n |-> s[i]] /\ t = [i \in 1..n |-> t[i]]
  OBVIOUS
<1> QED BY <1>1 DEF SameUpTo

\* The elements of c are those of a and then those of b.
Joins(c, a, b) ==
    /\ Len(c) = Len(a) + Len(b)
    /\ \A i \in 1..Len(a) : c[i] = a[i]
    /\ \A i \in 1..Len(b) : c[Len(a) + i] = b[i]

LEMMA JoinedAre ==
    ASSUME NEW S, NEW a \in Seq(S), NEW b \in Seq(S), NEW c \in Seq(S), Joins(c, a, b)
    PROVE  c = a \o b
<1> DEFINE d == a \o b
           n == Len(a) + Len(b)
<1>1. d \in Seq(S) /\ Len(d) = n /\ \A i \in 1..n : d[i] = IF i <= Len(a) THEN a[i] ELSE b[i - Len(a)]
  BY ConcatProperties
<1>2. Len(a) \in Nat /\ Len(b) \in Nat
  OBVIOUS
<1> HIDE DEF d
<1>3. ASSUME NEW i \in 1..n PROVE c[i] = d[i]
  <2>1. CASE i <= Len(a)
    BY <1>1, <1>2, <2>1 DEF Joins
  <2>2. CASE ~ (i <= Len(a))
    <3>1. i - Len(a) \in 1..Len(b) /\ Len(a) + (i - Len(a)) = i
      BY <1>2, <2>2
    <3> QED BY <1>1, <2>2, <3>1 DEF Joins
  <2> QED BY <2>1, <2>2
<1>4. c = d
  BY <1>1, <1>3, SequencesSame DEF Joins, SameUpTo
<1> QED BY <1>4 DEF d

\* What is left of two equal sequences when the same is taken from their fronts.
LEMMA FrontTaken ==
    ASSUME NEW S, NEW d \in Seq(S), NEW t \in Seq(S), NEW m \in Seq(S), NEW u \in Seq(S),
           d \o t = m \o u, Len(m) <= Len(d)
    PROVE  SubSeq(d, Len(m) + 1, Len(d)) \o t = u
<1> DEFINE a == Len(d)
           b == Len(t)
           c == Len(m)
           e == Len(u)
           s == SubSeq(d, c + 1, a)
           w == d \o t
           v == s \o t
<1>1. a \in Nat /\ b \in Nat /\ c \in Nat /\ e \in Nat /\ c <= a
  OBVIOUS
<1>2. Len(w) = a + b /\ \A i \in 1..(a + b) : w[i] = IF i <= a THEN d[i] ELSE t[i - a]
  BY ConcatProperties
<1>3. Len(w) = c + e /\ \A i \in 1..(c + e) : w[i] = IF i <= c THEN m[i] ELSE u[i - c]
  BY ConcatProperties
<1>4. s \in Seq(S) /\ Len(s) = a - c /\ \A i \in 1..(a - c) : s[i] = d[c + i]
  <2>1. \A i \in (c + 1)..a : d[i] \in S
    BY <1>1, ElementOfSeq
  <2>2. c + 1 \in Int /\ a \in Int
    BY <1>1
  <2>3. s \in Seq(S) /\ Len(s) = (IF c + 1 <= a THEN a - (c + 1) + 1 ELSE 0)
        /\ \A i \in 1..(a - (c + 1) + 1) : s[i] = d[(c + 1) + i - 1]
    BY <2>1, <2>2, SubSeqProperties
  <2> HIDE DEF s, a, c
  <2>4. Len(s) = a - c
    BY <1>1, <2>3
  <2>5. \A i \in 1..(a - c) : i \in 1..(a - (c + 1) + 1) /\ (c + 1) + i - 1 = c + i
    BY <1>1
  <2> QED BY <2>3, <2>4, <2>5
<1>5. v \in Seq(S) /\ Len(v) = Len(s) + b /\ \A i \in 1..(Len(s) + b) : v[i] = IF i <= Len(s) THEN s[i] ELSE t[i - Len(s)]
  BY <1>4, ConcatProperties
<1> HIDE DEF a, b, c, e, s, w, v
<1>6. Len(s) + b = e /\ Len(u) = e /\ Len(v) = e
  <2>1. a + b = c + e
    BY <1>2, <1>3
  <2>2. (a - c) + b = e
    BY <1>1, <2>1
  <2>3. Len(u) = e
    BY DEF e
  <2> QED BY <1>4, <1>5, <2>2, <2>3
<1>7. ASSUME NEW i \in 1..e PROVE v[i] = u[i]
  <2>0. i \in Nat /\ c + i \in 1..(c + e) /\ c + i \in 1..(a + b) /\ ~ (c + i <= c) /\ (c + i) - c = i
    BY <1>1, <1>2, <1>3
  <2>1. w[c + i] = u[i]
    BY <1>3, <2>0
  <2>2. CASE i <= a - c
    <3>1. c + i <= a /\ i \in 1..(a - c)
      BY <1>1, <2>0, <2>2
    <3> QED BY <1>2, <1>4, <1>5, <1>6, <2>0, <2>1, <2>2, <3>1
  <2>3. CASE ~ (i <= a - c)
    <3>1. ~ (c + i <= a) /\ (c + i) - a = i - (a - c)
      BY <1>1, <2>0, <2>3
    <3>2. w[c + i] = t[(c + i) - a]
      BY <1>2, <2>0, <3>1
    <3>3. v[i] = t[i - (a - c)]
      BY <1>4, <1>5, <1>6, <2>3
    <3> QED BY <2>1, <3>1, <3>2, <3>3
  <2> QED BY <2>2, <2>3
<1>8. v = u
  BY <1>5, <1>6, <1>7, SequencesSame DEF SameUpTo
<1> QED BY <1>8 DEF a, c, s, v

\* What the front of a sequence is.
LEMMA FrontOf ==
    ASSUME NEW S, NEW w \in Seq(S), NEW t \in Seq(S)
    PROVE  SubSeq(w \o t, 1, Len(w)) = w
<1> DEFINE v == w \o t
           n == Len(w)
           m == Len(t)
<1>1. n \in Nat /\ m \in Nat /\ v \in Seq(S) /\ Len(v) = n + m /\ \A i \in 1..n + m : v[i] = IF i <= n THEN w[i] ELSE t[i - n]
  BY ConcatProperties
<1> HIDE DEF v, n, m
<1>2. \A i \in 1..n : v[i] \in S
  BY <1>1, ElementOfSeq
<1>3. SubSeq(v, 1, n) \in Seq(S) /\ Len(SubSeq(v, 1, n)) = n /\ \A i \in 1..n : SubSeq(v, 1, n)[i] = v[i]
  <2>1. 1 \in Int /\ n \in Int /\ n - 1 + 1 = n /\ (1 <= n \/ n = 0) /\ \A i \in 1..n : 1 + i - 1 = i
    BY <1>1
  <2>2. /\ SubSeq(v, 1, n) \in Seq(S)
        /\ Len(SubSeq(v, 1, n)) = IF 1 <= n THEN n - 1 + 1 ELSE 0
        /\ \A i \in 1..(n - 1 + 1) : SubSeq(v, 1, n)[i] = v[1 + i - 1]
    BY <1>2, <2>1, SubSeqProperties
  <2> QED BY <2>1, <2>2
<1>4. \A i \in 1..n : SubSeq(v, 1, n)[i] = w[i]
  <2>1. \A i \in 1..n : i \in 1..n + m /\ i <= n
    BY <1>1
  <2> QED BY <1>1, <1>3, <2>1
<1>5. SubSeq(v, 1, n) = w
  <2>1. Len(w) = n
    BY DEF n
  <2> QED BY <1>3, <1>4, <2>1, SequencesSame DEF SameUpTo
<1> QED BY <1>5 DEF v, n

=============================================================================
