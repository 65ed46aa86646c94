---------------------------- MODULE WsFrameProofs ----------------------------
(***************************************************************************)
(* Lemmas about WsFrame: the loop stays in step with its client's frames   *)
(* and answers each of them.  They speak of one step at a time; the        *)
(* theorems are those of HttpServerProofs, where a session begins with     *)
(* what the request has left in its buffer.                                *)
(***************************************************************************)
EXTENDS WsFrame, SequencesExt, SequenceTheorems, WellFoundedInduction, TLAPS

-----------------------------------------------------------------------------
(* Induction, and the concatenation of sequences.  FlattenSeq is defined by *)
(* recursion; the lemmas that follow are all that is used of it.           *)

\* The order of the induction.
Less == OpToRel(<, Nat)

\* A set of numbers that has 0 and with n also n + 1 is Nat.
LEMMA SetInduction ==
  ASSUME NEW S \in SUBSET Nat, 0 \in S, \A n \in S : n + 1 \in S
  PROVE  S = Nat
<1>1. SUFFICES ASSUME Nat \ S # {} PROVE FALSE
  OBVIOUS
<1> DEFINE T == Nat \ S
<1>2. IsWellFoundedOn(Less, Nat)
  BY NatLessThanWellFounded, Zenon DEF Less
<1>3. T \subseteq Nat /\ T # {}
  BY <1>1
<1> HIDE DEF T
<1>4. PICK x \in T : \A y \in T : ~ (<<y, x>> \in Less)
  BY <1>2, <1>3, WFMin
<1> USE DEF T
<1>5. x # 0 /\ x \in Nat
  BY <1>4
<1>6. x - 1 \in Nat /\ (x - 1) + 1 = x /\ x - 1 < x
  BY <1>5
<1>7. <<x-1, x>> \in Less
  BY <1>5, <1>6, Zenon DEF Less, OpToRel
<1>8. x - 1 \in S
  BY <1>4, <1>6, <1>7
<1> QED BY <1>8, <1>6, <1>4

\* g is what the recursion from a to b computes.
Unfolds(g, base, step, a, b) ==
  \A i \in a..b : g[i] = IF i = a THEN base ELSE step[<<i, g[i-1]>>]

\* What a recursion describes is there.
LEMMA Recursion ==
  ASSUME NEW V, NEW base \in V, NEW step \in [Nat \X V -> V],
         NEW a \in Nat, NEW b \in Nat
  PROVE  \E g \in [a..b -> V] : Unfolds(g, base, step, a, b)
<1> USE DEF Unfolds
<1> DEFINE P(g, n) == \A i \in a..n : g[i] = IF i = a THEN base ELSE step[<<i, g[i-1]>>]
           S == {n \in Nat : \E g \in [Nat -> V] : P(g, a + n)}
<1>1. 0 \in S
  <2> DEFINE g == [i \in Nat |-> base]
  <2>1. g \in [Nat -> V] /\ P(g, a + 0)
    OBVIOUS
  <2> QED BY <2>1
<1>2. ASSUME NEW n \in S PROVE n + 1 \in S
  <2>1. PICK g \in [Nat -> V] : P(g, a + n)
    OBVIOUS
  <2> DEFINE h == [g EXCEPT ![a + n + 1] = step[<<a + n + 1, g[a + n]>>]]
  <2>2. h \in [Nat -> V]
    OBVIOUS
  <2>3. ASSUME NEW i \in a..(a + (n + 1))
        PROVE  h[i] = IF i = a THEN base ELSE step[<<i, h[i-1]>>]
    <3>1. CASE i = a + n + 1
      <4>1. i # a /\ i - 1 = a + n /\ i - 1 # i /\ i - 1 \in Nat
        BY <3>1
      <4>2. h[i-1] = g[i-1] /\ h[i] = step[<<i, g[i-1]>>]
        BY <3>1, <4>1
      <4> QED BY <4>1, <4>2
    <3>2. CASE i # a + n + 1
      <4>1. i \in a..(a + n) /\ (i # a => i - 1 \in Nat /\ i - 1 # a + n + 1)
        BY <3>2
      <4>2. h[i] = g[i] /\ (i # a => h[i-1] = g[i-1])
        BY <3>2, <4>1
      <4> QED BY <2>1, <4>1, <4>2
    <3> QED BY <3>1, <3>2
  <2> HIDE DEF h
  <2>4. P(h, a + (n + 1))
    BY <2>3
  <2> QED BY <2>2, <2>4
<1>3. S = Nat
  <2> HIDE DEF S
  <2>1. S \in SUBSET Nat
    BY DEF S
  <2> QED BY <1>1, <1>2, <2>1, SetInduction
<1>4. CASE a <= b
  <2>1. b - a \in Nat /\ a + (b - a) = b
    BY <1>4
  <2>5. b - a \in S
    BY <1>3, <2>1
  <2>6. \E g \in [Nat -> V] : P(g, a + (b - a))
    BY <2>5
  <2>2. PICK g \in [Nat -> V] : P(g, b)
    BY <2>1, <2>6
  <2> DEFINE h == [i \in a..b |-> g[i]]
  <2>3. h \in [a..b -> V]
    OBVIOUS
  <2>4. \A i \in a..b : h[i] = g[i] /\ (i # a => i-1 \in a..b /\ h[i-1] = g[i-1])
    OBVIOUS
  <2> HIDE DEF h
  <2> QED BY <2>1, <2>2, <2>3, <2>4
<1>5. CASE ~(a <= b)
  <2>1. a..b = {}
    BY <1>5
  <2>2. [i \in a..b |-> base] \in [a..b -> V]
    OBVIOUS
  <2> QED BY <2>1, <2>2
<1> QED BY <1>4, <1>5

\* The first n of the sequences f, one after the other.
FlattenFirst(f, n) == FlattenSeq([i \in 1..n |-> f[i]])

\* What FlattenSeq computes on the way.
Flattens(g, f, n) ==
  \A i \in 1..n : g[i] = IF i = 1 THEN f[i] ELSE g[i-1] \o f[i]

\* What FlattenSeq takes its value from is the one such function.
LEMMA FlattenIs ==
  ASSUME NEW S, NEW n \in Nat, NEW f, \A i \in 1..n : f[i] \in Seq(S),
         NEW g \in [1..n -> Seq(S)],
         Flattens(g, f, n)
  PROVE  /\ n = 0 => FlattenFirst(f, n) = <<>>
         /\ n # 0 => FlattenFirst(f, n) = g[n]
<1> USE DEF FlattenFirst, Flattens
<1> DEFINE s == [i \in 1..n |-> f[i]]
<1>1. s \in Seq(Seq(S)) /\ Len(s) = n /\ \A i \in 1..n : s[i] = f[i]
  BY IsASeq
<1>2. CASE n = 0
  <2>1. s = <<>>
    BY <1>1, <1>2, EmptySeq
  <2> HIDE DEF s
  <2>2. FlattenSeq(s) = s
    BY <1>1, <1>2 DEF FlattenSeq
  <2> QED BY <2>1, <2>2, <1>2 DEF s
<1>3. CASE n # 0
  <2> DEFINE Is(h) == h = [i \in 1..Len(s) |-> IF i = 1 THEN s[i] ELSE h[i-1] \o s[i]]
             h == CHOOSE h : Is(h)
  <2>1. Is(g)
    <3> HIDE DEF s
    <3>1. g = [i \in 1..n |-> IF i = 1 THEN s[i] ELSE g[i-1] \o s[i]]
      BY <1>1
    <3> QED BY <3>1, <1>1
  <2> HIDE DEF Is
  <2>2. Is(h)
    BY <2>1
  <2> USE DEF Is
  <2> HIDE DEF h, s
  <2>3. h = [i \in 1..n |-> IF i = 1 THEN s[i] ELSE h[i-1] \o s[i]]
    BY <2>2, <1>1
  <2>4. \A i \in 1..n : h[i] = IF i = 1 THEN s[i] ELSE h[i-1] \o s[i]
    BY <2>3
  <2>5. FlattenSeq(s) = h[n]
    BY <1>1, <1>3, Zenon DEF FlattenSeq, h, Is
  <2> DEFINE T == {m \in Nat : m + 1 <= n => g[m + 1] = h[m + 1]}
  <2>6. 0 \in T
    <3>1. 0 + 1 = 1 /\ 1 \in 1..n
      BY <1>3
    <3> QED BY <3>1, <2>4, <1>1
  <2>7. ASSUME NEW m \in T PROVE m + 1 \in T
    <3> SUFFICES ASSUME (m + 1) + 1 <= n
                 PROVE  g[(m + 1) + 1] = h[(m + 1) + 1]
      OBVIOUS
    <3> DEFINE i == (m + 1) + 1
    <3>1. i \in 1..n /\ i # 1 /\ i - 1 = m + 1 /\ m + 1 <= n
      OBVIOUS
    <3>2. g[i-1] = h[i-1]
      BY <3>1
    <3> HIDE DEF i
    <3>3. g[i] = g[i-1] \o f[i] /\ h[i] = h[i-1] \o s[i] /\ s[i] = f[i]
      BY <3>1, <2>4, <1>1
    <3>4. g[i] = h[i]
      BY <3>2, <3>3
    <3> QED BY <3>4 DEF i
  <2>8. T = Nat
    <3> HIDE DEF T
    <3>1. T \in SUBSET Nat
      BY DEF T
    <3> QED BY <2>6, <2>7, <3>1, SetInduction
  <2>9. n - 1 \in Nat /\ (n - 1) + 1 = n
    BY <1>3
  <2>11. n - 1 \in T
    BY <2>8, <2>9
  <2>10. g[n] = h[n]
    BY <2>9, <2>11
  <2> QED BY <2>5, <2>10, <1>3 DEF s
<1> QED BY <1>2, <1>3

\* One more sequence is put at the end.
LEMMA FlattenStep ==
  ASSUME NEW S, NEW n \in Nat, NEW f, \A i \in 1..(n+1) : f[i] \in Seq(S)
  PROVE  /\ FlattenFirst(f, n) \in Seq(S)
         /\ FlattenFirst(f, n+1) = FlattenFirst(f, n) \o f[n+1]
<1> DEFINE step == [p \in Nat \X Seq(S) |->
                      IF p[1] \in 1..(n+1) THEN p[2] \o f[p[1]] ELSE p[2]]
<1>1. f[1] \in Seq(S) /\ f[n+1] \in Seq(S) /\ \A i \in 1..n : f[i] \in Seq(S)
  OBVIOUS
<1>2. step \in [Nat \X Seq(S) -> Seq(S)]
  <2> SUFFICES ASSUME NEW p \in Nat \X Seq(S)
               PROVE  (IF p[1] \in 1..(n+1) THEN p[2] \o f[p[1]] ELSE p[2])
                        \in Seq(S)
    OBVIOUS
  <2>1. p[1] \in Nat /\ p[2] \in Seq(S)
    OBVIOUS
  <2> QED BY <2>1
<1>3. \A i \in Nat, v \in Seq(S) :
        i \in 1..(n+1) => step[<<i, v>>] = v \o f[i]
  OBVIOUS
<1> HIDE DEF step
<1>4. PICK g \in [1..(n+1) -> Seq(S)] : Unfolds(g, f[1], step, 1, n+1)
  <2>1. 1 \in Nat /\ n + 1 \in Nat
    OBVIOUS
  <2> QED BY <1>1, <1>2, <2>1, Recursion
<1>5. Flattens(g, f, n+1)
  <2> SUFFICES ASSUME NEW i \in 1..(n+1)
               PROVE  g[i] = IF i = 1 THEN f[i] ELSE g[i-1] \o f[i]
    BY DEF Flattens
  <2>1. i \in Nat /\ (i # 1 => i - 1 \in 1..(n+1))
    OBVIOUS
  <2>2. i # 1 => g[i-1] \in Seq(S)
    BY <2>1
  <2>3. g[i] = IF i = 1 THEN f[1] ELSE step[<<i, g[i-1]>>]
    BY <1>4 DEF Unfolds
  <2> QED BY <1>3, <2>1, <2>2, <2>3
<1> DEFINE h == [i \in 1..n |-> g[i]]
<1>6. h \in [1..n -> Seq(S)] /\ Flattens(h, f, n)
  <2>1. \A i \in 1..n : h[i] = g[i] /\ i \in 1..(n+1) /\ (i # 1 => h[i-1] = g[i-1])
    OBVIOUS
  <2>2. h \in [1..n -> Seq(S)]
    OBVIOUS
  <2> HIDE DEF h
  <2> QED BY <1>5, <2>1, <2>2 DEF Flattens
<1>7. n # 0 => g[n+1] = h[n] \o f[n+1] /\ h[n] \in Seq(S)
  <2> HAVE n # 0
  <2>1. n \in 1..n /\ n + 1 \in 1..(n+1) /\ n + 1 # 1 /\ (n + 1) - 1 = n
    OBVIOUS
  <2>2. h[n] = g[n] /\ h[n] \in Seq(S)
    BY <2>1, <1>6
  <2> HIDE DEF h
  <2> QED BY <1>5, <2>1, <2>2 DEF Flattens
<1>10. n = 0 => g[n+1] = f[n+1]
  BY <1>5 DEF Flattens
<1> HIDE DEF h
<1>8. /\ n = 0 => FlattenFirst(f, n) = <<>>
      /\ n # 0 => FlattenFirst(f, n) = h[n]
  BY <1>1, <1>6, FlattenIs
<1>9. FlattenFirst(f, n+1) = g[n+1]
  <2>1. n + 1 \in Nat /\ n + 1 # 0
    OBVIOUS
  <2> QED BY <1>5, <2>1, FlattenIs
<1>11. <<>> \o f[n+1] = f[n+1] /\ <<>> \in Seq(S)
  BY <1>1
<1> QED BY <1>7, <1>8, <1>9, <1>10, <1>11

\* Each of the sequences is where those before it end.
LEMMA FlattenAt ==
  ASSUME NEW S, NEW n \in Nat, NEW f, \A i \in 1..n : f[i] \in Seq(S),
         NEW k \in Nat, k < n
  PROVE  /\ Len(FlattenFirst(f, k)) + Len(f[k+1]) <= Len(FlattenFirst(f, n))
         /\ \A i \in 1..Len(f[k+1]) :
              FlattenFirst(f, n)[Len(FlattenFirst(f, k)) + i] = f[k+1][i]
<1> DEFINE s == FlattenFirst(f, k)
           t == f[k+1]
           Has(w) == /\ w \in Seq(S) /\ Len(s) + Len(t) <= Len(w)
                     /\ \A i \in 1..Len(t) : w[Len(s) + i] = t[i]
           T == {m \in Nat : k + 1 + m <= n => Has(FlattenFirst(f, k + 1 + m))}
<1>1. \A m \in Nat : m + 1 <= n =>
        /\ FlattenFirst(f, m) \in Seq(S) /\ f[m+1] \in Seq(S)
        /\ FlattenFirst(f, m+1) = FlattenFirst(f, m) \o f[m+1]
  <2> TAKE m \in Nat
  <2> HAVE m + 1 <= n
  <2>1. \A i \in 1..(m+1) : f[i] \in Seq(S)
    OBVIOUS
  <2> QED BY <2>1, FlattenStep
<1>2. 0 \in T
  <2>1. s \in Seq(S) /\ t \in Seq(S) /\ FlattenFirst(f, k+1) = s \o t
    BY <1>1
  <2>2. k + 1 + 0 = k + 1
    OBVIOUS
  <2> HIDE DEF s, t
  <2>3. Has(s \o t)
    BY <2>1
  <2> QED BY <2>1, <2>2, <2>3
<1>3. ASSUME NEW m \in T PROVE m + 1 \in T
  <2> SUFFICES ASSUME k + 1 + (m + 1) <= n
               PROVE  Has(FlattenFirst(f, k + 1 + (m + 1)))
    OBVIOUS
  <2> DEFINE j == k + 1 + m
             w == FlattenFirst(f, j)
  <2>1. j \in Nat /\ j + 1 <= n /\ j + 1 = k + 1 + (m + 1)
    OBVIOUS
  <2>2. Has(w)
    BY <2>1
  <2>3. FlattenFirst(f, j+1) = w \o f[j+1] /\ f[j+1] \in Seq(S)
    BY <1>1, <2>1
  <2>6. s \in Seq(S) /\ t \in Seq(S)
    BY <1>1
  <2> HIDE DEF j, w, s, t
  <2>4. Has(w \o f[j+1])
    <3>1. w \in Seq(S) /\ Len(w \o f[j+1]) = Len(w) + Len(f[j+1])
          /\ w \o f[j+1] \in Seq(S) /\ Len(f[j+1]) \in Nat
      BY <2>2, <2>3
    <3>2. \A i \in 1..Len(w) : (w \o f[j+1])[i] = w[i]
      BY <2>3, <3>1
    <3>3. \A i \in 1..Len(t) : Len(s) + i \in 1..Len(w)
      BY <2>2, <2>6
    <3> QED BY <2>2, <2>6, <3>1, <3>2, <3>3
  <2> QED BY <2>1, <2>3, <2>4
<1>4. T = Nat
  <2> HIDE DEF T
  <2>1. T \in SUBSET Nat
    BY DEF T
  <2> QED BY <1>2, <1>3, <2>1, SetInduction
<1>5. n - k - 1 \in Nat /\ k + 1 + (n - k - 1) = n
  OBVIOUS
<1>6. n - k - 1 \in T
  BY <1>4, <1>5
<1>7. Has(FlattenFirst(f, n))
  BY <1>5, <1>6
<1> QED BY <1>7

-----------------------------------------------------------------------------
(* Beginnings and rests of a sequence.                                     *)

Pairs == Nat \X Nat

\* s is the part of w that begins behind the first d.
Behind(s, d, w) ==
  d + Len(s) <= Len(w) /\ \A i \in 1..Len(s) : s[i] = w[d + i]

\* Take and Drop, element by element.
LEMMA TakeDrop ==
  ASSUME NEW S, NEW s \in Seq(S), NEW n \in 0..Len(s)
  PROVE  /\ Take(s, n) \in Seq(S) /\ Len(Take(s, n)) = n
         /\ \A i \in 1..n : Take(s, n)[i] = s[i]
         /\ Drop(s, n) \in Seq(S) /\ Len(Drop(s, n)) = Len(s) - n
         /\ \A i \in 1..(Len(s) - n) : Drop(s, n)[i] = s[n + i]
BY DEF Take, Drop

\* Sequences of one length that agree everywhere are equal.
LEMMA SameSequence ==
  ASSUME NEW S, NEW s \in Seq(S), NEW t \in Seq(S), Len(s) = Len(t),
         \A i \in 1..Len(s) : s[i] = t[i]
  PROVE  s = t
OBVIOUS

\* What is left of a part, and its beginning, are parts.
LEMMA BehindRest ==
  ASSUME NEW S, NEW s \in Seq(S), NEW w \in Seq(S), NEW d \in Nat,
         Behind(s, d, w), NEW n \in 0..Len(s)
  PROVE  Behind(Drop(s, n), d + n, w) /\ Behind(Take(s, n), d, w)
<1> DEFINE a == Take(s, n)
           b == Drop(s, n)
<1>1. /\ Len(a) = n /\ \A i \in 1..n : a[i] = s[i]
      /\ Len(b) = Len(s) - n /\ \A i \in 1..(Len(s) - n) : b[i] = s[n + i]
  BY TakeDrop
<1> HIDE DEF a, b
<1>2. Len(w) \in Nat /\ Len(s) \in Nat
  OBVIOUS
<1>3. \A i \in 1..Len(b) : b[i] = w[(d + n) + i]
  <2> TAKE i \in 1..Len(b)
  <2>1. b[i] = s[n + i] /\ n + i \in 1..Len(s)
    BY <1>1, <1>2
  <2>2. s[n + i] = w[d + (n + i)] /\ d + (n + i) = (d + n) + i
    BY <2>1 DEF Behind
  <2> QED BY <2>1, <2>2
<1>4. Behind(b, d + n, w)
  BY <1>1, <1>2, <1>3 DEF Behind
<1>5. \A i \in 1..Len(a) : a[i] = w[d + i]
  BY <1>1, <1>2 DEF Behind
<1>6. Behind(a, d, w)
  BY <1>1, <1>2, <1>5 DEF Behind
<1> QED BY <1>4, <1>6 DEF a, b

-----------------------------------------------------------------------------
(* What the server has received and not consumed.                          *)

Inbox == pending \o socket

\* ws_recv_exact takes n bytes off it.
LEMMA ExactRead ==
  ASSUME NEW S, pending \in Seq(S), socket \in Seq(S), NEW n \in Nat,
         ws_recv_exact(n)
  PROVE  /\ pending' \in Seq(S) /\ socket' \in Seq(S)
         /\ Len(pending') <= Len(pending)
         /\ n <= Len(Inbox) /\ ExactData(n) = Take(Inbox, n)
         /\ Inbox' = Drop(Inbox, n)
<1> DEFINE m == Smaller(n, Len(pending))
<1>1. /\ m \in 0..Len(pending) /\ n - m \in 0..Len(socket)
      /\ m = n \/ m = Len(pending)
  BY DEF ws_recv_exact, Smaller
<1>2. pending' = Drop(pending, m) /\ socket' = Drop(socket, n - m)
  BY DEF ws_recv_exact, RestOfPending
<1> HIDE DEF m
<1>3. /\ pending' \in Seq(S) /\ Len(pending') = Len(pending) - m
      /\ \A i \in 1..(Len(pending) - m) : pending'[i] = pending[m + i]
      /\ socket' \in Seq(S) /\ Len(socket') = Len(socket) - (n - m)
      /\ \A i \in 1..(Len(socket) - (n - m)) : socket'[i] = socket[(n - m) + i]
  BY <1>1, <1>2, TakeDrop
<1>4. Inbox \in Seq(S) /\ Len(Inbox) = Len(pending) + Len(socket)
  BY DEF Inbox
<1>5. n \in 0..Len(Inbox)
  BY <1>1, <1>4
<1>6. /\ Drop(Inbox, n) \in Seq(S) /\ Len(Drop(Inbox, n)) = Len(Inbox) - n
      /\ \A i \in 1..(Len(Inbox) - n) : Drop(Inbox, n)[i] = Inbox[n + i]
  BY <1>4, <1>5, TakeDrop
<1>10. Inbox' \in Seq(S) /\ Len(Inbox') = Len(pending') + Len(socket')
  <2>1. pending' \in Seq(S) /\ socket' \in Seq(S)
    BY <1>3
  <2> QED BY <2>1 DEF Inbox
<1>11. /\ Len(pending) \in Nat /\ Len(socket) \in Nat
       /\ Len(pending') \in Nat /\ Len(socket') \in Nat /\ m \in Nat
  BY <1>1, <1>3
<1>7. Len(Inbox') = Len(Inbox) - n
  BY <1>3, <1>4, <1>10, <1>11
<1>8. ASSUME NEW i \in 1..(Len(Inbox) - n) PROVE Inbox'[i] = Inbox[n + i]
  <2>1. CASE i <= Len(pending')
    <3>1. m = n /\ n + i \in 1..Len(pending)
      BY <2>1, <1>1, <1>3
    <3>2. Inbox'[i] = pending'[i] /\ Inbox[n + i] = pending[n + i]
      BY <2>1, <3>1, <1>3 DEF Inbox
    <3> QED BY <2>1, <3>1, <3>2, <1>3
  <2>2. CASE i > Len(pending')
    <3> DEFINE j == i - Len(pending')
    <3>1. j \in 1..Len(socket')
      BY <2>2, <1>7, <1>10, <1>11
    <3>2. /\ Inbox'[i] = socket'[j]
      BY <2>2, <1>3, <3>1 DEF Inbox
    <3>3. n + i > Len(pending) /\ n + i <= Len(Inbox)
          /\ (n + i) - Len(pending) = (n - m) + j
      BY <2>2, <1>1, <1>3, <1>4
    <3>4. Inbox[n + i] = socket[(n - m) + j]
      BY <3>3, <1>4 DEF Inbox
    <3> QED BY <3>1, <3>2, <3>4, <1>3
  <2> QED BY <2>1, <2>2, <1>3
<1>9. Inbox' = Drop(Inbox, n)
  BY <1>6, <1>7, <1>8, <1>10, SameSequence
<1> QED BY <1>1, <1>3, <1>5, <1>9 DEF ExactData, Inbox

\* request_body_read takes what it returns off it.
LEMMA BodyRead ==
  ASSUME NEW S, pending \in Seq(S), socket \in Seq(S),
         NEW max_len \in Nat \ {0}, NEW n \in Nat, request_body_read(max_len, n)
  PROVE  /\ pending' \in Seq(S) /\ socket' \in Seq(S)
         /\ Len(pending') <= Len(pending)
         /\ n \in 1..max_len /\ n <= Len(Inbox)
         /\ BodyData(n) = Take(Inbox, n) /\ Inbox' = Drop(Inbox, n)
<1>1. CASE pending # <<>>
  <2>1. /\ n = Smaller(max_len, Len(pending)) /\ pending' = RestOfPending(n)
        /\ socket' = socket /\ left' = left
    BY <1>1 DEF request_body_read
  <2>2. Len(pending) \in Nat \ {0}
    BY <1>1
  <2>3. n \in 1..max_len /\ n <= Len(pending) /\ Smaller(n, Len(pending)) = n
    BY <2>1, <2>2 DEF Smaller
  <2>4. n - Smaller(n, Len(pending)) = 0 /\ Drop(socket, 0) = socket
    BY <2>3 DEF Drop
  <2>5. ws_recv_exact(n)
    BY <2>1, <2>3, <2>4 DEF ws_recv_exact
  <2>6. BodyData(n) = ExactData(n)
    <3>1. /\ n \in 0..Len(pending) /\ Inbox \in Seq(S) /\ n \in 0..Len(Inbox)
          /\ \A i \in 1..n : Inbox[i] = pending[i]
      BY <2>3 DEF Inbox
    <3>2. /\ Take(pending, n) \in Seq(S) /\ Len(Take(pending, n)) = n
          /\ \A i \in 1..n : Take(pending, n)[i] = pending[i]
      BY <3>1, TakeDrop
    <3>3. /\ Take(Inbox, n) \in Seq(S) /\ Len(Take(Inbox, n)) = n
          /\ \A i \in 1..n : Take(Inbox, n)[i] = Inbox[i]
      BY <3>1, TakeDrop
    <3>4. Take(pending, n) = Take(Inbox, n)
      BY <3>1, <3>2, <3>3, SameSequence
    <3> QED BY <3>4, <1>1 DEF BodyData, ExactData, Inbox
  <2> QED BY <2>3, <2>5, <2>6, ExactRead
<1>2. CASE pending = <<>>
  <2>1. /\ n \in 1..Smaller(max_len, Len(socket)) /\ socket' = Drop(socket, n)
        /\ pending' = pending /\ left' = left
    BY <1>2 DEF request_body_read
  <2>2. n \in 1..max_len /\ n <= Len(socket) /\ Smaller(n, Len(pending)) = 0
    BY <1>2, <2>1 DEF Smaller
  <2>3. RestOfPending(n) = pending
    BY <1>2, <2>2 DEF RestOfPending, Drop
  <2>4. ws_recv_exact(n)
    BY <1>2, <2>1, <2>2, <2>3 DEF ws_recv_exact
  <2>5. BodyData(n) = ExactData(n)
    BY <1>2 DEF BodyData, ExactData
  <2> QED BY <2>2, <2>4, <2>5, ExactRead
<1> QED BY <1>1, <1>2

\* A client that leaves may take along what was not received, from the end.
LEMMA Leaving ==
  ASSUME NEW S, pending \in Seq(S), socket \in Seq(S), ClientLeaves,
         NEW d \in Nat, NEW w \in Seq(S), Behind(Inbox, d, w)
  PROVE  /\ pending' = pending /\ socket' \in Seq(S)
         /\ Behind(Inbox', d, w)
<1>1. pending' = pending /\ socket' \in {socket, <<>>}
  BY DEF ClientLeaves
<1>2. CASE socket' = socket
  <2>1. Inbox' = Inbox
    BY <1>1, <1>2 DEF Inbox
  <2> QED BY <1>1, <1>2, <2>1
<1>3. CASE socket' = <<>>
  <2>1. Inbox' = pending
    BY <1>1, <1>3 DEF Inbox
  <2>2. Len(pending) <= Len(Inbox) /\ \A i \in 1..Len(pending) : Inbox[i] = pending[i]
    BY DEF Inbox
  <2>3. Len(Inbox) \in Nat /\ Len(pending) \in Nat /\ Len(w) \in Nat
    BY DEF Inbox
  <2>4. Behind(pending, d, w)
    BY <2>2, <2>3 DEF Behind
  <2> QED BY <1>1, <1>3, <2>1, <2>4
<1> QED BY <1>1, <1>2, <1>3

-----------------------------------------------------------------------------
(* The frames of a client on the wire.                                     *)

\* How many of the parts of f are its head and its length.
HeadLen(f) == 1 + (IF f.form = Len16 THEN 1 ELSE 0)

\* Head, length and key come first, then the payload byte by byte.
LEMMA WireParts ==
  ASSUME NEW fs, NEW n \in Nat, fs[n] \in FrameType
  PROVE  /\ WireOf(fs, n) \in Seq(Pairs)
         /\ Len(WireOf(fs, n)) = HeadLen(fs[n])
              + (IF fs[n].masked THEN 1 ELSE 0) + fs[n].len
         /\ WireOf(fs, n)[1] = <<n, HEAD>>
         /\ \A i \in 1..fs[n].len :
              WireOf(fs, n)[HeadLen(fs[n]) + (IF fs[n].masked THEN 1 ELSE 0) + i]
                = <<n, KEY + i>>
<1> DEFINE f == fs[n]
           head == <<<<n, HEAD>>>>
           ext == IF f.form = Len16 THEN <<<<n, EXT>>>> ELSE <<>>
           key == IF f.masked THEN <<<<n, KEY>>>> ELSE <<>>
           payload == [i \in 1..f.len |-> <<n, KEY + i>>]
           front == (head \o ext) \o key
<1>1. f.len \in Nat
  BY DEF FrameType
<1>2. /\ ext \in Seq(Pairs)
      /\ Len(ext) = IF f.form = Len16 THEN 1 ELSE 0
  <2>1. <<n, EXT>> \in Pairs
    BY DEF Pairs, EXT
  <2> QED BY <2>1
<1>3. /\ key \in Seq(Pairs) /\ Len(key) = IF f.masked THEN 1 ELSE 0
  <2>1. <<n, KEY>> \in Pairs
    BY DEF Pairs, KEY
  <2> QED BY <2>1
<1>4. /\ payload \in Seq(Pairs) /\ Len(payload) = f.len
      /\ \A i \in 1..f.len : payload[i] = <<n, KEY + i>>
  <2>1. \A i \in 1..f.len : <<n, KEY + i>> \in Pairs
    BY DEF Pairs, KEY
  <2> QED BY <1>1, <2>1
<1>5. /\ head \in Seq(Pairs) /\ Len(head) = 1
      /\ head[1] = <<n, HEAD>>
  <2>1. <<n, HEAD>> \in Pairs
    BY DEF Pairs, HEAD
  <2> QED BY <2>1
<1> HIDE DEF head, ext, key, payload
<1>6. /\ front \in Seq(Pairs) /\ front[1] = <<n, HEAD>>
      /\ Len(front) = 1 + Len(ext) + Len(key)
  <2>1. head \in Seq(Pairs) /\ ext \in Seq(Pairs) /\ key \in Seq(Pairs)
    BY <1>2, <1>3, <1>5
  <2> DEFINE start == head \o ext
  <2>2. /\ start \in Seq(Pairs) /\ Len(start) = Len(head) + Len(ext)
        /\ start[1] = head[1]
    <3>1. 1 \in 1..Len(head) /\ Len(ext) \in Nat
      BY <1>5, <2>1
    <3> QED BY <2>1, <3>1, ConcatProperties
  <2> HIDE DEF start
  <2>3. Len(start) \in Nat \ {0}
    BY <1>5, <2>1, <2>2
  <2>4. /\ start \o key \in Seq(Pairs)
        /\ Len(start \o key) = Len(start) + Len(key)
        /\ (start \o key)[1] = start[1]
    <3>1. 1 \in 1..(Len(start) + Len(key)) /\ 1 <= Len(start)
      BY <2>1, <2>3
    <3>2. start \in Seq(Pairs) /\ key \in Seq(Pairs)
      BY <2>1, <2>2
    <3> QED BY <3>1, <3>2, ConcatProperties
  <2> QED BY <1>5, <2>2, <2>4 DEF start
<1>7. WireOf(fs, n) = front \o payload
  BY Zenon DEF WireOf, head, ext, key, payload
<1>8. Len(front) = HeadLen(f) + (IF f.masked THEN 1 ELSE 0)
  BY <1>2, <1>3, <1>6 DEF HeadLen
<1>9. Len(front) \in Nat \ {0}
  BY <1>2, <1>3, <1>6
<1> HIDE DEF front, f
<1>10. /\ WireOf(fs, n) \in Seq(Pairs)
       /\ Len(WireOf(fs, n)) = Len(front) + f.len
       /\ WireOf(fs, n)[1] = front[1]
       /\ \A i \in 1..f.len : WireOf(fs, n)[Len(front) + i] = payload[i]
  <2>1. /\ payload \in Seq(Pairs) /\ Len(payload) = f.len
        /\ front \in Seq(Pairs)
    BY <1>4, <1>6
  <2> QED BY <1>1, <1>7, <1>9, <2>1
<1> QED BY <1>4, <1>6, <1>8, <1>10 DEF f

\* The first k frames of a client, as it sends them.
SentOf(fs, k) == FlattenSeq([n \in 1..k |-> WireOf(fs, n)])

LEMMA SentIsSequence ==
  ASSUME NEW fs \in Seq(FrameType), NEW k \in 0..Len(fs)
  PROVE  SentOf(fs, k) \in Seq(Pairs)
<1> DEFINE f == [n \in 1..(k+1) |->
                   IF n <= Len(fs) THEN WireOf(fs, n) ELSE <<>>]
<1>1. \A n \in 1..Len(fs) : WireOf(fs, n) \in Seq(Pairs)
  BY WireParts
<1>2. \A n \in 1..(k+1) : f[n] \in Seq(Pairs)
  BY <1>1
<1>3. \A n \in 1..k : f[n] = WireOf(fs, n)
  OBVIOUS
<1>4. k \in Nat
  OBVIOUS
<1> HIDE DEF f
<1>5. FlattenFirst(f, k) \in Seq(Pairs)
  BY <1>2, <1>4, FlattenStep
<1>6. [n \in 1..k |-> f[n]] = [n \in 1..k |-> WireOf(fs, n)]
  BY <1>3
<1> QED BY <1>5, <1>6 DEF FlattenFirst, SentOf

\* A frame is on the wire where those before it end.
LEMMA SentFrame ==
  ASSUME NEW fs \in Seq(FrameType), NEW k \in Nat, k < Len(fs)
  PROVE  /\ Len(SentOf(fs, k)) \in Nat /\ Len(SentOf(fs, Len(fs))) \in Nat
         /\ Len(SentOf(fs, k + 1))
              = Len(SentOf(fs, k)) + Len(WireOf(fs, k + 1))
         /\ Len(SentOf(fs, k)) + Len(WireOf(fs, k + 1))
              <= Len(SentOf(fs, Len(fs)))
         /\ \A i \in 1..Len(WireOf(fs, k + 1)) :
              SentOf(fs, Len(fs))[Len(SentOf(fs, k)) + i]
                = WireOf(fs, k + 1)[i]
<1> DEFINE N == Len(fs)
           f == [n \in 1..N |-> WireOf(fs, n)]
<1>1. N \in Nat /\ k \in 0..N /\ k + 1 \in 0..N /\ N \in 0..N /\ k + 1 \in 1..N
  OBVIOUS
<1>2. \A n \in 1..N : f[n] = WireOf(fs, n) /\ f[n] \in Seq(Pairs)
  BY WireParts
<1> HIDE DEF f, N
<1>3. ASSUME NEW j \in 0..N PROVE SentOf(fs, j) = FlattenFirst(f, j)
  <2>1. [n \in 1..j |-> f[n]] = [n \in 1..j |-> WireOf(fs, n)]
    BY <1>1, <1>2
  <2> QED BY <2>1 DEF FlattenFirst, SentOf
<1>4. SentOf(fs, k) \in Seq(Pairs) /\ SentOf(fs, N) \in Seq(Pairs)
  BY <1>1, SentIsSequence DEF N
<1>5. f[k+1] = WireOf(fs, k + 1) /\ f[k+1] \in Seq(Pairs)
  BY <1>1, <1>2
<1>6. FlattenFirst(f, k + 1) = FlattenFirst(f, k) \o f[k+1]
  <2>1. \A n \in 1..(k+1) : f[n] \in Seq(Pairs)
    BY <1>1, <1>2
  <2> QED BY <2>1, FlattenStep
<1>7. /\ Len(FlattenFirst(f, k)) + Len(f[k+1]) <= Len(FlattenFirst(f, N))
      /\ \A i \in 1..Len(f[k+1]) :
           FlattenFirst(f, N)[Len(FlattenFirst(f, k)) + i] = f[k+1][i]
  <2>1. \A n \in 1..N : f[n] \in Seq(Pairs)
    BY <1>2
  <2>2. k < N
    BY DEF N
  <2> QED BY <1>1, <2>1, <2>2, FlattenAt
<1>8. /\ SentOf(fs, k) = FlattenFirst(f, k)
      /\ SentOf(fs, k + 1) = FlattenFirst(f, k + 1)
      /\ SentOf(fs, N) = FlattenFirst(f, N)
  BY <1>1, <1>3
<1>9. Len(SentOf(fs, k + 1)) = Len(SentOf(fs, k)) + Len(f[k+1])
  BY <1>4, <1>5, <1>6, <1>8
<1> QED BY <1>4, <1>5, <1>7, <1>8, <1>9 DEF N

-----------------------------------------------------------------------------
(* The inductive invariant of a session.                                   *)

\* A frame that is refused before its key is read.
Unsupported(f) == f.form = Len64 \/ ~Supported(f)

ReplyOpcodes == {"text", "pong", "close"}

ReplyType ==
  [opcode : ReplyOpcodes, length : Seq(Nat), payload : Seq(Pairs)]

\* What is read of the frame the loop is at.
ReadOf == IF wsPc \in Reading THEN Len(got) ELSE 0

\* Each frame has its reply, and none of these was a close; what is in the
\* buffer and in the socket follows what was read.
AtFrame ==
  /\ Len(replies) <= Len(frames)
  /\ Behind(Inbox, Len(SentOf(frames, Len(replies))) + ReadOf,
            SentOf(frames, Len(frames)))
  /\ \A n \in 1..Len(replies) : replies[n].opcode # "close"

\* What was read of the next frame is its beginning.
InFrame ==
  /\ Len(replies) < Len(frames)
  /\ Len(got) <= Len(Wire(Len(replies) + 1))
  /\ got = Take(Wire(Len(replies) + 1), Len(got))

\* How far that is, and what the loop knows of the frame by then.
AtPart ==
  LET f == frames[Len(replies) + 1]
  IN  /\ wsPc = "head" => got = <<>>
      /\ wsPc \in {"ext", "mask", "payload", "dispatch"} => InFrame
      /\ wsPc = "ext" => Len(got) = 1 /\ f.form = Len16
      /\ wsPc = "mask" => Len(got) = HeadLen(f) /\ ~Unsupported(f)
      /\ wsPc = "payload" => Len(got) = HeadLen(f) + 1 /\ ~Unsupported(f)
      /\ wsPc = "dispatch" =>
           Len(got) = HeadLen(f) + 1 + f.len /\ ~Unsupported(f)

SessionType ==
  /\ pending \in Seq(Pairs) /\ socket \in Seq(Pairs)
  /\ frames \in Seq(FrameType)
  /\ wsPc \in Reading \cup {"none", "poll", "close"}
  /\ got \in Seq(Pairs)
  /\ replies \in Seq(ReplyType)

SessionInv ==
  /\ wsPc = "none" => replies = <<>> /\ got = <<>>
  /\ wsPc \in Reading \cup {"poll"} => AtFrame
  /\ AtPart
  /\ OneAnswerEach

\* With that the loop is in step.
LEMMA SessionInStep == ASSUME SessionInv PROVE FramesInStep
<1> SUFFICES ASSUME wsPc \in Reading, got # <<>>
             PROVE  got = Take(Wire(Len(replies) + 1), Len(got))
  BY DEF FramesInStep
<1>1. wsPc \in {"ext", "mask", "payload", "dispatch"}
  BY DEF Reading, SessionInv, AtPart
<1> QED BY <1>1 DEF SessionInv, AtPart, InFrame

\* n more bytes of the next frame, when there are that many, are the next n.
LEMMA ReadMore ==
  ASSUME SessionType, AtFrame, wsPc \in Reading, NEW n \in Nat, Read(n),
         got = <<>> \/ InFrame, got # <<>> \/ n = 1,
         Len(replies) < Len(frames)
           => Len(got) + n <= Len(Wire(Len(replies) + 1))
  PROVE  /\ Len(replies) < Len(frames) /\ Len(got') = Len(got) + n
         /\ got' \in Seq(Pairs)
         /\ got' = Take(Wire(Len(replies) + 1), Len(got) + n)
         /\ Behind(Inbox', Len(SentOf(frames, Len(replies))) + Len(got'),
                   SentOf(frames, Len(frames)))
         /\ pending' \in Seq(Pairs) /\ socket' \in Seq(Pairs)
<1> DEFINE k == Len(replies)
           w == SentOf(frames, Len(frames))
           at == Len(SentOf(frames, k))
           wire == Wire(k + 1)
<1>1. /\ pending' \in Seq(Pairs) /\ socket' \in Seq(Pairs)
      /\ n <= Len(Inbox) /\ ExactData(n) = Take(Inbox, n)
      /\ Inbox' = Drop(Inbox, n)
  BY ExactRead DEF SessionType, Read
<1>2. Inbox \in Seq(Pairs) /\ frames \in Seq(FrameType) /\ k \in Nat
      /\ got \in Seq(Pairs) /\ Len(frames) \in Nat
  BY DEF SessionType, Inbox
<1>3. w \in Seq(Pairs)
  BY <1>2, SentIsSequence
<1>4. Behind(Inbox, at + Len(got), w) /\ k <= Len(frames)
  BY DEF AtFrame, ReadOf
<1>5. at \in Nat
  <2>1. k \in 0..Len(frames)
    BY <1>2, <1>4
  <2>2. SentOf(frames, k) \in Seq(Pairs)
    BY <1>2, <2>1, SentIsSequence
  <2> QED BY <2>2
<1> HIDE DEF w, at
<1>6. k < Len(frames)
  <2>1. CASE got = <<>>
    <3>1. SUFFICES ASSUME k = Len(frames) PROVE FALSE
      BY <1>2, <1>4
    <3>2. at = Len(w)
      BY <3>1 DEF at, w
    <3> QED BY <2>1, <3>2, <1>1, <1>2, <1>3, <1>4 DEF Behind
  <2>2. CASE InFrame
    BY <2>2 DEF InFrame
  <2> QED BY <2>1, <2>2
<1>7. /\ wire \in Seq(Pairs) /\ at + Len(wire) <= Len(w)
      /\ \A i \in 1..Len(wire) : w[at + i] = wire[i]
  <2>1. k + 1 \in Nat /\ frames[k + 1] \in FrameType
    BY <1>2, <1>6
  <2>2. wire \in Seq(Pairs)
    BY <2>1, WireParts DEF Wire
  <2> QED BY <1>2, <1>6, <2>2, SentFrame DEF Wire, at, w
<1>8. Len(got) + n <= Len(wire)
  BY <1>6
<1> HIDE DEF wire, k
<1>9. /\ Take(Inbox, n) \in Seq(Pairs) /\ Len(Take(Inbox, n)) = n
      /\ \A i \in 1..n : Take(Inbox, n)[i] = Inbox[i]
  BY <1>1, <1>2, TakeDrop
<1>10. got' = got \o Take(Inbox, n)
  BY <1>1 DEF Read
<1>11. got' \in Seq(Pairs) /\ Len(got') = Len(got) + n
  <2>1. got \in Seq(Pairs) /\ Take(Inbox, n) \in Seq(Pairs)
    BY <1>2, <1>9
  <2> DEFINE more == Take(Inbox, n)
  <2>2. Len(more) = n
    BY <1>9
  <2> HIDE DEF more
  <2>3. got \o more \in Seq(Pairs) /\ Len(got \o more) = Len(got) + Len(more)
    BY <2>1, ConcatProperties DEF more
  <2>4. got' = got \o more
    BY <1>10 DEF more
  <2> QED BY <2>2, <2>3, <2>4
<1>12. \A i \in 1..Len(got) : got[i] = wire[i]
  <2>1. CASE got = <<>>
    BY <2>1
  <2>2. CASE InFrame
    <3>1. Len(got) \in 0..Len(wire) /\ got = Take(wire, Len(got))
      BY <2>2, <1>2, <1>7 DEF InFrame, wire, k
    <3> QED BY <3>1, <1>7, TakeDrop
  <2> QED BY <2>1, <2>2
<1>13. ASSUME NEW i \in 1..(Len(got) + n) PROVE got'[i] = wire[i]
  <2>1. CASE i <= Len(got)
    BY <2>1, <1>2, <1>9, <1>10, <1>12, ConcatProperties
  <2>2. CASE i > Len(got)
    <3> DEFINE j == i - Len(got)
    <3>1. j \in 1..n /\ j \in 1..Len(Inbox)
      BY <2>2, <1>1, <1>2
    <3>2. got'[i] = Take(Inbox, n)[j]
      BY <2>2, <1>2, <1>9, <1>10, ConcatProperties
    <3>3. Take(Inbox, n)[j] = w[at + Len(got) + j]
      BY <3>1, <1>4, <1>9 DEF Behind
    <3>4. at + Len(got) + j = at + i /\ i \in 1..Len(wire)
      BY <1>2, <1>5, <1>7, <1>8
    <3> QED BY <3>2, <3>3, <3>4, <1>7
  <2> QED BY <2>1, <2>2, <1>2
<1>14. got' = Take(wire, Len(got) + n)
  <2> DEFINE m == Len(got) + n
  <2>1. m \in 0..Len(wire)
    BY <1>2, <1>7, <1>8
  <2>2. /\ Take(wire, m) \in Seq(Pairs) /\ Len(Take(wire, m)) = m
        /\ \A i \in 1..m : Take(wire, m)[i] = wire[i]
    BY <1>7, <2>1, TakeDrop
  <2> QED BY <1>11, <1>13, <2>2, SameSequence
<1>15. Behind(Inbox', at + Len(got'), w)
  <2>1. at + Len(got) \in Nat /\ n \in 0..Len(Inbox)
        /\ (at + Len(got)) + n = at + Len(got')
    BY <1>1, <1>2, <1>5, <1>11
  <2> QED BY <1>1, <1>2, <1>3, <1>4, <2>1, BehindRest
<1> QED BY <1>1, <1>6, <1>11, <1>14, <1>15 DEF w, at, wire, k

-----------------------------------------------------------------------------
(* What a step does to it.                                                 *)

\* The lengths of a reply can be told.
LEMMA LengthDecoded ==
  ASSUME NEW len \in Nat
  PROVE  LengthFields(len) \in Seq(Nat) /\ DecodedLength(LengthFields(len)) = len
<1>1. SMALL_MAX \in Nat /\ Len16 = SMALL_MAX + 1
  BY WsFrameAssumption DEF Len16
<1>2. CASE len <= SMALL_MAX
  <2>1. LengthFields(len) = <<len>> /\ len # Len16
    BY <1>1, <1>2 DEF LengthFields
  <2> QED BY <2>1 DEF DecodedLength
<1>3. CASE ~(len <= SMALL_MAX)
  <2>1. LengthFields(len) = <<Len16, len>> /\ Len16 \in Nat
    BY <1>1, <1>3 DEF LengthFields
  <2> QED BY <2>1 DEF DecodedLength
<1> QED BY <1>2, <1>3

\* The answer to the next frame is put behind the others.
LEMMA Answered ==
  ASSUME SessionType, OneAnswerEach, UNCHANGED frames,
         \A n \in 1..Len(replies) : replies[n].opcode # "close",
         NEW opcode \in ReplyOpcodes, NEW payload \in Seq(Pairs),
         Send(opcode, payload),
         Answers(frames[Len(replies) + 1], Len(replies) + 1,
                 FrameOut(opcode, payload))
  PROVE  /\ replies' \in Seq(ReplyType) /\ Len(replies') = Len(replies) + 1
         /\ OneAnswerEach'
         /\ opcode # "close" =>
              \A n \in 1..Len(replies') : replies'[n].opcode # "close"
<1> DEFINE k == Len(replies)
           out == FrameOut(opcode, payload)
<1>1. replies \in Seq(ReplyType) /\ k \in Nat
  BY DEF SessionType
<1>2. /\ out.opcode = opcode /\ out.payload = payload
      /\ out.length = LengthFields(Len(payload))
  BY DEF FrameOut
<1>3. out \in ReplyType /\ DecodedLength(out.length) = Len(out.payload)
  <2>1. LengthFields(Len(payload)) \in Seq(Nat)
        /\ DecodedLength(LengthFields(Len(payload))) = Len(payload)
    BY LengthDecoded
  <2> QED BY <1>2, <2>1 DEF FrameOut, ReplyType
<1>4. replies' = Append(replies, out)
  BY DEF Send
<1>5. Answers(frames[k+1], k+1, out)
  OBVIOUS
<1> HIDE DEF out, k
<1>6. /\ replies' \in Seq(ReplyType) /\ Len(replies') = k + 1
      /\ replies'[k+1] = out /\ \A n \in 1..k : replies'[n] = replies[n]
  BY <1>1, <1>3, <1>4 DEF k
<1>7. ASSUME NEW n \in 1..(k + 1)
      PROVE  /\ Answers(frames'[n], n, replies'[n])
             /\ DecodedLength(replies'[n].length) = Len(replies'[n].payload)
             /\ replies'[n].opcode = "close" => n = k + 1
  <2>1. CASE n = k + 1
    BY <2>1, <1>3, <1>5, <1>6
  <2>2. CASE n # k + 1
    <3>1. n \in 1..k
      BY <2>2, <1>1
    <3>2. replies'[n] = replies[n] /\ replies[n].opcode # "close"
      BY <3>1, <1>6 DEF k
    <3>3. /\ Answers(frames[n], n, replies[n])
          /\ DecodedLength(replies[n].length) = Len(replies[n].payload)
      BY <3>1 DEF OneAnswerEach, k
    <3> QED BY <3>2, <3>3
  <2> QED BY <2>1, <2>2
<1>8. OneAnswerEach'
  BY <1>6, <1>7 DEF OneAnswerEach
<1>9. opcode # "close" =>
        \A n \in 1..(k + 1) : replies'[n].opcode # "close"
  <2> SUFFICES ASSUME opcode # "close", NEW n \in 1..(k + 1)
               PROVE  replies'[n].opcode # "close"
    OBVIOUS
  <2>1. CASE n = k + 1
    BY <2>1, <1>2, <1>6
  <2>2. CASE n # k + 1
    <3>1. n \in 1..k
      BY <2>2, <1>1
    <3> QED BY <3>1, <1>6 DEF k
  <2> QED BY <2>1, <2>2
<1> QED BY <1>6, <1>8, <1>9 DEF k

\* The bytes of a frame name it.
LEMMA FrameNamed ==
  ASSUME SessionType, Len(replies) < Len(frames), NEW g,
         NEW m \in 1..Len(Wire(Len(replies) + 1)),
         g = Take(Wire(Len(replies) + 1), m)
  PROVE  Head(g)[1] = Len(replies) + 1
<1> DEFINE k == Len(replies)
           wire == Wire(k + 1)
<1>1. k \in Nat /\ k + 1 \in Nat /\ frames[k + 1] \in FrameType
  BY DEF SessionType
<1>2. wire \in Seq(Pairs) /\ wire[1] = <<k + 1, HEAD>>
  BY <1>1, WireParts DEF Wire
<1> HIDE DEF wire, k
<1>3. m \in 0..Len(wire) /\ 1 \in 1..m
  BY <1>2 DEF wire, k
<1>4. g \in Seq(Pairs) /\ Len(g) = m /\ g[1] = wire[1]
  BY <1>2, <1>3, TakeDrop DEF wire, k
<1>5. Head(g) = g[1]
  BY <1>3, <1>4
<1> QED BY <1>2, <1>4, <1>5 DEF k

\* The frame the loop is at is the next one.
LEMMA CurrentIsNext ==
  ASSUME SessionType, InFrame, got # <<>>
  PROVE  /\ Current = frames[Len(replies) + 1] /\ Current \in FrameType
         /\ Head(got)[1] = Len(replies) + 1
<1>1. Len(got) \in 1..Len(Wire(Len(replies) + 1))
  <2>1. Len(got) \in Nat /\ Len(got) # 0
    BY DEF SessionType
  <2>2. Len(replies) \in Nat /\ frames[Len(replies) + 1] \in FrameType
    BY DEF SessionType, InFrame
  <2>3. Wire(Len(replies) + 1) \in Seq(Pairs)
    BY <2>2, WireParts DEF Wire
  <2>4. Len(Wire(Len(replies) + 1)) \in Nat
    BY <2>3
  <2> QED BY <2>1, <2>4 DEF InFrame
<1>2. Head(got)[1] = Len(replies) + 1
  BY <1>1, FrameNamed DEF InFrame
<1> QED BY <1>2 DEF Current, SessionType, InFrame

\* Such a frame is answered with an empty close.
LEMMA UnsupportedAnswer ==
  ASSUME NEW f \in FrameType, NEW n,
         Unsupported(f) \/ f.opcode \notin TextOpcodes \cup {"ping", "close"}
  PROVE  Answers(f, n, FrameOut("close", <<>>))
<1> DEFINE out == FrameOut("close", <<>>)
           legal == f.masked /\ f.form # Len64 /\ f.len <= WS_MAX_PAYLOAD
<1>1. out.opcode = "close" /\ out.payload = <<>>
  BY DEF FrameOut
<1>2. /\ ~(legal /\ f.opcode \in TextOpcodes)
      /\ ~(legal /\ f.opcode = "ping")
      /\ ~(legal /\ f.opcode = "close")
  BY DEF Unsupported, Supported
<1> HIDE DEF out
<1> QED BY <1>1, <1>2 DEF Answers, out

\* The loop ends with a refusal.
LEMMA Refused ==
  ASSUME SessionType, SessionInv, wsPc \in Reading, Refuse, UNCHANGED frames,
         pending' \in Seq(Pairs), socket' \in Seq(Pairs), got' \in Seq(Pairs),
         frames[Len(replies) + 1] \in FrameType,
         \/ Unsupported(frames[Len(replies) + 1])
         \/ frames[Len(replies) + 1].opcode
              \notin TextOpcodes \cup {"ping", "close"}
  PROVE  SessionType' /\ SessionInv'
<1>1. Send("close", <<>>) /\ wsPc' = "close"
  BY DEF Refuse
<1>2. AtFrame /\ OneAnswerEach
  BY DEF SessionInv
<1>3. <<>> \in Seq(Pairs)
  OBVIOUS
<1>4. Answers(frames[Len(replies) + 1], Len(replies) + 1,
              FrameOut("close", <<>>))
  BY UnsupportedAnswer
<1>5. replies' \in Seq(ReplyType) /\ OneAnswerEach'
  <2>1. \A n \in 1..Len(replies) : replies[n].opcode # "close"
    BY <1>2 DEF AtFrame
  <2>2. "close" \in ReplyOpcodes
    BY DEF ReplyOpcodes
  <2> QED BY <1>1, <1>2, <1>3, <1>4, <2>1, <2>2, Answered
<1>6. SessionType'
  BY <1>1, <1>5 DEF SessionType
<1>7. AtPart'
  BY <1>1 DEF AtPart
<1> QED BY <1>1, <1>5, <1>6, <1>7 DEF SessionInv, Reading

\* After more of a frame is read the loop is at the same frame.
LEMMA ReadOn ==
  ASSUME SessionType, SessionInv, wsPc \in Reading, wsPc' \in Reading,
         NEW n \in Nat, Read(n), UNCHANGED <<frames, replies>>,
         got = <<>> \/ InFrame, got # <<>> \/ n = 1,
         Len(replies) < Len(frames)
           => Len(got) + n <= Len(Wire(Len(replies) + 1))
  PROVE  SessionType' /\ AtFrame' /\ InFrame' /\ OneAnswerEach'
         /\ Len(got') = Len(got) + n
<1>1. AtFrame /\ OneAnswerEach
  BY DEF SessionInv
<1>2. /\ Len(replies) < Len(frames) /\ Len(got') = Len(got) + n
      /\ got' \in Seq(Pairs)
      /\ got' = Take(Wire(Len(replies) + 1), Len(got) + n)
      /\ Behind(Inbox', Len(SentOf(frames, Len(replies))) + Len(got'),
                SentOf(frames, Len(frames)))
      /\ pending' \in Seq(Pairs) /\ socket' \in Seq(Pairs)
  BY <1>1, ReadMore
<1>3. frames' = frames /\ replies' = replies
  OBVIOUS
<1>4. Wire(Len(replies) + 1)' = Wire(Len(replies) + 1)
  BY <1>3 DEF Wire
<1>5. SessionType'
  BY <1>2, <1>3 DEF SessionType
<1>6. AtFrame'
  BY <1>1, <1>2, <1>3 DEF AtFrame, ReadOf
<1>7. InFrame'
  BY <1>2, <1>3, <1>4 DEF InFrame
<1>8. OneAnswerEach'
  BY <1>1, <1>3 DEF OneAnswerEach
<1> QED BY <1>2, <1>5, <1>6, <1>7, <1>8

\* How long the next frame is on the wire.
LEMMA NextLength ==
  ASSUME SessionType, Len(replies) < Len(frames)
  PROVE  LET f == frames[Len(replies) + 1]
         IN  /\ f \in FrameType /\ f.len \in Nat /\ HeadLen(f) \in {1, 2}
             /\ Len(Wire(Len(replies) + 1))
                  = HeadLen(f) + (IF f.masked THEN 1 ELSE 0) + f.len
             /\ f.form = Len16 => HeadLen(f) = 2 /\ f.form # Len64
             /\ f.form # Len16 => HeadLen(f) = 1
<1> DEFINE f == frames[Len(replies) + 1]
<1>1. Len(replies) + 1 \in Nat /\ f \in FrameType
  BY DEF SessionType
<1>2. f.len \in Nat
  BY <1>1 DEF FrameType
<1>3. Len16 # Len64
  BY WsFrameAssumption DEF Len16, Len64
<1> QED BY <1>1, <1>2, <1>3, WireParts DEF Wire, HeadLen

\* A byte of the next frame's head or length is read, and the frame is
\* refused or its key awaited.
LEMMA FrameChecked ==
  ASSUME SessionType, SessionInv, wsPc \in {"head", "ext"}, Read(1),
         UNCHANGED frames,
         NEW f, CheckFrame(f),
         Len(replies) < Len(frames) => f = frames[Len(replies) + 1],
         Len(replies) < Len(frames) =>
           f.form # Len64 /\ Len(got) + 1 = HeadLen(f),
         got = <<>> \/ InFrame
  PROVE  SessionType' /\ SessionInv'
<1>1. wsPc \in Reading /\ 1 \in Nat
  BY DEF Reading
<1>2. AtFrame
  BY <1>1 DEF SessionInv
<1>3. Len(replies) < Len(frames) =>
        Len(got) + 1 <= Len(Wire(Len(replies) + 1))
  <2> HAVE Len(replies) < Len(frames)
  <2>1. /\ f.len \in Nat /\ HeadLen(f) \in {1, 2}
        /\ Len(Wire(Len(replies) + 1))
             = HeadLen(f) + (IF f.masked THEN 1 ELSE 0) + f.len
    BY NextLength
  <2> QED BY <2>1
<1>4. /\ Len(replies) < Len(frames) /\ Len(got') = Len(got) + 1
      /\ got' \in Seq(Pairs) /\ pending' \in Seq(Pairs) /\ socket' \in Seq(Pairs)
  BY <1>1, <1>2, <1>3, ReadMore
<1>5. f = frames[Len(replies) + 1] /\ f \in FrameType
  BY <1>4, NextLength
<1>6. CASE Supported(f)
  <2>1. wsPc' = "mask" /\ replies' = replies /\ frames' = frames
    BY <1>6 DEF CheckFrame
  <2>2. wsPc' \in Reading
    BY <2>1 DEF Reading
  <2>3. SessionType' /\ AtFrame' /\ InFrame' /\ OneAnswerEach'
    BY <1>1, <1>3, <2>1, <2>2, ReadOn
  <2>4. ~Unsupported(f) /\ Len(got') = HeadLen(f)
    BY <1>4, <1>5, <1>6 DEF Unsupported
  <2>5. AtPart'
    BY <1>5, <2>1, <2>3, <2>4 DEF AtPart
  <2> QED BY <2>1, <2>3, <2>5 DEF SessionInv
<1>7. CASE ~Supported(f)
  <2>1. Refuse
    BY <1>7 DEF CheckFrame
  <2>2. Unsupported(f)
    BY <1>7 DEF Unsupported
  <2> QED BY <1>1, <1>4, <1>5, <2>1, <2>2, Refused
<1> QED BY <1>6, <1>7

LEMMA HeadStep ==
  ASSUME SessionType, SessionInv, ReadHead
  PROVE  SessionType' /\ SessionInv'
<1> DEFINE f == frames[Head(got')[1]]
<1>1. wsPc = "head" /\ Read(1) /\ UNCHANGED frames /\ wsPc \in Reading
  BY DEF ReadHead, Reading
<1>2. got = <<>> /\ Len(got) = 0 /\ AtFrame
  BY <1>1 DEF SessionInv, AtPart
<1>3. Len(replies) < Len(frames) =>
        Len(got) + 1 <= Len(Wire(Len(replies) + 1))
  <2> HAVE Len(replies) < Len(frames)
  <2> QED BY <1>2, NextLength
<1>4. /\ Len(replies) < Len(frames) /\ got' \in Seq(Pairs) /\ Len(got') = 1
      /\ got' = Take(Wire(Len(replies) + 1), 1)
      /\ pending' \in Seq(Pairs) /\ socket' \in Seq(Pairs)
  <2>1. /\ Len(replies) < Len(frames) /\ Len(got') = Len(got) + 1
        /\ got' \in Seq(Pairs)
        /\ got' = Take(Wire(Len(replies) + 1), Len(got) + 1)
        /\ pending' \in Seq(Pairs) /\ socket' \in Seq(Pairs)
    BY <1>1, <1>2, <1>3, ReadMore
  <2>2. Len(got) + 1 = 1
    BY <1>2
  <2> QED BY <2>1, <2>2
<1>5. f = frames[Len(replies) + 1] /\ f \in FrameType
  <2>1. 1 \in 1..Len(Wire(Len(replies) + 1))
    BY <1>2, <1>3, <1>4, NextLength
  <2> QED BY <1>1, <1>4, <2>1, FrameNamed, NextLength
<1>6. /\ f.form = Len16 => HeadLen(f) = 2 /\ f.form # Len64
      /\ f.form # Len16 => HeadLen(f) = 1
  BY <1>4, <1>5, NextLength
<1>7. CASE f.form = Len16
  <2>1. wsPc' = "ext" /\ replies' = replies /\ frames' = frames
    BY <1>1, <1>6, <1>7 DEF ReadHead
  <2>2. wsPc' \in Reading
    BY <2>1 DEF Reading
  <2>3. SessionType' /\ AtFrame' /\ InFrame' /\ OneAnswerEach'
    BY <1>1, <1>2, <1>3, <2>1, <2>2, ReadOn
  <2>4. AtPart'
    BY <1>4, <1>5, <1>7, <2>1, <2>3 DEF AtPart
  <2> QED BY <2>1, <2>3, <2>4 DEF SessionInv
<1>8. CASE f.form = Len64
  <2>1. Refuse
    BY <1>1, <1>6, <1>8 DEF ReadHead
  <2>2. Unsupported(f)
    BY <1>8 DEF Unsupported
  <2> QED BY <1>1, <1>4, <1>5, <2>1, <2>2, Refused
<1>9. CASE f.form # Len16 /\ f.form # Len64
  <2>1. CheckFrame(f)
    BY <1>1, <1>9 DEF ReadHead
  <2>2. Len(got) + 1 = HeadLen(f) /\ f.form # Len64
    BY <1>2, <1>6, <1>9
  <2> HIDE DEF f
  <2> QED BY <1>1, <1>2, <1>5, <2>1, <2>2, FrameChecked
<1> QED BY <1>7, <1>8, <1>9

LEMMA ExtStep ==
  ASSUME SessionType, SessionInv, ReadExt
  PROVE  SessionType' /\ SessionInv'
<1>1. wsPc = "ext" /\ Read(1) /\ UNCHANGED frames /\ CheckFrame(Current)
  BY DEF ReadExt
<1>2. InFrame /\ Len(got) = 1 /\ frames[Len(replies) + 1].form = Len16
  BY <1>1 DEF SessionInv, AtPart
<1>3. got # <<>>
  BY <1>2
<1>4. Current = frames[Len(replies) + 1]
  BY <1>2, <1>3, CurrentIsNext
<1>5. Current.form # Len64 /\ Len(got) + 1 = HeadLen(Current)
  BY <1>2, <1>4, NextLength DEF InFrame
<1> QED BY <1>1, <1>2, <1>4, <1>5, FrameChecked

LEMMA MaskStep ==
  ASSUME SessionType, SessionInv, ReadMask
  PROVE  SessionType' /\ SessionInv'
<1> DEFINE f == frames[Len(replies) + 1]
<1>1. wsPc = "mask" /\ wsPc' = "payload" /\ Read(1)
      /\ frames' = frames /\ replies' = replies
  BY DEF ReadMask, Step
<1>2. wsPc \in Reading /\ wsPc' \in Reading
  BY <1>1 DEF Reading
<1>3. InFrame /\ Len(got) = HeadLen(f) /\ ~Unsupported(f)
  BY <1>1 DEF SessionInv, AtPart
<1>4. /\ f.len \in Nat /\ HeadLen(f) \in {1, 2} /\ f.masked
      /\ Len(Wire(Len(replies) + 1)) = HeadLen(f) + 1 + f.len
  BY <1>3, NextLength DEF InFrame, Unsupported, Supported
<1>5. got # <<>> /\ Len(got) + 1 <= Len(Wire(Len(replies) + 1))
  BY <1>3, <1>4
<1>6. /\ SessionType' /\ AtFrame' /\ InFrame' /\ OneAnswerEach'
      /\ Len(got') = Len(got) + 1
  BY <1>1, <1>2, <1>3, <1>5, ReadOn
<1>7. AtPart'
  BY <1>1, <1>3, <1>6 DEF AtPart
<1> QED BY <1>1, <1>6, <1>7 DEF SessionInv

LEMMA PayloadStep ==
  ASSUME SessionType, SessionInv, ReadPayload
  PROVE  SessionType' /\ SessionInv'
<1> DEFINE f == frames[Len(replies) + 1]
<1>1. wsPc = "payload" /\ wsPc' = "dispatch" /\ Read(Current.len)
      /\ frames' = frames /\ replies' = replies
  BY DEF ReadPayload, Step
<1>2. wsPc \in Reading /\ wsPc' \in Reading
  BY <1>1 DEF Reading
<1>3. InFrame /\ Len(got) = HeadLen(f) + 1 /\ ~Unsupported(f)
  BY <1>1 DEF SessionInv, AtPart
<1>4. /\ f.len \in Nat /\ HeadLen(f) \in {1, 2} /\ f.masked
      /\ Len(Wire(Len(replies) + 1)) = HeadLen(f) + 1 + f.len
  BY <1>3, NextLength DEF InFrame, Unsupported, Supported
<1>5. got # <<>> /\ Len(got) + f.len <= Len(Wire(Len(replies) + 1))
  BY <1>3, <1>4
<1>6. Current = f
  BY <1>3, <1>5, CurrentIsNext
<1>7. /\ SessionType' /\ AtFrame' /\ InFrame' /\ OneAnswerEach'
      /\ Len(got') = Len(got) + f.len
  BY <1>1, <1>2, <1>3, <1>4, <1>5, <1>6, ReadOn
<1>8. AtPart'
  BY <1>1, <1>3, <1>7 DEF AtPart
<1> QED BY <1>1, <1>7, <1>8 DEF SessionInv

\* The payload of a frame read in whole, with the right byte of the key.
LEMMA PayloadUnmasked ==
  ASSUME SessionType, SessionInv, wsPc = "dispatch"
  PROVE  /\ Current = frames[Len(replies) + 1] /\ Current \in FrameType
         /\ Head(got)[1] = Len(replies) + 1
         /\ ~Unsupported(Current)
         /\ Unmasked \in Seq(Pairs)
         /\ Unmasked = [i \in 1..Current.len |-> <<Len(replies) + 1, KEY + i>>]
<1> DEFINE k == Len(replies)
           f == frames[k + 1]
           wire == Wire(k + 1)
           h == HeadLen(f) + 1
<1>1. InFrame /\ Len(got) = h + f.len /\ ~Unsupported(f)
  BY DEF SessionInv, AtPart
<1>2. /\ f \in FrameType /\ f.len \in Nat /\ h \in Nat \ {0} /\ f.masked
      /\ Len(wire) = h + f.len
  BY <1>1, NextLength DEF InFrame, Unsupported, Supported
<1>3. got # <<>>
  BY <1>1, <1>2
<1>4. Current = f /\ Head(got)[1] = k + 1
  BY <1>1, <1>3, CurrentIsNext
<1>5. /\ wire \in Seq(Pairs)
      /\ \A i \in 1..f.len : wire[h + i] = <<k + 1, KEY + i>>
  <2>1. k + 1 \in Nat /\ f \in FrameType
    BY <1>2 DEF SessionType
  <2> QED BY <1>2, <2>1, WireParts DEF Wire
<1>6. k \in Nat /\ got \in Seq(Pairs)
  BY DEF SessionType
<1> HIDE DEF k, f, wire, h
<1>7. \A i \in 1..Len(got) : got[i] = wire[i]
  <2>1. got = Take(wire, Len(got)) /\ Len(got) \in 0..Len(wire)
    BY <1>1, <1>2, <1>6 DEF InFrame, wire, k
  <2> QED BY <1>5, <2>1, TakeDrop
<1> DEFINE rest == Drop(got, Len(got) - Current.len)
           plain == [i \in 1..f.len |-> <<k + 1, KEY + i>>]
<1>8. Len(got) - Current.len = h /\ h \in 0..Len(got)
  BY <1>1, <1>2, <1>4 DEF h, f, k
<1>9. /\ Len(rest) = f.len /\ rest \in Seq(Pairs)
      /\ \A i \in 1..f.len : rest[i] = got[h + i]
  <2>1. rest = Drop(got, h)
    BY <1>8
  <2>2. Len(got) - h = f.len
    BY <1>1, <1>2 DEF h, f, k
  <2> HIDE DEF rest
  <2> QED BY <1>6, <1>8, <2>1, <2>2, TakeDrop
<1> HIDE DEF rest
<1>10. \A i \in 1..f.len : rest[i] = <<k + 1, KEY + i>>
  <2> TAKE i \in 1..f.len
  <2>1. h + i \in 1..Len(got)
    BY <1>1, <1>2 DEF h, f, k
  <2> QED BY <1>5, <1>7, <1>9, <2>1
<1>11. Unmasked = [i \in 1..Len(rest) |->
                     IF KeyByte(i - 1) = (i - 1) % MASK_LEN
                       THEN rest[i] ELSE <<0, i>>]
  BY Zenon DEF Unmasked, rest
<1>12. Unmasked = [i \in 1..f.len |-> rest[i]]
  BY <1>9, <1>11 DEF KeyByte
<1>13. Unmasked = plain
  BY <1>10, <1>12
<1>14. plain \in Seq(Pairs)
  <2>1. \A i \in 1..f.len : <<k + 1, KEY + i>> \in Pairs
    BY <1>6 DEF Pairs, KEY
  <2>2. f.len \in Nat
    BY <1>2 DEF f, k
  <2> QED BY <2>1, <2>2, IsASeq
<1> HIDE DEF plain
<1>15. f \in FrameType /\ ~Unsupported(f)
  BY <1>1, <1>2 DEF f, k
<1> QED BY <1>4, <1>13, <1>14, <1>15 DEF plain, f, k

\* A frame that is answered, with the connection left open.
LEMMA AnswerGoesOn ==
  ASSUME SessionType, SessionInv, wsPc = "dispatch", wsPc' \in {"poll", "close"},
         UNCHANGED <<connection, frames, got>>,
         NEW opcode \in ReplyOpcodes, NEW payload \in Seq(Pairs),
         Send(opcode, payload),
         Answers(frames[Len(replies) + 1], Len(replies) + 1,
                 FrameOut(opcode, payload)),
         wsPc' = "poll" => opcode # "close"
  PROVE  SessionType' /\ SessionInv'
<1> DEFINE k == Len(replies)
<1>1. AtFrame /\ OneAnswerEach /\ InFrame
  BY DEF SessionInv, AtPart, Reading
<1>2. /\ Len(got) = HeadLen(frames[k + 1]) + 1 + frames[k + 1].len
      /\ ~Unsupported(frames[k + 1])
  BY DEF SessionInv, AtPart
<1>3. frames' = frames /\ got' = got /\ pending' = pending /\ socket' = socket
  BY DEF connection
<1>4. \A n \in 1..k : replies[n].opcode # "close"
  BY <1>1 DEF AtFrame
<1>5. /\ replies' \in Seq(ReplyType) /\ Len(replies') = k + 1 /\ OneAnswerEach'
      /\ opcode # "close" =>
           \A n \in 1..Len(replies') : replies'[n].opcode # "close"
  BY <1>1, <1>3, <1>4, Answered
<1>6. SessionType'
  BY <1>3, <1>5 DEF SessionType
<1>7. AtPart'
  <2>1. wsPc' \notin {"head", "ext", "mask", "payload", "dispatch"}
    OBVIOUS
  <2> QED BY <2>1 DEF AtPart
<1>8. wsPc' = "poll" => AtFrame'
  <2> SUFFICES ASSUME wsPc' = "poll" PROVE AtFrame'
    OBVIOUS
  <2> DEFINE w == SentOf(frames, Len(frames))
  <2>1. k < Len(frames) /\ k \in Nat /\ Len(frames) \in Nat
    BY <1>1 DEF InFrame, SessionType
  <2>2. Len(got) = Len(Wire(k + 1))
    BY <1>2, <2>1, NextLength DEF Unsupported, Supported
  <2>3. Len(SentOf(frames, k + 1)) = Len(SentOf(frames, k)) + Len(got)
    BY <2>1, <2>2, SentFrame DEF SessionType, Wire
  <2>4. Behind(Inbox, Len(SentOf(frames, k)) + Len(got), w)
    BY <1>1 DEF AtFrame, ReadOf, Reading
  <2>5. Behind(Inbox, Len(SentOf(frames, k + 1)) + 0, w)
    <3>1. Len(SentOf(frames, k + 1)) \in Nat
      <4>1. k + 1 \in 0..Len(frames)
        BY <2>1
      <4>2. SentOf(frames, k + 1) \in Seq(Pairs)
        BY <4>1, SentIsSequence DEF SessionType
      <4> QED BY <4>2
    <3>2. Len(SentOf(frames, k + 1)) + 0 = Len(SentOf(frames, k + 1))
      BY <3>1
    <3> QED BY <2>3, <2>4, <3>2
  <2>6. ReadOf' = 0 /\ Inbox' = Inbox
    BY <1>3 DEF ReadOf, Reading, Inbox
  <2>7. Behind(Inbox', Len(SentOf(frames', Len(replies'))) + ReadOf',
               SentOf(frames', Len(frames')))
    BY <1>3, <1>5, <2>5, <2>6
  <2>8. Len(replies') <= Len(frames')
    BY <1>3, <1>5, <2>1
  <2>9. \A n \in 1..Len(replies') : replies'[n].opcode # "close"
    BY <1>5
  <2> QED BY <2>7, <2>8, <2>9 DEF AtFrame
<1>9. wsPc' # "none" /\ wsPc' \notin Reading
  BY DEF Reading
<1> QED BY <1>5, <1>6, <1>7, <1>8, <1>9 DEF SessionInv

LEMMA DispatchStep ==
  ASSUME SessionType, SessionInv,
         HandleClose \/ HandlePing \/ HandleOther \/ HandleText
  PROVE  SessionType' /\ SessionInv'
<1> DEFINE k == Len(replies)
           f == frames[k + 1]
           plain == [i \in 1..f.len |-> <<k + 1, KEY + i>>]
<1>1. wsPc = "dispatch" /\ UNCHANGED <<connection, frames, got>>
  BY DEF HandleClose, HandlePing, HandleOther, HandleText, Dispatching
<1>2. /\ Current = f /\ f \in FrameType /\ Head(got)[1] = k + 1
      /\ ~Unsupported(f) /\ Unmasked \in Seq(Pairs) /\ Unmasked = plain
  BY <1>1, PayloadUnmasked
<1>3. f.masked /\ f.form # Len64 /\ f.len <= WS_MAX_PAYLOAD
  BY <1>2 DEF Unsupported, Supported
<1> HIDE DEF plain
<1>4. CASE HandleClose
  <2>1. Send("close", Unmasked) /\ wsPc' = "close" /\ f.opcode = "close"
    BY <1>2, <1>4 DEF HandleClose, Dispatching
  <2>2. Answers(f, k + 1, FrameOut("close", Unmasked))
    BY <1>2, <1>3, <2>1 DEF Answers, FrameOut, TextOpcodes, plain
  <2>3. "close" \in ReplyOpcodes
    BY DEF ReplyOpcodes
  <2> QED BY <1>1, <1>2, <2>1, <2>2, <2>3, AnswerGoesOn
<1>5. CASE HandlePing
  <2>1. Send("pong", Unmasked) /\ wsPc' = "poll" /\ f.opcode = "ping"
    BY <1>2, <1>5 DEF HandlePing, Dispatching
  <2>2. Answers(f, k + 1, FrameOut("pong", Unmasked))
    BY <1>2, <1>3, <2>1 DEF Answers, FrameOut, TextOpcodes, plain
  <2>3. "pong" \in ReplyOpcodes
    BY DEF ReplyOpcodes
  <2> QED BY <1>1, <1>2, <2>1, <2>2, <2>3, AnswerGoesOn
<1>6. CASE HandleOther
  <2>1. Refuse /\ f.opcode \notin TextOpcodes \cup {"ping", "close"}
    BY <1>2, <1>6 DEF HandleOther
  <2>2. /\ pending' \in Seq(Pairs) /\ socket' \in Seq(Pairs)
        /\ got' \in Seq(Pairs)
    BY <1>1 DEF connection, SessionType
  <2> QED BY <1>1, <1>2, <2>1, <2>2, Refused DEF Reading
<1>7. CASE HandleText
  <2>1. PICK len \in ReplyLens : Send("text", [i \in 1..len |-> <<k + 1, i>>])
    BY <1>2, <1>7 DEF HandleText
  <2> DEFINE text == [i \in 1..len |-> <<k + 1, i>>]
  <2>2. text \in Seq(Pairs)
    <3>1. len \in Nat /\ k \in Nat
      BY WsFrameAssumption DEF SessionType
    <3>2. \A i \in 1..len : <<k + 1, i>> \in Pairs
      BY <3>1 DEF Pairs
    <3> QED BY <3>1, <3>2, IsASeq
  <2> HIDE DEF text
  <2>3. wsPc' \in {"poll", "close"} /\ f.opcode \in TextOpcodes
    BY <1>2, <1>7 DEF HandleText, Dispatching
  <2>4. Answers(f, k + 1, FrameOut("text", text))
    <3>1. FrameOut("text", text).opcode = "text"
      BY DEF FrameOut
    <3>2. f.opcode # "ping" /\ f.opcode # "close"
      BY <2>3 DEF TextOpcodes
    <3> HIDE DEF f
    <3> QED BY <1>3, <2>3, <3>1, <3>2 DEF Answers
  <2>5. "text" \in ReplyOpcodes
    BY DEF ReplyOpcodes
  <2>6. Send("text", text)
    BY <2>1 DEF text
  <2>7. wsPc' \in {"poll", "close"} /\ (wsPc' = "poll" => "text" # "close")
    BY <2>3
  <2> QED BY <1>1, <1>2, <2>2, <2>4, <2>5, <2>6, <2>7, AnswerGoesOn
<1> QED BY <1>4, <1>5, <1>6, <1>7

LEMMA PollStep ==
  ASSUME SessionType, SessionInv, PollClient \/ PollFails \/ ReadFails
  PROVE  SessionType' /\ SessionInv'
<1>1. /\ UNCHANGED <<connection, frames, replies>>
      /\ \/ wsPc' = "head" /\ wsPc = "poll" /\ got' = <<>>
         \/ wsPc' = "close" /\ got' = got
  BY DEF PollClient, PollFails, ReadFails, Step
<1>2. frames' = frames /\ replies' = replies /\ pending' = pending
      /\ socket' = socket
  BY <1>1 DEF connection
<1>3. SessionType'
  <2>1. wsPc' \in Reading \cup {"none", "poll", "close"}
    BY <1>1 DEF Reading
  <2>3. got \in Seq(Pairs) /\ <<>> \in Seq(Pairs)
    BY DEF SessionType
  <2>2. got' \in Seq(Pairs)
    BY <1>1, <2>3
  <2> QED BY <1>2, <2>1, <2>2 DEF SessionType
<1>4. OneAnswerEach'
  BY <1>2 DEF OneAnswerEach, SessionInv
<1>5. CASE wsPc' = "head" /\ wsPc = "poll" /\ got' = <<>>
  <2>1. AtFrame /\ ReadOf = 0 /\ ReadOf' = 0
    BY <1>5 DEF SessionInv, ReadOf, Reading
  <2>2. AtFrame'
    BY <1>2, <2>1 DEF AtFrame, Inbox
  <2>3. AtPart'
    BY <1>5 DEF AtPart
  <2> QED BY <1>3, <1>4, <1>5, <2>2, <2>3 DEF SessionInv
<1>6. CASE wsPc' = "close" /\ got' = got
  <2>1. AtPart'
    BY <1>6 DEF AtPart
  <2> QED BY <1>3, <1>4, <1>6, <2>1 DEF SessionInv, Reading
<1> QED BY <1>1, <1>5, <1>6

\* Whatever the loop does, the session stays as it should be.
LEMMA SessionStep ==
  ASSUME SessionType, SessionInv, websocket_echo_loop \/ PollFails
  PROVE  SessionType' /\ SessionInv'
BY HeadStep, ExtStep, MaskStep, PayloadStep, DispatchStep, PollStep
   DEF websocket_echo_loop
=============================================================================
