-------------------------- MODULE OrderedIdsProofs --------------------------
(***************************************************************************)
(* Lemmas about OrderedIds.tla, for sets of any size.  The operator is a   *)
(* recursive function; what is said of all its values is said of a set of  *)
(* numbers, and that the set has them all follows from Induction.          *)
(***************************************************************************)
EXTENDS OrderedIds, Integers, WellFoundedInduction, FiniteSetTheorems, TLAPS

\* Every set of numbers has a least one.
LEMMA LeastNumber ==
  ASSUME NEW S, S \subseteq Nat, S # {}
  PROVE  \E x \in S : \A y \in S : x <= y
<1>1. PICK x \in S : \A y \in S : <<y, x>> \notin OpToRel(<, Nat)
  BY NatLessThanWellFounded, WFMin
<1>2. \A y \in S : ~(y < x)
  BY <1>1 DEF OpToRel
<1>3. QED BY <1>2

\* A set with 0, and with the successor of each of its numbers, has them all.
LEMMA Induction ==
  ASSUME NEW S, 0 \in S, \A n \in Nat : n \in S => n + 1 \in S
  PROVE  Nat \subseteq S
<1>1. CASE Nat \ S # {}
  <2>1. PICK x \in Nat \ S : \A y \in Nat \ S : x <= y
    BY <1>1, LeastNumber
  <2>2. x # 0 /\ x - 1 \in Nat /\ x - 1 \in S
    BY <2>1
  <2>3. QED BY <2>1, <2>2
<1>2. QED BY <1>1

\* Finitely many numbers have a bound.
Bounds(b, m, f) == \A i \in 1..m : f[i] <= b

LEMMA ListedBound ==
  ASSUME NEW n \in Nat, NEW g \in [1..n -> Nat]
  PROVE  \E b \in Nat : Bounds(b, n, g)
<1> DEFINE S == { m \in Nat : \A f \in [1..m -> Nat] :
                                \E b \in Nat : Bounds(b, m, f) }
<1>1. 0 \in S
  <2>1. ASSUME NEW f \in [1..0 -> Nat] PROVE \E b \in Nat : Bounds(b, 0, f)
    <3>1. Bounds(0, 0, f)
      BY DEF Bounds
    <3>2. QED BY <3>1
  <2>2. QED BY <2>1
<1>2. ASSUME NEW m \in Nat, m \in S PROVE m + 1 \in S
  <2>1. ASSUME NEW f \in [1..(m + 1) -> Nat]
        PROVE  \E b \in Nat : Bounds(b, m + 1, f)
    <3> DEFINE first == [i \in 1..m |-> f[i]]
    <3>1. first \in [1..m -> Nat]
      OBVIOUS
    <3>2. PICK b \in Nat : Bounds(b, m, first)
      BY <1>2, <3>1
    <3>3. Bounds(b + f[m + 1], m + 1, f)
      <4>1. \A i \in 1..m : f[i] <= b /\ f[i] \in Nat
        BY <3>2 DEF Bounds
      <4>2. f[m + 1] \in Nat
        OBVIOUS
      <4>3. QED BY <4>1, <4>2 DEF Bounds
    <3>4. b + f[m + 1] \in Nat
      OBVIOUS
    <3>5. QED BY <3>3, <3>4
  <2>2. QED BY <2>1
<1>3. Nat \subseteq S
  <2> HIDE DEF S
  <2>1. QED BY <1>1, <1>2, Induction
<1>4. QED BY <1>3

\* A finite set of numbers has a greatest one.
LEMMA FiniteMaximum ==
  ASSUME NEW S, IsFiniteSet(S), S \subseteq Nat, S # {}
  PROVE  \E x \in S : \A y \in S : y <= x
<1>1. PICK n \in Nat : ExistsSurjection(1..n, S)
  BY FS_NatSurjection
<1>2. PICK g \in [1..n -> S] : \A x \in S : \E i \in 1..n : g[i] = x
  BY <1>1 DEF Surjection, ExistsSurjection
<1>3. PICK b \in Nat : Bounds(b, n, g)
  <2>1. g \in [1..n -> Nat]
    OBVIOUS
  <2>2. QED BY <2>1, ListedBound
<1> DEFINE T == { c \in Nat : \A x \in S : x <= c }
<1>4. b \in T
  BY <1>2, <1>3 DEF Bounds
<1>5. PICK c \in T : \A d \in T : c <= d
  BY <1>4, LeastNumber
<1>6. c \in S
  <2> SUFFICES ASSUME c \notin S PROVE FALSE
    OBVIOUS
  <2>1. \A x \in S : x <= c /\ x # c /\ x \in Nat
    BY <1>5
  <2>0. PICK y \in S : TRUE
    OBVIOUS
  <2>2. c \in Nat /\ c # 0
    BY <1>5, <2>0, <2>1
  <2>3. c - 1 \in T
    BY <2>1, <2>2
  <2>4. QED BY <1>5, <2>2, <2>3
<1>7. QED BY <1>5, <1>6

\* The value of the recursive function after n steps.
Step(ids, f, n) ==
    IF n = 0 THEN <<>>
    ELSE IF n \in ids THEN Append(f[n - 1], n) ELSE f[n - 1]

\* There is a function that obeys the recursion.
LEMMA UptoExists ==
  ASSUME NEW ids, NEW max \in Nat
  PROVE  \E f : f = [n \in 0..max |-> Step(ids, f, n)]
<1> DEFINE S == { m \in Nat : \E f : f = [n \in 0..m |-> Step(ids, f, n)] }
<1>1. 0 \in S
  <2> DEFINE f == [n \in 0..0 |-> <<>>]
  <2>1. f = [n \in 0..0 |-> Step(ids, f, n)]
    BY DEF Step
  <2>2. QED BY <2>1
<1>2. ASSUME NEW m \in Nat, m \in S PROVE m + 1 \in S
  <2>1. PICK f : f = [n \in 0..m |-> Step(ids, f, n)]
    BY <1>2
  <2> DEFINE last == IF m + 1 \in ids THEN Append(f[m], m + 1) ELSE f[m]
             g == [n \in 0..(m + 1) |-> IF n = m + 1 THEN last ELSE f[n]]
  <2>2. ASSUME NEW n \in 0..(m + 1) PROVE g[n] = Step(ids, g, n)
    <3>1. CASE n = m + 1
      BY <3>1 DEF Step
    <3>2. CASE n \in 0..m
      <4>1. f[n] = Step(ids, f, n)
        BY <2>1, <3>2
      <4>2. n # 0 => n - 1 \in 0..m /\ g[n - 1] = f[n - 1]
        BY <3>2
      <4>3. g[n] = f[n]
        BY <3>2
      <4> HIDE DEF g
      <4>4. QED BY <4>1, <4>2, <4>3 DEF Step
    <3>3. QED BY <3>1, <3>2
  <2>3. g = [n \in 0..(m + 1) |-> Step(ids, g, n)]
    <3>1. g = [n \in 0..(m + 1) |-> g[n]]
      OBVIOUS
    <3> HIDE DEF g
    <3>2. QED BY <2>2, <3>1
  <2> HIDE DEF g
  <2>4. QED BY <2>3
<1>3. Nat \subseteq S
  <2> HIDE DEF S
  <2>1. QED BY <1>1, <1>2, Induction
<1>4. QED BY <1>3

\* What it looks like from one number to the next.
Recursion(ids, max, f) ==
    /\ f[0] = <<>>
    /\ \A n \in Nat : n + 1 <= max =>
         f[n + 1] = IF n + 1 \in ids THEN Append(f[n], n + 1) ELSE f[n]

\* It is the one that the operator uses.
LEMMA AscendingIs ==
  ASSUME NEW ids, NEW max \in Nat
  PROVE  \E f : Recursion(ids, max, f) /\ Ascending(ids, max) = f[max]
<1> DEFINE f == CHOOSE g : g = [n \in 0..max |-> Step(ids, g, n)]
<1>1. f = [n \in 0..max |-> Step(ids, f, n)]
  BY UptoExists
<1>2. Ascending(ids, max) = f[max]
  BY DEF Ascending, Step
<1> HIDE DEF f
<1>3. f[0] = <<>>
  BY <1>1 DEF Step
<1>4. ASSUME NEW n \in Nat, n + 1 <= max
      PROVE  f[n + 1] = IF n + 1 \in ids THEN Append(f[n], n + 1) ELSE f[n]
  <2>1. f[n + 1] = Step(ids, f, n + 1)
    BY <1>1, <1>4
  <2>2. n + 1 # 0 /\ (n + 1) - 1 = n
    OBVIOUS
  <2>3. QED BY <2>1, <2>2 DEF Step
<1>5. Recursion(ids, max, f)
  BY <1>3, <1>4 DEF Recursion
<1>6. QED BY <1>2, <1>5

\* A sequence over a set is one over every larger set.
LEMMA SeqWider ==
  ASSUME NEW S, NEW T, S \subseteq T, NEW q \in Seq(S)
  PROVE  q \in Seq(T)
<1>1. q = [n \in 1..Len(q) |-> q[n]] /\ Len(q) \in Nat
  OBVIOUS
<1>2. \A n \in 1..Len(q) : q[n] \in T
  OBVIOUS
<1>3. QED BY <1>1, <1>2

\* What is where in two sequences put together.
LEMMA Joined ==
  ASSUME NEW S, NEW q \in Seq(S), NEW r \in Seq(S)
  PROVE  /\ q \o r \in Seq(S) /\ Len(q \o r) = Len(q) + Len(r)
         /\ \A n \in 1..Len(q) : (q \o r)[n] = q[n]
         /\ \A k \in 1..Len(r) : (q \o r)[Len(q) + k] = r[k]
  OBVIOUS

\* A queue that lost its first element, and got more at the end.
LEMMA TailJoined ==
  ASSUME NEW S, NEW q \in Seq(S), q # <<>>, NEW r \in Seq(S)
  PROVE  /\ Tail(q) \o r \in Seq(S)
         /\ Len(q) \in Nat \ {0} /\ Len(r) \in Nat
         /\ Len(Tail(q) \o r) = Len(q) - 1 + Len(r)
         /\ \A n \in 1..(Len(q) - 1) : (Tail(q) \o r)[n] = q[n + 1]
         /\ \A k \in 1..Len(r) : (Tail(q) \o r)[Len(q) - 1 + k] = r[k]
<1> DEFINE tail == Tail(q)
<1>1. /\ tail \in Seq(S) /\ Len(tail) = Len(q) - 1 /\ Len(q) \in Nat \ {0}
      /\ \A n \in 1..(Len(q) - 1) : tail[n] = q[n + 1]
  OBVIOUS
<1> HIDE DEF tail
<1>2. /\ tail \o r \in Seq(S) /\ Len(tail \o r) = Len(tail) + Len(r)
      /\ \A n \in 1..Len(tail) : (tail \o r)[n] = tail[n]
      /\ \A k \in 1..Len(r) : (tail \o r)[Len(tail) + k] = r[k]
  <2>1. tail \in Seq(S)
    BY <1>1
  <2>2. QED BY <2>1, Joined
<1>3. /\ tail \o r \in Seq(S)
      /\ Len(q) \in Nat \ {0} /\ Len(r) \in Nat
      /\ Len(tail \o r) = Len(q) - 1 + Len(r)
  BY <1>1, <1>2
<1>4. ASSUME NEW n \in 1..(Len(q) - 1) PROVE (tail \o r)[n] = q[n + 1]
  <2>1. n \in 1..Len(tail)
    BY <1>1
  <2>2. QED BY <1>1, <1>2, <2>1
<1>5. \A k \in 1..Len(r) : (tail \o r)[Len(q) - 1 + k] = r[k]
  BY <1>1, <1>2
<1>6. QED BY <1>3, <1>4, <1>5 DEF tail

\* Only ids are in the sequence.
LEMMA AscendingType ==
  ASSUME NEW ids, NEW max \in Nat
  PROVE  Ascending(ids, max) \in Seq(ids \intersect (1..max))
<1> DEFINE T == ids \intersect (1..max)
<1>1. PICK f : Recursion(ids, max, f) /\ Ascending(ids, max) = f[max]
  BY AscendingIs
<1> DEFINE S == { n \in Nat : n <= max => f[n] \in Seq(T) }
<1>2. 0 \in S
  <2>1. f[0] = <<>>
    BY <1>1 DEF Recursion
  <2>2. <<>> \in Seq(T)
    OBVIOUS
  <2>3. QED BY <2>1, <2>2
<1>3. ASSUME NEW n \in Nat, n \in S PROVE n + 1 \in S
  <2> SUFFICES ASSUME n + 1 <= max PROVE f[n + 1] \in Seq(T)
    OBVIOUS
  <2>1. f[n] \in Seq(T)
    BY <1>3
  <2>2. f[n + 1] = IF n + 1 \in ids THEN Append(f[n], n + 1) ELSE f[n]
    BY <1>1 DEF Recursion
  <2>3. QED BY <2>1, <2>2
<1>4. Nat \subseteq S
  <2> HIDE DEF S
  <2>1. QED BY <1>2, <1>3, Induction
<1>5. max \in S
  BY <1>4
<1>6. QED BY <1>1, <1>5

\* Every id is.
LEMMA AscendingCovers ==
  ASSUME NEW ids, NEW max \in Nat, NEW i \in ids \intersect (1..max)
  PROVE  \E k \in 1..Len(Ascending(ids, max)) : Ascending(ids, max)[k] = i
<1> DEFINE T == ids \intersect (1..max)
<1>1. PICK f : Recursion(ids, max, f) /\ Ascending(ids, max) = f[max]
  BY AscendingIs
<1> DEFINE S == { n \in Nat : n <= max =>
                    /\ f[n] \in Seq(T)
                    /\ i <= n => \E k \in 1..Len(f[n]) : f[n][k] = i }
<1>2. 0 \in S
  <2>1. f[0] = <<>> /\ ~(i <= 0)
    BY <1>1 DEF Recursion
  <2>2. <<>> \in Seq(T)
    OBVIOUS
  <2>3. QED BY <2>1, <2>2
<1>3. ASSUME NEW n \in Nat, n \in S PROVE n + 1 \in S
  <2> SUFFICES ASSUME n + 1 <= max
               PROVE  /\ f[n + 1] \in Seq(T)
                      /\ i <= n + 1 => \E k \in 1..Len(f[n + 1]) : f[n + 1][k] = i
    OBVIOUS
  <2>1. f[n] \in Seq(T) /\ (i <= n => \E k \in 1..Len(f[n]) : f[n][k] = i)
    BY <1>3
  <2>2. f[n + 1] = IF n + 1 \in ids THEN Append(f[n], n + 1) ELSE f[n]
    BY <1>1 DEF Recursion
  <2>3. QED BY <2>1, <2>2
<1>4. Nat \subseteq S
  <2> HIDE DEF S
  <2>1. QED BY <1>2, <1>3, Induction
<1>5. max \in S
  BY <1>4
<1>6. QED BY <1>1, <1>5

\* No id is listed twice.
LEMMA AscendingOnce ==
  ASSUME NEW ids, NEW max \in Nat,
         NEW j \in 1..Len(Ascending(ids, max)), NEW k \in 1..Len(Ascending(ids, max)),
         Ascending(ids, max)[j] = Ascending(ids, max)[k]
  PROVE  j = k
<1> DEFINE T == ids \intersect (1..max)
           Distinct(q) == \A a, b \in 1..Len(q) : q[a] = q[b] => a = b
<1>1. PICK f : Recursion(ids, max, f) /\ Ascending(ids, max) = f[max]
  BY AscendingIs
<1> DEFINE S == { n \in Nat : n <= max =>
                    /\ f[n] \in Seq(T)
                    /\ \A a \in 1..Len(f[n]) : f[n][a] <= n
                    /\ Distinct(f[n]) }
<1>2. 0 \in S
  <2>1. f[0] = <<>>
    BY <1>1 DEF Recursion
  <2>2. <<>> \in Seq(T) /\ Len(<<>>) = 0
    OBVIOUS
  <2>3. f[0] \in Seq(T) /\ 1..Len(f[0]) = {}
    BY <2>1, <2>2
  <2>4. QED BY <2>3
<1>3. ASSUME NEW n \in Nat, n \in S PROVE n + 1 \in S
  <2> SUFFICES ASSUME n + 1 <= max
               PROVE  /\ f[n + 1] \in Seq(T)
                      /\ \A a \in 1..Len(f[n + 1]) : f[n + 1][a] <= n + 1
                      /\ Distinct(f[n + 1])
    OBVIOUS
  <2>1. /\ f[n] \in Seq(T) /\ Distinct(f[n])
        /\ \A a \in 1..Len(f[n]) : f[n][a] <= n /\ f[n][a] \in Nat
    BY <1>3
  <2>2. f[n + 1] = IF n + 1 \in ids THEN Append(f[n], n + 1) ELSE f[n]
    BY <1>1 DEF Recursion
  <2>3. CASE n + 1 \notin ids
    BY <2>1, <2>2, <2>3
  <2>4. CASE n + 1 \in ids
    <3> DEFINE q == f[n]
               r == Append(q, n + 1)
    <3>1. /\ q \in Seq(T) /\ Len(q) \in Nat /\ n + 1 \in T
          /\ \A a \in 1..Len(q) : q[a] # n + 1
      BY <2>1, <2>4
    <3>2. /\ r \in Seq(T) /\ Len(r) = Len(q) + 1 /\ r[Len(q) + 1] = n + 1
          /\ \A a \in 1..Len(q) : r[a] = q[a]
      BY <3>1
    <3>3. f[n + 1] = r
      BY <2>2, <2>4
    <3> HIDE DEF r, q
    <3>4. Distinct(q) /\ \A a \in 1..Len(q) : q[a] <= n /\ q[a] \in Nat
      BY <2>1 DEF q
    <3>5. \A a \in 1..Len(r) : a \in 1..Len(q) \/ a = Len(q) + 1
      BY <3>1, <3>2
    <3>6. ASSUME NEW a \in 1..Len(r)
          PROVE  \/ a \in 1..Len(q) /\ r[a] = q[a] /\ r[a] # n + 1
                 \/ a = Len(q) + 1 /\ r[a] = n + 1
      BY <3>1, <3>2, <3>5
    <3>7. \A a \in 1..Len(r) : r[a] <= n + 1
      <4>1. ASSUME NEW a \in 1..Len(r) PROVE r[a] <= n + 1
        <5>1. CASE a \in 1..Len(q) /\ r[a] = q[a]
          <6> HIDE DEF Distinct
          <6>1. q[a] <= n /\ q[a] \in Nat
            BY <3>4, <5>1
          <6>2. QED BY <5>1, <6>1
        <5>2. CASE r[a] = n + 1
          BY <5>2
        <5>3. QED BY <3>6, <5>1, <5>2
      <4>2. QED BY <4>1
    <3>8. Distinct(r)
      <4>1. ASSUME NEW a \in 1..Len(r), NEW b \in 1..Len(r), r[a] = r[b]
            PROVE  a = b
        <5>1. CASE a \in 1..Len(q) /\ b \in 1..Len(q)
          <6>1. q[a] = q[b]
            BY <3>2, <4>1, <5>1
          <6>2. QED BY <3>4, <5>1, <6>1
        <5>2. CASE a = Len(q) + 1 \/ b = Len(q) + 1
          <6> HIDE DEF Distinct
          <6>1. r[a] = n + 1 /\ r[b] = n + 1
            BY <3>2, <4>1, <5>2
          <6>2. QED BY <3>6, <6>1
        <5>3. QED BY <3>5, <5>1, <5>2
      <4>2. QED BY <4>1
    <3>9. QED BY <3>2, <3>3, <3>7, <3>8
  <2>5. QED BY <2>3, <2>4
<1>4. Nat \subseteq S
  <2> HIDE DEF S
  <2>1. QED BY <1>2, <1>3, Induction
<1>5. max \in S
  BY <1>4
<1>6. QED BY <1>1, <1>5
=============================================================================
