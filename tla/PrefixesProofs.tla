--------------------------- MODULE PrefixesProofs ---------------------------
(***************************************************************************)
(* Lemmas about values computed along a sequence: induction over the       *)
(* places of a sequence as a statement about sets, that the recursive      *)
(* functions exist, and what Picked returns.                               *)
(***************************************************************************)
EXTENDS Prefixes, Integers, FiniteSetTheorems, SequenceTheorems,
        WellFoundedInduction, TLAPS

---------------------------------------------------------------------------
(* Induction *)

\* Every nonempty set of numbers has a least one.
LEMMA LeastNumber ==
    ASSUME NEW T, T \subseteq Nat, T # {}
    PROVE  \E x \in T : \A y \in T : x <= y
<1>1. PICK x \in T : \A y \in T : ~ (<<y, x>> \in OpToRel(<, Nat))
  BY NatLessThanWellFounded, WFMin
<1>2. \A y \in T : ~ (y < x)
  BY <1>1 DEF OpToRel
<1> QED BY <1>2

\* A set that holds 0 and with each n below N its successor holds 0 .. N.
LEMMA InductionTo ==
    ASSUME NEW N \in Nat, NEW S, 0 \in S,
           \A n \in 0 .. N - 1 : n \in S => n + 1 \in S
    PROVE  \A n \in 0 .. N : n \in S
<1> DEFINE T == {n \in 0 .. N : n \notin S}
<1> SUFFICES ASSUME T # {} PROVE FALSE
  OBVIOUS
<1>1. T \subseteq Nat
  OBVIOUS
<1>2. PICK x \in T : \A y \in T : x <= y
  <2> HIDE DEF T
  <2> QED BY <1>1, LeastNumber
<1>3. x # 0 /\ x - 1 \in 0 .. N - 1
  OBVIOUS
<1>4. x - 1 \in S
  BY <1>2, <1>3
<1> QED BY <1>3, <1>4

---------------------------------------------------------------------------
(* Running totals *)

\* The equation of a function that adds up cost[1], cost[2], ...
Totals(g, N, cost) ==
    g = [n \in 0 .. N |-> IF n = 0 THEN 0 ELSE g[n - 1] + cost[n]]

\* There is such a function.
LEMMA TotalsExist ==
    ASSUME NEW N \in Nat, NEW cost \in [1 .. N -> Nat]
    PROVE  \E g : Totals(g, N, cost)
<1> DEFINE S == {n \in 0 .. N : \E g : Totals(g, n, cost)}
<1>1. 0 \in S
  <2>1. Totals([n \in 0 .. 0 |-> 0], 0, cost)
    BY DEF Totals
  <2> QED BY <2>1
<1>2. ASSUME NEW n \in 0 .. N - 1, n \in S
      PROVE  n + 1 \in S
  <2>1. PICK g : Totals(g, n, cost)
    BY <1>2
  <2> DEFINE h == [m \in 0 .. n + 1 |-> IF m = n + 1 THEN g[n] + cost[n + 1] ELSE g[m]]
  <2>2. ASSUME NEW m \in 0 .. n + 1
        PROVE  h[m] = IF m = 0 THEN 0 ELSE h[m - 1] + cost[m]
    BY <2>1 DEF Totals
  <2>3. Totals(h, n + 1, cost)
    BY <2>2 DEF Totals
  <2> QED BY <2>3
<1>3. \A n \in 0 .. N : n \in S
  <2> HIDE DEF S
  <2> QED BY <1>1, <1>2, InductionTo
<1> QED BY <1>3

\* Totals are numbers and do not fall.
LEMMA TotalsRise ==
    ASSUME NEW N \in Nat, NEW cost \in [1 .. N -> Nat], NEW g, Totals(g, N, cost)
    PROVE  /\ g \in [0 .. N -> Nat] /\ g[0] = 0
           /\ \A n \in 1 .. N : g[n] = g[n - 1] + cost[n]
           /\ \A n \in 0 .. N : \A m \in 0 .. n : g[m] <= g[n]
<1>1. /\ DOMAIN g = 0 .. N /\ g[0] = 0
      /\ \A n \in 1 .. N : g[n] = g[n - 1] + cost[n]
  BY DEF Totals
<1>2. \A n \in 0 .. N : g[n] \in Nat
  <2> DEFINE S == {n \in 0 .. N : g[n] \in Nat}
  <2>1. 0 \in S
    BY <1>1
  <2>2. \A n \in 0 .. N - 1 : n \in S => n + 1 \in S
    BY <1>1
  <2>3. \A n \in 0 .. N : n \in S
    <3> HIDE DEF S
    <3> QED BY <2>1, <2>2, InductionTo
  <2> QED BY <2>3
<1>3. \A n \in 0 .. N : \A m \in 0 .. n : g[m] <= g[n]
  <2> DEFINE S == {n \in 0 .. N : \A m \in 0 .. n : g[m] <= g[n]}
  <2>1. 0 \in S
    BY <1>1
  <2>2. ASSUME NEW n \in 0 .. N - 1, n \in S
        PROVE  n + 1 \in S
    <3>1. g[n] <= g[n + 1] /\ g[n] \in Nat /\ g[n + 1] \in Nat
      BY <1>1, <1>2
    <3>2. ASSUME NEW m \in 0 .. n + 1 PROVE g[m] <= g[n + 1]
      <4>1. CASE m = n + 1 BY <4>1, <3>1
      <4>2. CASE m \in 0 .. n
        <5>1. g[m] <= g[n] /\ g[m] \in Nat BY <2>2, <4>2, <1>2
        <5> QED BY <5>1, <3>1
      <4> QED BY <4>1, <4>2
    <3> QED BY <3>2
  <2>3. \A n \in 0 .. N : n \in S
    <3> HIDE DEF S
    <3> QED BY <2>1, <2>2, InductionTo
  <2> QED BY <2>3
<1>4. g \in [0 .. N -> Nat]
  BY <1>2 DEF Totals
<1> QED BY <1>1, <1>3, <1>4

\* Totals depend on no cost past the place they are taken at.
LEMMA TotalsAgree ==
    ASSUME NEW N \in Nat, NEW M \in 0 .. N, NEW cost, NEW price, NEW g, NEW h,
           Totals(g, N, cost), Totals(h, M, price),
           \A n \in 1 .. M : cost[n] = price[n]
    PROVE  \A n \in 0 .. M : g[n] = h[n]
<1> DEFINE S == {n \in 0 .. M : g[n] = h[n]}
<1>1. 0 \in S
  BY DEF Totals
<1>2. \A n \in 0 .. M - 1 : n \in S => n + 1 \in S
  BY DEF Totals
<1>3. \A n \in 0 .. M : n \in S
  <2> HIDE DEF S
  <2> M \in Nat OBVIOUS
  <2> QED BY <1>1, <1>2, InductionTo
<1> QED BY <1>3

\* A set of places that holds with each place all the ones before it is an
\* initial segment, as long as it has members.
LEMMA InitialSegment ==
    ASSUME NEW N \in Nat, NEW A, A \subseteq 1 .. N,
           \A n \in A : \A m \in 1 .. n : m \in A
    PROVE  Cardinality(A) \in 0 .. N /\ A = 1 .. Cardinality(A)
<1> DEFINE Out == 1 .. N + 1 \ A
<1>1. PICK x \in Out : \A y \in Out : x <= y
  <2>1. Out \subseteq Nat /\ N + 1 \in Out
    OBVIOUS
  <2> HIDE DEF Out
  <2> QED BY <2>1, LeastNumber
<1>2. A = 1 .. x - 1
  <2>1. ASSUME NEW a \in A PROVE a < x
    <3> SUFFICES ASSUME x <= a PROVE FALSE
      BY <1>1
    <3>1. x \in 1 .. a
      BY <1>1
    <3> QED BY <3>1, <1>1
  <2>2. ASSUME NEW a \in 1 .. x - 1 PROVE a \in A
    <3> SUFFICES ASSUME a \in Out PROVE FALSE
      BY <1>1
    <3> QED BY <1>1
  <2>3. x \in Nat /\ \A a \in A : a \in Nat /\ a >= 1
    BY <1>1
  <2>4. \A a : a \in A <=> a \in 1 .. x - 1
    <3>1. ASSUME NEW a \in A PROVE a \in 1 .. x - 1
      <4>1. a < x /\ x \in Nat /\ a \in Nat /\ a >= 1 BY <2>1, <2>3
      <4> QED BY ONLY <4>1
    <3> QED BY <2>2, <3>1
  <2> QED BY <2>4
<1>3. Cardinality(1 .. x - 1) = x - 1
  BY FS_Interval
<1> QED BY <1>1, <1>2, <1>3

---------------------------------------------------------------------------
(* Picked *)

PickEquation(g, seq, N, S) ==
    g = [n \in 0 .. N |->
            IF n = 0 THEN <<>>
            ELSE IF seq[n] \in S THEN Append(g[n - 1], seq[n]) ELSE g[n - 1]]

LEMMA PickExists ==
    ASSUME NEW N \in Nat, NEW seq, NEW S
    PROVE  \E g : PickEquation(g, seq, N, S)
<1> DEFINE T == {n \in 0 .. N : \E g : PickEquation(g, seq, n, S)}
<1>1. 0 \in T
  <2>1. PickEquation([n \in 0 .. 0 |-> <<>>], seq, 0, S)
    BY DEF PickEquation
  <2> QED BY <2>1
<1>2. ASSUME NEW n \in 0 .. N - 1, n \in T
      PROVE  n + 1 \in T
  <2>1. PICK g : PickEquation(g, seq, n, S)
    BY <1>2
  <2> DEFINE h == [m \in 0 .. n + 1 |->
                      IF m = n + 1
                      THEN IF seq[m] \in S THEN Append(g[n], seq[m]) ELSE g[n]
                      ELSE g[m]]
  <2>2. ASSUME NEW m \in 0 .. n + 1
        PROVE  h[m] = IF m = 0 THEN <<>>
                      ELSE IF seq[m] \in S THEN Append(h[m - 1], seq[m]) ELSE h[m - 1]
    <3>1. CASE m = n + 1
      <4>1. m - 1 = n /\ m # 0 /\ h[n] = g[n] BY <3>1
      <4> QED BY <4>1, <3>1
    <3>2. CASE m \in 0 .. n
      <4>1. h[m] = g[m] /\ (m # 0 => h[m - 1] = g[m - 1]) BY <3>2
      <4>2. g[m] = IF m = 0 THEN <<>>
                   ELSE IF seq[m] \in S THEN Append(g[m - 1], seq[m]) ELSE g[m - 1]
        BY <2>1, <3>2 DEF PickEquation
      <4> HIDE DEF h
      <4> QED BY <4>1, <4>2
    <3> QED BY <3>1, <3>2
  <2>3. PickEquation(h, seq, n + 1, S)
    <3>1. h = [m \in 0 .. n + 1 |-> h[m]]
      OBVIOUS
    <3> HIDE DEF h
    <3> QED BY <2>2, <3>1 DEF PickEquation
  <2> QED BY <2>3
<1>3. \A n \in 0 .. N : n \in T
  <2> HIDE DEF T
  <2> QED BY <1>1, <1>2, InductionTo
<1> QED BY <1>3

\* PickedUpTo goes by its recursion.
LEMMA PickedRecursion ==
    ASSUME NEW E, NEW seq \in Seq(E), NEW S
    PROVE  /\ PickedUpTo(seq, S)[0] = <<>>
           /\ \A n \in 1 .. Len(seq) :
                PickedUpTo(seq, S)[n] =
                  IF seq[n] \in S THEN Append(PickedUpTo(seq, S)[n - 1], seq[n])
                  ELSE PickedUpTo(seq, S)[n - 1]
<1>1. Len(seq) \in Nat
  OBVIOUS
<1>2. PickedUpTo(seq, S) = CHOOSE g : PickEquation(g, seq, Len(seq), S)
  BY DEF PickedUpTo, PickEquation
<1>3. PickEquation(PickedUpTo(seq, S), seq, Len(seq), S)
  BY <1>1, <1>2, PickExists
<1>4. ASSUME NEW g, PickEquation(g, seq, Len(seq), S)
      PROVE  /\ g[0] = <<>>
             /\ \A n \in 1 .. Len(seq) :
                  g[n] = IF seq[n] \in S THEN Append(g[n - 1], seq[n]) ELSE g[n - 1]
  <2>1. \A n \in 0 .. Len(seq) :
          g[n] = IF n = 0 THEN <<>>
                 ELSE IF seq[n] \in S THEN Append(g[n - 1], seq[n]) ELSE g[n - 1]
    BY <1>4 DEF PickEquation
  <2>2. 0 \in 0 .. Len(seq) /\ \A n \in 1 .. Len(seq) : n \in 0 .. Len(seq) /\ n # 0
    BY <1>1
  <2> QED BY <2>1, <2>2
<1> QED BY <1>3, <1>4

\* What is picked are the elements at some rising places, and the places of
\* all the elements that are in the set.
PlacedBy(place, m, picked, seq, n, S) ==
    /\ place \in [1 .. m -> 1 .. n]
    /\ Len(picked) = m
    /\ \A k \in 1 .. m : picked[k] = seq[place[k]] /\ picked[k] \in S
    /\ \A k \in 1 .. m : \A j \in 1 .. k - 1 : place[j] < place[k]
    /\ \A i \in 1 .. n : seq[i] \in S => \E k \in 1 .. m : place[k] = i

LEMMA PickedPlaces ==
    ASSUME NEW E, NEW seq \in Seq(E), NEW S
    PROVE  \A n \in 0 .. Len(seq) :
             /\ PickedUpTo(seq, S)[n] \in Seq(E)
             /\ \E m \in 0 .. n : \E place : PlacedBy(place, m, PickedUpTo(seq, S)[n], seq, n, S)
<1> DEFINE p == PickedUpTo(seq, S)
<1>0. /\ p[0] = <<>>
      /\ \A n \in 1 .. Len(seq) :
           p[n] = IF seq[n] \in S THEN Append(p[n - 1], seq[n]) ELSE p[n - 1]
  BY PickedRecursion
<1> HIDE DEF p
<1> DEFINE Good(n) == p[n] \in Seq(E) /\ \E m \in 0 .. n : \E place : PlacedBy(place, m, p[n], seq, n, S)
           T == {n \in 0 .. Len(seq) : Good(n)}
<1>1. 0 \in T
  <2>1. PlacedBy([k \in 1 .. 0 |-> 1], 0, <<>>, seq, 0, S)
    BY DEF PlacedBy
  <2>2. Good(0) BY <2>1, <1>0
  <2> QED BY <2>2
<1>2. ASSUME NEW n \in 0 .. Len(seq) - 1, n \in T
      PROVE  n + 1 \in T
  <2>0. PICK m \in 0 .. n : \E place : PlacedBy(place, m, p[n], seq, n, S)
    BY <1>2
  <2>1. p[n] \in Seq(E) /\ n \in Nat
    BY <1>2
  <2>2. PICK place : PlacedBy(place, m, p[n], seq, n, S)
    BY <2>0
  <2>3. n + 1 \in 1 .. Len(seq) /\ n + 1 - 1 = n /\ seq[n + 1] \in E
    BY ElementOfSeq
  <2>4. CASE seq[n + 1] \notin S
    <3>1. p[n + 1] = p[n] BY <1>0, <2>3, <2>4
    <3>2. PlacedBy(place, m, p[n + 1], seq, n + 1, S)
      <4>1. place \in [1 .. m -> 1 .. n + 1]
        BY <2>1, <2>2 DEF PlacedBy
      <4>2. ASSUME NEW i \in 1 .. n + 1, seq[i] \in S
            PROVE  \E k \in 1 .. m : place[k] = i
        <5>1. i \in 1 .. n
          BY <2>1, <2>4, <4>2
        <5> QED BY <2>2, <4>2, <5>1 DEF PlacedBy
      <4> QED BY <2>2, <3>1, <4>1, <4>2 DEF PlacedBy
    <3> QED BY <2>1, <2>3, <3>1, <3>2
  <2>5. CASE seq[n + 1] \in S
    <3>1. p[n + 1] = Append(p[n], seq[n + 1])
      <4>1. PICK k \in 1 .. Len(seq) : k = n + 1 /\ k - 1 = n BY <2>3
      <4>2. seq[k] \in S BY <2>5, <4>1
      <4>3. p[k] = Append(p[k - 1], seq[k]) BY <1>0, <4>2, Zenon
      <4> QED BY <4>1, <4>3, Zenon
    <3>2. /\ p[n + 1] \in Seq(E) /\ Len(p[n + 1]) = m + 1
          /\ \A k \in 1 .. m : p[n + 1][k] = p[n][k]
          /\ p[n + 1][m + 1] = seq[n + 1]
      BY <3>1, <2>1, <2>2, <2>3, AppendProperties DEF PlacedBy
    <3> DEFINE next == [k \in 1 .. m + 1 |-> IF k = m + 1 THEN n + 1 ELSE place[k]]
    <3>3. /\ next \in [1 .. m + 1 -> 1 .. n + 1] /\ next[m + 1] = n + 1
          /\ \A k \in 1 .. m : next[k] = place[k] /\ next[k] \in 1 .. n
      BY <2>1, <2>2 DEF PlacedBy
    <3> HIDE DEF next
    <3>4. \A k \in 1 .. m + 1 : p[n + 1][k] = seq[next[k]] /\ p[n + 1][k] \in S
      <4> TAKE k \in 1 .. m + 1
      <4>1. CASE k = m + 1 BY <4>1, <3>2, <3>3, <2>5
      <4>2. CASE k \in 1 .. m BY <4>2, <3>2, <3>3, <2>2 DEF PlacedBy
      <4> QED BY <4>1, <4>2
    <3>5. \A k \in 1 .. m + 1 : \A j \in 1 .. k - 1 : next[j] < next[k]
      <4> TAKE k \in 1 .. m + 1
      <4> TAKE j \in 1 .. k - 1
      <4>1. j \in 1 .. m OBVIOUS
      <4>2. CASE k = m + 1 BY <4>1, <4>2, <3>3
      <4>3. CASE k \in 1 .. m BY <4>1, <4>3, <3>3, <2>2 DEF PlacedBy
      <4> QED BY <4>2, <4>3
    <3>6. \A i \in 1 .. n + 1 : seq[i] \in S => \E k \in 1 .. m + 1 : next[k] = i
      <4> TAKE i \in 1 .. n + 1
      <4>1. CASE i = n + 1 BY <4>1, <3>3
      <4>2. CASE i \in 1 .. n BY <4>2, <3>3, <2>2 DEF PlacedBy
      <4> QED BY <4>1, <4>2
    <3>7. PlacedBy(next, m + 1, p[n + 1], seq, n + 1, S)
      BY <3>2, <3>3, <3>4, <3>5, <3>6 DEF PlacedBy
    <3>8. m + 1 \in 0 .. n + 1 OBVIOUS
    <3> QED BY <2>3, <3>2, <3>7, <3>8
  <2> QED BY <2>4, <2>5
<1>3. \A n \in 0 .. Len(seq) : n \in T
  <2> HIDE DEF T
  <2> QED BY <1>1, <1>2, InductionTo
<1> QED BY <1>3 DEF p
=============================================================================
