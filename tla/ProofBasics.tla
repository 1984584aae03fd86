---------------------------- MODULE ProofBasics ----------------------------
(***************************************************************************)
(* Facts about numbers and loops that the proofs about several components  *)
(* rest on.                                                                *)
(***************************************************************************)
EXTENDS Integers, WellFoundedInduction, TLAPS

(* A set of naturals has a least element: induction, as the search for a   *)
(* least counterexample, and the first block a walk in address order meets.*)
LEMMA LeastNat ==
  ASSUME NEW T, T \subseteq Nat, T # {}
  PROVE  \E n \in T : \A m \in T : n <= m
<1>1. \E n \in T : \A m \in T : ~(<<m, n>> \in OpToRel(<, Nat))
  BY NatLessThanWellFounded, WFMin, Zenon
<1>2. PICK n \in T : \A m \in T : ~(<<m, n>> \in OpToRel(<, Nat))
  BY <1>1
<1>3. \A m \in T : ~(m < n)
  BY <1>2 DEF OpToRel
<1> QED
  BY <1>3

(* ... and the greatest one below a bound.                                 *)
LEMMA GreatestBelow ==
  ASSUME NEW T, T \subseteq Nat, T # {}, NEW a \in Nat, \A m \in T : m < a
  PROVE  \E n \in T : \A m \in T : m <= n
<1> DEFINE U == {u \in Nat : \E m \in T : u = a - m}
<1>1. U \subseteq Nat /\ U # {}
  <2> PICK m \in T : TRUE
    OBVIOUS
  <2> a - m \in U
    OBVIOUS
  <2> QED
    OBVIOUS
<1>2. PICK u \in U : \A v \in U : u <= v
  BY <1>1, LeastNat
<1>3. PICK n \in T : u = a - n
  BY <1>2
<1>4. ASSUME NEW m \in T PROVE m <= n
  <2>1. a - m \in U
    OBVIOUS
  <2> QED
    BY <1>2, <1>3, <2>1
<1> QED
  BY <1>4

(* A loop of n turns, turn i applying g to i and the value before it, has  *)
(* a value after each turn.                                                *)
LoopRuns(x, g, n, S) ==
  {f \in [0..n -> S] : f[0] = x /\ \A i \in 1..n : f[i] = g[<<i, f[i - 1]>>]}

LEMMA Iterates ==
  ASSUME NEW S, NEW x \in S, NEW g \in [Nat \X S -> S], NEW n \in Nat
  PROVE  LoopRuns(x, g, n, S) # {}
<1> DEFINE Has(k) ==
      \E f \in [0..k -> S] : f[0] = x /\ \A i \in 1..k : f[i] = g[<<i, f[i - 1]>>]
           T == {k \in Nat : ~Has(k)}
<1>1. ASSUME NEW k \in T, \A m \in T : k <= m PROVE FALSE
  <2>1. CASE k = 0
    <3> DEFINE f == [i \in 0..0 |-> x]
    <3>1. f \in [0..0 -> S] /\ f[0] = x /\ \A i \in 1..0 : f[i] = g[<<i, f[i - 1]>>]
      OBVIOUS
    <3> QED
      BY <2>1, <3>1
  <2>2. CASE k # 0
    <3>1. k - 1 \in Nat /\ k - 1 \notin T
      <4> HIDE DEF Has
      <4>1. k \in Nat /\ T \subseteq Nat
        BY <1>1
      <4> QED
        BY <4>1, <1>1, <2>2
    <3>2. PICK f \in [0..(k - 1) -> S] :
            f[0] = x /\ \A i \in 1..(k - 1) : f[i] = g[<<i, f[i - 1]>>]
      BY <3>1
    <3> DEFINE e == [i \in 0..k |-> IF i = k THEN g[<<k, f[k - 1]>>] ELSE f[i]]
    <3>3. e \in [0..k -> S] /\ e[0] = x
      BY <2>2, <3>1, <3>2
    <3>4. ASSUME NEW i \in 1..k PROVE e[i] = g[<<i, e[i - 1]>>]
      <4>1. i - 1 \in 0..(k - 1) /\ i - 1 # k /\ i \in 0..k /\ i - 1 \in 0..k
        BY <3>1
      <4>2. e[i - 1] = f[i - 1]
        BY <4>1
      <4>3. CASE i = k
        <5>1. e[i] = g[<<k, f[k - 1]>>]
          BY <4>1, <4>3
        <5> QED
          BY <4>2, <4>3, <5>1
      <4>4. CASE i # k
        <5>1. e[i] = f[i] /\ i \in 1..(k - 1)
          BY <3>1, <4>1, <4>4
        <5> QED
          BY <3>2, <4>2, <5>1
      <4> QED
        BY <4>3, <4>4
    <3> QED
      BY <3>3, <3>4
  <2> QED
    BY <2>1, <2>2
<1>2. T = {}
  BY <1>1, LeastNat
<1> QED
  BY <1>2 DEF LoopRuns

(* Induction up to n.                                                      *)
LEMMA UpTo ==
  ASSUME NEW n \in Nat, NEW T, 0 \in T, \A i \in 1..n : i - 1 \in T => i \in T
  PROVE  0..n \subseteq T
<1> DEFINE B == {i \in 0..n : i \notin T}
<1>1. ASSUME NEW i \in B, \A j \in B : i <= j PROVE FALSE
  <2>1. i \in 1..n /\ i - 1 \in 0..n /\ ~(i <= i - 1)
    BY <1>1
  <2>2. i - 1 \notin B
    BY <1>1, <2>1
  <2> QED
    BY <1>1, <2>1, <2>2
<1>2. B = {}
  <2>1. B \subseteq Nat
    OBVIOUS
  <2> HIDE DEF B
  <2> QED
    BY <1>1, <2>1, LeastNat
<1> QED
  BY <1>2

(* A loop without end has a value after each turn too.                     *)
EndlessRuns(x, g, S) ==
  {f \in [Nat -> S] : f[0] = x /\ \A i \in Nat \ {0} : f[i] = g[<<i, f[i - 1]>>]}

LEMMA IteratesForever ==
  ASSUME NEW S, NEW x \in S, NEW g \in [Nat \X S -> S]
  PROVE  EndlessRuns(x, g, S) # {}
<1> DEFINE run == [n \in Nat |-> CHOOSE r \in LoopRuns(x, g, n, S) : TRUE]
           f == [n \in Nat |-> run[n][n]]
<1>1. ASSUME NEW n \in Nat PROVE run[n] \in LoopRuns(x, g, n, S)
  <2>1. LoopRuns(x, g, n, S) # {}
    BY Iterates
  <2> DEFINE L == LoopRuns(x, g, n, S)
  <2>2. run[n] = CHOOSE r \in L : TRUE
    OBVIOUS
  <2> HIDE DEF L, run
  <2>3. (CHOOSE r \in L : TRUE) \in L
    BY <2>1 DEF L
  <2> QED
    BY <2>2, <2>3 DEF L
<1> HIDE DEF run
<1>2. ASSUME NEW n \in Nat
      PROVE  /\ run[n] \in [0..n -> S] /\ run[n][0] = x
             /\ \A i \in 1..n : run[n][i] = g[<<i, run[n][i - 1]>>]
  BY <1>1 DEF LoopRuns
<1> DEFINE Alike(m) == \A n \in Nat : m <= n => run[n][m] = run[m][m]
           T == {m \in Nat : ~Alike(m)}
<1>3. ASSUME NEW m \in T, \A k \in T : m <= k PROVE FALSE
  <2>1. CASE m = 0
    BY <1>2, <2>1
  <2>2. CASE m # 0
    <3>1. m - 1 \in Nat /\ m \in Nat /\ Alike(m - 1)
      <4>1. m - 1 \in Nat /\ m \in Nat /\ ~(m <= m - 1)
        BY <2>2
      <4>2. m - 1 \notin T
        BY <1>3, <4>1
      <4> QED
        BY <4>1, <4>2
    <3>2. ASSUME NEW n \in Nat, m <= n PROVE run[n][m] = run[m][m]
      <4>1. m \in 1..n /\ m \in 1..m /\ m - 1 <= n /\ m - 1 <= m
        BY <2>2, <3>1, <3>2
      <4>2. run[n][m] = g[<<m, run[n][m - 1]>>] /\ run[m][m] = g[<<m, run[m][m - 1]>>]
        BY <1>2, <3>1, <4>1
      <4>3. run[n][m - 1] = run[m - 1][m - 1] /\ run[m][m - 1] = run[m - 1][m - 1]
        BY <3>1, <4>1
      <4> QED
        BY <4>2, <4>3
    <3> QED
      BY <3>2
  <2> QED
    BY <2>1, <2>2
<1>4. T = {}
  BY <1>3, LeastNat
<1>5. f \in [Nat -> S] /\ f[0] = x
  BY <1>2
<1>6. ASSUME NEW i \in Nat \ {0} PROVE f[i] = g[<<i, f[i - 1]>>]
  <2>1. i \in Nat /\ i - 1 \in Nat /\ i \in 1..i /\ i - 1 <= i
    OBVIOUS
  <2>2. run[i][i] = g[<<i, run[i][i - 1]>>]
    BY <1>2, <2>1
  <2>3. Alike(i - 1)
    BY <1>4, <2>1
  <2>4. run[i][i - 1] = run[i - 1][i - 1]
    BY <2>1, <2>3
  <2> QED
    BY <2>1, <2>2, <2>4
<1> QED
  BY <1>5, <1>6 DEF EndlessRuns

-----------------------------------------------------------------------------
(* Ring buffers: the remainder of what is less than twice the modulus.     *)
LEMMA ModSmall ==
  ASSUME NEW N \in Nat \ {0}, NEW x \in Nat, x < N
  PROVE  x % N = x
OBVIOUS

LEMMA ModOnce ==
  ASSUME NEW N \in Nat \ {0}, NEW x \in Nat, N <= x, x < 2 * N
  PROVE  x % N = x - N
OBVIOUS

LEMMA ModRange ==
  ASSUME NEW N \in Nat \ {0}, NEW x \in Nat
  PROVE  x % N \in 0..N-1
OBVIOUS

LEMMA ModTwice ==
  ASSUME NEW N \in Nat \ {0}, NEW x \in Nat, x < 2 * N
  PROVE  x % N = IF x < N THEN x ELSE x - N
<1>1. CASE x < N
  BY <1>1, ModSmall
<1>2. CASE ~(x < N)
  <2>1. N <= x
    BY <1>2
  <2>2. x % N = x - N
    BY <2>1, ModOnce
  <2> QED
    BY <1>2, <2>2
<1> QED
  BY <1>1, <1>2

(* The place i after place x of a ring of N.                               *)
LEMMA RingPlace ==
  ASSUME NEW N \in Nat \ {0}, NEW x \in 0..N-1, NEW i \in 0..N
  PROVE  /\ (x + i) % N = IF x + i < N THEN x + i ELSE x + i - N
         /\ (x + i) % N \in 0..N-1
<1> DEFINE y == x + i
<1>1. y \in Nat /\ y < 2 * N
  OBVIOUS
<1> HIDE DEF y
<1>2. y % N = (IF y < N THEN y ELSE y - N) /\ y % N \in 0..N-1
  BY <1>1, ModTwice, ModRange
<1> QED
  BY <1>1, <1>2 DEF y

LEMMA RingHere ==
  ASSUME NEW N \in Nat \ {0}, NEW x \in 0..N-1
  PROVE  (x + 0) % N = x /\ (x + N) % N = x
<1>1. 0 \in 0..N /\ N \in 0..N
  OBVIOUS
<1>2. (x + 0) % N = IF x + 0 < N THEN x + 0 ELSE x + 0 - N
  BY <1>1, RingPlace
<1>3. (x + N) % N = IF x + N < N THEN x + N ELSE x + N - N
  BY <1>1, RingPlace
<1> QED
  BY <1>2, <1>3

(* Different distances lead to different places.                           *)
LEMMA RingApart ==
  ASSUME NEW N \in Nat \ {0}, NEW x \in 0..N-1, NEW i \in 0..N-1, NEW j \in 0..N-1,
         i # j
  PROVE  (x + i) % N # (x + j) % N
<1>0. i \in 0..N /\ j \in 0..N
  OBVIOUS
<1>1. (x + i) % N = IF x + i < N THEN x + i ELSE x + i - N
  BY <1>0, RingPlace
<1>2. (x + j) % N = IF x + j < N THEN x + j ELSE x + j - N
  BY <1>0, RingPlace
<1> QED
  BY <1>1, <1>2

(* Going on from the next place.                                           *)
LEMMA RingNext ==
  ASSUME NEW N \in Nat \ {0}, NEW x \in 0..N-1, NEW i \in 0..N-1
  PROVE  (x + 1) % N \in 0..N-1 /\ (((x + 1) % N) + i) % N = (x + (i + 1)) % N
<1> DEFINE y == (x + 1) % N
           k == i + 1
<1>0. i \in 0..N /\ 1 \in 0..N
  OBVIOUS
<1>1. y = (IF x + 1 < N THEN x + 1 ELSE x + 1 - N) /\ y \in 0..N-1
  BY <1>0, RingPlace
<1>2. k \in 0..N /\ k = i + 1
  OBVIOUS
<1> HIDE DEF y, k
<1>3. (y + i) % N = IF y + i < N THEN y + i ELSE y + i - N
  BY <1>0, <1>1, RingPlace
<1>4. (x + k) % N = IF x + k < N THEN x + k ELSE x + k - N
  BY <1>2, RingPlace
<1>5. (y + i) % N = (x + k) % N
  BY <1>1, <1>2, <1>3, <1>4
<1> QED
  BY <1>1, <1>2, <1>5 DEF y, k

(* ... and one more place from there.                                      *)
LEMMA RingMore ==
  ASSUME NEW N \in Nat \ {0}, NEW x \in 0..N-1, NEW i \in 0..N-1
  PROVE  (((x + i) % N) + 1) % N = (x + (i + 1)) % N
<1> DEFINE y == (x + i) % N
           k == i + 1
<1>0. i \in 0..N /\ 1 \in 0..N
  OBVIOUS
<1>1. y = (IF x + i < N THEN x + i ELSE x + i - N) /\ y \in 0..N-1
  BY <1>0, RingPlace
<1>2. k \in 0..N /\ k = i + 1
  OBVIOUS
<1> HIDE DEF y, k
<1>3. (y + 1) % N = IF y + 1 < N THEN y + 1 ELSE y + 1 - N
  BY <1>0, <1>1, RingPlace
<1>4. (x + k) % N = IF x + k < N THEN x + k ELSE x + k - N
  BY <1>2, RingPlace
<1>5. (y + 1) % N = (x + k) % N
  BY <1>1, <1>2, <1>3, <1>4
<1> QED
  BY <1>2, <1>5 DEF y, k
=============================================================================
